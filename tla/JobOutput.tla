------------------------------ MODULE JobOutput ------------------------------
(***************************************************************************)
(* The output of one background job (src/jobs/manager.ts): chunks of what  *)
(* its producer wrote, retained up to a limit and evicted oldest first,    *)
(* read through one consuming cursor by the job_output tool, which may     *)
(* wait, and shown to the terminal UI without consuming.                   *)
(*                                                                         *)
(* A text is the sequence of the byte widths of its characters and a chunk *)
(* keeps its sequence number and size; stream names and the text itself    *)
(* are left out.  An event-loop turn is one step; a reader that waited     *)
(* consumes in a later turn than the one that woke it.                     *)
(***************************************************************************)
EXTENDS Naturals, Sequences, FiniteSets, SequencesExt

CONSTANTS
  Texts,       \* what a producer may write at once
  ChunkBytes,  \* MAX_OUTPUT_CHUNK_BYTES
  MaxRetained, \* maxRetainedOutputBytes
  PeekBytes,   \* MAX_OUTPUT_PEEK_BYTES
  Readers,     \* concurrent job_output calls
  MaxWritten   \* bound: bytes written in a behaviour

ASSUME JobOutputAssumption ==
  /\ Texts \subseteq Seq(Nat \ {0})
  /\ {ChunkBytes, MaxRetained, PeekBytes} \subseteq Nat \ {0}
  /\ MaxWritten \in Nat

VARIABLES
  active,        \* the job is running or stopping
  chunks,        \* the retained chunks
  retained,      \* retainedBytes
  next,          \* nextSequence
  read,          \* readSequence
  totalDropped,  \* totalDroppedBytes
  unreadDropped, \* unreadDroppedBytes
  outputReader,        \* each job_output call
  outputWritten,       \* history: bytes written
  delivered,     \* history: sequence numbers of the chunks that were read
  bytesRead,     \* history: bytes of the chunks that were read
  reported,      \* history: bytes the reads reported as dropped
  ended          \* history: a read returned a terminal status

outputVars == <<active, chunks, retained, next, read, totalDropped, unreadDropped,
          outputReader, outputWritten, delivered, bytesRead, reported, ended>>

Bytes(cs) == FoldLeft(LAMBDA total, c : total + c.size, 0, cs)
Width(text) == FoldLeft(LAMBDA total, w : total + w, 0, text)

JobOutputTypeOK ==
  /\ active \in BOOLEAN /\ ended \in BOOLEAN
  /\ chunks \in Seq([seq : Nat, size : Nat \ {0}])
  /\ {retained, next, read, totalDropped, unreadDropped, outputWritten, bytesRead,
      reported} \subseteq Nat
  /\ outputReader \in [Readers -> {"idle", "waiting", "woken"}]
  /\ delivered \in Seq(Nat)

-----------------------------------------------------------------------------
\* Mutant of Split: a full piece is flushed and an empty one follows it.
SplitWithEmpty(text) ==
  LET Add(pieces, w) ==
        IF pieces # <<>> /\ Last(pieces) + w <= ChunkBytes
        THEN [pieces EXCEPT ![Len(pieces)] = @ + w]
        ELSE Append(pieces, w)
      pieces == FoldLeft(Add, <<>>, text)
  IN  IF Last(pieces) = ChunkBytes THEN Append(pieces, 0) ELSE pieces

\* splitByUtf8Bytes(): the sizes of the pieces, whole characters only.
Split(text) ==
  LET Add(pieces, w) ==
        IF pieces # <<>> /\ Last(pieces) + w <= ChunkBytes
        THEN [pieces EXCEPT ![Len(pieces)] = @ + w]
        ELSE Append(pieces, w)
  IN  FoldLeft(Add, <<>>, text)

Unread == SelectSeq(chunks, LAMBDA c : c.seq >= read)
HasUnread == unreadDropped > 0 \/ Unread # <<>>
\* ready() of a waiting read.
OutputReady == HasUnread \/ ~active

\* notify(): every waiting read whose condition holds now is woken.
OutputWoken == [r \in Readers |-> IF outputReader[r] = "waiting" THEN "woken" ELSE outputReader[r]]

\* Where a tail may start that peek() shows: it has one chunk, or no more than
\* PeekBytes.
ShownFrom == {k \in 1..Len(chunks) :
                k = Len(chunks) \/ Bytes(SubSeq(chunks, k, Len(chunks))) <= PeekBytes}

\* peek()
Peek ==
  LET from == CHOOSE k \in ShownFrom \cup {Len(chunks) + 1} :
                \A j \in ShownFrom : k <= j
  IN  [chunks |-> SubSeq(chunks, from, Len(chunks)),
       truncated |-> totalDropped > 0 \/ from > 1]

-----------------------------------------------------------------------------
OutputInit ==
  /\ active = TRUE /\ ended = FALSE
  /\ chunks = <<>> /\ delivered = <<>>
  /\ retained = 0 /\ next = 0 /\ read = 0
  /\ totalDropped = 0 /\ unreadDropped = 0
  /\ outputReader = [r \in Readers |-> "idle"]
  /\ outputWritten = 0 /\ bytesRead = 0 /\ reported = 0

\* The chunks of `text` are appended to the buffer.
Extended(text) ==
  LET pieces == Split(text)
  IN  chunks \o [i \in DOMAIN pieces |-> [seq |-> next + i - 1, size |-> pieces[i]]]

\* How many chunks of `all` are shifted out until the rest fits.
Evictions(all) ==
  CHOOSE k \in 0..Len(all) :
    /\ Bytes(SubSeq(all, k + 1, Len(all))) <= MaxRetained
    /\ \A j \in 0..(k - 1) : Bytes(SubSeq(all, j + 1, Len(all))) > MaxRetained

\* Mutant of Evict: the cursor stays on the chunks that are gone.
EvictOnly(all) ==
  LET gone == SubSeq(all, 1, Evictions(all))
  IN  /\ chunks' = SubSeq(all, Len(gone) + 1, Len(all))
      /\ retained' = Bytes(chunks')
      /\ totalDropped' = totalDropped + Bytes(gone)
      /\ UNCHANGED <<unreadDropped, read>>

\* The oldest chunks of `all` go; those the cursor had not reached count as
\* dropped unread and the cursor moves past them.
Evict(all) ==
  LET gone   == SubSeq(all, 1, Evictions(all))
      unseen == SelectSeq(gone, LAMBDA c : c.seq >= read)
  IN  /\ chunks' = SubSeq(all, Len(gone) + 1, Len(all))
      /\ retained' = Bytes(all) - Bytes(gone)
      /\ totalDropped' = totalDropped + Bytes(gone)
      /\ unreadDropped' = unreadDropped + Bytes(unseen)
      /\ read' = IF unseen = <<>> THEN read ELSE Last(unseen).seq + 1

\* The producer writes (appendOutput); what it writes once the job has ended
\* is ignored.
WriteOutput(text) ==
  /\ active
  /\ outputWritten + Width(text) <= MaxWritten
  /\ Evict(Extended(text))
  /\ next' = next + Len(Split(text))
  /\ outputWritten' = outputWritten + Width(text)
  /\ outputReader' = OutputWoken
  /\ UNCHANGED <<active, delivered, bytesRead, reported, ended>>

\* The job settles; its waiting reads are notified.
FinishOutput ==
  /\ active
  /\ active' = FALSE
  /\ outputReader' = OutputWoken
  /\ UNCHANGED <<chunks, retained, next, read, totalDropped, unreadDropped,
                 outputWritten, delivered, bytesRead, reported, ended>>

\* consumeOutput(): a read takes everything from the cursor on, with the
\* status of this moment.
ConsumeOutput ==
  /\ delivered' = delivered \o [i \in DOMAIN Unread |-> Unread[i].seq]
  /\ bytesRead' = bytesRead + Bytes(Unread)
  /\ reported' = reported + unreadDropped
  /\ read' = next
  /\ unreadDropped' = 0
  /\ ended' = (ended \/ ~active)
  /\ UNCHANGED <<active, chunks, retained, next, totalDropped, outputWritten>>

\* read() without waitMs.
ReadNow(r) ==
  /\ outputReader[r] = "idle"
  /\ ConsumeOutput
  /\ UNCHANGED outputReader

\* Mutant of OutputReadWait: the read always waits for the next change.
ReadWaitAlways(r) ==
  /\ outputReader[r] = "idle"
  /\ outputReader' = [outputReader EXCEPT ![r] = "waiting"]
  /\ UNCHANGED <<active, chunks, retained, next, read, totalDropped,
                 unreadDropped, outputWritten, delivered, bytesRead, reported, ended>>

\* read() with waitMs: it goes on in a later turn, at once when it is ready.
OutputReadWait(r) ==
  /\ outputReader[r] = "idle"
  /\ outputReader' = [outputReader EXCEPT ![r] = IF OutputReady THEN "woken" ELSE "waiting"]
  /\ UNCHANGED <<active, chunks, retained, next, read, totalDropped,
                 unreadDropped, outputWritten, delivered, bytesRead, reported, ended>>

\* The timer of a waiting read fires.
WaitTimesOut(r) ==
  /\ outputReader[r] = "waiting"
  /\ outputReader' = [outputReader EXCEPT ![r] = "woken"]
  /\ UNCHANGED <<active, chunks, retained, next, read, totalDropped,
                 unreadDropped, outputWritten, delivered, bytesRead, reported, ended>>

\* The caller's signal aborts a waiting read: it consumes nothing.
WaitAborted(r) ==
  /\ outputReader[r] = "waiting"
  /\ outputReader' = [outputReader EXCEPT ![r] = "idle"]
  /\ UNCHANGED <<active, chunks, retained, next, read, totalDropped,
                 unreadDropped, outputWritten, delivered, bytesRead, reported, ended>>

\* A read that was woken, or whose time is over, returns.
OutputReadReturns(r) ==
  /\ outputReader[r] = "woken"
  /\ ConsumeOutput
  /\ outputReader' = [outputReader EXCEPT ![r] = "idle"]

OutputNext ==
  \/ \E text \in Texts : WriteOutput(text)
  \/ FinishOutput
  \/ \E r \in Readers : \/ ReadNow(r) \/ OutputReadWait(r) \/ WaitTimesOut(r)
                        \/ WaitAborted(r) \/ OutputReadReturns(r)

OutputSpec == OutputInit /\ [][OutputNext]_outputVars

-----------------------------------------------------------------------------
(* Every byte the producer wrote was delivered by one read, reported as    *)
(* dropped by one read, is counted to be reported, or is retained and      *)
(* unread: reads that wait, evictions and the end of the job lose no byte  *)
(* and deliver none twice (appendOutput and consumeOutput).                *)
EveryByteIsAccountedFor ==
  outputWritten = bytesRead + reported + unreadDropped + Bytes(Unread)

(* No chunk is delivered twice or after a later one, whichever reads are   *)
(* concurrent.                                                             *)
DeliveredInOrder ==
  \A i, j \in DOMAIN delivered : i < j => delivered[i] < delivered[j]

(* The buffer stays within its limit after every write, and its counters   *)
(* agree with its content: retainedBytes with the chunks, totalDropped     *)
(* with what is missing, the sequence numbers without a gap up to `next`.  *)
BufferIsConsistent ==
  /\ retained = Bytes(chunks) /\ retained <= MaxRetained
  /\ totalDropped = outputWritten - retained
  /\ \A i \in DOMAIN chunks : /\ chunks[i].seq = next - Len(chunks) + i - 1
                              /\ chunks[i].size <= ChunkBytes

(* A read that returned a terminal status, which retires the job from the  *)
(* model's context, left nothing behind to read.                           *)
TerminalReadIsComplete == ended => ~HasUnread

(* No read waits while there is something to return: a write or the end of *)
(* the job between the check of ready() and the wait is never missed.      *)
NoWakeupIsLost == \A r \in Readers : outputReader[r] = "waiting" => ~OutputReady

(* What the terminal UI shows is marked as truncated exactly when the job  *)
(* has written more than is shown.                                         *)
PeekIsHonest == Peek.truncated <=> Bytes(Peek.chunks) < outputWritten

(* The output is exact: no byte is lost unreported, none delivered twice   *)
(* or out of order, and the buffer's counters agree with its content.      *)
OutputIsExact == EveryByteIsAccountedFor /\ DeliveredInOrder /\ BufferIsConsistent

(* Readers are told in time and truthfully: the last read leaves nothing,  *)
(* no reader sleeps over output, and what is cut off is said to be.        *)
ReadersAreTold == TerminalReadIsComplete /\ NoWakeupIsLost /\ PeekIsHonest

(* The invariant of the buffer.                                            *)
OutputIsSafe == JobOutputTypeOK /\ OutputIsExact /\ ReadersAreTold
=============================================================================
