--------------------------- MODULE SessionJournal ---------------------------
(***************************************************************************)
(* The JSONL file of one session (src/kana/session), which several Kana    *)
(* processes may create, resume or delete: the journal's appends, the      *)
(* repair and recovery an open makes, and the lock directory that names    *)
(* the one process that may append.                                        *)
(*                                                                         *)
(* A record keeps its type, its id and parent and what recovery reads in   *)
(* it; texts are left out, except whether one has characters of more than  *)
(* one byte, on which the repair of a tail depends.  A process runs        *)
(* synchronously from one lock or file operation to the next, may crash    *)
(* at each and in the middle of a write, and processes interleave between  *)
(* them.  The lock library (proper-lockfile) is modelled from its use.     *)
(***************************************************************************)
EXTENDS Naturals, Sequences, FiniteSets, SequencesExt, FiniteSetsExt

CONSTANTS
  Process,    \* Kana processes
  Call,       \* ids of tool calls
  TodoCall,   \* those that call todo_write; the others call run_code
  WideText,   \* whether a text has multi-byte characters: its possible values
  MaySuspend, \* a live process may stop refreshing its lock for 10 seconds
  MaxRecords, \* bound: records of the file
  Free, Dead, NoCall \* no owner, a crashed owner, no tool call

ASSUME SessionJournalAssumption ==
  /\ TodoCall \subseteq Call /\ IsFiniteSet(Call)
  /\ WideText \subseteq BOOLEAN /\ WideText # {} /\ MaySuspend \in BOOLEAN
  /\ MaxRecords \in Nat
  /\ Free \notin Process /\ Dead \notin Process /\ Free # Dead /\ NoCall \notin Call

VARIABLES
  exists,    \* the file is there
  file,      \* its whole records, the header first
  end,       \* what follows the last newline: see Ends
  joined,    \* two records run together in one line of the file
  lock,      \* who holds the lock directory
  stale,     \* its mtime is older than 10 seconds
  proc,      \* each process: its step, its journal's cached records and flags
  confirmed, \* history: records an append reported as written
  executed   \* history: tool calls that ran

vars == <<exists, file, end, joined, lock, stale, proc, confirmed, executed>>

\* The file ends with a newline, its last record lacks one, or a piece of a
\* record follows the last one.
Ends == {"clean", "unterminated", "cut"}

Types == {"session", "turn_start", "message", "assistant", "result", "recovery",
          "context_compaction", "todo_state", "turn_end"}

Record ==
  [type : Types, id : Nat, parent : Nat, turn : Nat, calls : SUBSET Call,
   call : Call \cup {NoCall}, status : {"", "ok", "error", "unknown"},
   covers : Nat, wide : BOOLEAN]

Blank == [type |-> "session", id |-> 0, parent |-> 0, turn |-> 0, calls |-> {},
          call |-> NoCall, status |-> "", covers |-> 0, wide |-> FALSE]
Entry(type) == [Blank EXCEPT !.type = type]

Off == [at |-> "off", seen |-> <<>>, created |-> FALSE, failed |-> FALSE,
        lost |-> FALSE, fork |-> FALSE]

JournalTypeOK ==
  /\ exists \in BOOLEAN /\ end \in Ends /\ joined \in BOOLEAN /\ stale \in BOOLEAN
  /\ file \in Seq(Record)
  /\ \A r \in ToSet(file) : r.type = "result" => r.call # NoCall /\ r.status # ""
  /\ lock \in Process \cup {Free, Dead}
  /\ proc \in [Process ->
       [at : {"off", "found", "locked", "repaired", "ready"}, seen : Seq(Record),
        created : BOOLEAN, failed : BOOLEAN, lost : BOOLEAN, fork : BOOLEAN]]
  /\ confirmed \subseteq Record /\ executed \subseteq Call

-----------------------------------------------------------------------------
(* What a sequence of records says: JournalState. *)

MessageTypes == {"message", "assistant", "result", "recovery"}
MessageIds(s) == {r.id : r \in {x \in ToSet(s) : x.type \in MessageTypes}}
TailId(s) == IF s = <<>> THEN 0 ELSE Last(s).id

\* The i-th record starts a turn that is still open.
Opens(s, i) ==
  /\ s[i].type = "turn_start"
  /\ \A j \in (i + 1)..Len(s) : s[j].type \notin {"turn_start", "turn_end"}
TurnOpen(s) == \E i \in 1..Len(s) : Opens(s, i)
Opened(s) == CHOOSE i \in 1..Len(s) : Opens(s, i)
\* The records of the open turn: activeTurnMessages, activeTurnTodoStates.
OpenTurn(s) == IF TurnOpen(s) THEN ToSet(SubSeq(s, Opened(s), Len(s))) ELSE {}

CallsIn(rs) == UNION {r.calls : r \in rs}
AnsweredIn(rs) == {r.call : r \in {x \in rs : x.type = "result"}}
AcceptedIn(rs) == {r.call : r \in {x \in rs : x.type = "todo_state"}}

\* findUnresolvedToolCalls()
Unresolved(s) == CallsIn(OpenTurn(s)) \ AnsweredIn(OpenTurn(s))

\* What applyEntry() accepts as the next record after s.
Follows(s, r) ==
  /\ r.parent = TailId(s)
  /\ \A x \in ToSet(s) : x.id # r.id
  /\ CASE r.type = "turn_start" -> ~TurnOpen(s)
       [] r.type \in MessageTypes -> TurnOpen(s)
       [] r.type = "context_compaction" -> r.covers \in MessageIds(s)
       [] r.type = "todo_state" ->
            /\ TurnOpen(s)
            /\ r.call # NoCall => /\ r.call \in CallsIn(OpenTurn(s))
                                  /\ r.call \notin AcceptedIn(ToSet(s))
       [] r.type = "turn_end" -> TurnOpen(s) /\ r.turn = s[Opened(s)].turn
       [] OTHER -> FALSE

\* The records parse and pass the journal's validation.
Readable(s) ==
  /\ s # <<>> /\ s[1].type = "session"
  /\ \A i \in 2..Len(s) : Follows(SubSeq(s, 1, i - 1), s[i])

\* Ids for a batch that follows s: each record names the one before it.
Fresh == 1 + Max({0} \cup {r.id : r \in ToSet(file) \cup confirmed
                                        \cup UNION {ToSet(proc[p].seen) : p \in Process}})
Chained(s, batch) ==
  [i \in 1..Len(batch) |->
     [batch[i] EXCEPT !.id = Fresh + i - 1,
                      !.parent = IF i = 1 THEN TailId(s) ELSE Fresh + i - 2]]

-----------------------------------------------------------------------------
(* appendEntries() *)

\* The header precedes the first records of a file.
Content(p, batch) ==
  IF proc[p].created THEN batch ELSE <<Entry("session")>> \o batch

\* What reaches the file of a write: the first n records, and perhaps a piece
\* of the next, or all of it but its newline.
Written(content, n, rest) ==
  SubSeq(content, 1, IF rest = "unterminated" THEN n + 1 ELSE n)

WriteFile(content, n, rest) ==
  LET some == n > 0 \/ rest # "clean"
  IN  /\ n \in 0..Len(content) /\ rest \in Ends
      /\ n = Len(content) => rest = "clean"
      /\ Len(file) + Len(content) <= MaxRecords
      /\ exists' = TRUE
      /\ joined' = (joined \/ (some /\ end # "clean"))
      /\ file' = file \o Written(content, n, rest)
      /\ end' = IF some THEN rest ELSE end

\* The checks before a write: the journal is not poisoned, the file is there
\* exactly if this journal believes so.
MayWrite(p) == ~proc[p].failed /\ proc[p].created = exists

\* A write that succeeds; the first one of a fork is its snapshot.
AppendAll(p, batch) ==
  /\ MayWrite(p)
  /\ WriteFile(Content(p, batch), Len(Content(p, batch)), "clean")
  /\ confirmed' = confirmed \cup ToSet(batch)
  /\ proc' = [proc EXCEPT ![p].seen = @ \o Content(p, batch),
                          ![p].created = TRUE, ![p].fork = FALSE]
  /\ UNCHANGED <<lock, stale, executed>>

\* A write that fails after any part of it, the disk being full: the journal is
\* poisoned until it is loaded again.
FailAppend(p, batch) ==
  /\ MayWrite(p)
  /\ \E n \in 0..Len(Content(p, batch)) - 1, rest \in Ends :
       WriteFile(Content(p, batch), n, rest)
  /\ proc' = [proc EXCEPT ![p].failed = TRUE]
  /\ UNCHANGED <<confirmed, lock, stale, executed>>

\* The process crashes in the middle of a write.
CrashAppend(p, batch) ==
  /\ MayWrite(p)
  /\ \E n \in 0..Len(Content(p, batch)), rest \in Ends :
       WriteFile(Content(p, batch), n, rest)
  /\ proc' = [proc EXCEPT ![p] = Off]
  /\ lock' = IF lock = p THEN Dead ELSE lock
  /\ UNCHANGED <<confirmed, stale, executed>>

Write(p, batch) == AppendAll(p, batch) \/ FailAppend(p, batch) \/ CrashAppend(p, batch)

-----------------------------------------------------------------------------
(* The running session: HostedSessionRegistry and the Agent write through   *)
(* writeJournal(), which asks the lock library whether the lock was lost.   *)

AssertOwned(p) == proc[p].at = "ready" /\ ~proc[p].lost
Seen(p) == proc[p].seen
InTurn(p) == AssertOwned(p) /\ TurnOpen(Seen(p))
BetweenTurns(p) == AssertOwned(p) /\ ~TurnOpen(Seen(p))
TurnId(s) == s[Opened(s)].turn

WriteEntries(p, entries) == Write(p, Chained(Seen(p), entries))
WriteEntry(p, entry) == WriteEntries(p, <<entry>>)

\* startTurn(): the turn and its user message, one write.
StartTurn(p) ==
  /\ BetweenTurns(p) /\ ~proc[p].fork
  /\ \E w \in WideText :
       WriteEntries(p, <<[Entry("turn_start") EXCEPT !.turn = Fresh],
                         [Entry("message") EXCEPT !.wide = w]>>)

\* appendMessage() of an assistant message with tool calls nobody used before.
AppendAssistant(p) ==
  /\ InTurn(p) /\ Unresolved(Seen(p)) = {}
  /\ \E cs \in SUBSET (Call \ CallsIn(ToSet(file) \cup ToSet(Seen(p)))) :
       WriteEntry(p, [Entry("assistant") EXCEPT !.calls = cs])

\* The Agent runs a call of the message it has just recorded; a failed append
\* ends the run.
ExecuteTool(p) ==
  /\ InTurn(p) /\ ~proc[p].failed
  /\ \E c \in Unresolved(Seen(p)) \ executed : executed' = executed \cup {c}
  /\ UNCHANGED <<exists, file, end, joined, lock, stale, proc, confirmed>>

\* appendTodoState(): an executing todo_write, or run_code that calls it,
\* stores the list.
AppendTodoState(p) ==
  /\ InTurn(p)
  /\ \E c \in (Unresolved(Seen(p)) \cap executed) \ AcceptedIn(ToSet(Seen(p))) :
       WriteEntry(p, [Entry("todo_state") EXCEPT !.call = c])

\* appendMessage() of a tool result: a call that never ran, and a todo_write
\* that was not accepted, are errors.
AppendResult(p) ==
  /\ InTurn(p)
  /\ \E c \in Unresolved(Seen(p)) :
       WriteEntry(p, [Entry("result") EXCEPT !.call = c,
         !.status = IF c \in executed
                       /\ (c \in TodoCall => c \in AcceptedIn(OpenTurn(Seen(p))))
                    THEN "ok" ELSE "error"])

\* appendCompaction(), in a turn or for /compact between two.
AppendCompaction(p) ==
  /\ AssertOwned(p)
  /\ \E id \in MessageIds(Seen(p)) :
       WriteEntry(p, [Entry("context_compaction") EXCEPT !.covers = id])

\* endTurn(): no tool call is executing.
EndTurn(p) ==
  /\ InTurn(p) /\ Unresolved(Seen(p)) \cap executed = {}
  /\ WriteEntry(p, [Entry("turn_end") EXCEPT !.turn = TurnId(Seen(p))])

\* appendSnapshot(): what a fork inherited, as one closed turn, before its
\* first own turn starts.
Snapshot(w) ==
  LET entries == Chained(<<>>, <<Entry("turn_start"), Entry("message"),
                     Entry("context_compaction"), Entry("todo_state"), Entry("turn_end")>>)
  IN  [i \in 1..Len(entries) |->
        CASE entries[i].type \in {"turn_start", "turn_end"} ->
               [entries[i] EXCEPT !.turn = Fresh]
          [] entries[i].type = "message" -> [entries[i] EXCEPT !.wide = w]
          [] entries[i].type = "context_compaction" ->
               [entries[i] EXCEPT !.covers = entries[2].id]
          [] OTHER -> entries[i]]
AppendSnapshot(p) ==
  /\ BetweenTurns(p) /\ proc[p].fork
  /\ \E w \in WideText : Write(p, Snapshot(w))

-----------------------------------------------------------------------------
(* The lock and the life of a process. *)

\* Mutant of Acquirable: a resume takes the lock over from a live owner.
AcquirableAlways == TRUE

\* lockSync(): no lock directory, or one whose owner stopped refreshing it.
Acquirable == lock = Free \/ stale

\* A process creates the session, new or forked, and locks it before the file
\* is there; its id is random, so no other process creates it too.
CreateSession(p) ==
  /\ proc[p].at = "off" /\ ~exists /\ confirmed = {} /\ lock = Free
  /\ \A q \in Process : proc[q].at = "off"
  /\ \E fork \in BOOLEAN :
       proc' = [proc EXCEPT ![p] = [Off EXCEPT !.at = "ready", !.fork = fork]]
  /\ lock' = p /\ stale' = FALSE
  /\ UNCHANGED <<exists, file, end, joined, confirmed, executed>>

\* findKanaSession(): the listing reads without the lock.
FindSession(p) ==
  /\ proc[p].at = "off" /\ exists /\ file # <<>>
  /\ proc' = [proc EXCEPT ![p].at = "found"]
  /\ UNCHANGED <<exists, file, end, joined, lock, stale, confirmed, executed>>

\* acquireKanaSessionOwnership(), for openKanaSession(); a session in use is
\* refused.
AcquireOwnership(p) ==
  /\ proc[p].at = "found"
  /\ IF Acquirable
     THEN /\ lock' = p /\ stale' = FALSE
          /\ proc' = [proc EXCEPT ![p].at = "locked"]
     ELSE proc' = [proc EXCEPT ![p] = Off] /\ UNCHANGED <<lock, stale>>
  /\ UNCHANGED <<exists, file, end, joined, confirmed, executed>>

\* unlock(): the library removes the lock directory unless it knows the lock to
\* be lost.
Released(p) == IF proc[p].lost THEN lock ELSE Free

\* Ownership is given up: an open that failed, or the end of the session's life.
Release(p) ==
  /\ proc' = [proc EXCEPT ![p] = Off] /\ lock' = Released(p)
  /\ UNCHANGED <<exists, file, end, joined, stale, confirmed, executed>>

\* Characters and bytes up to and with the newline of the i-th record: two
\* characters a record, of which one takes three bytes if the text is wide.
CharsOf(i) == 2 * i
BytesOf(i) == CharsOf(i) + 2 * Cardinality({j \in 1..i : file[j].wide})

\* truncateSync() to a length in bytes: the records that are left, and how the
\* file ends.
TruncatedTo(bytes) ==
  LET n == Max({i \in 0..Len(file) : BytesOf(i) <= bytes})
      rest == bytes - BytesOf(n)
      next == IF n < Len(file) THEN BytesOf(n + 1) - BytesOf(n) - 1 ELSE 0
  IN  IF rest = 0 THEN [file |-> SubSeq(file, 1, n), end |-> "clean"]
      ELSE IF rest = next
      THEN [file |-> SubSeq(file, 1, n + 1), end |-> "unterminated"]
      ELSE [file |-> SubSeq(file, 1, n), end |-> "cut"]

\* Mutant of Repaired: the record before the piece goes too.
RepairedTooMuch ==
  IF end = "cut" THEN [file |-> SubSeq(file, 1, Len(file) - 1), end |-> "clean"]
  ELSE [file |-> file, end |-> "clean"]

\* readSessionLines(): a whole last record gets its newline; a piece of one is
\* truncated, at a length counted in characters.
Repaired ==
  CASE end = "clean" -> [file |-> file, end |-> "clean"]
    [] end = "unterminated" -> [file |-> file, end |-> "clean"]
    [] end = "cut" -> TruncatedTo(CharsOf(Len(file)))

\* The first read of loadKanaSessionFile(): the journal is built from what was
\* read before the truncation.
RepairTail(p) ==
  /\ proc[p].at = "locked"
  /\ IF exists
     THEN /\ file' = Repaired.file /\ end' = Repaired.end
          /\ IF ~joined /\ Readable(file)
             THEN /\ proc' = [proc EXCEPT ![p].at = "repaired", ![p].seen = file,
                                          ![p].created = TRUE]
                  /\ UNCHANGED lock
             ELSE proc' = [proc EXCEPT ![p] = Off] /\ lock' = Released(p)
          /\ UNCHANGED <<exists, joined, stale, confirmed, executed>>
     ELSE Release(p)

\* Mutant of RecoveryOf: an accepted todo_write is unknown like other calls.
RecoverAllUnknown(s) ==
  LET Result(c) == [Entry("result") EXCEPT !.call = c, !.status = "unknown"]
      results == SetToSeq(Unresolved(s))
  IN  [i \in 1..Len(results) |-> Result(results[i])]
      \o <<Entry("recovery"), [Entry("turn_end") EXCEPT !.turn = TurnId(s)]>>

\* Mutant of RecoveryOf: the results carry no status.
RecoverWithoutStatus(s) ==
  LET results == SetToSeq(Unresolved(s))
  IN  [i \in 1..Len(results) |-> [Entry("result") EXCEPT !.call = results[i]]]
      \o <<Entry("recovery"), [Entry("turn_end") EXCEPT !.turn = TurnId(s)]>>

\* recoverInterruptedTurn(): a result for every call without one, never a
\* retry; the recovery message; the end of the turn.
RecoveryOf(s) ==
  LET Result(c) ==
        [Entry("result") EXCEPT !.call = c,
           !.status = IF c \in TodoCall \cap AcceptedIn(OpenTurn(s))
                      THEN "ok" ELSE "unknown"]
      results == SetToSeq(Unresolved(s))
  IN  [i \in 1..Len(results) |-> Result(results[i])]
      \o <<Entry("recovery"), [Entry("turn_end") EXCEPT !.turn = TurnId(s)]>>

\* The rest of loadKanaSessionFile(): an interrupted turn is closed in one
\* write and the file read and validated again.
FinishOpen(p) ==
  /\ proc[p].at = "repaired"
  /\ IF ~TurnOpen(Seen(p))
     THEN /\ proc' = [proc EXCEPT ![p].at = "ready"]
          /\ confirmed' = confirmed \cup (ToSet(Seen(p)) \ {Entry("session")})
          /\ UNCHANGED <<exists, file, end, joined, lock, stale, executed>>
     ELSE LET batch == Chained(Seen(p), RecoveryOf(Seen(p)))
          IN  \/ /\ WriteFile(batch, Len(batch), "clean")
                 /\ IF joined' \/ ~Readable(file')
                    THEN /\ proc' = [proc EXCEPT ![p] = Off]
                         /\ lock' = Released(p)
                         /\ UNCHANGED confirmed
                    ELSE /\ proc' = [proc EXCEPT ![p].at = "ready", ![p].seen = file']
                         /\ confirmed' = confirmed \cup (ToSet(file') \ {Entry("session")})
                         /\ UNCHANGED lock
                 /\ UNCHANGED <<stale, executed>>
              \/ /\ \E n \in 0..Len(batch) - 1, rest \in Ends : WriteFile(batch, n, rest)
                 /\ proc' = [proc EXCEPT ![p] = Off] /\ lock' = Released(p)
                 /\ UNCHANGED <<stale, confirmed, executed>>
              \/ CrashAppend(p, batch)

\* The session is disposed of once its run settled; a run whose appends fail
\* leaves its turn open.
Dispose(p) ==
  /\ proc[p].at = "ready"
  /\ TurnOpen(Seen(p)) => proc[p].failed \/ proc[p].lost
  /\ Release(p)

\* deleteKanaSession(), under the lock.
DeleteSession(p) ==
  /\ proc[p].at = "found" /\ Acquirable
  /\ exists' = FALSE /\ file' = <<>> /\ end' = "clean" /\ joined' = FALSE
  /\ lock' = Free /\ stale' = FALSE
  /\ proc' = [proc EXCEPT ![p] = Off]
  /\ UNCHANGED <<confirmed, executed>>

Crash(p) ==
  /\ proc[p].at # "off"
  /\ proc' = [proc EXCEPT ![p] = Off]
  /\ lock' = IF lock = p THEN Dead ELSE lock
  /\ UNCHANGED <<exists, file, end, joined, stale, confirmed, executed>>

\* Nobody refreshed the lock for 10 seconds: its owner crashed or, if that may
\* happen, was suspended.
Expire ==
  /\ lock = Dead \/ (lock \in Process /\ MaySuspend)
  /\ ~stale /\ stale' = TRUE
  /\ UNCHANGED <<exists, file, end, joined, lock, proc, confirmed, executed>>

\* A process that is suspended wakes up and its timer refreshes the lock or
\* finds another's: onCompromised.
Refresh(p) ==
  /\ proc[p].at = "ready" /\ ~proc[p].lost
  /\ IF lock = p THEN stale' = FALSE /\ UNCHANGED proc
     ELSE proc' = [proc EXCEPT ![p].lost = TRUE] /\ UNCHANGED stale
  /\ UNCHANGED <<exists, file, end, joined, lock, confirmed, executed>>

-----------------------------------------------------------------------------
Init ==
  /\ exists = FALSE /\ file = <<>> /\ end = "clean" /\ joined = FALSE
  /\ lock = Free /\ stale = FALSE
  /\ proc = [p \in Process |-> Off]
  /\ confirmed = {} /\ executed = {}

Next ==
  \/ Expire
  \/ \E p \in Process :
       \/ CreateSession(p) \/ FindSession(p) \/ AcquireOwnership(p)
       \/ RepairTail(p) \/ FinishOpen(p) \/ AppendSnapshot(p) \/ StartTurn(p)
       \/ AppendAssistant(p) \/ ExecuteTool(p) \/ AppendTodoState(p)
       \/ AppendResult(p) \/ AppendCompaction(p) \/ EndTurn(p)
       \/ Dispose(p) \/ DeleteSession(p) \/ Crash(p) \/ Refresh(p)

Spec == Init /\ [][Next]_vars

-----------------------------------------------------------------------------
(* Properties. *)

\* A session with a header can always be opened again, whatever crashed or
\* failed in the middle of a write: its records parse, each names the one
\* before it, and turns, todo states and compactions refer to what precedes
\* them (applyEntry, readSessionLines).
SessionStaysReadable == exists /\ file # <<>> => ~joined /\ Readable(file)

\* A record whose append returned is in the file as long as the session is not
\* deleted: no crash, repair or recovery removes it.
NothingConfirmedIsLost == exists => confirmed \subseteq ToSet(file)

\* A process that may append has cached exactly what is in the file, which ends
\* with a newline: its next record continues the chain on a line of its own.
WriterKnowsTheFile ==
  \A p \in Process :
    AssertOwned(p) /\ MayWrite(p) /\ exists => Seen(p) = file /\ end = "clean"

\* No call has two results, and once its turn is closed a call that ran has
\* one; in a turn that recovery closed every call has one.
CallsAreAnsweredOnce ==
  LET At(type) == {i \in 1..Len(file) : file[i].type = type}
      Results(c) == {i \in At("result") : file[i].call = c}
      Closed(i) == \E e \in At("turn_end") : e > i
      Recovered(i) == \E r \in At("recovery") :
                        r > i /\ \A e \in At("turn_end") : e > i => e > r
  IN  \A i \in At("assistant") : \A c \in file[i].calls :
        /\ Cardinality(Results(c)) <= 1
        /\ Closed(i) /\ (c \in executed \/ Recovered(i)) => Results(c) # {}

\* The todo list a todo_write stored is never followed by a result that calls
\* the update failed or unknown, and run_code calls that were interrupted are
\* never reported as successful because they stored one.
AcceptedTodosStand ==
  \A r \in {x \in ToSet(file) : x.type = "result"} :
    /\ r.call \in TodoCall \cap AcceptedIn(ToSet(file)) => r.status = "ok"
    /\ r.status = "ok" => r.call \in executed

\* Whoever adds records to the session holds its lock when it does.
AppendsHoldTheLock ==
  [][\A p \in Process :
       AssertOwned(p) /\ proc'[p].seen # proc[p].seen /\ proc'[p].at = "ready"
         => lock = p]_vars

\* Repairing the tail removes no complete record of the file.
OnlyTheTailIsTruncated ==
  [][\A p \in Process :
       proc[p].at = "locked" /\ proc'[p].at = "repaired" => file' = file]_vars

\* The journal survives crashes, failed writes and other processes: it can be
\* opened again, has what was confirmed, and its writer knows its content.
JournalSurvives == SessionStaysReadable /\ NothingConfirmedIsLost /\ WriterKnowsTheFile

\* Recovery tells the truth about interrupted calls: each gets one result, and
\* stored todo lists are neither disowned nor taken for more than they are.
RecoveryIsTruthful == CallsAreAnsweredOnce /\ AcceptedTodosStand

\* The invariant of the journal.
JournalIsSafe == JournalTypeOK /\ JournalSurvives /\ RecoveryIsTruthful
=============================================================================
