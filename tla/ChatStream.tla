----------------------------- MODULE ChatStream -----------------------------
(***************************************************************************)
(* How the chunks of a Chat Completions stream become an assistant message *)
(* (src/providers/openai-compatible).  A chunk with several deltas is      *)
(* their sequence.  A text and the arguments of a call are numbers of      *)
(* pieces; args is how many of them the parsed arguments were made from.   *)
(***************************************************************************)
EXTENDS Integers, FiniteSets, SequencesExt

CONSTANTS
  ChatCalls,   \* bound: tool calls of a response
  ChatPieces,  \* bound: deltas of one kind
  Interleaves  \* whether a server returns to a call it has left

ASSUME ChatAssumption ==
  ChatCalls \in Nat /\ ChatPieces \in Nat /\ Interleaves \in BOOLEAN

VARIABLES
  content,      \* the blocks of the message
  finishReason, \* state.finishReason, or "none"
  chatOutcome,  \* "streaming", then the done reason or "error"
  sentCalls     \* history: per call, whether it was named and its pieces

chatVars == <<content, finishReason, chatOutcome, sentCalls>>

ChatInit ==
  content = <<>> /\ finishReason = "none" /\ chatOutcome = "streaming" /\ sentCalls = <<>>

Block(type) == [type |-> type, pieces |-> 0, named |-> FALSE, args |-> -1, ends |-> 0]

\* Mutant of EndedCalls: the index is not looked up.
EndedAgain(c, k) == [c EXCEPT ![k].ends = @ + 1]

\* endedContentIndexes keeps a block from ending twice.
EndedCalls(c, k) == IF c[k].ends > 0 THEN c ELSE [c EXCEPT ![k].ends = 1]

FinishOf(c, types) ==
  FoldLeft(LAMBDA d, k : IF d[k].type \in types THEN EndedCalls(d, k) ELSE d,
           c, [k \in 1..Len(c) |-> k])

FinishContent(c) == FinishOf(c, {"thinking", "text"})
FinishThinking(c) == FinishOf(c, {"thinking"})

\* The positions of the calls: the n-th call has index n - 1.
ChatCallIds(c) == SelectSeq([k \in 1..Len(c) |-> k], LAMBDA k : c[k].type = "call")

FinishCall(c, k) ==
  IF c[k].ends > 0 THEN c ELSE [EndedCalls(c, k) EXCEPT ![k].args = c[k].pieces]

\* Mutant of FinishCalls: the last of them is not looked at.
FinishCallsButLast(c, n) ==
  FoldLeft(FinishCall, c, SubSeq(ChatCallIds(c), 1, IF n < Len(ChatCallIds(c)) THEN n ELSE n - 1))

\* The first n calls; Unnamed says whether one of them makes it throw.
FinishCalls(c, n) == FoldLeft(FinishCall, c, SubSeq(ChatCallIds(c), 1, n))
Unnamed(c, n) ==
  \E j \in 1..n : j <= Len(ChatCallIds(c)) /\ c[ChatCallIds(c)[j]].ends = 0 /\ ~c[ChatCallIds(c)[j]].named

ChatThrows ==
  chatOutcome' = "error" /\ UNCHANGED <<content, finishReason, sentCalls>>

\* The open block of a type grows, or a new one.
Grown(c, type) ==
  LET open == {k \in DOMAIN c : c[k].type = type /\ c[k].ends = 0}
      k == IF open = {} THEN Len(c) + 1
           ELSE CHOOSE j \in open : \A i \in open : j <= i
      d == IF open = {} THEN Append(c, Block(type)) ELSE c
  IN  [d EXCEPT ![k].pieces = @ + 1]

Pieces(type) ==
  FoldLeft(LAMBDA n, b : IF b.type = type THEN n + b.pieces ELSE n, 0, content)

ThinkingDelta ==
  /\ chatOutcome = "streaming" /\ Pieces("thinking") < ChatPieces
  /\ content' = Grown(content, "thinking")
  /\ UNCHANGED <<finishReason, chatOutcome, sentCalls>>

\* Visible text ends the reasoning before it.
TextDelta ==
  /\ chatOutcome = "streaming" /\ Pieces("text") < ChatPieces
  /\ content' = Grown(FinishThinking(content), "text")
  /\ UNCHANGED <<finishReason, chatOutcome, sentCalls>>

\* A server numbers its calls from 0 and names each once.
MayCall(index, naming) ==
  /\ index <= Len(sentCalls) /\ index < ChatCalls
  /\ Interleaves \/ index >= Len(sentCalls) - 1
  /\ index < Len(sentCalls) =>
       /\ naming => ~sentCalls[index + 1].named
       /\ sentCalls[index + 1].pieces < ChatPieces

\* A new call ends the calls before it, which must be complete.
CallDelta(index, naming) ==
  LET isNew == index >= Len(ChatCallIds(content))
      before == IF isNew THEN Append(FinishContent(content), Block("call"))
                ELSE FinishContent(content)
      k == ChatCallIds(before)[IF isNew THEN Len(ChatCallIds(before)) ELSE index + 1]
      named == [before EXCEPT ![k].named = @ \/ naming]
      sent == IF index = Len(sentCalls)
              THEN Append(sentCalls, [named |-> naming, pieces |-> 1])
              ELSE [sentCalls EXCEPT ![index + 1].named = @ \/ naming,
                                     ![index + 1].pieces = @ + 1]
  IN  /\ chatOutcome = "streaming" /\ MayCall(index, naming)
      /\ \/ isNew /\ Unnamed(named, index) /\ ChatThrows
         \/ /\ ~(isNew /\ Unnamed(named, index))
            /\ content' = [(IF isNew THEN FinishCalls(named, index) ELSE named)
                             EXCEPT ![k].pieces = @ + 1]
            /\ sentCalls' = sent
            /\ UNCHANGED <<finishReason, chatOutcome>>

FinishReason(reason) ==
  /\ chatOutcome = "streaming"
  /\ finishReason' = reason
  /\ UNCHANGED <<content, chatOutcome, sentCalls>>

\* An error chunk, a usage that is no number, an unsupported finish reason,
\* or the connection fails.
ChunkFails == chatOutcome = "streaming" /\ ChatThrows

DoneReason(reason) ==
  CASE reason = "length" -> "length" [] reason = "tool_calls" -> "toolUse" [] OTHER -> "stop"

\* Mutant of MayEnd: a reason that denies the calls is not questioned.
MayEndAnyway(reason, n) == reason = "tool_calls" => n > 0

\* The reason and the calls agree.
MayEnd(reason, n) == (reason = "tool_calls") = (n > 0)

\* The body ends: what is open is finished, unless it is contradictory.
StreamCloses ==
  LET n == Len(ChatCallIds(content))
      reason == IF finishReason = "none" /\ n > 0 THEN "tool_calls" ELSE finishReason
  IN  /\ chatOutcome = "streaming"
      /\ \/ (~MayEnd(reason, n) \/ Unnamed(content, n)) /\ ChatThrows
         \/ /\ MayEnd(reason, n) /\ ~Unnamed(content, n)
            /\ content' = FinishCalls(FinishContent(content), n)
            /\ chatOutcome' = DoneReason(reason)
            /\ UNCHANGED <<finishReason, sentCalls>>

ChatNext ==
  \/ ThinkingDelta \/ TextDelta \/ ChunkFails \/ StreamCloses
  \/ \E index \in 0..(ChatCalls - 1), naming \in BOOLEAN : CallDelta(index, naming)
  \/ \E reason \in {"stop", "length", "tool_calls"} : FinishReason(reason)

ChatSpec == ChatInit /\ [][ChatNext]_chatVars

ChatDone == chatOutcome \notin {"streaming", "error"}

(* The chunks of a stream that ends well are a message in which every block *)
(* ended once and at most the last call is open meanwhile; its calls are    *)
(* the server's, in order, each named, with arguments parsed from all their *)
(* pieces; and it says toolUse just when it has calls.                      *)
ChatIsSafe ==
  LET calls == ChatCallIds(content) IN
  /\ Len(calls) = Len(sentCalls)
  /\ \A k \in DOMAIN content : content[k].ends \in 0..1
  /\ \A j \in 1..(Len(calls) - 1) : content[calls[j]].ends = 1
  /\ \A j \in DOMAIN calls :
       LET call == content[calls[j]] IN
       /\ call.pieces = sentCalls[j].pieces /\ call.named = sentCalls[j].named
       /\ call.ends = 1 => call.args = call.pieces
  /\ ChatDone =>
       /\ \A k \in DOMAIN content : content[k].ends = 1
       /\ \A j \in DOMAIN calls : content[calls[j]].named
       /\ (chatOutcome = "toolUse") = (calls # <<>>)
=============================================================================
