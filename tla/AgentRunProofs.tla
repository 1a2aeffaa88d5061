--------------------------- MODULE AgentRunProofs ---------------------------
(***************************************************************************)
(* Proofs about AgentRun for any inputs, turn limit and bounds: the runs   *)
(* of an Agent use its steering queue as specified, so all that is proved  *)
(* of the queue holds of the Agent; the history is the durable one; a      *)
(* checkpoint takes effect only when the session can recover it; and what  *)
(* a run leaves behind is settled, answered and announced.                 *)
(***************************************************************************)
EXTENDS AgentRun, SteeringQueueProofs

-----------------------------------------------------------------------------
(* The Agent as a user of its queue. *)

\* A step of the Agent is a step of the queue, or leaves the queue alone.
LEMMA AgentStepOfQueue ==
  ASSUME [AgentNext]_vars
  PROVE  [QueueNext]_queueVars
<1>1. CASE UNCHANGED vars
  BY <1>1 DEF vars
<1>2. ASSUME NEW i \in Inputs,
             \/ Steer(i) \/ Enqueue(i) \/ EnqueueBehind(i)
             \/ CancelInput(i) \/ Stream(i)
      PROVE  QueueNext
  BY <1>2 DEF Steer, Enqueue, EnqueueBehind, CancelInput, Stream, QueueNext
<1>3. CASE StreamQueued \/ ClearInbox
  BY <1>3 DEF StreamQueued, ClearInbox, QueueNext
<1>4. CASE Abort \/ Compact
  BY <1>4 DEF Abort, Compact
<1>5. CASE CompactStep
  BY <1>5 DEF CompactStep, CompactSummarised, CompactJournaled, CompactAdopted,
              CompactFails, CompactJournalFails
<1>6. CASE TakeInputs \/ InputWritten \/ InputFails \/ Finish
  BY <1>6 DEF TakeInputs, InputWritten, InputFails, Finish, QueueNext
<1>7. CASE \/ PromptWritten \/ JournalFails \/ JournalFailsInAttempt
           \/ BeginTurn \/ AssembleUnchanged \/ AssembleChanged \/ ContextWritten
           \/ AttemptFails \/ RequestPlain \/ RequestCompacted \/ CompactionWritten
  BY <1>7 DEF PromptWritten, JournalFails, JournalFailsInAttempt, BeginTurn,
              AssembleUnchanged, AssembleChanged, ContextWritten, AttemptFails,
              RequestPlain, RequestCompacted, CompactionWritten
<1>8. CASE \/ ContextLimit \/ Reply \/ ReplyCut \/ ReplyEmpty \/ ReplyWritten
           \/ ToolResultWritten \/ PolicyWritten \/ DeliverInput \/ EndTurn
  BY <1>8 DEF ContextLimit, Reply, ReplyCut, ReplyEmpty, ReplyWritten,
              ToolResultWritten, PolicyWritten, DeliverInput, EndTurn
<1>9. CASE \/ EndWritten \/ RunCommitted \/ CommitHookFails \/ EndPublished
           \/ CloseFailedRun
  BY <1>9 DEF EndWritten, RunCommitted, CommitHookFails, EndPublished, CloseFailedRun
<1> QED
  BY <1>1, <1>2, <1>3, <1>4, <1>5, <1>6, <1>7, <1>8, <1>9
  DEF AgentNext, OwnerStep, RunStep

\* The runs of an Agent, its owner and its aborts drive the steering queue only
\* as module SteeringQueue allows.
THEOREM AgentUsesQueue == AgentSpec => QueueSpec
<1>1. AgentInit => QueueInit
  BY DEF AgentInit
<1>2. [AgentNext]_vars => [QueueNext]_queueVars
  BY AgentStepOfQueue
<1> QED BY <1>1, <1>2, PTL DEF AgentSpec, QueueSpec

\* So no step of an Agent loses an offered input, makes a claim fail or lies to
\* a caller of steer().
THEOREM AgentKeepsInputs ==
  AgentSpec => [](Conserved /\ ClaimFindsItsItem /\ WaitersAreQueued /\ OutcomeIsTruthful)
BY AgentUsesQueue, NothingIsLost, ClaimSucceeds, WaitersWaitForSomething,
   CallersAreToldTheTruth, PTL

-----------------------------------------------------------------------------
(* Types. *)

\* The part of the type invariant that is the Agent's own.
RunTypeOK ==
  /\ run \in RunStates
  /\ history \in Seq(Message)
  /\ working \in Seq(Message)
  /\ checkpoint \in Nat
  /\ stable \in [messages : Seq(Message), checkpoint : Nat]
  /\ journal \in [messages : Seq(Message), checkpoints : SUBSET Nat,
                  turn : {"none", "open", "closed", "failed"}]
  /\ announced \subseteq Inputs
  /\ faults \in Nat

LEMMA MessageTypes ==
  /\ \A i \in Inputs : UserMessage(i) \in Message
  /\ ContextMessage \in Message
  /\ \A n \in Nat : AssistantMessage(n) \in Message
  /\ ToolMessage \in Message
  /\ \A s \in Seq(Inputs) : UserMessages(s) \in Seq(Message)
  /\ \A n \in Nat : [k \in 1..n |-> ToolMessage] \in Seq(Message)
<1>1. /\ \A i \in Inputs : UserMessage(i) \in Message
      /\ ContextMessage \in Message
      /\ \A n \in Nat : AssistantMessage(n) \in Message
      /\ ToolMessage \in Message
  BY DEF UserMessage, ContextMessage, AssistantMessage, ToolMessage, Message, Roles
<1>2. ASSUME NEW s \in Seq(Inputs) PROVE UserMessages(s) \in Seq(Message)
  <2>1. Len(s) \in Nat /\ \A k \in 1..Len(s) : s[k] \in Inputs
    BY LenProperties, ElementOfSeq
  <2>2. \A k \in 1..Len(s) : UserMessage(s[k]) \in Message
    BY <1>1, <2>1
  <2> QED BY <2>1, <2>2, IsASeq DEF UserMessages
<1>3. ASSUME NEW n \in Nat PROVE [k \in 1..n |-> ToolMessage] \in Seq(Message)
  BY <1>1, IsASeq
<1> QED BY <1>1, <1>2, <1>3

\* Where a run may go next, one way of ending at a time.
LEMMA PhaseTypes ==
  /\ Phases = {"idle", "journal_start", "turn", "assemble", "context", "request",
               "compact_write", "respond", "record", "tools", "policy",
               "boundary", "consume", "deliver", "journal_end", "commit",
               "publish", "close", "finish",
               "summarise", "compact_journal", "compact_hook"}
  /\ NoRun \in RunStates
BY EmptySeq DEF Phases, PromptPhases, CompactPhases, NoRun, RunStates, Stops, Reasons

LEMMA EndLoopType ==
  ASSUME RunTypeOK, NEW reason \in Reasons, EndLoop(reason)
  PROVE  run' \in RunStates /\ checkpoint' \in Nat
BY PhaseTypes DEF RunTypeOK, EndLoop, RunStates

LEMMA FailType ==
  ASSUME RunTypeOK, Fail
  PROVE  run' \in RunStates
BY PhaseTypes DEF RunTypeOK, Fail, RunStates

LEMMA GotoType ==
  ASSUME RunTypeOK, NEW phase \in Phases, Goto(phase)
  PROVE  run' \in RunStates
BY DEF RunTypeOK, Goto, RunStates

LEMMA FailUnlessAbortedType ==
  ASSUME RunTypeOK, FailUnlessAborted
  PROVE  run' \in RunStates /\ checkpoint' \in Nat
BY EndLoopType, FailType DEF FailUnlessAborted, Reasons, RunTypeOK

LEMMA FaultType ==
  ASSUME RunTypeOK, \/ Fault \/ Broken \/ JournalBreaks
  PROVE  faults' \in Nat
BY DEF RunTypeOK, Fault, Broken, JournalBreaks

LEMMA JournalBreaksType ==
  ASSUME RunTypeOK, JournalBreaks
  PROVE  journal' \in [messages : Seq(Message), checkpoints : SUBSET Nat,
                       turn : {"none", "open", "closed", "failed"}]
BY DEF RunTypeOK, JournalBreaks

LEMMA CommitType ==
  ASSUME RunTypeOK, NEW msg \in Message, Commit(msg)
  PROVE  /\ journal' \in [messages : Seq(Message), checkpoints : SUBSET Nat,
                          turn : {"none", "open", "closed", "failed"}]
         /\ history' \in Seq(Message)
BY AppendProperties DEF RunTypeOK, Commit

LEMMA EndToolTurnType ==
  ASSUME RunTypeOK, NEW policy \in Seq(Message), EndToolTurn(policy)
  PROVE  /\ working' \in Seq(Message)
         /\ stable' \in [messages : Seq(Message), checkpoint : Nat]
         /\ run' \in RunStates /\ checkpoint' \in Nat
<1>1. run.calls \in Nat /\ run.checkpoint \in Nat
  BY DEF RunTypeOK, RunStates
<1>2. [k \in 1..run.calls |-> ToolMessage] \in Seq(Message)
  BY <1>1, MessageTypes
<1>3. working' \in Seq(Message)
  BY <1>2, ConcatProperties DEF RunTypeOK, EndToolTurn
<1>4. stable' \in [messages : Seq(Message), checkpoint : Nat]
  BY <1>1, <1>3 DEF EndToolTurn, StableContext
<1>5. run' \in RunStates /\ checkpoint' \in Nat
  BY EndLoopType, GotoType, PhaseTypes DEF EndToolTurn, RunTypeOK, Reasons
<1> QED BY <1>3, <1>4, <1>5

LEMMA CutoffType ==
  ASSUME NEW msgs \in Seq(Message), NEW covered \in Nat, NEW b \in Cutoffs(msgs, covered)
  PROVE  b \in Nat
BY LenProperties DEF Cutoffs

LEMMA InitTypes == AgentInit => RunTypeOK
BY PhaseTypes, EmptySeq DEF AgentInit, RunTypeOK, StableContext

\* What the frontends and the coordinator do keeps the types.
LEMMA OwnerTypes ==
  ASSUME RunTypeOK, QueueTypeOK, OwnerStep
  PROVE  RunTypeOK'
<1>1. ASSUME NEW prompt \in Seq(Inputs), StartRun(prompt)
      PROVE  RunTypeOK'
  BY <1>1, PhaseTypes DEF StartRun, RunTypeOK, RunStates
<1>2. ASSUME NEW i \in Inputs,
             Steer(i) \/ Enqueue(i) \/ EnqueueBehind(i) \/ CancelInput(i)
      PROVE  RunTypeOK'
  <2>1. UNCHANGED agentVars
    BY <1>2 DEF Steer, Enqueue, EnqueueBehind, CancelInput
  <2> QED BY <2>1 DEF agentVars, RunTypeOK
<1>3. ASSUME NEW i \in Inputs, Stream(i) PROVE RunTypeOK'
  <2>1. <<i>> \in Seq(Inputs) /\ StartRun(<<i>>)
    BY <1>3 DEF Stream
  <2> QED BY <1>1, <2>1
<1>4. CASE StreamQueued
  <2>1. Head(nextTurn) \in Inputs
    BY <1>4, HeadTailProperties DEF StreamQueued, QueueTypeOK
  <2>2. <<Head(nextTurn)>> \in Seq(Inputs) /\ StartRun(<<Head(nextTurn)>>)
    BY <1>4, <2>1 DEF StreamQueued
  <2> QED BY <1>1, <2>2
<1>5. CASE ClearInbox
  BY <1>5 DEF ClearInbox, agentVars, RunTypeOK
<1>6. CASE Abort
  BY <1>6 DEF Abort, RunTypeOK, RunStates
<1>7. CASE Compact
  BY <1>7, PhaseTypes DEF Compact, RunTypeOK, RunStates
<1> QED BY <1>2, <1>3, <1>4, <1>5, <1>6, <1>7 DEF OwnerStep

\* So does a manual compaction.
LEMMA CompactTypes ==
  ASSUME RunTypeOK, CompactStep
  PROVE  RunTypeOK'
<1> USE DEF RunTypeOK
<1>0. run.checkpoint \in Nat
  BY DEF RunStates
<1>1. CASE CompactSummarised
  <2>1. PICK cutoff \in Cutoffs(history, run.checkpoint) :
          run' = [run EXCEPT !.phase = "compact_journal", !.checkpoint = cutoff]
    BY <1>1 DEF CompactSummarised
  <2>2. cutoff \in Nat
    BY <1>0, CutoffType
  <2> QED BY <1>1, <2>1, <2>2, PhaseTypes DEF CompactSummarised, RunStates
<1>2. CASE CompactJournaled
  BY <1>0, <1>2, GotoType, PhaseTypes DEF CompactJournaled
<1>3. CASE CompactAdopted
  BY <1>0, <1>3, PhaseTypes DEF CompactAdopted, StableContext
<1>4. CASE CompactFails
  BY <1>4, FaultType, PhaseTypes DEF CompactFails
<1>5. CASE CompactJournalFails
  BY <1>5, FaultType, JournalBreaksType, PhaseTypes DEF CompactJournalFails
<1> QED BY <1>1, <1>2, <1>3, <1>4, <1>5 DEF CompactStep

\* And each step of a run: the prompt and the model requests.
LEMMA RequestTypes ==
  ASSUME RunTypeOK,
         \/ PromptWritten \/ JournalFails \/ JournalFailsInAttempt
         \/ BeginTurn \/ AssembleUnchanged \/ AssembleChanged \/ ContextWritten
         \/ AttemptFails \/ RequestPlain \/ RequestCompacted \/ CompactionWritten
  PROVE  RunTypeOK'
<1> USE DEF RunTypeOK
<1>0. /\ run.checkpoint \in Nat /\ run.prompt \in Seq(Inputs) /\ run.turn \in Nat
      /\ "aborted" \in Reasons
  BY DEF RunStates, Reasons
<1>1. CASE PromptWritten
  <2>1. UserMessages(run.prompt) \in Seq(Message)
    BY <1>0, MessageTypes
  <2>2. history' \in Seq(Message) /\ journal'.messages \in Seq(Message)
    BY <1>1, <2>1, ConcatProperties DEF PromptWritten
  <2>3. journal' \in [messages : Seq(Message), checkpoints : SUBSET Nat,
                      turn : {"none", "open", "closed", "failed"}]
    BY <1>1, <2>2 DEF PromptWritten
  <2>4. announced' \subseteq Inputs
    BY <1>0, <1>1, LaneMembers DEF PromptWritten
  <2>5. run' \in RunStates
    BY <1>1, PhaseTypes DEF PromptWritten, RunStates
  <2> QED BY <1>1, <2>2, <2>3, <2>4, <2>5 DEF PromptWritten, StableContext
<1>2. CASE JournalFails
  BY <1>2, FaultType, JournalBreaksType, FailType DEF JournalFails
<1>3. CASE JournalFailsInAttempt
  BY <1>3, FaultType, JournalBreaksType, FailUnlessAbortedType DEF JournalFailsInAttempt
<1>4. CASE BeginTurn
  <2>1. ASSUME ~run.aborted PROVE run' \in RunStates
    <3>1. run' = [run EXCEPT !.phase = "assemble", !.forced = FALSE,
                             !.stop = "none", !.calls = 0, !.took = FALSE]
      BY <1>4, <2>1 DEF BeginTurn
    <3>2. "assemble" \in Phases /\ "none" \in Stops
      BY PhaseTypes DEF Stops
    <3> QED BY <3>1, <3>2 DEF RunStates
  <2> QED BY <1>0, <1>4, <2>1, EndLoopType DEF BeginTurn
<1>5. CASE AssembleUnchanged
  BY <1>0, <1>5, EndLoopType, GotoType, PhaseTypes DEF AssembleUnchanged
<1>6. CASE AssembleChanged
  BY <1>6, GotoType, PhaseTypes DEF AssembleChanged
<1>7. CASE ContextWritten
  <2>1. working' \in Seq(Message)
    BY <1>7, MessageTypes, AppendProperties DEF ContextWritten
  <2>2. run' \in RunStates /\ checkpoint' \in Nat
    BY <1>0, <1>7, EndLoopType, GotoType, PhaseTypes DEF ContextWritten
  <2> QED BY <1>7, <2>1, <2>2, CommitType, MessageTypes DEF ContextWritten
<1>8. CASE AttemptFails
  BY <1>8, FaultType, FailUnlessAbortedType DEF AttemptFails
<1>9. CASE RequestPlain
  BY <1>9, GotoType, PhaseTypes DEF RequestPlain
<1>10. CASE RequestCompacted
  <2>1. PICK cutoff \in Cutoffs(working, run.checkpoint) :
          run' = [run EXCEPT !.phase = "compact_write", !.checkpoint = cutoff]
    BY <1>10 DEF RequestCompacted
  <2>2. cutoff \in Nat
    BY <1>0, CutoffType
  <2> QED BY <1>10, <2>1, <2>2, PhaseTypes DEF RequestCompacted, RunStates
<1>11. CASE CompactionWritten
  BY <1>0, <1>11, GotoType, PhaseTypes DEF CompactionWritten
<1> QED
  BY <1>1, <1>2, <1>3, <1>4, <1>5, <1>6, <1>7, <1>8, <1>9, <1>10, <1>11

\* Replies, tool results and steering.
LEMMA TurnTypes ==
  ASSUME RunTypeOK, QueueTypeOK,
         \/ ContextLimit \/ Reply \/ ReplyCut \/ ReplyEmpty \/ ReplyWritten
         \/ ToolResultWritten \/ PolicyWritten
         \/ TakeInputs \/ InputWritten \/ InputFails \/ DeliverInput \/ EndTurn
  PROVE  RunTypeOK'
<1> USE DEF RunTypeOK
<1>0. /\ run.checkpoint \in Nat /\ run.turn \in Nat /\ run.left \in Nat
      /\ run.calls \in Nat /\ run.inputs \in Seq(Inputs) /\ run.stop \in Stops
  BY DEF RunStates
<1>a. Stops \ {"toolUse"} \subseteq Reasons
  BY DEF Stops, Reasons
<1>b. {"error", "aborted", "turn_limit"} \subseteq Reasons
  BY DEF Reasons
<1>1. CASE ContextLimit
  <2>1. CASE run.forced
    BY <1>1, <2>1, FaultType, FailType DEF ContextLimit
  <2>2. CASE ~run.forced
    <3>0. run' = [run EXCEPT !.phase = "request", !.forced = TRUE]
      BY <1>1, <2>2 DEF ContextLimit
    <3>1. run' \in RunStates
      BY <3>0, PhaseTypes DEF RunStates
    <3> QED BY <1>1, <3>1, FaultType DEF ContextLimit
  <2> QED BY <2>1, <2>2
<1>2. CASE Reply
  <2>1. PICK stop \in {"stop", "toolUse", "length"}, n \in 0..MaxCalls :
          run' = [run EXCEPT !.phase = "record", !.stop = stop, !.calls = n]
    BY <1>2 DEF Reply
  <2>2. stop \in Stops /\ n \in Nat
    BY AgentRunAssumption DEF Stops
  <2>3. run' \in RunStates
    BY <2>1, <2>2, PhaseTypes DEF RunStates
  <2> QED BY <1>2, <2>3 DEF Reply
<1>3. CASE ReplyCut
  <2>1. PICK stop \in {"aborted", "error"} :
          run' = [run EXCEPT !.phase = "record", !.calls = 0, !.stop = stop]
    BY <1>3 DEF ReplyCut
  <2>2. run' \in RunStates
    BY <2>1, PhaseTypes DEF RunStates, Stops
  <2> QED BY <1>3, <2>2, FaultType DEF ReplyCut
<1>4. CASE ReplyEmpty
  <2>1. run' \in RunStates /\ checkpoint' \in Nat
    BY <1>4, <1>b, EndLoopType DEF ReplyEmpty
  <2> QED BY <1>0, <1>4, <2>1, FaultType DEF ReplyEmpty, StableContext
<1>5. CASE ReplyWritten
  <2>1. AssistantMessage(run.calls) \in Message
    BY <1>0, MessageTypes
  <2>2. working' \in Seq(Message)
    BY <1>5, <2>1, AppendProperties DEF ReplyWritten
  <2>3. stable' \in [messages : Seq(Message), checkpoint : Nat]
    <3>1. \/ stable' = StableContext(working', run.checkpoint)
          \/ stable' = stable
      BY <1>5 DEF ReplyWritten
    <3> QED BY <1>0, <2>2, <3>1 DEF StableContext
  <2>4. run' \in RunStates /\ checkpoint' \in Nat
    <3>1. CASE run.aborted \/ run.stop \in {"error", "aborted"}
      BY <1>5, <1>b, <3>1, EndLoopType DEF ReplyWritten
    <3>2. CASE ~(run.aborted \/ run.stop \in {"error", "aborted"})
      <4>1. CASE run.stop = "toolUse"
        <5>1. /\ run' = [run EXCEPT !.phase = "tools", !.left = run.calls]
              /\ checkpoint' = checkpoint
          BY <1>5, <3>2, <4>1 DEF ReplyWritten
        <5> QED BY <1>0, <5>1, PhaseTypes DEF RunStates
      <4>2. CASE run.stop # "toolUse"
        BY <1>5, <3>2, <4>2, GotoType, PhaseTypes DEF ReplyWritten
      <4> QED BY <4>1, <4>2
    <3> QED BY <3>1, <3>2
  <2> QED BY <1>5, <2>1, <2>2, <2>3, <2>4, CommitType DEF ReplyWritten
<1>6. CASE ToolResultWritten
  <2>1. /\ history' \in Seq(Message)
        /\ journal' \in [messages : Seq(Message), checkpoints : SUBSET Nat,
                         turn : {"none", "open", "closed", "failed"}]
    BY <1>6, CommitType, MessageTypes DEF ToolResultWritten
  <2>2. ASSUME run.left > 1, run' = [run EXCEPT !.left = @ - 1]
        PROVE  run' \in RunStates
    <3>1. run.left - 1 \in Nat
      BY <1>0, <2>2
    <3> QED BY <2>2, <3>1 DEF RunStates
  <2>3. ASSUME run' = [run EXCEPT !.left = 0, !.phase = "policy"]
        PROVE  run' \in RunStates
    BY <2>3, PhaseTypes DEF RunStates
  <2>4. CASE EndToolTurn(<<>>)
    BY <1>6, <2>1, <2>4, EndToolTurnType, EmptySeq DEF ToolResultWritten
  <2>5. CASE run' \in RunStates /\ UNCHANGED <<working, stable, checkpoint>>
    BY <1>6, <2>1, <2>5 DEF ToolResultWritten
  <2> QED BY <1>6, <2>2, <2>3, <2>4, <2>5 DEF ToolResultWritten
<1>7. CASE PolicyWritten
  <2>1. <<ContextMessage>> \in Seq(Message)
    BY MessageTypes
  <2> QED BY <1>7, <2>1, MessageTypes, CommitType, EndToolTurnType DEF PolicyWritten
<1>8. CASE TakeInputs
  BY <1>8, GotoType, PhaseTypes DEF TakeInputs
<1>9. CASE InputWritten
  <2>1. PICK i \in committing :
          /\ Commit(UserMessage(i))
          /\ run' = [run EXCEPT !.inputs = Append(@, i),
                      !.phase = IF Len(nextStep) = 1 THEN "deliver" ELSE "consume"]
    BY <1>9 DEF InputWritten
  <2>2. i \in Inputs
    BY DEF QueueTypeOK
  <2>3. run' \in RunStates
    BY <1>0, <2>1, <2>2, PhaseTypes, AppendProperties DEF RunStates
  <2> QED BY <1>9, <2>1, <2>2, <2>3, MessageTypes, CommitType DEF InputWritten
<1>10. CASE InputFails
  BY <1>10, FaultType, JournalBreaksType, FailType DEF InputFails
<1>11. CASE DeliverInput
  <2>1. Head(run.inputs) \in Inputs /\ Tail(run.inputs) \in Seq(Inputs)
    BY <1>0, <1>11, HeadTailProperties DEF DeliverInput
  <2>2. working' \in Seq(Message)
    BY <1>11, <2>1, MessageTypes, AppendProperties DEF DeliverInput
  <2>3. stable' \in [messages : Seq(Message), checkpoint : Nat]
    <3>1. \/ stable' = StableContext(working', run.checkpoint)
          \/ stable' = stable
      BY <1>11 DEF DeliverInput
    <3> QED BY <1>0, <2>2, <3>1 DEF StableContext
  <2>4. run' \in RunStates
    BY <1>11, <2>1 DEF DeliverInput, RunStates
  <2> QED BY <1>11, <2>1, <2>2, <2>3, <2>4 DEF DeliverInput
<1>12. CASE EndTurn
  <2>1. CASE \E reason \in Reasons : EndLoop(reason)
    BY <1>12, <2>1, EndLoopType DEF EndTurn
  <2>2. CASE /\ run' = [run EXCEPT !.phase = "turn", !.turn = @ + 1]
             /\ UNCHANGED checkpoint
    <3>1. run' \in RunStates
      <4>1. run.turn + 1 \in Nat /\ run \in RunStates
        BY <1>0
      <4>2. run' = [run EXCEPT !.phase = "turn", !.turn = run.turn + 1]
        BY <2>2
      <4> HIDE DEF RunTypeOK
      <4> QED BY <4>1, <4>2, PhaseTypes DEF RunStates
    <3> QED BY <1>12, <2>2, <3>1 DEF EndTurn
  <2> QED BY <1>0, <1>12, <1>a, <1>b, <2>1, <2>2 DEF EndTurn
<1> QED
  BY <1>1, <1>2, <1>3, <1>4, <1>5, <1>6, <1>7, <1>8, <1>9, <1>10, <1>11, <1>12

\* The end of a run.
LEMMA EndTypes ==
  ASSUME RunTypeOK,
         \/ EndWritten \/ RunCommitted \/ CommitHookFails \/ EndPublished
         \/ CloseFailedRun \/ Finish
  PROVE  RunTypeOK'
<1> USE DEF RunTypeOK
<1>1. CASE EndWritten
  BY <1>1, GotoType, PhaseTypes DEF EndWritten
<1>2. CASE RunCommitted \/ EndPublished
  BY <1>2, GotoType, PhaseTypes DEF RunCommitted, EndPublished
<1>3. CASE CommitHookFails
  BY <1>3, FaultType, FailType DEF CommitHookFails
<1>4. CASE CloseFailedRun
  <2>1. run' \in RunStates
    BY <1>4, GotoType, PhaseTypes DEF CloseFailedRun
  <2> QED BY <1>4, <2>1, FaultType, JournalBreaksType DEF CloseFailedRun
<1>5. CASE Finish
  BY <1>5, PhaseTypes, EmptySeq DEF Finish
<1> QED BY <1>1, <1>2, <1>3, <1>4, <1>5

LEMMA StepTypes ==
  ASSUME RunTypeOK, QueueTypeOK, [AgentNext]_vars
  PROVE  RunTypeOK'
<1>1. CASE UNCHANGED vars
  BY <1>1 DEF vars, agentVars, RunTypeOK
<1>2. CASE RunStep
  BY <1>2, RequestTypes, TurnTypes, EndTypes DEF RunStep
<1> QED BY <1>1, <1>2, CompactTypes, OwnerTypes DEF AgentNext

\* The types of the Agent, its run and its journal, in every reachable state.
THEOREM AgentTypeCorrect == AgentSpec => []AgentTypeOK
<1>1. AgentInit => RunTypeOK
  BY InitTypes
<1>2. RunTypeOK /\ QueueTypeOK /\ [AgentNext]_vars => RunTypeOK'
  BY StepTypes
<1>3. AgentSpec => []QueueTypeOK
  BY AgentUsesQueue, TypeCorrect, PTL
<1>4. QueueTypeOK /\ RunTypeOK => AgentTypeOK
  BY DEF RunTypeOK, AgentTypeOK
<1> QED BY <1>1, <1>2, <1>3, <1>4, PTL DEF AgentSpec

-----------------------------------------------------------------------------
(* What a run and the durable state have to do with each other.  The
   invariants of AgentRun say what holds when a request is made or a run
   ends; to be inductive they need to say it of every phase. *)

\* The phases that write inside an open journal turn.
OpenPhases ==
  {"turn", "assemble", "context", "request", "compact_write", "respond",
   "record", "tools", "policy", "boundary", "consume", "deliver", "close"}

TurnIsOpen ==
  /\ run.phase \in OpenPhases => journal.turn = "open"
  /\ run.phase \in {"commit", "publish"} => journal.turn = "closed"

\* A checkpoint of the Agent, or of a run that is not about to journal it, is
\* recoverable.
CheckpointsRecoverable ==
  journal.turn # "failed" =>
    /\ checkpoint \in journal.checkpoints \cup {0}
    /\ run.phase \notin {"idle", "compact_write", "compact_journal"} =>
         run.checkpoint \in journal.checkpoints \cup {0}

ToolMessages(n) == [k \in 1..n |-> ToolMessage]

\* The working context is the history but for what the current tool execution
\* or consume() has made durable already.
WorkingFollows ==
  /\ run.phase \in {"turn", "assemble", "context", "request", "compact_write",
                    "respond", "record", "boundary", "journal_end", "commit",
                    "publish"} => working = history
  /\ run.phase = "record" /\ run.stop = "toolUse" => run.calls > 0
  /\ run.phase = "tools" =>
       /\ run.left \in 1..run.calls
       /\ history = working \o ToolMessages(run.calls - run.left)
  /\ run.phase = "policy" => history = working \o ToolMessages(run.calls)
  /\ run.phase \in {"consume", "deliver"} => history = working \o UserMessages(run.inputs)
  /\ run.phase \in {"journal_start", "turn", "assemble", "context", "request",
                    "compact_write", "respond", "record", "tools", "policy",
                    "boundary"} => run.inputs = <<>>

RunInv ==
  /\ HistoryIsDurable
  /\ TurnIsOpen
  /\ CheckpointsRecoverable
  /\ WorkingFollows
  /\ TurnLimitHolds

-----------------------------------------------------------------------------
\* Appending to the second part of a sequence.
LEMMA AppendToConcat ==
  ASSUME NEW w \in Seq(Message), NEW t \in Seq(Message), NEW e \in Message
  PROVE  Append(w \o t, e) = w \o Append(t, e)
<1>1. w \o t \in Seq(Message) /\ <<e>> \in Seq(Message)
  BY ConcatProperties
<1>2. Append(w \o t, e) = (w \o t) \o <<e>>
  BY <1>1, AppendIsConcat
<1>3. Append(t, e) = t \o <<e>>
  BY AppendIsConcat
<1>4. (w \o t) \o <<e>> = w \o (t \o <<e>>)
  BY <1>1, ConcatAssociative
<1> QED BY <1>2, <1>3, <1>4

\* One more tool result, after those of the same turn.
LEMMA OneMoreResult ==
  ASSUME NEW w \in Seq(Message), NEW n \in Nat
  PROVE  Append(w \o ToolMessages(n), ToolMessage) = w \o ToolMessages(n + 1)
<1>1. ToolMessages(n) \in Seq(Message) /\ Len(ToolMessages(n)) = n
  BY MessageTypes DEF ToolMessages
<1>2. ToolMessages(n + 1) \in Seq(Message) /\ Len(ToolMessages(n + 1)) = n + 1
  BY MessageTypes DEF ToolMessages
<1>3. ToolMessages(n + 1) = Append(ToolMessages(n), ToolMessage)
  BY <1>1, <1>2, MessageTypes, AppendProperties, SeqEqual DEF ToolMessages
<1>4. Append(w \o ToolMessages(n), ToolMessage) = w \o Append(ToolMessages(n), ToolMessage)
  BY <1>1, MessageTypes, AppendToConcat
<1> QED BY <1>3, <1>4

\* One more input, after those already taken.
LEMMA OneMoreInput ==
  ASSUME NEW w \in Seq(Message), NEW s \in Seq(Inputs), NEW i \in Inputs
  PROVE  Append(w \o UserMessages(s), UserMessage(i)) = w \o UserMessages(Append(s, i))
<1>1. /\ UserMessages(s) \in Seq(Message) /\ Append(s, i) \in Seq(Inputs)
      /\ UserMessages(Append(s, i)) \in Seq(Message) /\ UserMessage(i) \in Message
      /\ Len(s) \in Nat /\ Len(Append(s, i)) = Len(s) + 1
      /\ Len(UserMessages(s)) = Len(s)
      /\ Len(UserMessages(Append(s, i))) = Len(s) + 1
  BY MessageTypes, AppendProperties, LenProperties DEF UserMessages
<1>2. \A k \in 1..(Len(s) + 1) :
        UserMessages(Append(s, i))[k] = Append(UserMessages(s), UserMessage(i))[k]
  BY <1>1, AppendProperties DEF UserMessages
<1>3. UserMessages(Append(s, i)) = Append(UserMessages(s), UserMessage(i))
  BY <1>1, <1>2, AppendProperties, SeqEqual
<1>4. Append(w \o UserMessages(s), UserMessage(i))
        = w \o Append(UserMessages(s), UserMessage(i))
  BY <1>1, AppendToConcat
<1> QED BY <1>3, <1>4

\* The first of the taken inputs joins the working context.
LEMMA FirstInputJoins ==
  ASSUME NEW w \in Seq(Message), NEW s \in Seq(Inputs), s # <<>>
  PROVE  Append(w, UserMessage(Head(s))) \o UserMessages(Tail(s)) = w \o UserMessages(s)
<1>1. /\ Head(s) \in Inputs /\ Tail(s) \in Seq(Inputs)
      /\ Len(s) \in Nat /\ Len(s) > 0 /\ Len(Tail(s)) = Len(s) - 1
      /\ Head(s) = s[1] /\ \A k \in 1..Len(Tail(s)) : Tail(s)[k] = s[k + 1]
  BY HeadTailProperties, LenProperties, EmptySeq
<1>2. /\ UserMessages(s) \in Seq(Message) /\ UserMessages(Tail(s)) \in Seq(Message)
      /\ UserMessage(Head(s)) \in Message
      /\ Len(UserMessages(s)) = Len(s) /\ Len(UserMessages(Tail(s))) = Len(s) - 1
  BY <1>1, MessageTypes, LenProperties DEF UserMessages
<1>3. \A k \in 1..Len(s) :
        UserMessages(s)[k] = (<<UserMessage(Head(s))>> \o UserMessages(Tail(s)))[k]
  BY <1>1, <1>2, ConcatProperties DEF UserMessages
<1>4. UserMessages(s) = <<UserMessage(Head(s))>> \o UserMessages(Tail(s))
  <2> DEFINE c == <<UserMessage(Head(s))>> \o UserMessages(Tail(s))
  <2>1. /\ <<UserMessage(Head(s))>> \in Seq(Message)
        /\ Len(<<UserMessage(Head(s))>>) = 1
    BY <1>2
  <2>2. c \in Seq(Message) /\ Len(c) = 1 + (Len(s) - 1)
    BY <1>2, <2>1, ConcatProperties
  <2> HIDE DEF c
  <2>3. Len(c) = Len(s)
    BY <1>1, <2>2
  <2>4. \A k \in 1..Len(s) : UserMessages(s)[k] = c[k]
    BY <1>3 DEF c
  <2>5. UserMessages(s) = c
    BY <1>2, <2>2, <2>3, <2>4, SeqEqual
  <2> QED BY <2>5 DEF c
<1>5. Append(w, UserMessage(Head(s))) = w \o <<UserMessage(Head(s))>>
  BY <1>2, AppendIsConcat
<1>6. <<UserMessage(Head(s))>> \in Seq(Message)
  BY <1>2
<1> QED BY <1>2, <1>4, <1>5, <1>6, ConcatAssociative

\* Without results or inputs, nothing is missing.
LEMMA NothingMore ==
  ASSUME NEW w \in Seq(Message)
  PROVE  w \o ToolMessages(0) = w /\ w \o UserMessages(<<>>) = w
<1>1. ToolMessages(0) = <<>> /\ UserMessages(<<>>) = <<>>
  BY MessageTypes, EmptySeq DEF ToolMessages, UserMessages
<1> QED BY <1>1, ConcatEmptySeq

-----------------------------------------------------------------------------
LEMMA RunInvInit == AgentInit => RunInv
BY AgentRunAssumption
DEF AgentInit, NoRun, RunInv, HistoryIsDurable, TurnIsOpen, CheckpointsRecoverable,
    WorkingFollows, TurnLimitHolds, HasTurnLimit, OpenPhases

\* The owner starts runs and compactions and aborts them; it touches neither
\* the messages nor the journal.
LEMMA OwnerKeeps ==
  ASSUME RunTypeOK, RunInv, OwnerStep
  PROVE  RunInv'
<1> USE DEF RunInv, HistoryIsDurable, TurnIsOpen, CheckpointsRecoverable,
            WorkingFollows, TurnLimitHolds, HasTurnLimit, OpenPhases
<1>1. ASSUME NEW prompt, StartRun(prompt) PROVE RunInv'
  BY <1>1, AgentRunAssumption DEF StartRun, NoRun, Running
<1>2. CASE UNCHANGED agentVars
  BY <1>2 DEF agentVars
<1>3. CASE Abort
  <2>1. run' = [run EXCEPT !.aborted = TRUE] /\ run \in RunStates
    BY <1>3 DEF Abort, RunTypeOK
  <2>2. /\ run'.phase = run.phase /\ run'.turn = run.turn /\ run'.stop = run.stop
        /\ run'.calls = run.calls /\ run'.left = run.left
        /\ run'.inputs = run.inputs /\ run'.checkpoint = run.checkpoint
    BY <2>1 DEF RunStates
  <2> QED BY <1>3, <2>2 DEF Abort
<1>4. CASE Compact
  BY <1>4, AgentRunAssumption DEF Compact, NoRun, Running
<1> QED
  BY <1>1, <1>2, <1>3, <1>4
  DEF OwnerStep, Steer, Enqueue, EnqueueBehind, CancelInput, Stream, StreamQueued,
      ClearInbox

\* A manual compaction journals its checkpoint before it adopts it.
LEMMA CompactKeeps ==
  ASSUME RunTypeOK, RunInv, CompactStep
  PROVE  RunInv'
<1> USE DEF RunInv, HistoryIsDurable, TurnIsOpen, CheckpointsRecoverable,
            WorkingFollows, TurnLimitHolds, HasTurnLimit, OpenPhases
<1>0. run \in RunStates
  BY DEF RunTypeOK
<1>1. CASE CompactSummarised
  <2>1. PICK cutoff \in Cutoffs(history, run.checkpoint) :
          run' = [run EXCEPT !.phase = "compact_journal", !.checkpoint = cutoff]
    BY <1>1 DEF CompactSummarised
  <2>2. run'.phase = "compact_journal" /\ run'.turn = run.turn
    BY <1>0, <2>1 DEF RunStates
  <2> QED BY <1>1, <2>2 DEF CompactSummarised
<1>2. CASE CompactJournaled
  <2>1. /\ run'.phase = "compact_hook" /\ run'.turn = run.turn
        /\ run'.checkpoint = run.checkpoint
        /\ journal'.messages = journal.messages /\ journal'.turn = journal.turn
        /\ journal'.checkpoints = journal.checkpoints \cup {run.checkpoint}
    BY <1>0, <1>2 DEF CompactJournaled, Goto, RunStates, RunTypeOK
  <2> QED BY <1>2, <2>1 DEF CompactJournaled
<1>3. CASE CompactAdopted
  BY <1>3, AgentRunAssumption DEF CompactAdopted, NoRun, At
<1>4. CASE CompactFails
  BY <1>4, AgentRunAssumption DEF CompactFails, NoRun, At
<1>5. CASE CompactJournalFails
  <2>1. journal'.messages = journal.messages /\ journal'.turn = "failed"
    BY <1>5 DEF CompactJournalFails, JournalBreaks, RunTypeOK
  <2> QED BY <1>5, <2>1, AgentRunAssumption DEF CompactJournalFails, NoRun, At
<1> QED BY <1>1, <1>2, <1>3, <1>4, <1>5 DEF CompactStep

\* What the ways of going on leave of the run.
SameRun ==
  /\ run'.turn = run.turn /\ run'.stop = run.stop /\ run'.calls = run.calls
  /\ run'.left = run.left /\ run'.inputs = run.inputs
  /\ run'.checkpoint = run.checkpoint

LEMMA EndLoopRun ==
  ASSUME RunTypeOK, NEW reason, EndLoop(reason)
  PROVE  run'.phase = "journal_end" /\ checkpoint' = run.checkpoint /\ SameRun
BY DEF EndLoop, RunTypeOK, RunStates, SameRun

LEMMA GotoRun ==
  ASSUME RunTypeOK, NEW phase, Goto(phase)
  PROVE  run'.phase = phase /\ SameRun
BY DEF Goto, RunTypeOK, RunStates, SameRun

LEMMA FailRun ==
  ASSUME RunTypeOK, Fail
  PROVE  /\ run'.phase \in {"close", "finish"} /\ SameRun
         /\ run'.phase = "close" => journal'.turn = "open"
BY DEF Fail, RunTypeOK, RunStates, SameRun

LEMMA JournalBreaksIt ==
  ASSUME RunTypeOK, JournalBreaks
  PROVE  /\ journal'.messages = journal.messages /\ journal'.turn = "failed"
         /\ journal'.checkpoints = journal.checkpoints
BY DEF JournalBreaks, RunTypeOK

LEMMA CommitsBoth ==
  ASSUME RunTypeOK, HistoryIsDurable, NEW msg, Commit(msg)
  PROVE  /\ HistoryIsDurable' /\ history' = Append(history, msg)
         /\ journal'.turn = journal.turn /\ journal.turn # "failed"
         /\ journal'.checkpoints = journal.checkpoints
BY DEF Commit, RunTypeOK, HistoryIsDurable, JournalWorks

\* The journal refuses a write outside attempt(), or inside it.
LEMMA JournalFailureKeeps ==
  ASSUME RunTypeOK, RunInv, JournalFails \/ JournalFailsInAttempt
  PROVE  RunInv'
<1> USE DEF RunInv, HistoryIsDurable, TurnIsOpen, CheckpointsRecoverable,
            WorkingFollows, TurnLimitHolds, HasTurnLimit, OpenPhases, SameRun
<1>1. /\ journal'.messages = journal.messages /\ journal'.turn = "failed"
      /\ UNCHANGED <<history, working>>
  BY JournalBreaksIt DEF JournalFails, JournalFailsInAttempt
<1>2. CASE Fail
  <2>1. run'.phase = "finish" /\ SameRun
    BY <1>1, <1>2, FailRun
  <2> QED BY <1>1, <2>1
<1>3. CASE JournalFailsInAttempt /\ EndLoop("aborted")
  <2>1. run'.phase = "journal_end" /\ SameRun
    BY <1>3, EndLoopRun
  <2>2. working = history
    BY <1>3 DEF JournalFailsInAttempt
  <2> QED BY <1>1, <2>1, <2>2
<1> QED BY <1>2, <1>3 DEF JournalFails, JournalFailsInAttempt, FailUnlessAborted

\* The prompt and the model requests.
LEMMA RequestKeeps ==
  ASSUME RunTypeOK, RunInv,
         \/ PromptWritten \/ BeginTurn \/ AssembleUnchanged \/ AssembleChanged
         \/ ContextWritten \/ AttemptFails \/ RequestPlain \/ RequestCompacted
         \/ CompactionWritten
  PROVE  RunInv'
<1> USE DEF RunInv, HistoryIsDurable, TurnIsOpen, CheckpointsRecoverable,
            WorkingFollows, TurnLimitHolds, HasTurnLimit, OpenPhases, SameRun, At
<1>0. run \in RunStates
  BY DEF RunTypeOK
<1>1. CASE PromptWritten
  <2>1. /\ run'.phase = "turn" /\ run'.turn = 1 /\ run'.inputs = run.inputs
        /\ run'.checkpoint = run.checkpoint
        /\ journal'.messages = journal.messages \o UserMessages(run.prompt)
        /\ journal'.turn = "open" /\ journal'.checkpoints = journal.checkpoints
    BY <1>0, <1>1 DEF PromptWritten, RunTypeOK, RunStates
  <2>2. journal.turn # "failed"
    BY <1>1 DEF PromptWritten, JournalWorks
  <2>3. /\ run.phase = "journal_start" /\ run.inputs = <<>>
        /\ working' = history' /\ checkpoint' = checkpoint
    BY <1>1 DEF PromptWritten
  <2>4. HistoryIsDurable'
    BY <1>1, <2>1 DEF PromptWritten
  <2>5. CheckpointsRecoverable' /\ TurnIsOpen' /\ WorkingFollows'
    BY <2>1, <2>2, <2>3
  <2>6. TurnLimitHolds'
    BY <2>1, AgentRunAssumption
  <2> QED BY <2>4, <2>5, <2>6
<1>2. CASE BeginTurn
  <2>1. CASE run.aborted
    <3>1. run'.phase = "journal_end" /\ checkpoint' = run.checkpoint /\ SameRun
      BY <1>2, <2>1, EndLoopRun DEF BeginTurn
    <3> QED BY <1>2, <3>1 DEF BeginTurn
  <2>2. CASE ~run.aborted
    <3>1. /\ run' = [run EXCEPT !.phase = "assemble", !.forced = FALSE,
                               !.stop = "none", !.calls = 0, !.took = FALSE]
          /\ checkpoint' = checkpoint
      BY <1>2, <2>2 DEF BeginTurn
    <3>2. /\ run'.phase = "assemble" /\ run'.turn = run.turn
          /\ run'.inputs = run.inputs /\ run'.checkpoint = run.checkpoint
      BY <1>0, <3>1 DEF RunStates
    <3> QED BY <1>2, <3>1, <3>2 DEF BeginTurn
  <2> QED BY <2>1, <2>2
<1>3. CASE AssembleUnchanged
  <2>1. \/ run'.phase = "journal_end" /\ checkpoint' = run.checkpoint /\ SameRun
        \/ run'.phase = "request" /\ checkpoint' = checkpoint /\ SameRun
    BY <1>3, EndLoopRun, GotoRun DEF AssembleUnchanged
  <2> QED BY <1>3, <2>1 DEF AssembleUnchanged
<1>4. CASE AssembleChanged \/ RequestPlain
  <2>1. run'.phase \in {"context", "respond"} /\ checkpoint' = checkpoint /\ SameRun
    BY <1>4, GotoRun DEF AssembleChanged, RequestPlain
  <2> QED BY <1>4, <2>1 DEF AssembleChanged, RequestPlain
<1>5. CASE ContextWritten
  <2>1. \/ run'.phase = "journal_end" /\ checkpoint' = run.checkpoint /\ SameRun
        \/ run'.phase = "request" /\ checkpoint' = checkpoint /\ SameRun
    BY <1>5, EndLoopRun, GotoRun DEF ContextWritten
  <2>2. /\ HistoryIsDurable' /\ history' = Append(history, ContextMessage)
        /\ journal'.turn = journal.turn
        /\ journal'.checkpoints = journal.checkpoints
    BY <1>5, CommitsBoth DEF ContextWritten
  <2> QED BY <1>5, <2>1, <2>2 DEF ContextWritten
<1>6. CASE AttemptFails
  <2>1. \/ run'.phase = "journal_end" /\ checkpoint' = run.checkpoint /\ SameRun
        \/ /\ run'.phase \in {"close", "finish"} /\ checkpoint' = checkpoint
           /\ SameRun
    BY <1>6, EndLoopRun, FailRun DEF AttemptFails, FailUnlessAborted
  <2>2. run.phase \in {"assemble", "request", "respond"} /\ UNCHANGED <<journal, history, working>>
    BY <1>6 DEF AttemptFails
  <2> QED BY <2>1, <2>2
<1>7. CASE RequestCompacted
  <2>1. PICK cutoff \in Cutoffs(working, run.checkpoint) :
          run' = [run EXCEPT !.phase = "compact_write", !.checkpoint = cutoff]
    BY <1>7 DEF RequestCompacted
  <2>2. /\ run'.phase = "compact_write" /\ run'.turn = run.turn
        /\ run'.inputs = run.inputs
    BY <1>0, <2>1 DEF RunStates
  <2> QED BY <1>7, <2>2 DEF RequestCompacted
<1>8. CASE CompactionWritten
  <2>1. run'.phase = "respond" /\ SameRun
    BY <1>8, GotoRun DEF CompactionWritten
  <2>2. /\ journal'.messages = journal.messages /\ journal'.turn = journal.turn
        /\ journal'.checkpoints = journal.checkpoints \cup {run.checkpoint}
    BY <1>8 DEF CompactionWritten, RunTypeOK
  <2> QED BY <1>8, <2>1, <2>2 DEF CompactionWritten
<1> QED BY <1>1, <1>2, <1>3, <1>4, <1>5, <1>6, <1>7, <1>8

\* Replies, tool results and steering.
LEMMA TurnKeeps ==
  ASSUME RunTypeOK, QueueTypeOK, RunInv,
         \/ ContextLimit \/ Reply \/ ReplyCut \/ ReplyEmpty \/ ReplyWritten
         \/ ToolResultWritten \/ PolicyWritten
         \/ TakeInputs \/ InputWritten \/ InputFails \/ DeliverInput \/ EndTurn
  PROVE  RunInv'
<1> USE DEF RunInv, HistoryIsDurable, TurnIsOpen, CheckpointsRecoverable,
            WorkingFollows, TurnLimitHolds, HasTurnLimit, OpenPhases, SameRun, At
<1>0. /\ run \in RunStates /\ run.calls \in Nat /\ run.left \in Nat
      /\ run.inputs \in Seq(Inputs)
      /\ working \in Seq(Message) /\ history \in Seq(Message)
  BY DEF RunTypeOK, RunStates
<1>a. ASSUME NEW policy, EndToolTurn(policy),
             history' = working \o ToolMessages(run.calls) \o policy,
             run.phase \in {"tools", "policy"}, journal'.turn = "open",
             journal'.checkpoints = journal.checkpoints, HistoryIsDurable'
      PROVE  RunInv'
  <2>1. working' = history'
    BY <1>a DEF EndToolTurn, ToolMessages
  <2>2. \/ run'.phase = "journal_end" /\ checkpoint' = run.checkpoint /\ SameRun
        \/ run'.phase = "boundary" /\ checkpoint' = checkpoint /\ SameRun
    BY <1>a, EndLoopRun, GotoRun DEF EndToolTurn
  <2>3. journal.turn # "failed" /\ run.inputs = <<>>
    BY <1>a
  <2>4. WorkingFollows'
    BY <2>1, <2>2, <2>3
  <2>5. CheckpointsRecoverable' /\ TurnIsOpen' /\ TurnLimitHolds'
    BY <1>a, <2>2, <2>3
  <2> QED BY <1>a, <2>4, <2>5
<1>1. CASE ContextLimit
  <2>1. CASE run.forced
    <3>1. run'.phase \in {"close", "finish"} /\ SameRun
      BY <1>1, <2>1, FailRun DEF ContextLimit
    <3> QED BY <1>1, <3>1 DEF ContextLimit
  <2>2. CASE ~run.forced
    <3>1. run' = [run EXCEPT !.phase = "request", !.forced = TRUE]
      BY <1>1, <2>2 DEF ContextLimit
    <3>2. run'.phase = "request" /\ SameRun
      BY <1>0, <3>1 DEF RunStates
    <3> QED BY <1>1, <3>2 DEF ContextLimit
  <2> QED BY <2>1, <2>2
<1>2. CASE Reply
  <2>1. PICK stop \in {"stop", "toolUse", "length"}, n \in 0..MaxCalls :
          /\ stop = "toolUse" => n > 0
          /\ run' = [run EXCEPT !.phase = "record", !.stop = stop, !.calls = n]
    BY <1>2 DEF Reply
  <2>2. /\ run'.phase = "record" /\ run'.stop = stop /\ run'.calls = n
        /\ run'.inputs = run.inputs /\ run'.turn = run.turn
        /\ run'.checkpoint = run.checkpoint
    BY <1>0, <2>1 DEF RunStates
  <2> QED BY <1>2, <2>1, <2>2 DEF Reply
<1>3. CASE ReplyCut
  <2>1. PICK stop \in {"aborted", "error"} :
          run' = [run EXCEPT !.phase = "record", !.calls = 0, !.stop = stop]
    BY <1>3 DEF ReplyCut
  <2>2. /\ run'.phase = "record" /\ run'.stop = stop
        /\ run'.inputs = run.inputs /\ run'.turn = run.turn
        /\ run'.checkpoint = run.checkpoint
    BY <1>0, <2>1 DEF RunStates
  <2> QED BY <1>3, <2>2 DEF ReplyCut
<1>4. CASE ReplyEmpty
  <2>1. run'.phase = "journal_end" /\ checkpoint' = run.checkpoint /\ SameRun
    BY <1>4, EndLoopRun DEF ReplyEmpty
  <2> QED BY <1>4, <2>1 DEF ReplyEmpty
<1>5. CASE ReplyWritten
  <2>1. /\ HistoryIsDurable' /\ history' = Append(history, AssistantMessage(run.calls))
        /\ journal'.turn = journal.turn /\ journal.turn # "failed"
        /\ journal'.checkpoints = journal.checkpoints
    BY <1>5, CommitsBoth DEF ReplyWritten
  <2>2. run.phase = "record" /\ working' = history'
    BY <1>5, <2>1 DEF ReplyWritten
  <2>3. CASE run.aborted \/ run.stop \in {"error", "aborted"}
    <3>1. run'.phase = "journal_end" /\ checkpoint' = run.checkpoint /\ SameRun
      BY <1>5, <2>3, EndLoopRun DEF ReplyWritten
    <3> QED BY <2>1, <2>2, <3>1
  <2>4. CASE /\ run.stop = "toolUse"
             /\ run' = [run EXCEPT !.phase = "tools", !.left = run.calls]
             /\ checkpoint' = checkpoint
    <3>1. /\ run'.phase = "tools" /\ run'.left = run.calls /\ run'.calls = run.calls
          /\ run'.inputs = run.inputs /\ run'.turn = run.turn
          /\ run'.checkpoint = run.checkpoint
      BY <1>0, <2>4 DEF RunStates
    <3>2. run.calls > 0 /\ working' \o ToolMessages(0) = working'
      <4>1. AssistantMessage(run.calls) \in Message
        BY <1>0, MessageTypes
      <4>2. working' \in Seq(Message)
        BY <1>0, <1>5, <4>1, AppendProperties DEF ReplyWritten
      <4> QED BY <2>2, <2>4, <4>2, NothingMore
    <3>3. run'.left \in 1..run'.calls /\ run'.calls - run'.left = 0
      BY <1>0, <3>1, <3>2
    <3> QED BY <2>1, <2>2, <2>4, <3>1, <3>2, <3>3
  <2>5. CASE Goto("boundary") /\ checkpoint' = checkpoint
    <3>1. run'.phase = "boundary" /\ SameRun
      BY <2>5, GotoRun
    <3> QED BY <2>1, <2>2, <2>5, <3>1
  <2>6. \/ run.aborted \/ run.stop \in {"error", "aborted"}
        \/ /\ run.stop = "toolUse" /\ checkpoint' = checkpoint
           /\ run' = [run EXCEPT !.phase = "tools", !.left = run.calls]
        \/ Goto("boundary") /\ checkpoint' = checkpoint
    BY <1>5 DEF ReplyWritten
  <2> QED BY <2>3, <2>4, <2>5, <2>6
<1>6. CASE ToolResultWritten
  <2>1. /\ HistoryIsDurable' /\ history' = Append(history, ToolMessage)
        /\ journal'.turn = journal.turn /\ journal.turn # "failed"
        /\ journal'.checkpoints = journal.checkpoints
        /\ run.phase = "tools"
    BY <1>6, CommitsBoth DEF ToolResultWritten
  <2>2. /\ run.left \in 1..run.calls
        /\ history' = working \o ToolMessages(run.calls - run.left + 1)
    <3>1. run.left \in 1..run.calls /\ run.calls - run.left \in Nat
          /\ history = working \o ToolMessages(run.calls - run.left)
      BY <1>0, <2>1
    <3> QED BY <1>0, <2>1, <3>1, OneMoreResult
  <2>3. CASE /\ run.left > 1 /\ run' = [run EXCEPT !.left = @ - 1]
             /\ UNCHANGED <<working, stable, checkpoint>>
    <3>1. /\ run'.phase = "tools" /\ run'.left = run.left - 1 /\ run'.calls = run.calls
          /\ run'.inputs = run.inputs /\ run'.turn = run.turn
          /\ run'.checkpoint = run.checkpoint
      BY <1>0, <2>1, <2>3 DEF RunStates
    <3>2. /\ run'.left \in 1..run'.calls
          /\ run'.calls - run'.left = run.calls - run.left + 1
      BY <1>0, <2>2, <2>3, <3>1
    <3> QED BY <2>1, <2>2, <2>3, <3>1, <3>2
  <2>4. CASE /\ run.left = 1 /\ run' = [run EXCEPT !.left = 0, !.phase = "policy"]
             /\ UNCHANGED <<working, stable, checkpoint>>
    <3>1. /\ run'.phase = "policy" /\ run'.calls = run.calls
          /\ run'.inputs = run.inputs /\ run'.turn = run.turn
          /\ run'.checkpoint = run.checkpoint
      BY <1>0, <2>4 DEF RunStates
    <3>2. run.calls - run.left + 1 = run.calls
      BY <1>0, <2>4
    <3> QED BY <2>1, <2>2, <2>4, <3>1, <3>2
  <2>5. CASE run.left = 1 /\ EndToolTurn(<<>>)
    <3>1. run.calls - run.left + 1 = run.calls
      BY <1>0, <2>5
    <3>2. history' = working \o ToolMessages(run.calls) \o <<>>
      <4>1. history' \in Seq(Message)
        BY <2>1, <1>0, MessageTypes, AppendProperties
      <4> QED BY <2>2, <3>1, <4>1, ConcatEmptySeq
    <3> QED BY <1>a, <2>1, <2>5, <3>2
  <2> QED BY <1>6, <2>3, <2>4, <2>5 DEF ToolResultWritten
<1>7. CASE PolicyWritten
  <2>1. /\ HistoryIsDurable' /\ history' = Append(history, ContextMessage)
        /\ journal'.turn = journal.turn /\ journal'.checkpoints = journal.checkpoints
        /\ run.phase = "policy"
    BY <1>7, CommitsBoth DEF PolicyWritten
  <2>2. history' = working \o ToolMessages(run.calls) \o <<ContextMessage>>
    <3>1. history = working \o ToolMessages(run.calls)
      BY <2>1
    <3> QED BY <1>0, <2>1, <3>1, MessageTypes, AppendIsConcat
  <2> QED BY <1>7, <1>a, <2>1, <2>2 DEF PolicyWritten
<1>8. CASE TakeInputs
  <2>1. run'.phase = "consume" /\ SameRun
    BY <1>8, GotoRun DEF TakeInputs
  <2>2. working \o UserMessages(<<>>) = working
    BY <1>0, NothingMore
  <2>3. HasTurnLimit => run.turn < MaxTurns
    BY <1>8 DEF TakeInputs, CanStartAnotherTurn
  <2> QED BY <1>8, <2>1, <2>2, <2>3 DEF TakeInputs
<1>9. CASE InputWritten
  <2>1. PICK i \in committing :
          /\ Commit(UserMessage(i))
          /\ run' = [run EXCEPT !.inputs = Append(@, i),
                      !.phase = IF Len(nextStep) = 1 THEN "deliver" ELSE "consume"]
    BY <1>9 DEF InputWritten
  <2>2. /\ run'.phase \in {"deliver", "consume"} /\ run'.turn = run.turn
        /\ run'.inputs = Append(run.inputs, i) /\ run'.checkpoint = run.checkpoint
    BY <1>0, <2>1 DEF RunStates
  <2>3. /\ HistoryIsDurable' /\ history' = Append(history, UserMessage(i))
        /\ journal'.turn = journal.turn /\ journal'.checkpoints = journal.checkpoints
        /\ run.phase = "consume"
    BY <1>9, <2>1, CommitsBoth DEF InputWritten
  <2>4. history' = working' \o UserMessages(run'.inputs)
    <3>1. i \in Inputs /\ history = working \o UserMessages(run.inputs) /\ working' = working
      BY <1>9, <2>3 DEF QueueTypeOK, InputWritten
    <3> QED BY <1>0, <2>2, <2>3, <3>1, OneMoreInput
  <2> QED BY <1>9, <2>2, <2>3, <2>4 DEF InputWritten
<1>10. CASE InputFails
  <2>1. /\ run'.phase = "finish" /\ SameRun /\ journal'.turn = "failed"
        /\ journal'.messages = journal.messages
    BY <1>10, FailRun, JournalBreaksIt DEF InputFails
  <2> QED BY <1>10, <2>1 DEF InputFails
<1>11. CASE DeliverInput
  <2>1. run' = [run EXCEPT !.inputs = Tail(@), !.took = TRUE]
    BY <1>11 DEF DeliverInput
  <2>2. /\ run'.phase = "deliver" /\ run'.turn = run.turn
        /\ run'.inputs = Tail(run.inputs) /\ run'.checkpoint = run.checkpoint
    BY <1>0, <1>11, <2>1 DEF RunStates, DeliverInput
  <2>3. history' = working' \o UserMessages(run'.inputs)
    <3>1. /\ history = working \o UserMessages(run.inputs) /\ run.inputs # <<>>
          /\ working' = Append(working, UserMessage(Head(run.inputs)))
          /\ history' = history
      BY <1>11 DEF DeliverInput
    <3> QED BY <1>0, <2>2, <3>1, FirstInputJoins
  <2> QED BY <1>11, <2>2, <2>3 DEF DeliverInput
<1>12. CASE EndTurn
  <2>1. working = history /\ UNCHANGED <<history, working, journal>>
    <3>1. CASE At("boundary")
      BY <1>12, <3>1 DEF EndTurn
    <3>2. CASE At("deliver") /\ run.inputs = <<>>
      BY <1>0, <1>12, <3>2, NothingMore DEF EndTurn
    <3> QED BY <1>12, <3>1, <3>2 DEF EndTurn
  <2>2. run.phase \in {"boundary", "deliver"} /\ run.inputs = <<>>
    BY <1>12 DEF EndTurn
  <2>3. CASE \E reason \in Reasons : EndLoop(reason)
    <3>1. run'.phase = "journal_end" /\ checkpoint' = run.checkpoint /\ SameRun
      BY <2>3, EndLoopRun
    <3> QED BY <2>1, <2>2, <3>1
  <2>4. CASE /\ CanStartAnotherTurn
             /\ run' = [run EXCEPT !.phase = "turn", !.turn = @ + 1]
             /\ UNCHANGED checkpoint
    <3>1. /\ run'.phase = "turn" /\ run'.turn = run.turn + 1
          /\ run'.inputs = run.inputs /\ run'.checkpoint = run.checkpoint
          /\ run.turn \in Nat
      BY <1>0, <2>4 DEF RunStates
    <3>2. TurnLimitHolds'
      BY <2>4, <3>1, AgentRunAssumption DEF CanStartAnotherTurn
    <3> QED BY <2>1, <2>2, <2>4, <3>1, <3>2
  <2>5. run.stop \in Stops
    BY <1>0 DEF RunStates
  <2> QED BY <1>12, <2>3, <2>4, <2>5 DEF EndTurn, Stops, Reasons
<1> QED
  BY <1>1, <1>2, <1>3, <1>4, <1>5, <1>6, <1>7, <1>8, <1>9, <1>10, <1>11, <1>12

\* The end of a run.
LEMMA EndKeeps ==
  ASSUME RunTypeOK, RunInv,
         \/ EndWritten \/ RunCommitted \/ CommitHookFails \/ EndPublished
         \/ CloseFailedRun \/ Finish
  PROVE  RunInv'
<1> USE DEF RunInv, HistoryIsDurable, TurnIsOpen, CheckpointsRecoverable,
            WorkingFollows, TurnLimitHolds, HasTurnLimit, OpenPhases, SameRun, At
<1>1. CASE EndWritten
  <2>1. run'.phase = "commit" /\ SameRun
    BY <1>1, GotoRun DEF EndWritten
  <2>2. /\ journal'.turn = "closed" /\ journal'.messages = journal.messages
        /\ journal'.checkpoints = journal.checkpoints /\ journal.turn # "failed"
    BY <1>1 DEF EndWritten, JournalWorks, RunTypeOK
  <2> QED BY <1>1, <2>1, <2>2 DEF EndWritten
<1>2. CASE RunCommitted
  <2>1. run'.phase = "publish" /\ SameRun
    BY <1>2, GotoRun DEF RunCommitted
  <2> QED BY <1>2, <2>1 DEF RunCommitted
<1>3. CASE CommitHookFails
  <2>1. run'.phase = "finish" /\ SameRun
    BY <1>3, FailRun DEF CommitHookFails
  <2> QED BY <1>3, <2>1 DEF CommitHookFails
<1>4. CASE EndPublished
  <2>1. run'.phase = "finish" /\ SameRun
    BY <1>4, GotoRun DEF EndPublished
  <2> QED BY <1>4, <2>1 DEF EndPublished
<1>5. CASE CloseFailedRun
  <2>1. run'.phase = "finish" /\ SameRun
    BY <1>5, GotoRun DEF CloseFailedRun
  <2>2. /\ journal'.messages = journal.messages
        /\ journal'.checkpoints = journal.checkpoints /\ journal.turn # "failed"
    BY <1>5, JournalBreaksIt DEF CloseFailedRun, RunTypeOK
  <2> QED BY <1>5, <2>1, <2>2 DEF CloseFailedRun
<1>6. CASE Finish
  BY <1>6, AgentRunAssumption DEF Finish, NoRun
<1> QED BY <1>1, <1>2, <1>3, <1>4, <1>5, <1>6

LEMMA RunInvStep ==
  ASSUME RunTypeOK, QueueTypeOK, RunInv, [AgentNext]_vars
  PROVE  RunInv'
<1>1. CASE UNCHANGED vars
  BY <1>1 DEF vars, agentVars, RunInv, HistoryIsDurable, TurnIsOpen,
     CheckpointsRecoverable, WorkingFollows, TurnLimitHolds
<1>2. CASE RunStep
  BY <1>2, JournalFailureKeeps, RequestKeeps, TurnKeeps, EndKeeps DEF RunStep
<1> QED BY <1>1, <1>2, CompactKeeps, OwnerKeeps DEF AgentNext

THEOREM RunInvariance == AgentSpec => [](AgentTypeOK /\ RunInv)
<1>1. AgentInit => RunInv
  BY RunInvInit
<1>2. AgentTypeOK => RunTypeOK /\ QueueTypeOK
  BY DEF AgentTypeOK, RunTypeOK
<1>3. AgentTypeOK /\ RunInv /\ [AgentNext]_vars => RunInv'
  BY <1>2, RunInvStep
<1> QED BY <1>1, <1>3, AgentTypeCorrect, PTL DEF AgentSpec

\* The history never holds a message that a recovery would not bring back
\* (agent.ts:378-390).
THEOREM HistoryDurable == AgentSpec => []HistoryIsDurable
<1>1. RunInv => HistoryIsDurable
  BY DEF RunInv
<1> QED BY <1>1, RunInvariance, PTL

\* A model request sees the durable history and nothing else.
THEOREM RequestsSeeHistory == AgentSpec => []RequestsSeeTheHistory
<1>1. RunInv => RequestsSeeTheHistory
  BY DEF RunInv, WorkingFollows, RequestsSeeTheHistory
<1> QED BY <1>1, RunInvariance, PTL

\* While the journal works, a checkpoint takes effect only when the session can
\* recover it (agent.ts:399-405).
THEOREM CheckpointDurable == AgentSpec => []CheckpointIsDurable
<1>1. AgentTypeOK /\ RunInv => CheckpointIsDurable
  BY DEF RunInv, CheckpointsRecoverable, CheckpointIsDurable
<1> QED BY <1>1, RunInvariance, PTL

\* The run-committed hook and the published end see a durable run.
THEOREM EndDurable == AgentSpec => []EndIsDurable
<1>1. RunInv => EndIsDurable
  BY DEF RunInv, TurnIsOpen, WorkingFollows, EndIsDurable
<1> QED BY <1>1, RunInvariance, PTL

\* No run exceeds its turn limit, and none takes input it has no turn left for.
THEOREM TurnLimit == AgentSpec => []TurnLimitHolds
<1>1. RunInv => TurnLimitHolds
  BY DEF RunInv
<1> QED BY <1>1, RunInvariance, PTL

-----------------------------------------------------------------------------
(* What a run leaves behind.  The stable context is settled at every
   await, a run that stops by itself has answered what it took, an idle
   Agent has nothing in flight, and what it committed it announced.  The
   history only grows.  First the inductive invariant, next to RunInv. *)

\* Nothing waits in the next-step lane unless a run can still take it, and the
\* listeners know when it is empty.
LaneIsWatched ==
  /\ ~SteeringEnabled => nextStep = <<>>
  /\ nextStep = <<>> => view = Snapshot(nextStep, nextTurn)

\* A journal turn is open only in a run that has not been closed, and only a
\* run on its way out is done.
EndsInOrder ==
  /\ journal.turn = "open" => run.phase \in OpenPhases \cup {"journal_end"}
  /\ run.done => run.phase \in {"journal_end", "commit", "publish", "finish"}

\* A turn has taken input only after its deliveries, and all of them.
TookAtDelivery ==
  /\ run.phase \in {"assemble", "context", "request", "compact_write", "respond",
                    "record", "tools", "policy", "boundary", "consume"} => ~run.took
  /\ run.phase = "deliver" /\ run.inputs = <<>> => run.took

\* The last message is a reply, a result or what a policy added.
EndsAnswered(msgs) == msgs # <<>> /\ msgs[Len(msgs)].role # "user"

TurnsAreAnswered ==
  /\ run.phase = "boundary" => EndsAnswered(working)
  /\ run.done /\ run.reason \in {"stop", "length", "turn_limit"} => EndsAnswered(working)

\* What checkpoint c may summarise of msgs: nothing, or complete turns.
ValidCut(msgs, c) == c > 0 => c <= Len(msgs) /\ IsCompleteBoundary(msgs, c)

\* The checkpoints of the Agent and of its run summarise complete turns of the
\* history, and of the working context while that lags behind.
CutsAreValid ==
  /\ ValidCut(history, checkpoint)
  /\ ValidCut(history, run.checkpoint)
  /\ run.phase \in {"tools", "policy", "consume", "deliver"} =>
       run.checkpoint <= Len(working)

\* StableContextIsSettled, in terms of cuts.
StableIsSettled ==
  /\ IsPrefixOf(stable.messages, history)
  /\ run.phase \in {"tools", "policy"} => Len(stable.messages) < Len(working)
  /\ ValidCut(stable.messages, stable.checkpoint)

\* Unless something failed, what the run committed is announced or about to be.
CommittedIsDue ==
  /\ journal.turn = "failed" => faults > 0
  /\ faults = 0 =>
       \A i \in Inputs : fate[i] = "committed" =>
         \/ i \in announced
         \/ run.phase \in {"consume", "deliver"} /\ i \in ToSet(run.inputs)

SettledInv ==
  /\ EndsInOrder
  /\ TookAtDelivery
  /\ TurnsAreAnswered
  /\ CutsAreValid
  /\ StableIsSettled
  /\ CommittedIsDue

-----------------------------------------------------------------------------
(* Prefixes and cuts. *)

LEMMA PrefixRefl == \A s : s \in Seq(Message) => IsPrefixOf(s, s)
BY LenProperties DEF IsPrefixOf

\* What is appended leaves a prefix.
LEMMA PrefixConcat ==
  ASSUME NEW s \in Seq(Message), NEW t \in Seq(Message)
  PROVE  IsPrefixOf(s, s \o t)
<1>1. /\ s \o t \in Seq(Message) /\ Len(s \o t) = Len(s) + Len(t)
      /\ \A k \in 1..(Len(s) + Len(t)) :
           (s \o t)[k] = IF k <= Len(s) THEN s[k] ELSE t[k - Len(s)]
  BY ConcatProperties
<1>2. DOMAIN s = 1..Len(s) /\ Len(s) \in Nat /\ Len(t) \in Nat
  BY LenProperties
<1> QED BY <1>1, <1>2 DEF IsPrefixOf

LEMMA PrefixAppend ==
  ASSUME NEW s \in Seq(Message), NEW e \in Message
  PROVE  IsPrefixOf(s, Append(s, e)) /\ Len(Append(s, e)) = Len(s) + 1
<1>1. /\ Len(Append(s, e)) = Len(s) + 1
      /\ \A k \in 1..Len(s) : Append(s, e)[k] = s[k]
  BY AppendProperties
<1>2. DOMAIN s = 1..Len(s) /\ Len(s) \in Nat
  BY LenProperties
<1> QED BY <1>1, <1>2 DEF IsPrefixOf

LEMMA PrefixTrans ==
  ASSUME NEW s \in Seq(Message), NEW t \in Seq(Message), NEW u \in Seq(Message),
         IsPrefixOf(s, t), IsPrefixOf(t, u)
  PROVE  IsPrefixOf(s, u)
<1>1. /\ DOMAIN s = 1..Len(s) /\ Len(s) \in Nat /\ DOMAIN t = 1..Len(t)
      /\ Len(t) \in Nat /\ Len(u) \in Nat
  BY LenProperties
<1> QED BY <1>1 DEF IsPrefixOf

\* A complete boundary is one in every context that begins the same way.
LEMMA SameBoundary ==
  ASSUME NEW s \in Seq(Message), NEW t \in Seq(Message), NEW b \in Nat \ {0},
         b <= Len(s), b <= Len(t), \A k \in 1..b : s[k] = t[k]
  PROVE  IsCompleteBoundary(s, b) <=> IsCompleteBoundary(t, b)
<1>1. s[b] = t[b] /\ \A a \in 1..(b - 1) : s[a] = t[a]
  OBVIOUS
<1>2. ASSUME NEW a \in 1..(b - 1)
      PROVE  (\A k \in (a + 1)..b : s[k].role = "tool")
               <=> (\A k \in (a + 1)..b : t[k].role = "tool")
  <2>1. \A k \in (a + 1)..b : s[k] = t[k]
    OBVIOUS
  <2> QED BY <2>1
<1> QED BY <1>1, <1>2 DEF IsCompleteBoundary

\* A valid cut stays valid when the messages grow, and is valid of what of them
\* reaches that far.
LEMMA CutGrows ==
  ASSUME NEW s \in Seq(Message), NEW t \in Seq(Message), IsPrefixOf(s, t),
         NEW c \in Nat, ValidCut(s, c)
  PROVE  ValidCut(t, c)
<1>1. Len(s) \in Nat /\ Len(t) \in Nat /\ DOMAIN s = 1..Len(s)
  BY LenProperties
<1>2. CASE c > 0
  <2>1. c \in Nat \ {0} /\ c <= Len(s) /\ c <= Len(t) /\ \A k \in 1..c : s[k] = t[k]
    BY <1>1, <1>2 DEF ValidCut, IsPrefixOf
  <2> QED BY <1>2, <2>1, SameBoundary DEF ValidCut
<1> QED BY <1>2 DEF ValidCut

LEMMA CutShrinks ==
  ASSUME NEW s \in Seq(Message), NEW t \in Seq(Message), IsPrefixOf(s, t),
         NEW c \in Nat, ValidCut(t, c), c <= Len(s)
  PROVE  ValidCut(s, c)
<1>1. Len(s) \in Nat /\ Len(t) \in Nat /\ DOMAIN s = 1..Len(s)
  BY LenProperties
<1>2. CASE c > 0
  <2>1. c \in Nat \ {0} /\ c <= Len(s) /\ c <= Len(t) /\ \A k \in 1..c : s[k] = t[k]
    BY <1>1, <1>2 DEF ValidCut, IsPrefixOf
  <2> QED BY <1>2, <2>1, SameBoundary DEF ValidCut
<1> QED BY <1>2 DEF ValidCut

\* A compaction chooses a valid cut.
LEMMA CutoffIsValid ==
  ASSUME NEW msgs \in Seq(Message), NEW covered \in Nat, NEW b \in Cutoffs(msgs, covered)
  PROVE  b \in Nat /\ ValidCut(msgs, b)
BY LenProperties DEF Cutoffs, ValidCut

-----------------------------------------------------------------------------
(* The history only grows. *)

LEMMA HistoryStep ==
  ASSUME RunTypeOK, QueueTypeOK, RunInv, [AgentNext]_vars
  PROVE  /\ IsPrefixOf(history, history')
         /\ history' # history => journal'.turn = "open"
<1>0. /\ history \in Seq(Message) /\ IsPrefixOf(history, history)
      /\ run.prompt \in Seq(Inputs) /\ run.calls \in Nat
  BY PrefixRefl DEF RunTypeOK, RunStates
<1>1. CASE history' = history
  BY <1>0, <1>1
<1>2. ASSUME NEW msg \in Message, Commit(msg), run.phase \in OpenPhases
      PROVE  IsPrefixOf(history, history') /\ journal'.turn = "open"
  <2>1. journal.turn = "open" /\ HistoryIsDurable
    BY <1>2 DEF RunInv, TurnIsOpen
  <2> QED BY <1>0, <1>2, <2>1, CommitsBoth, PrefixAppend
<1>3. CASE PromptWritten
  <2>1. UserMessages(run.prompt) \in Seq(Message)
    BY <1>0, MessageTypes
  <2>2. journal'.turn = "open"
    BY <1>3 DEF PromptWritten, RunTypeOK
  <2> QED BY <1>0, <1>3, <2>1, <2>2, PrefixConcat DEF PromptWritten
<1>4. CASE ContextWritten \/ ReplyWritten \/ ToolResultWritten \/ PolicyWritten
  BY <1>0, <1>2, <1>4, MessageTypes
  DEF ContextWritten, ReplyWritten, ToolResultWritten, PolicyWritten, At, OpenPhases
<1>5. CASE InputWritten
  <2>1. PICK i \in committing : Commit(UserMessage(i))
    BY <1>5 DEF InputWritten
  <2>2. UserMessage(i) \in Message /\ run.phase \in OpenPhases
    BY <1>5, MessageTypes DEF QueueTypeOK, InputWritten, At, OpenPhases
  <2> QED BY <1>2, <2>1, <2>2
<1>6. CASE UNCHANGED vars \/ OwnerStep \/ CompactStep
  BY <1>1, <1>6 DEF vars, agentVars, OwnerStep, Steer, Enqueue, EnqueueBehind,
     CancelInput, Stream, StreamQueued, ClearInbox, Abort, Compact, StartRun,
     CompactStep, CompactSummarised, CompactJournaled, CompactAdopted,
     CompactFails, CompactJournalFails
<1>7. CASE \/ JournalFails \/ JournalFailsInAttempt
           \/ BeginTurn \/ AssembleUnchanged \/ AssembleChanged
           \/ AttemptFails \/ RequestPlain \/ RequestCompacted \/ CompactionWritten
           \/ ContextLimit \/ Reply \/ ReplyCut \/ ReplyEmpty
  BY <1>1, <1>7 DEF JournalFails, JournalFailsInAttempt, BeginTurn,
     AssembleUnchanged, AssembleChanged, AttemptFails, RequestPlain,
     RequestCompacted, CompactionWritten, ContextLimit, Reply, ReplyCut, ReplyEmpty
<1>8. CASE \/ TakeInputs \/ InputFails \/ DeliverInput \/ EndTurn
           \/ EndWritten \/ RunCommitted \/ CommitHookFails \/ EndPublished
           \/ CloseFailedRun \/ Finish
  BY <1>1, <1>8 DEF TakeInputs, InputFails, DeliverInput, EndTurn, EndWritten,
     RunCommitted, CommitHookFails, EndPublished, CloseFailedRun, Finish
<1> QED BY <1>3, <1>4, <1>5, <1>6, <1>7, <1>8 DEF AgentNext, RunStep

\* A message in the history stays where it is, whatever aborts, failures and
\* compactions follow, and none is added outside an open journal turn.
THEOREM HistoryGrows == AgentSpec => HistoryOnlyGrows
<1> DEFINE A == /\ IsPrefixOf(history, history')
                /\ history' # history => journal'.turn = "open"
<1>1. ASSUME AgentTypeOK, RunInv, [AgentNext]_vars PROVE [A]_vars
  BY <1>1, HistoryStep DEF AgentTypeOK, RunTypeOK
<1> QED BY <1>1, RunInvariance, PTL DEF AgentSpec, HistoryOnlyGrows

-----------------------------------------------------------------------------
(* The next-step lane. *)

\* Nothing is found in, or taken from, an empty lane.
LEMMA EmptyLaneStays ==
  ASSUME NEW T, NEW e
  PROVE  Kept(<<>>, T) = <<>> /\ Without(<<>>, e) = <<>> /\ ToSet(<<>>) = {}
<1>1. <<>> \in Seq(Inputs) /\ ToSet(<<>>) \cap T = {} /\ DOMAIN <<>> = {}
  BY DEF ToSet
<1> QED BY <1>1, KeptNone DEF Without, ToSet

\* Every change of the lanes is shown to the listeners, but for that of a
\* consume() that goes on: then the next-step lane is not empty.
LEMMA LaneShown ==
  ASSUME QueueTypeOK, [QueueNext]_queueVars,
         nextStep = <<>> => view = Snapshot(nextStep, nextTurn)
  PROVE  nextStep' = <<>> => view' = Snapshot(nextStep', nextTurn')
<1>1. CASE Changed
  BY <1>1 DEF Changed
<1>2. CASE UNCHANGED <<nextStep, nextTurn, view>>
  BY <1>2
<1>3. CASE CommitWritten
  <2>1. CASE committing' = {}
    BY <1>1, <1>3, <2>1 DEF CommitWritten
  <2>2. CASE committing' # {}
    BY <1>3, <2>2 DEF CommitWritten, Reserve
  <2> QED BY <2>1, <2>2
<1>4. CASE DeferPending
  <2>1. nextStep = <<>> => nextTurn \o nextStep = nextTurn
    BY ConcatEmptySeq DEF QueueTypeOK
  <2> QED BY <1>1, <1>4, <2>1 DEF DeferPending
<1>5. ASSUME NEW i \in Inputs,
             \/ EnqueueStep(i) \/ EnqueueTurn(i) \/ SteerIntoRun(i)
             \/ SteerForLater(i) \/ TakeDirectly(i) \/ Cancel(i)
      PROVE  Changed \/ UNCHANGED <<nextStep, nextTurn, view>>
  BY <1>5 DEF EnqueueStep, EnqueueTurn, SteerIntoRun, SteerForLater, TakeDirectly,
     Cancel
<1>6. CASE ShiftNextTurn \/ Clear \/ BeginConsume \/ CommitFailed
  BY <1>1, <1>2, <1>6 DEF ShiftNextTurn, Clear, BeginConsume, CommitFailed
<1> QED BY <1>1, <1>2, <1>3, <1>4, <1>5, <1>6 DEF QueueNext, queueVars

\* A step of a run leaves it in a phase that accepts steering, until it ends.
LEMMA RunGoesOn ==
  ASSUME RunTypeOK, RunStep, ~Finish
  PROVE  run'.phase \in PromptPhases
<1> USE DEF PromptPhases
<1>0. run \in RunStates
  BY DEF RunTypeOK
<1>1. CASE \E phase \in PromptPhases : Goto(phase)
  BY <1>1, GotoRun
<1>2. CASE Fail \/ \E reason \in Reasons : EndLoop(reason)
  BY <1>2, FailRun, EndLoopRun
<1>3. CASE PromptWritten
  BY <1>0, <1>3 DEF PromptWritten, RunStates
<1>4. CASE JournalFails \/ JournalFailsInAttempt \/ AttemptFails \/ InputFails
           \/ CommitHookFails
  BY <1>2, <1>4 DEF JournalFails, JournalFailsInAttempt, AttemptFails, InputFails,
     CommitHookFails, FailUnlessAborted, Reasons
<1>5. CASE \/ BeginTurn \/ AssembleUnchanged \/ AssembleChanged \/ ContextWritten
           \/ RequestPlain \/ CompactionWritten
  <2>1. CASE run' = [run EXCEPT !.phase = "assemble", !.forced = FALSE,
                                !.stop = "none", !.calls = 0, !.took = FALSE]
    BY <1>0, <2>1 DEF RunStates
  <2> QED BY <1>1, <1>2, <1>5, <2>1 DEF BeginTurn, AssembleUnchanged,
        AssembleChanged, ContextWritten, RequestPlain, CompactionWritten, Reasons
<1>6. CASE RequestCompacted
  BY <1>0, <1>6 DEF RequestCompacted, RunStates
<1>7. CASE ContextLimit
  <2>1. CASE run' = [run EXCEPT !.phase = "request", !.forced = TRUE]
    BY <1>0, <2>1 DEF RunStates
  <2> QED BY <1>2, <1>7, <2>1 DEF ContextLimit
<1>8. CASE Reply \/ ReplyCut
  <2>1. CASE Reply
    <3>1. PICK stop \in {"stop", "toolUse", "length"}, n \in 0..MaxCalls :
            run' = [run EXCEPT !.phase = "record", !.stop = stop, !.calls = n]
      BY <2>1 DEF Reply
    <3> QED BY <1>0, <3>1 DEF RunStates
  <2>2. CASE ReplyCut
    BY <1>0, <2>2 DEF ReplyCut, RunStates
  <2> QED BY <1>8, <2>1, <2>2
<1>9. CASE ReplyEmpty
  BY <1>2, <1>9 DEF ReplyEmpty, Reasons
<1>10. CASE ReplyWritten
  <2>1. CASE run' = [run EXCEPT !.phase = "tools", !.left = run.calls]
    BY <1>0, <2>1 DEF RunStates
  <2>2. run.stop \in {"error", "aborted"} => run.stop \in Reasons
    BY DEF Reasons
  <2> QED BY <1>1, <1>2, <1>10, <2>1, <2>2 DEF ReplyWritten, Reasons
<1>11. CASE ToolResultWritten \/ PolicyWritten
  <2>1. ASSUME NEW policy, EndToolTurn(policy) PROVE run'.phase \in PromptPhases
    BY <1>1, <1>2, <2>1 DEF EndToolTurn, Reasons
  <2>2. CASE run' = [run EXCEPT !.left = @ - 1]
    BY <1>0, <1>11, <2>2 DEF RunStates, ToolResultWritten, PolicyWritten, At
  <2>3. CASE run' = [run EXCEPT !.left = 0, !.phase = "policy"]
    BY <1>0, <2>3 DEF RunStates
  <2> QED BY <1>11, <2>1, <2>2, <2>3 DEF ToolResultWritten, PolicyWritten
<1>12. CASE TakeInputs \/ EndWritten \/ RunCommitted \/ EndPublished \/ CloseFailedRun
  BY <1>1, <1>12 DEF TakeInputs, EndWritten, RunCommitted, EndPublished, CloseFailedRun
<1>13. CASE InputWritten
  <2>1. PICK i \in committing :
          run' = [run EXCEPT !.inputs = Append(@, i),
                    !.phase = IF Len(nextStep) = 1 THEN "deliver" ELSE "consume"]
    BY <1>13 DEF InputWritten
  <2> QED BY <1>0, <2>1 DEF RunStates
<1>14. CASE DeliverInput
  BY <1>0, <1>14 DEF DeliverInput, RunStates, At
<1>15. CASE EndTurn
  <2>1. CASE run' = [run EXCEPT !.phase = "turn", !.turn = @ + 1]
    BY <1>0, <2>1 DEF RunStates
  <2>2. CASE EndLoop(run.stop) \/ EndLoop("turn_limit")
    BY <2>2, EndLoopRun
  <2> QED BY <1>15, <2>1, <2>2 DEF EndTurn
<1> QED BY <1>3, <1>4, <1>5, <1>6, <1>7, <1>8, <1>9, <1>10, <1>11, <1>12, <1>13,
      <1>14, <1>15 DEF RunStep

\* Only a run that accepts steering has anything in its lane.
LEMMA LaneStep ==
  ASSUME RunTypeOK, QueueTypeOK, LaneIsWatched, [AgentNext]_vars
  PROVE  LaneIsWatched'
<1>1. nextStep' = <<>> => view' = Snapshot(nextStep', nextTurn')
  BY LaneShown, AgentStepOfQueue DEF LaneIsWatched
<1>2. CASE RunStep
  <2>1. CASE Finish
    BY <1>1, <2>1 DEF Finish, DeferPending, LaneIsWatched
  <2>2. CASE ~Finish
    BY <1>1, <1>2, <2>2, RunGoesOn DEF LaneIsWatched, SteeringEnabled
  <2> QED BY <2>1, <2>2
<1>3. CASE CompactStep
  <2>1. ~SteeringEnabled /\ UNCHANGED queueVars
    BY <1>3 DEF CompactStep, CompactSummarised, CompactJournaled, CompactAdopted,
       CompactFails, CompactJournalFails, SteeringEnabled, PromptPhases, At
  <2> QED BY <1>1, <2>1 DEF LaneIsWatched, queueVars
<1>4. CASE UNCHANGED vars
  BY <1>1, <1>4 DEF vars, queueVars, agentVars, LaneIsWatched, SteeringEnabled
<1>5. CASE Compact \/ Abort
  <2>1. UNCHANGED queueVars
    BY <1>5 DEF Compact, Abort
  <2>2. CASE Compact
    BY <1>1, <2>1, <2>2 DEF Compact, LaneIsWatched, queueVars, SteeringEnabled,
       PromptPhases, Running
  <2>3. CASE Abort
    <3>1. run'.phase = run.phase
      BY <2>3 DEF Abort, RunTypeOK, RunStates
    <3> QED BY <1>1, <2>1, <3>1 DEF LaneIsWatched, queueVars, SteeringEnabled
  <2> QED BY <1>5, <2>2, <2>3
<1>6. ASSUME NEW prompt, StartRun(prompt) PROVE LaneIsWatched'
  <2>1. run'.phase = "journal_start"
    BY <1>6 DEF StartRun, NoRun
  <2> QED BY <1>1, <2>1 DEF LaneIsWatched, SteeringEnabled, PromptPhases
<1>7. ASSUME NEW i \in Inputs,
             Steer(i) \/ Enqueue(i) \/ EnqueueBehind(i) \/ CancelInput(i)
      PROVE  LaneIsWatched'
  <2>1. run' = run
    BY <1>7 DEF Steer, Enqueue, EnqueueBehind, CancelInput, agentVars
  <2>2. CASE SteeringEnabled
    BY <1>1, <2>1, <2>2 DEF LaneIsWatched, SteeringEnabled
  <2>3. CASE ~SteeringEnabled
    <3>1. nextStep = <<>>
      BY <2>3 DEF LaneIsWatched
    <3>2. nextStep' = <<>>
      BY <1>7, <2>3, <3>1, EmptyLaneStays DEF Steer, Enqueue, EnqueueBehind,
         CancelInput, SteerForLater, EnqueueTurn, Cancel
    <3> QED BY <1>1, <2>1, <3>2 DEF LaneIsWatched, SteeringEnabled
  <2> QED BY <2>2, <2>3
<1>8. CASE ClearInbox
  <2>1. run' = run /\ nextStep' = Kept(nextStep, committing)
    BY <1>8 DEF ClearInbox, Clear, agentVars
  <2> QED BY <1>1, <2>1, EmptyLaneStays DEF LaneIsWatched, SteeringEnabled
<1> QED BY <1>2, <1>3, <1>4, <1>5, <1>6, <1>7, <1>8
      DEF AgentNext, OwnerStep, Stream, StreamQueued

-----------------------------------------------------------------------------
(* Ways a step may go on. *)

LEMMA EndLoopEnds ==
  ASSUME RunTypeOK, NEW reason, EndLoop(reason)
  PROVE  /\ run'.phase = "journal_end" /\ run'.done = TRUE /\ run'.reason = reason
         /\ checkpoint' = run.checkpoint /\ SameRun
BY DEF EndLoop, RunTypeOK, RunStates, SameRun

LEMMA GotoGoes ==
  ASSUME RunTypeOK, NEW phase, Goto(phase)
  PROVE  /\ run'.phase = phase /\ SameRun /\ run'.took = run.took
         /\ run'.done = run.done /\ run'.reason = run.reason
BY DEF Goto, RunTypeOK, RunStates, SameRun

LEMMA FailFails ==
  ASSUME RunTypeOK, Fail
  PROVE  /\ run'.phase \in {"close", "finish"} /\ SameRun
         /\ run'.done = run.done /\ run'.reason = run.reason
         /\ run'.phase = "close" <=> journal'.turn = "open" /\ ~run.done
BY DEF Fail, RunTypeOK, RunStates, SameRun

LEMMA FaultCounts ==
  ASSUME RunTypeOK, Fault
  PROVE  faults' > 0
BY DEF Fault, RunTypeOK

\* Summarising nothing is always valid.
LEMMA NoCut == \A msgs : ValidCut(msgs, 0)
BY DEF ValidCut

\* What a longer history leaves of the cuts and of the stable context.
LEMMA HistoryGrown ==
  ASSUME RunTypeOK, CutsAreValid, StableIsSettled,
         history' \in Seq(Message), IsPrefixOf(history, history')
  PROVE  /\ ValidCut(history', checkpoint) /\ ValidCut(history', run.checkpoint)
         /\ IsPrefixOf(stable.messages, history')
<1>1. /\ history \in Seq(Message) /\ stable.messages \in Seq(Message)
      /\ checkpoint \in Nat /\ run.checkpoint \in Nat
  BY DEF RunTypeOK, RunStates
<1> QED BY <1>1, CutGrows, PrefixTrans DEF CutsAreValid, StableIsSettled

\* What is published as the stable context is settled.
LEMMA PublishedIsSettled ==
  ASSUME NEW msgs \in Seq(Message), NEW c \in Nat, NEW h \in Seq(Message),
         IsPrefixOf(msgs, h), ValidCut(h, c), c <= Len(msgs)
  PROVE  /\ IsPrefixOf(StableContext(msgs, c).messages, h)
         /\ ValidCut(StableContext(msgs, c).messages, StableContext(msgs, c).checkpoint)
BY CutShrinks DEF StableContext

\* A valid cut reaches no further than the messages.
LEMMA CutReach ==
  ASSUME NEW msgs \in Seq(Message), NEW c \in Nat, ValidCut(msgs, c)
  PROVE  c <= Len(msgs)
BY LenProperties DEF ValidCut

LEMMA AppendedEnd ==
  ASSUME NEW s \in Seq(Message), NEW e \in Message, e.role # "user"
  PROVE  EndsAnswered(Append(s, e))
BY AppendProperties, LenProperties DEF EndsAnswered

LEMMA ConcatenatedEnd ==
  ASSUME NEW s \in Seq(Message), NEW t \in Seq(Message), t # <<>>,
         t[Len(t)].role # "user"
  PROVE  EndsAnswered(s \o t)
<1>1. /\ s \o t \in Seq(Message) /\ Len(s \o t) = Len(s) + Len(t)
      /\ \A k \in 1..(Len(s) + Len(t)) :
           (s \o t)[k] = IF k <= Len(s) THEN s[k] ELSE t[k - Len(s)]
  BY ConcatProperties
<1>2. Len(s) \in Nat /\ Len(t) \in Nat /\ Len(t) > 0
  BY LenProperties, EmptySeq
<1> DEFINE c == s \o t
<1> HIDE DEF c
<1>3. c[Len(c)] = t[Len(t)] /\ Len(c) > 0
  <2>1. /\ Len(c) = Len(s) + Len(t) /\ Len(c) \in 1..(Len(s) + Len(t))
        /\ ~(Len(c) <= Len(s)) /\ Len(c) - Len(s) = Len(t)
    BY <1>1, <1>2 DEF c
  <2>2. c[Len(c)] = t[Len(c) - Len(s)]
    BY <1>1, <2>1 DEF c
  <2> QED BY <1>2, <2>1, <2>2
<1>4. c # <<>>
  BY <1>1, <1>3, EmptySeq DEF c
<1> QED BY <1>3, <1>4 DEF EndsAnswered, c

-----------------------------------------------------------------------------
(* The invariant is inductive. *)

LEMMA SettledInit == AgentInit => SettledInv /\ LaneIsWatched
<1>1. ASSUME AgentInit PROVE SettledInv /\ LaneIsWatched
  <2>1. IsPrefixOf(<<>>, <<>>) /\ ValidCut(<<>>, 0)
    BY NoCut, PrefixRefl, EmptySeq
  <2> QED BY <1>1, <2>1
      DEF AgentInit, QueueInit, NoRun, SettledInv, EndsInOrder, TookAtDelivery,
          TurnsAreAnswered, CutsAreValid, StableIsSettled, CommittedIsDue,
          LaneIsWatched, StableContext
<1> QED BY <1>1

\* What the owner does to the inbox commits nothing.
LEMMA OwnerCommitsNothing ==
  ASSUME QueueTypeOK, OwnerStep, NEW i \in Inputs, fate'[i] = "committed"
  PROVE  fate[i] = "committed"
<1> USE DEF QueueTypeOK
<1>1. ASSUME NEW j \in Inputs,
             \/ EnqueueStep(j) \/ EnqueueTurn(j) \/ SteerIntoRun(j)
             \/ SteerForLater(j) \/ TakeDirectly(j) \/ Cancel(j)
      PROVE  fate[i] = "committed"
  BY <1>1 DEF EnqueueStep, EnqueueTurn, SteerIntoRun, SteerForLater, TakeDirectly,
     Cancel
<1>2. CASE ShiftNextTurn
  BY <1>2 DEF ShiftNextTurn
<1>3. CASE Clear
  BY <1>3 DEF Clear
<1>4. CASE UNCHANGED queueVars
  BY <1>4 DEF queueVars
<1> QED BY <1>1, <1>2, <1>3, <1>4
      DEF OwnerStep, Steer, Enqueue, EnqueueBehind, CancelInput, Stream,
          StreamQueued, ClearInbox, Abort, Compact

LEMMA OwnerSettles ==
  ASSUME RunTypeOK, QueueTypeOK, RunInv, SettledInv, OwnerStep
  PROVE  SettledInv'
<1> USE DEF SettledInv, EndsInOrder, TookAtDelivery, TurnsAreAnswered, CutsAreValid,
            StableIsSettled, CommittedIsDue, OpenPhases
<1>0. ASSUME NEW i \in Inputs, fate'[i] = "committed" PROVE fate[i] = "committed"
  BY <1>0, OwnerCommitsNothing
<1>1. ASSUME NEW prompt, StartRun(prompt) PROVE SettledInv'
  BY <1>0, <1>1 DEF StartRun, NoRun, Running
<1>2. CASE UNCHANGED agentVars
  BY <1>0, <1>2 DEF agentVars
<1>3. CASE Abort
  <2>1. run' = [run EXCEPT !.aborted = TRUE] /\ run \in RunStates
    BY <1>3 DEF Abort, RunTypeOK
  <2>2. /\ run'.phase = run.phase /\ run'.inputs = run.inputs /\ run'.took = run.took
        /\ run'.done = run.done /\ run'.reason = run.reason
        /\ run'.checkpoint = run.checkpoint
    BY <2>1 DEF RunStates
  <2> QED BY <1>0, <1>3, <2>2 DEF Abort
<1>4. CASE Compact
  BY <1>0, <1>4 DEF Compact, NoRun, Running
<1> QED
  BY <1>1, <1>2, <1>3, <1>4
  DEF OwnerStep, Steer, Enqueue, EnqueueBehind, CancelInput, Stream, StreamQueued,
      ClearInbox

LEMMA CompactSettles ==
  ASSUME RunTypeOK, RunInv, SettledInv, CompactStep
  PROVE  SettledInv'
<1> USE DEF SettledInv, EndsInOrder, TookAtDelivery, TurnsAreAnswered, CutsAreValid,
            StableIsSettled, CommittedIsDue, OpenPhases, At
<1>0. /\ run \in RunStates /\ run.checkpoint \in Nat /\ history \in Seq(Message)
      /\ IsPrefixOf(history, history)
  BY PrefixRefl DEF RunTypeOK, RunStates
<1>a. fate' = fate /\ history' = history /\ announced' = announced /\ working' = working
  BY DEF CompactStep, CompactSummarised, CompactJournaled, CompactAdopted,
     CompactFails, CompactJournalFails, queueVars
<1>1. CASE CompactSummarised
  <2>1. PICK cutoff \in Cutoffs(history, run.checkpoint) :
          run' = [run EXCEPT !.phase = "compact_journal", !.checkpoint = cutoff]
    BY <1>1 DEF CompactSummarised
  <2>2. /\ run'.phase = "compact_journal" /\ run'.checkpoint = cutoff
        /\ run'.done = run.done /\ run'.reason = run.reason
    BY <1>0, <2>1 DEF RunStates
  <2>3. ValidCut(history, cutoff)
    BY <1>0, CutoffIsValid
  <2> QED BY <1>1, <1>a, <2>2, <2>3 DEF CompactSummarised
<1>2. CASE CompactJournaled
  <2>1. /\ run'.phase = "compact_hook" /\ SameRun
        /\ run'.done = run.done /\ run'.reason = run.reason
        /\ journal'.turn = journal.turn
    BY <1>2, GotoGoes DEF CompactJournaled, RunTypeOK
  <2> QED BY <1>2, <1>a, <2>1 DEF CompactJournaled, SameRun
<1>3. CASE CompactAdopted
  <2>1. /\ IsPrefixOf(stable'.messages, history')
        /\ ValidCut(stable'.messages, stable'.checkpoint)
    BY <1>0, <1>3, <1>a, CutReach, PublishedIsSettled DEF CompactAdopted
  <2> QED BY <1>3, <1>a, <2>1, NoCut DEF CompactAdopted, NoRun
<1>4. CASE CompactFails
  <2>1. faults' = faults \/ faults' > 0
    BY <1>4, FaultCounts DEF CompactFails, Broken
  <2>2. journal' = journal /\ stable' = stable /\ checkpoint' = checkpoint /\ run' = NoRun
        /\ run.phase \in {"summarise", "compact_hook"}
    BY <1>4 DEF CompactFails
  <2>3. journal.turn # "open"
    BY <2>2 DEF OpenPhases
  <2> QED BY <1>a, <2>1, <2>2, <2>3, NoCut DEF NoRun
<1>5. CASE CompactJournalFails
  <2>1. /\ journal'.turn = "failed" /\ (faults' > 0 \/ (faults' = faults /\ ~JournalWorks))
    BY <1>5, JournalBreaksIt, FaultCounts DEF CompactJournalFails, JournalBreaks
  <2>2. faults' > 0
    BY <2>1 DEF JournalWorks
  <2>3. stable' = stable /\ checkpoint' = checkpoint /\ run' = NoRun
    BY <1>5 DEF CompactJournalFails
  <2> QED BY <1>a, <2>1, <2>2, <2>3, NoCut DEF NoRun
<1> QED BY <1>1, <1>2, <1>3, <1>4, <1>5 DEF CompactStep


\* The journal refuses a write of the run.
LEMMA JournalFailureSettles ==
  ASSUME RunTypeOK, RunInv, SettledInv, JournalFails \/ JournalFailsInAttempt
  PROVE  SettledInv'
<1> USE DEF SettledInv, EndsInOrder, TookAtDelivery, TurnsAreAnswered, CutsAreValid,
            StableIsSettled, CommittedIsDue, OpenPhases, At, SameRun
<1>1. /\ journal'.turn = "failed" /\ UNCHANGED <<history, working, stable>>
      /\ ~run.done \/ run.phase = "journal_end"
  BY JournalBreaksIt DEF JournalFails, JournalFailsInAttempt
<1>2. faults' > 0
  <2>1. Fault \/ (faults' = faults /\ journal.turn = "failed")
    BY DEF JournalFails, JournalFailsInAttempt, JournalBreaks, JournalWorks
  <2> QED BY <2>1, FaultCounts
<1>3. CASE JournalFails \/ (Fail /\ UNCHANGED checkpoint)
  <2>1. /\ run'.phase = "finish" /\ SameRun /\ run'.done = run.done
        /\ run'.reason = run.reason /\ checkpoint' = checkpoint
    BY <1>1, <1>3, FailFails DEF JournalFails
  <2> QED BY <1>1, <1>2, <2>1
<1>4. CASE EndLoop("aborted")
  <2>1. /\ run'.phase = "journal_end" /\ run'.done = TRUE /\ run'.reason = "aborted"
        /\ checkpoint' = run.checkpoint /\ SameRun
    BY <1>4, EndLoopEnds
  <2> QED BY <1>1, <1>2, <2>1
<1> QED BY <1>3, <1>4 DEF JournalFailsInAttempt, FailUnlessAborted

\* A message of the run becomes durable.
LEMMA CommitGrows ==
  ASSUME RunTypeOK, RunInv, SettledInv, NEW msg \in Message, Commit(msg)
  PROVE  /\ history' = Append(history, msg) /\ journal'.turn = journal.turn
         /\ history' \in Seq(Message) /\ IsPrefixOf(history, history')
         /\ ValidCut(history', checkpoint) /\ ValidCut(history', run.checkpoint)
         /\ IsPrefixOf(stable.messages, history')
<1>1. history' = Append(history, msg) /\ journal'.turn = journal.turn
  BY CommitsBoth DEF RunInv
<1>2. history \in Seq(Message)
  BY DEF RunTypeOK
<1>3. history' \in Seq(Message) /\ IsPrefixOf(history, history')
  BY <1>1, <1>2, PrefixAppend, AppendProperties
<1> QED BY <1>1, <1>3, HistoryGrown DEF SettledInv

\* The loop goes on after the working context has caught up with the history,
\* with or without a new stable context.
LEMMA CaughtUp ==
  ASSUME RunTypeOK, history' \in Seq(Message), working' = history',
         NEW c \in Nat, ValidCut(history', c),
         IsPrefixOf(stable.messages, history'),
         ValidCut(stable.messages, stable.checkpoint),
         stable' = stable \/ stable' = StableContext(working', c)
  PROVE  /\ IsPrefixOf(stable'.messages, history')
         /\ ValidCut(stable'.messages, stable'.checkpoint)
<1>1. IsPrefixOf(working', history') /\ c <= Len(working')
  BY PrefixRefl, CutReach
<1>2. CASE stable' = stable
  BY <1>2
<1>3. CASE stable' = StableContext(working', c)
  <2>1. working' \in Seq(Message)
    OBVIOUS
  <2> QED BY <1>1, <1>3, <2>1, PublishedIsSettled
<1> QED BY <1>2, <1>3

\* The prompt and the model requests.
LEMMA RequestSettles ==
  ASSUME RunTypeOK, RunInv, SettledInv,
         \/ PromptWritten \/ BeginTurn \/ AssembleUnchanged \/ AssembleChanged
         \/ ContextWritten \/ AttemptFails \/ RequestPlain \/ RequestCompacted
         \/ CompactionWritten
  PROVE  SettledInv'
<1> USE DEF SettledInv, EndsInOrder, TookAtDelivery, TurnsAreAnswered, CutsAreValid,
            StableIsSettled, CommittedIsDue, OpenPhases, At, SameRun
<1>0. /\ run \in RunStates /\ run.checkpoint \in Nat /\ checkpoint \in Nat
      /\ history \in Seq(Message) /\ faults \in Nat
  BY DEF RunTypeOK, RunStates
<1>a. fate' = fate
  BY DEF PromptWritten, BeginTurn, AssembleUnchanged, AssembleChanged, ContextWritten,
     AttemptFails, RequestPlain, RequestCompacted, CompactionWritten, queueVars
<1>b. /\ TurnIsOpen
      /\ run.phase \in {"turn", "assemble", "context", "request", "compact_write"} =>
           working = history
  BY DEF RunInv, WorkingFollows
<1>1. CASE PromptWritten
  <2>1. /\ run'.phase = "turn" /\ run'.inputs = run.inputs /\ run'.done = run.done
        /\ run'.reason = run.reason /\ run'.checkpoint = run.checkpoint
        /\ journal'.turn = "open" /\ run.phase = "journal_start"
        /\ faults' = faults /\ checkpoint' = checkpoint
        /\ working' = history' /\ announced \subseteq announced'
        /\ stable' = StableContext(working', checkpoint)
    BY <1>0, <1>1 DEF PromptWritten, RunTypeOK, RunStates
  <2>2. history' \in Seq(Message) /\ IsPrefixOf(history, history')
    <3>1. UserMessages(run.prompt) \in Seq(Message)
      BY MessageTypes DEF RunTypeOK, RunStates
    <3> QED BY <1>0, <1>1, <3>1, PrefixConcat, ConcatProperties DEF PromptWritten
  <2>3. /\ ValidCut(history', checkpoint) /\ ValidCut(history', run.checkpoint)
        /\ IsPrefixOf(stable.messages, history')
    BY <2>2, HistoryGrown
  <2>4. /\ IsPrefixOf(stable'.messages, history')
        /\ ValidCut(stable'.messages, stable'.checkpoint)
    BY <1>0, <2>1, <2>2, <2>3, CaughtUp
  <2> QED BY <1>a, <2>1, <2>3, <2>4
<1>2. CASE BeginTurn
  <2>1. CASE run.aborted
    <3>1. /\ run'.phase = "journal_end" /\ run'.done = TRUE /\ run'.reason = "aborted"
          /\ checkpoint' = run.checkpoint /\ SameRun
      BY <1>2, <2>1, EndLoopEnds DEF BeginTurn
    <3> QED BY <1>2, <1>a, <3>1 DEF BeginTurn
  <2>2. CASE ~run.aborted
    <3>1. run' = [run EXCEPT !.phase = "assemble", !.forced = FALSE,
                             !.stop = "none", !.calls = 0, !.took = FALSE]
      BY <1>2, <2>2 DEF BeginTurn
    <3>2. /\ run'.phase = "assemble" /\ run'.took = FALSE /\ run'.done = run.done
          /\ run'.reason = run.reason /\ run'.checkpoint = run.checkpoint
      BY <1>0, <3>1 DEF RunStates
    <3> QED BY <1>2, <1>a, <2>2, <3>2 DEF BeginTurn
  <2> QED BY <2>1, <2>2
<1>3. CASE AssembleUnchanged
  <2>1. CASE EndLoop("aborted")
    <3>1. /\ run'.phase = "journal_end" /\ run'.done = TRUE /\ run'.reason = "aborted"
          /\ checkpoint' = run.checkpoint /\ SameRun
      BY <2>1, EndLoopEnds
    <3> QED BY <1>3, <1>a, <3>1 DEF AssembleUnchanged
  <2>2. CASE Goto("request") /\ UNCHANGED checkpoint
    <3>1. /\ run'.phase = "request" /\ SameRun /\ run'.took = run.took
          /\ run'.done = run.done /\ run'.reason = run.reason
      BY <2>2, GotoGoes
    <3> QED BY <1>3, <1>a, <2>2, <3>1 DEF AssembleUnchanged
  <2> QED BY <1>3, <2>1, <2>2 DEF AssembleUnchanged
<1>4. CASE AssembleChanged
  <2>1. /\ run'.phase = "context" /\ SameRun /\ run'.took = run.took
        /\ run'.done = run.done /\ run'.reason = run.reason
    BY <1>4, GotoGoes DEF AssembleChanged
  <2> QED BY <1>4, <1>a, <2>1 DEF AssembleChanged
<1>5. CASE ContextWritten
  <2>1. /\ history' = Append(history, ContextMessage) /\ journal'.turn = journal.turn
        /\ ValidCut(history', checkpoint) /\ ValidCut(history', run.checkpoint)
        /\ IsPrefixOf(stable.messages, history')
    BY <1>5, CommitGrows, MessageTypes DEF ContextWritten
  <2>2. CASE EndLoop("aborted")
    <3>1. /\ run'.phase = "journal_end" /\ run'.done = TRUE /\ run'.reason = "aborted"
          /\ checkpoint' = run.checkpoint /\ SameRun
      BY <2>2, EndLoopEnds
    <3> QED BY <1>5, <1>a, <2>1, <3>1 DEF ContextWritten
  <2>3. CASE Goto("request") /\ UNCHANGED checkpoint
    <3>1. /\ run'.phase = "request" /\ SameRun /\ run'.took = run.took
          /\ run'.done = run.done /\ run'.reason = run.reason
      BY <2>3, GotoGoes
    <3> QED BY <1>5, <1>a, <2>1, <2>3, <3>1 DEF ContextWritten
  <2> QED BY <1>5, <2>2, <2>3 DEF ContextWritten
<1>6. CASE AttemptFails
  <2>1. /\ run.phase \in {"assemble", "request", "respond"}
        /\ UNCHANGED <<history, working, stable, announced, journal>>
    BY <1>6 DEF AttemptFails
  <2>2. faults' = faults \/ faults' > 0
    BY <1>6, FaultCounts DEF AttemptFails, Broken
  <2>3. journal.turn = "open"
    BY <1>b, <2>1 DEF TurnIsOpen
  <2>4. CASE EndLoop("aborted")
    <3>1. /\ run'.phase = "journal_end" /\ run'.done = TRUE /\ run'.reason = "aborted"
          /\ checkpoint' = run.checkpoint /\ SameRun
      BY <2>4, EndLoopEnds
    <3> QED BY <1>a, <2>1, <2>2, <3>1
  <2>5. CASE Fail /\ UNCHANGED checkpoint
    <3>1. /\ run'.phase = "close" /\ SameRun /\ run'.done = run.done
          /\ run'.reason = run.reason
      BY <2>1, <2>3, <2>5, FailFails
    <3> QED BY <1>a, <2>1, <2>2, <2>5, <3>1
  <2> QED BY <1>6, <2>4, <2>5 DEF AttemptFails, FailUnlessAborted
<1>7. CASE RequestPlain
  <2>1. /\ run'.phase = "respond" /\ SameRun /\ run'.took = run.took
        /\ run'.done = run.done /\ run'.reason = run.reason
    BY <1>7, GotoGoes DEF RequestPlain
  <2> QED BY <1>7, <1>a, <2>1 DEF RequestPlain
<1>8. CASE RequestCompacted
  <2>1. PICK cutoff \in Cutoffs(working, run.checkpoint) :
          run' = [run EXCEPT !.phase = "compact_write", !.checkpoint = cutoff]
    BY <1>8 DEF RequestCompacted
  <2>2. /\ run'.phase = "compact_write" /\ run'.checkpoint = cutoff
        /\ run'.took = run.took /\ run'.done = run.done /\ run'.reason = run.reason
    BY <1>0, <2>1 DEF RunStates
  <2>3. working = history
    BY <1>8, <1>b DEF RequestCompacted
  <2>4. ValidCut(history, cutoff)
    BY <1>0, <2>3, CutoffIsValid
  <2> QED BY <1>8, <1>a, <2>2, <2>4 DEF RequestCompacted
<1>9. CASE CompactionWritten
  <2>1. /\ run'.phase = "respond" /\ SameRun /\ run'.took = run.took
        /\ run'.done = run.done /\ run'.reason = run.reason
    BY <1>9, GotoGoes DEF CompactionWritten
  <2>2. journal'.turn = journal.turn
    BY <1>9 DEF CompactionWritten, RunTypeOK
  <2> QED BY <1>9, <1>a, <2>1, <2>2 DEF CompactionWritten
<1> QED BY <1>1, <1>2, <1>3, <1>4, <1>5, <1>6, <1>7, <1>8, <1>9


\* The results of a tool turn.
LEMMA ToolMessagesLane ==
  \A n \in Nat : ToolMessages(n) \in Seq(Message) /\ Len(ToolMessages(n)) = n
<1>1. ASSUME NEW n \in Nat
      PROVE  ToolMessages(n) \in Seq(Message) /\ Len(ToolMessages(n)) = n
  BY MessageTypes DEF ToolMessages
<1> QED BY <1>1

\* The tool turn is over: the working context has caught up with the history and
\* is published.
LEMMA ToolTurnSettles ==
  ASSUME RunTypeOK, RunInv, SettledInv, NEW policy \in Seq(Message),
         EndToolTurn(policy), run.phase \in {"tools", "policy"},
         history' = working \o ToolMessages(run.calls) \o policy,
         history' \in Seq(Message),
         ValidCut(history', checkpoint), ValidCut(history', run.checkpoint),
         IsPrefixOf(stable.messages, history'),
         EndsAnswered(working'), journal'.turn = journal.turn,
         UNCHANGED <<faults, announced, fate>>
  PROVE  SettledInv'
<1> USE DEF SettledInv, EndsInOrder, TookAtDelivery, TurnsAreAnswered, CutsAreValid,
            StableIsSettled, CommittedIsDue, OpenPhases, At, SameRun
<1>0. run.checkpoint \in Nat
  BY DEF RunTypeOK, RunStates
<1>1. working' = history'
  BY DEF EndToolTurn, ToolMessages
<1>2. /\ IsPrefixOf(stable'.messages, history')
      /\ ValidCut(stable'.messages, stable'.checkpoint)
  BY <1>0, <1>1, CaughtUp DEF EndToolTurn
<1>3. CASE EndLoop("aborted")
  <2>1. /\ run'.phase = "journal_end" /\ run'.done = TRUE /\ run'.reason = "aborted"
        /\ checkpoint' = run.checkpoint /\ SameRun
    BY <1>3, EndLoopEnds
  <2> QED BY <1>2, <2>1
<1>4. CASE Goto("boundary") /\ UNCHANGED checkpoint
  <2>1. /\ run'.phase = "boundary" /\ SameRun /\ run'.took = run.took
        /\ run'.done = run.done /\ run'.reason = run.reason
    BY <1>4, GotoGoes
  <2> QED BY <1>2, <1>4, <2>1
<1> QED BY <1>3, <1>4 DEF EndToolTurn

\* Replies, tool results and steering.
LEMMA TurnSettles ==
  ASSUME RunTypeOK, QueueTypeOK, ClaimFindsItsItem, RunInv, SettledInv,
         \/ ContextLimit \/ Reply \/ ReplyCut \/ ReplyEmpty \/ ReplyWritten
         \/ ToolResultWritten \/ PolicyWritten
         \/ TakeInputs \/ InputWritten \/ InputFails \/ DeliverInput \/ EndTurn
  PROVE  SettledInv'
<1> USE DEF SettledInv, EndsInOrder, TookAtDelivery, TurnsAreAnswered, CutsAreValid,
            StableIsSettled, CommittedIsDue, OpenPhases, At, SameRun
<1>0. /\ run \in RunStates /\ run.checkpoint \in Nat /\ checkpoint \in Nat
      /\ run.calls \in Nat /\ run.left \in Nat /\ run.inputs \in Seq(Inputs)
      /\ history \in Seq(Message) /\ working \in Seq(Message) /\ faults \in Nat
      /\ stable.messages \in Seq(Message)
  BY DEF RunTypeOK, RunStates
<1>b. /\ TurnIsOpen
      /\ run.phase \in {"respond", "record", "boundary"} => working = history
      /\ run.phase = "record" /\ run.stop = "toolUse" => run.calls > 0
      /\ run.phase = "tools" =>
           /\ run.left \in 1..run.calls
           /\ history = working \o ToolMessages(run.calls - run.left)
      /\ run.phase = "policy" => history = working \o ToolMessages(run.calls)
      /\ run.phase \in {"consume", "deliver"} =>
           history = working \o UserMessages(run.inputs)
      /\ run.phase \in {"respond", "record", "tools", "policy", "boundary"} =>
           run.inputs = <<>>
  BY DEF RunInv, WorkingFollows
<1>1. CASE ContextLimit
  <2>1. /\ run.phase = "respond" /\ journal.turn = "open" /\ faults' > 0
        /\ UNCHANGED <<history, working, checkpoint, stable, journal, announced, fate>>
    BY <1>1, <1>b, FaultCounts DEF ContextLimit, TurnIsOpen, queueVars
  <2>2. CASE Fail
    <3>1. /\ run'.phase = "close" /\ SameRun /\ run'.done = run.done
          /\ run'.reason = run.reason
      BY <2>1, <2>2, FailFails
    <3> QED BY <2>1, <3>1
  <2>3. CASE run' = [run EXCEPT !.phase = "request", !.forced = TRUE]
    <3>1. /\ run'.phase = "request" /\ run'.took = run.took /\ run'.done = run.done
          /\ run'.reason = run.reason /\ run'.checkpoint = run.checkpoint
      BY <1>0, <2>3 DEF RunStates
    <3> QED BY <2>1, <3>1
  <2> QED BY <1>1, <2>2, <2>3 DEF ContextLimit
<1>2. CASE Reply \/ ReplyCut
  <2>1. /\ run'.phase = "record" /\ run'.took = run.took /\ run'.done = run.done
        /\ run'.reason = run.reason /\ run'.checkpoint = run.checkpoint
    <3>1. CASE Reply
      <4>1. PICK stop \in {"stop", "toolUse", "length"}, n \in 0..MaxCalls :
              run' = [run EXCEPT !.phase = "record", !.stop = stop, !.calls = n]
        BY <3>1 DEF Reply
      <4> QED BY <1>0, <4>1 DEF RunStates
    <3>2. CASE ReplyCut
      BY <1>0, <3>2 DEF ReplyCut, RunStates
    <3> QED BY <1>2, <3>1, <3>2
  <2>2. faults' = faults \/ faults' > 0
    BY <1>2, FaultCounts DEF Reply, ReplyCut, Broken
  <2>3. /\ run.phase = "respond"
        /\ UNCHANGED <<history, working, checkpoint, stable, journal, announced, fate>>
    BY <1>2 DEF Reply, ReplyCut, queueVars
  <2> QED BY <2>1, <2>2, <2>3
<1>3. CASE ReplyEmpty
  <2>1. /\ run'.phase = "journal_end" /\ run'.done = TRUE
        /\ run'.reason \in {"aborted", "error"} /\ checkpoint' = run.checkpoint
        /\ SameRun
    BY <1>3, EndLoopEnds DEF ReplyEmpty
  <2>2. /\ run.phase = "respond" /\ working = history
        /\ stable' = StableContext(working', run.checkpoint)
        /\ UNCHANGED <<history, working, journal, announced, fate>>
    BY <1>3, <1>b DEF ReplyEmpty, queueVars
  <2>3. faults' = faults \/ faults' > 0
    BY <1>3, FaultCounts DEF ReplyEmpty, Broken
  <2>4. /\ IsPrefixOf(stable'.messages, history')
        /\ ValidCut(stable'.messages, stable'.checkpoint)
    BY <1>0, <2>2, CaughtUp
  <2> QED BY <2>1, <2>2, <2>3, <2>4
<1>4. CASE ReplyWritten
  <2>1. AssistantMessage(run.calls) \in Message /\ AssistantMessage(run.calls).role # "user"
    BY <1>0, MessageTypes DEF AssistantMessage
  <2>2. /\ history' = Append(history, AssistantMessage(run.calls))
        /\ journal'.turn = journal.turn /\ history' \in Seq(Message)
        /\ ValidCut(history', checkpoint) /\ ValidCut(history', run.checkpoint)
        /\ IsPrefixOf(stable.messages, history')
    BY <1>4, <2>1, CommitGrows DEF ReplyWritten
  <2>3. /\ run.phase = "record" /\ working' = history'
        /\ stable' = stable \/ stable' = StableContext(working', run.checkpoint)
        /\ UNCHANGED <<faults, announced, fate>>
    BY <1>4, <1>b, <2>2 DEF ReplyWritten, queueVars
  <2>4. /\ IsPrefixOf(stable'.messages, history')
        /\ ValidCut(stable'.messages, stable'.checkpoint)
    BY <1>0, <2>2, <2>3, CaughtUp
  <2>5. EndsAnswered(working')
    BY <1>0, <2>1, <2>2, <2>3, AppendedEnd
  <2>6. CASE \E reason \in {"error", "aborted"} : EndLoop(reason)
    <3>1. /\ run'.phase = "journal_end" /\ run'.done = TRUE
          /\ run'.reason \in {"error", "aborted"}
          /\ checkpoint' = run.checkpoint /\ SameRun
      BY <2>6, EndLoopEnds
    <3> QED BY <2>2, <2>3, <2>4, <2>5, <3>1
  <2>7. CASE Goto("boundary") /\ UNCHANGED checkpoint
    <3>1. /\ run'.phase = "boundary" /\ SameRun /\ run'.took = run.took
          /\ run'.done = run.done /\ run'.reason = run.reason
      BY <2>7, GotoGoes
    <3> QED BY <2>2, <2>3, <2>4, <2>5, <2>7, <3>1
  <2>8. CASE /\ run.stop = "toolUse" /\ UNCHANGED checkpoint
             /\ run' = [run EXCEPT !.phase = "tools", !.left = run.calls]
    <3>1. /\ run'.phase = "tools" /\ run'.took = run.took /\ run'.done = run.done
          /\ run'.reason = run.reason /\ run'.checkpoint = run.checkpoint
      BY <1>0, <2>8 DEF RunStates
    <3>2. run.calls # 0
      BY <1>0, <1>b, <2>3, <2>8
    <3>3. stable' = stable /\ Len(working') = Len(working) + 1 /\ working = history
      BY <1>0, <1>4, <1>b, <2>1, <3>2, PrefixAppend DEF ReplyWritten
    <3>4. Len(stable.messages) <= Len(history) /\ run.checkpoint <= Len(history)
      BY <1>0, CutReach DEF IsPrefixOf
    <3>5. /\ Len(history) \in Nat /\ Len(stable.messages) \in Nat
      BY <1>0, LenProperties
    <3>6. Len(stable'.messages) < Len(working') /\ run'.checkpoint <= Len(working')
      BY <1>0, <3>1, <3>3, <3>4, <3>5
    <3> QED BY <2>2, <2>3, <2>4, <2>8, <3>1, <3>6
  <2> QED BY <1>4, <2>6, <2>7, <2>8 DEF ReplyWritten
<1>5. CASE ToolResultWritten
  <2>1. ToolMessage \in Message /\ ToolMessage.role # "user"
    BY MessageTypes DEF ToolMessage
  <2>2. /\ history' = Append(history, ToolMessage)
        /\ journal'.turn = journal.turn /\ history' \in Seq(Message)
        /\ ValidCut(history', checkpoint) /\ ValidCut(history', run.checkpoint)
        /\ IsPrefixOf(stable.messages, history')
    BY <1>5, <2>1, CommitGrows DEF ToolResultWritten
  <2>3. run.phase = "tools" /\ UNCHANGED <<faults, announced, fate>>
    BY <1>5 DEF ToolResultWritten, queueVars
  <2>4. CASE /\ UNCHANGED <<working, stable, checkpoint>>
             /\ \/ run' = [run EXCEPT !.left = @ - 1]
                \/ run' = [run EXCEPT !.left = 0, !.phase = "policy"]
    <3>1. /\ run'.phase \in {"tools", "policy"} /\ run'.took = run.took
          /\ run'.done = run.done /\ run'.reason = run.reason
          /\ run'.checkpoint = run.checkpoint
      BY <1>0, <2>3, <2>4 DEF RunStates
    <3> QED BY <2>2, <2>3, <2>4, <3>1
  <2>5. CASE run.left = 1 /\ EndToolTurn(<<>>)
    <3>1. run.calls > 0 /\ run.calls - run.left \in Nat
          /\ run.calls - run.left + 1 = run.calls
      BY <1>0, <1>b, <2>3, <2>5
    <3>2. history' = working \o ToolMessages(run.calls)
      BY <1>0, <1>b, <2>2, <2>3, <3>1, OneMoreResult
    <3>3. history' = working \o ToolMessages(run.calls) \o <<>>
      BY <2>2, <3>2, ConcatEmptySeq
    <3>4. EndsAnswered(working')
      <4>1. /\ ToolMessages(run.calls) \in Seq(Message)
            /\ Len(ToolMessages(run.calls)) = run.calls
        BY <1>0, ToolMessagesLane
      <4>2. ToolMessages(run.calls) # <<>>
        BY <3>1, <4>1, EmptySeq
      <4>3. ToolMessages(run.calls)[run.calls] = ToolMessage
        BY <1>0, <3>1 DEF ToolMessages
      <4>4. working' = history'
        BY <2>5, <3>3 DEF EndToolTurn, ToolMessages
      <4> QED BY <1>0, <2>1, <3>2, <4>1, <4>2, <4>3, <4>4, ConcatenatedEnd
    <3> QED BY <2>2, <2>3, <2>5, <3>3, <3>4, EmptySeq, ToolTurnSettles
  <2> QED BY <1>5, <2>4, <2>5 DEF ToolResultWritten
<1>6. CASE PolicyWritten
  <2>1. ContextMessage \in Message /\ ContextMessage.role # "user"
    BY MessageTypes DEF ContextMessage
  <2>2. /\ history' = Append(history, ContextMessage)
        /\ journal'.turn = journal.turn /\ history' \in Seq(Message)
        /\ ValidCut(history', checkpoint) /\ ValidCut(history', run.checkpoint)
        /\ IsPrefixOf(stable.messages, history')
    BY <1>6, <2>1, CommitGrows DEF PolicyWritten
  <2>3. run.phase = "policy" /\ UNCHANGED <<faults, announced, fate>>
    BY <1>6 DEF PolicyWritten, queueVars
  <2>4. history' = working \o ToolMessages(run.calls) \o <<ContextMessage>>
    BY <1>0, <1>b, <2>1, <2>2, <2>3, AppendIsConcat
  <2>5. EndsAnswered(working')
    <3>1. working' = history'
      BY <1>6, <2>4 DEF PolicyWritten, EndToolTurn, ToolMessages
    <3> QED BY <1>0, <2>1, <2>2, <3>1, AppendedEnd
  <2>6. <<ContextMessage>> \in Seq(Message)
    BY <2>1
  <2> QED BY <1>6, <2>2, <2>3, <2>4, <2>5, <2>6, ToolTurnSettles DEF PolicyWritten
<1>7. CASE TakeInputs
  <2>1. /\ run'.phase = "consume" /\ SameRun /\ run'.took = run.took
        /\ run'.done = run.done /\ run'.reason = run.reason
    BY <1>7, GotoGoes DEF TakeInputs
  <2>2. /\ run.phase = "boundary" /\ working = history
        /\ UNCHANGED <<history, working, checkpoint, stable, journal, announced,
                       faults, fate>>
    BY <1>7, <1>b DEF TakeInputs, BeginConsume
  <2>3. run.checkpoint <= Len(working)
    BY <1>0, <2>2, CutReach
  <2> QED BY <2>1, <2>2, <2>3
<1>8. CASE InputWritten
  <2>1. PICK i \in committing :
          /\ Commit(UserMessage(i))
          /\ run' = [run EXCEPT !.inputs = Append(@, i),
                      !.phase = IF Len(nextStep) = 1 THEN "deliver" ELSE "consume"]
    BY <1>8 DEF InputWritten
  <2>2. /\ run'.phase \in {"deliver", "consume"} /\ run'.took = run.took
        /\ run'.done = run.done /\ run'.reason = run.reason
        /\ run'.inputs = Append(run.inputs, i) /\ run'.checkpoint = run.checkpoint
    BY <1>0, <2>1 DEF RunStates
  <2>3. i \in Inputs /\ UserMessage(i) \in Message
    BY MessageTypes DEF QueueTypeOK
  <2>4. /\ journal'.turn = journal.turn /\ ValidCut(history', checkpoint)
        /\ ValidCut(history', run.checkpoint) /\ IsPrefixOf(stable.messages, history')
    BY <2>1, <2>3, CommitGrows
  <2>5. /\ run'.inputs # <<>> /\ ToSet(run'.inputs) = ToSet(run.inputs) \cup {i}
    <3>1. run.inputs \in Seq(Inputs) /\ i \in Inputs
      BY <1>0, <2>3
    <3>2. \A s \in Seq(Inputs), e \in Inputs :
            Append(s, e) # <<>> /\ ToSet(Append(s, e)) = ToSet(s) \cup {e}
      BY AppendLane, Zenon
    <3> QED BY <2>2, <3>1, <3>2
  <2>6. /\ run.phase = "consume"
        /\ UNCHANGED <<working, checkpoint, stable, announced, faults>>
    BY <1>8 DEF InputWritten
  <2>7. ASSUME NEW j \in Inputs, fate'[j] = "committed"
        PROVE  fate[j] = "committed" \/ j = i
    <3>1. PICK k \in committing : /\ fate' = [fate EXCEPT ![k] = "committed"]
                                  /\ nextStep' = Tail(nextStep)
      BY <1>8 DEF InputWritten, CommitWritten
    <3>2. CASE j = k
      <4>1. i = k
        BY <2>1, <3>1 DEF ClaimFindsItsItem
      <4> QED BY <3>2, <4>1
    <3>3. CASE j # k
      BY <2>7, <3>1, <3>3 DEF QueueTypeOK
    <3> QED BY <3>2, <3>3
  <2> QED BY <2>2, <2>4, <2>5, <2>6, <2>7
<1>9. CASE InputFails
  <2>1. /\ run'.phase = "finish" /\ SameRun /\ journal'.turn = "failed"
        /\ run'.done = run.done /\ run'.reason = run.reason
    BY <1>9, FailFails, JournalBreaksIt DEF InputFails
  <2>2. faults' > 0
    <3>1. Fault \/ (faults' = faults /\ journal.turn = "failed")
      BY <1>9 DEF InputFails, JournalBreaks, JournalWorks
    <3> QED BY <3>1, FaultCounts
  <2>3. /\ run.phase = "consume"
        /\ UNCHANGED <<history, working, checkpoint, stable, announced>>
    BY <1>9 DEF InputFails
  <2> QED BY <2>1, <2>2, <2>3
<1>10. CASE DeliverInput
  <2>1. run' = [run EXCEPT !.inputs = Tail(@), !.took = TRUE]
    BY <1>10 DEF DeliverInput
  <2>2. /\ run'.phase = "deliver" /\ run'.took = TRUE /\ run'.done = run.done
        /\ run'.reason = run.reason /\ run'.inputs = Tail(run.inputs)
        /\ run'.checkpoint = run.checkpoint /\ run.phase = "deliver"
    BY <1>0, <1>10, <2>1 DEF RunStates, DeliverInput
  <2>3. /\ run.inputs # <<>> /\ announced' = announced \cup {Head(run.inputs)}
        /\ working' = Append(working, UserMessage(Head(run.inputs)))
        /\ UNCHANGED <<history, checkpoint, journal, faults, fate>>
        /\ stable' = stable \/ stable' = StableContext(working', run.checkpoint)
    BY <1>10 DEF DeliverInput, queueVars
  <2>4. /\ Head(run.inputs) \in Inputs /\ Tail(run.inputs) \in Seq(Inputs)
        /\ UserMessage(Head(run.inputs)) \in Message
    BY <1>0, <2>3, HeadTailProperties, MessageTypes
  <2>5. /\ working' \in Seq(Message) /\ Len(working') = Len(working) + 1
        /\ Len(working) \in Nat
    BY <1>0, <2>3, <2>4, AppendProperties, LenProperties
  <2>6. IsPrefixOf(working', history')
    <3>1. history = working' \o UserMessages(Tail(run.inputs))
      BY <1>0, <1>b, <2>2, <2>3, FirstInputJoins
    <3>2. UserMessages(Tail(run.inputs)) \in Seq(Message)
      BY <2>4, MessageTypes
    <3> QED BY <2>3, <2>5, <3>1, <3>2, PrefixConcat
  <2>7. run.checkpoint <= Len(working')
    BY <1>0, <2>2, <2>5
  <2>8. /\ IsPrefixOf(stable'.messages, history')
        /\ ValidCut(stable'.messages, stable'.checkpoint)
    <3>1. history' = history /\ ValidCut(history', run.checkpoint)
      BY <2>3
    <3> QED BY <1>0, <2>3, <2>5, <2>6, <2>7, <3>1, PublishedIsSettled
  <2>9. \A j \in ToSet(run.inputs) : j = Head(run.inputs) \/ j \in ToSet(run'.inputs)
    <3>1. /\ Len(Tail(run.inputs)) = Len(run.inputs) - 1
          /\ \A k \in 1..Len(Tail(run.inputs)) : Tail(run.inputs)[k] = run.inputs[k + 1]
          /\ Head(run.inputs) = run.inputs[1] /\ Len(run.inputs) \in Nat \ {0}
      BY <1>0, <2>3, HeadTailProperties, EmptySeq
    <3>2. ASSUME NEW k \in 1..Len(run.inputs), k # 1
          PROVE  run.inputs[k] \in ToSet(run'.inputs)
      <4>1. k - 1 \in 1..Len(Tail(run.inputs)) /\ (k - 1) + 1 = k
        BY <3>1, <3>2
      <4>2. Tail(run.inputs)[k - 1] = run.inputs[k]
        BY <3>1, <4>1
      <4>3. Tail(run.inputs)[k - 1] \in ToSet(Tail(run.inputs))
        BY <2>4, <4>1, InLane
      <4> QED BY <2>2, <4>2, <4>3
    <3>3. \A j \in ToSet(run.inputs) : \E k \in 1..Len(run.inputs) : run.inputs[k] = j
      BY <1>0, InLane
    <3> QED BY <3>1, <3>2, <3>3
  <2> QED BY <2>2, <2>3, <2>7, <2>8, <2>9
<1>11. CASE EndTurn
  <2>1. /\ run.phase \in {"boundary", "deliver"}
        /\ run.phase = "deliver" => run.inputs = <<>> /\ run.took
        /\ run.phase = "boundary" => run.inputs = <<>> /\ ~run.took
        /\ UNCHANGED <<history, working, stable, journal, announced, faults, fate>>
    BY <1>11, <1>b DEF EndTurn, queueVars
  <2>2. run.phase = "deliver" => CanStartAnotherTurn
    BY DEF RunInv, TurnLimitHolds, CanStartAnotherTurn
  <2>3. ToSet(<<>>) = {}
    BY EmptyLaneStays
  <2>4. ASSUME NEW reason, EndLoop(reason), run.phase = "boundary" PROVE SettledInv'
    <3>1. /\ run'.phase = "journal_end" /\ run'.done = TRUE /\ run'.reason = reason
          /\ checkpoint' = run.checkpoint /\ SameRun
      BY <2>4, EndLoopEnds
    <3>2. EndsAnswered(working')
      BY <2>1, <2>4
    <3> QED BY <2>1, <2>4, <3>1, <3>2
  <2>5. CASE /\ run' = [run EXCEPT !.phase = "turn", !.turn = @ + 1]
             /\ UNCHANGED checkpoint
    <3>1. /\ run'.phase = "turn" /\ run'.took = run.took /\ run'.done = run.done
          /\ run'.reason = run.reason /\ run'.inputs = run.inputs
          /\ run'.checkpoint = run.checkpoint
      BY <1>0, <2>5 DEF RunStates
    <3> QED BY <2>1, <2>3, <2>5, <3>1
  <2> QED BY <1>11, <2>1, <2>2, <2>4, <2>5 DEF EndTurn
<1> QED
  BY <1>1, <1>2, <1>3, <1>4, <1>5, <1>6, <1>7, <1>8, <1>9, <1>10, <1>11

\* The end of a run.
LEMMA EndSettles ==
  ASSUME RunTypeOK, RunInv, SettledInv,
         \/ EndWritten \/ RunCommitted \/ CommitHookFails \/ EndPublished
         \/ CloseFailedRun \/ Finish
  PROVE  SettledInv'
<1> USE DEF SettledInv, EndsInOrder, TookAtDelivery, TurnsAreAnswered, CutsAreValid,
            StableIsSettled, CommittedIsDue, OpenPhases, At, SameRun
<1>0. run \in RunStates /\ TurnIsOpen
  BY DEF RunTypeOK, RunInv
<1>1. CASE EndWritten
  <2>1. /\ run'.phase = "commit" /\ SameRun /\ run'.done = run.done
        /\ run'.reason = run.reason /\ journal'.turn = "closed"
    BY <1>1, GotoGoes DEF EndWritten, RunTypeOK
  <2>2. /\ run.phase = "journal_end"
        /\ UNCHANGED <<history, working, checkpoint, stable, announced, faults, fate>>
    BY <1>1 DEF EndWritten, queueVars
  <2> QED BY <2>1, <2>2
<1>2. CASE RunCommitted \/ EndPublished
  <2>1. /\ run'.phase \in {"publish", "finish"} /\ SameRun /\ run'.done = run.done
        /\ run'.reason = run.reason
    BY <1>2, GotoGoes DEF RunCommitted, EndPublished
  <2>2. /\ run.phase \in {"commit", "publish"} /\ journal.turn = "closed"
        /\ UNCHANGED <<history, working, checkpoint, stable, journal, announced,
                       faults, fate>>
    BY <1>0, <1>2 DEF RunCommitted, EndPublished, TurnIsOpen, queueVars
  <2> QED BY <2>1, <2>2
<1>3. CASE CommitHookFails
  <2>1. /\ run'.phase = "finish" /\ SameRun /\ run'.done = run.done
        /\ run'.reason = run.reason
    BY <1>0, <1>3, FailFails DEF CommitHookFails, TurnIsOpen
  <2>2. /\ run.phase = "commit" /\ journal.turn = "closed" /\ faults' > 0
        /\ UNCHANGED <<history, working, checkpoint, stable, journal, announced, fate>>
    BY <1>0, <1>3, FaultCounts DEF CommitHookFails, TurnIsOpen, queueVars
  <2> QED BY <2>1, <2>2
<1>4. CASE CloseFailedRun
  <2>1. /\ run'.phase = "finish" /\ SameRun /\ run'.done = run.done
        /\ run'.reason = run.reason
    BY <1>4, GotoGoes DEF CloseFailedRun
  <2>2. \/ journal'.turn = "closed" /\ faults' = faults
        \/ journal'.turn = "failed" /\ faults' > 0
    <3>1. CASE JournalBreaks
      <4>1. Fault \/ (faults' = faults /\ journal.turn = "failed")
        BY <3>1 DEF JournalBreaks, JournalWorks
      <4> QED BY <3>1, <4>1, FaultCounts, JournalBreaksIt
    <3> QED BY <1>4, <3>1 DEF CloseFailedRun, RunTypeOK
  <2>3. /\ run.phase = "close"
        /\ UNCHANGED <<history, working, checkpoint, stable, announced, fate>>
    BY <1>4 DEF CloseFailedRun, queueVars
  <2> QED BY <2>1, <2>2, <2>3
<1>5. CASE Finish
  BY <1>5, NoCut DEF Finish, DeferPending, NoRun
<1> QED BY <1>1, <1>2, <1>3, <1>4, <1>5

LEMMA SettledStep ==
  ASSUME AgentTypeOK, ClaimFindsItsItem, RunInv, SettledInv, LaneIsWatched,
         [AgentNext]_vars
  PROVE  SettledInv' /\ LaneIsWatched'
<1>0. RunTypeOK /\ QueueTypeOK
  BY DEF AgentTypeOK, RunTypeOK
<1>1. SettledInv'
  <2>1. CASE UNCHANGED vars
    BY <2>1 DEF vars, agentVars, queueVars, SettledInv, EndsInOrder, TookAtDelivery,
       TurnsAreAnswered, CutsAreValid, StableIsSettled, CommittedIsDue
  <2>2. CASE RunStep
    BY <1>0, <2>2, JournalFailureSettles, RequestSettles, TurnSettles, EndSettles
       DEF RunStep
  <2> QED BY <1>0, <2>1, <2>2, CompactSettles, OwnerSettles DEF AgentNext
<1> QED BY <1>0, <1>1, LaneStep

THEOREM SettledInvariance == AgentSpec => [](SettledInv /\ LaneIsWatched)
<1>1. AgentInit => SettledInv /\ LaneIsWatched
  BY SettledInit
<1>2. ASSUME AgentTypeOK, RunInv, ClaimFindsItsItem, SettledInv, LaneIsWatched,
             [AgentNext]_vars
      PROVE  SettledInv' /\ LaneIsWatched'
  BY <1>2, SettledStep
<1> QED BY <1>1, <1>2, RunInvariance, AgentKeepsInputs, PTL DEF AgentSpec

-----------------------------------------------------------------------------
(* The theorem. *)

\* For any inputs, turn limit and failures: the stable context is at every await
\* a settled prefix of the history, a run that stopped by itself has answered the
\* input it took, an idle Agent has left nothing in flight, and unless something
\* failed it has announced what it committed (agent.ts:376-470, loop.ts).
THEOREM AgentConsistent == AgentSpec => []AgentIsConsistent
<1>1. ASSUME AgentTypeOK, RunInv, SettledInv, LaneIsWatched, WaitersAreQueued
      PROVE  AgentIsConsistent
  <2> USE DEF SettledInv
  <2>1. StableContextIsSettled
    <3>1. stable.checkpoint \in Nat
      BY <1>1 DEF AgentTypeOK
    <3> QED BY <1>1, <3>1 DEF StableIsSettled, StableContextIsSettled, ValidCut
  <2>2. AcceptedInputIsAnswered
    BY <1>1 DEF TurnsAreAnswered, AcceptedInputIsAnswered, EndsAnswered
  <2>3. IdleIsClean
    <3>1. SUFFICES ASSUME run.phase = "idle"
                   PROVE  /\ journal.turn # "open" /\ nextStep = <<>>
                          /\ \A i \in Inputs : promise[i] # "pending"
                          /\ view = Snapshot(nextStep, nextTurn)
      BY DEF IdleIsClean, Running
    <3>2. nextStep = <<>> /\ view = Snapshot(nextStep, nextTurn)
      BY <1>1, <3>1 DEF LaneIsWatched, SteeringEnabled, PromptPhases
    <3>3. journal.turn # "open"
      BY <1>1, <3>1 DEF EndsInOrder, OpenPhases
    <3>4. \A i \in Inputs : promise[i] # "pending"
      BY <1>1, <3>2, EmptyLaneStays DEF WaitersAreQueued
    <3> QED BY <3>2, <3>3, <3>4
  <2>4. CommittedIsAnnounced
    BY <1>1 DEF CommittedIsDue, CommittedIsAnnounced, Running
  <2> QED BY <2>1, <2>2, <2>3, <2>4 DEF AgentIsConsistent, NothingIsLeftBehind
<1> QED BY <1>1, RunInvariance, SettledInvariance, AgentKeepsInputs, PTL

=============================================================================
