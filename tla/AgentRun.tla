------------------------------ MODULE AgentRun ------------------------------
(***************************************************************************)
(* The run lifecycle of one Agent (src/agent/agent.ts) and the turn loop   *)
(* it drives (src/agent/loop.ts), over the steering queue of module        *)
(* SteeringQueue.                                                          *)
(*                                                                         *)
(* A run makes its prompt durable, then alternates model requests and tool *)
(* executions, makes each message durable before it enters the history,    *)
(* consumes steering between turns, closes the journal turn and only then  *)
(* publishes its end.  Frontends steer, queue, cancel, clear and abort     *)
(* between any two steps.  run.phase names the await at which the run is   *)
(* suspended; an action is the synchronous segment that follows it.        *)
(*                                                                         *)
(* Messages are abstracted to their role, the input they carry and the     *)
(* number of tool calls; a context checkpoint to the number of history     *)
(* messages its summary covers.  Tool execution is one result at a time,   *)
(* in model order (its concurrency is another component), and ends with an *)
(* arbitrary abortRun.                                                     *)
(***************************************************************************)
EXTENDS SteeringQueue, Integers

CONSTANTS
  MaxTurns,      \* AgentSettings.maxTurns, -1 for unlimited
  MaxCalls,      \* bound: tool calls in one assistant message
  ToolTurnBound, \* bound: the last turn in which the model may call tools
  HistoryBound,  \* bound: history length beyond which optional messages stop
  FaultBound,    \* bound: failures of the journal, the model and the hooks
  NoInput        \* the `input` field of a message that carries no input

ASSUME AgentRunAssumption ==
  /\ MaxTurns \in Int /\ (MaxTurns = -1 \/ MaxTurns > 0)
  /\ MaxCalls \in Nat \ {0}
  /\ ToolTurnBound \in Nat /\ HistoryBound \in Nat /\ FaultBound \in Nat
  /\ NoInput \notin Inputs

VARIABLES
  run,         \* the active run and the local state of runPrompt and the loop
  history,     \* Agent.messages
  working,     \* the loop's WorkingContext.messages
  checkpoint,  \* ContextManager.checkpoint of the Agent
  stable,      \* Agent.stableContext
  journal,     \* what the AgentJournal made durable
  announced,   \* history: inputs shown to listeners by agent_start/turn_input
  faults       \* history: failures so far

agentVars == <<run, history, working, checkpoint, stable, journal,
               announced, faults>>
vars == <<queueVars, agentVars>>

Roles == {"user", "context", "assistant", "tool"}
Message == [role : Roles, input : Inputs \cup {NoInput}, calls : Nat]

PromptPhases == {"journal_start", "turn", "assemble", "context", "request",
  "compact_write", "respond", "record", "tools", "policy", "boundary",
  "consume", "deliver", "journal_end", "commit", "publish", "close", "finish"}
CompactPhases == {"summarise", "compact_journal", "compact_hook"}
Phases == {"idle"} \cup PromptPhases \cup CompactPhases

\* Stop reasons of an assistant message, and end reasons of a run.
Stops == {"none", "stop", "toolUse", "length", "error", "aborted"}
Reasons == {"none", "stop", "length", "error", "aborted", "turn_limit"}

NoRun ==
  [phase |-> "idle", prompt |-> <<>>, turn |-> 0, stop |-> "none", calls |-> 0,
   left |-> 0, forced |-> FALSE, aborted |-> FALSE, checkpoint |-> 0,
   inputs |-> <<>>, took |-> FALSE, done |-> FALSE, reason |-> "none"]

RunStates ==
  [phase : Phases, prompt : Seq(Inputs), turn : Nat, stop : Stops, calls : Nat,
   left : Nat, forced : BOOLEAN, aborted : BOOLEAN, checkpoint : Nat,
   inputs : Seq(Inputs), took : BOOLEAN, done : BOOLEAN, reason : Reasons]

AgentTypeOK ==
  /\ QueueTypeOK
  /\ run \in RunStates
  /\ history \in Seq(Message)
  /\ working \in Seq(Message)
  /\ checkpoint \in Nat
  /\ stable \in [messages : Seq(Message), checkpoint : Nat]
  /\ journal \in [messages : Seq(Message), checkpoints : SUBSET Nat,
                  turn : {"none", "open", "closed", "failed"}]
  /\ announced \subseteq Inputs
  /\ faults \in Nat

-----------------------------------------------------------------------------
(* Messages and contexts. *)
UserMessage(i) == [role |-> "user", input |-> i, calls |-> 0]
ContextMessage == [role |-> "context", input |-> NoInput, calls |-> 0]
AssistantMessage(n) == [role |-> "assistant", input |-> NoInput, calls |-> n]
ToolMessage == [role |-> "tool", input |-> NoInput, calls |-> 0]

UserMessages(s) == [k \in 1..Len(s) |-> UserMessage(s[k])]

\* isCompleteTurnBoundary: the first b messages end with an assistant message
\* without calls or with the last result of a tool-call group.
IsCompleteBoundary(msgs, b) ==
  \/ msgs[b].role = "assistant" /\ msgs[b].calls = 0
  \/ /\ msgs[b].role = "tool"
     /\ \E a \in 1..(b - 1) :
          /\ msgs[a].role = "assistant"
          /\ msgs[a].calls \in 1..(b - a)
          /\ \A k \in (a + 1)..b : msgs[k].role = "tool"

\* The cutoffs a compaction of msgs may choose when `covered` messages are
\* already summarised (which one depends on sizes).
Cutoffs(msgs, covered) ==
  {b \in (covered + 1)..Len(msgs) : IsCompleteBoundary(msgs, b)}

\* publishStableContext / updateStableContext.
StableContext(msgs, cp) == [messages |-> msgs, checkpoint |-> cp]

Running == run.phase # "idle"
\* activeRun.steeringEnabled
SteeringEnabled == run.phase \in PromptPhases

HasTurnLimit == MaxTurns # -1

CanStartAnotherTurn == ~HasTurnLimit \/ run.turn < MaxTurns

At(phase) == run.phase = phase
Goto(phase) == run' = [run EXCEPT !.phase = phase]

\* A failure of the journal, the model, the prompt assembly or a hook.
Fault == faults < FaultBound /\ faults' = faults + 1

\* An aborted request breaks off by itself.
Broken == IF run.aborted THEN UNCHANGED faults ELSE Fault

\* The session journal refuses every write after one failed (writeFailed in
\* src/kana/session/journal.ts): only a reload can resume the session.
JournalWorks == journal.turn # "failed"
JournalBreaks ==
  /\ IF JournalWorks THEN Fault ELSE UNCHANGED faults
  /\ journal' = [journal EXCEPT !.turn = "failed"]

\* The message became durable and entered the history (commitMessage).
Commit(msg) ==
  /\ JournalWorks
  /\ journal' = [journal EXCEPT !.messages = Append(@, msg)]
  /\ history' = Append(history, msg)

\* Mutant of EndLoop: the end of the run is not kept back for the journal.
EndLoopAtOnce(reason) ==
  /\ run' = [run EXCEPT !.phase = "commit", !.done = TRUE, !.reason = reason]
  /\ checkpoint' = run.checkpoint

\* runAgentLoop ends: agent_end is kept back until the journal is closed, and
\* the Agent adopts the run's checkpoint.
EndLoop(reason) ==
  /\ run' = [run EXCEPT !.phase = "journal_end", !.done = TRUE, !.reason = reason]
  /\ checkpoint' = run.checkpoint

\* runPrompt throws: an open journal turn is closed with reason "error" first.
Fail ==
  run' = [run EXCEPT !.phase =
            IF journal'.turn = "open" /\ ~run.done THEN "close" ELSE "finish"]

\* A failure inside attempt(): after an abort it ends the run as aborted.
FailUnlessAborted ==
  IF run.aborted
  THEN EndLoop("aborted")
  ELSE Fail /\ UNCHANGED checkpoint

-----------------------------------------------------------------------------
AgentInit ==
  /\ QueueInit
  /\ run = NoRun
  /\ history = <<>>
  /\ working = <<>>
  /\ checkpoint = 0
  /\ stable = StableContext(<<>>, 0)
  /\ journal = [messages |-> <<>>, checkpoints |-> {}, turn |-> "none"]
  /\ announced = {}
  /\ faults = 0

(* Frontends and the conversation coordinator. *)

\* Agent.steer.
Steer(i) ==
  /\ IF SteeringEnabled THEN SteerIntoRun(i) ELSE SteerForLater(i)
  /\ UNCHANGED agentVars

\* enqueueInput: the coordinator uses the next-step lane only when the active
\* run can accept steering.
Enqueue(i) ==
  /\ IF SteeringEnabled THEN EnqueueStep(i) ELSE EnqueueTurn(i)
  /\ UNCHANGED agentVars

\* enqueueInput to next-turn during a run (the Tab key, a due wake).
EnqueueBehind(i) == SteeringEnabled /\ EnqueueTurn(i) /\ UNCHANGED agentVars

\* cancelInput and clearInbox.
CancelInput(i) == Cancel(i) /\ UNCHANGED agentVars
ClearInbox == Clear /\ UNCHANGED agentVars

\* abort(): only the active run has a signal to abort.
Abort ==
  /\ Running /\ ~run.aborted
  /\ run' = [run EXCEPT !.aborted = TRUE]
  /\ UNCHANGED <<queueVars, history, working, checkpoint, stable, journal,
                 announced, faults>>

\* stream(): refused while a run is active; the run forks the context manager
\* and suspends on journal.startRun.
StartRun(prompt) ==
  /\ ~Running
  /\ run' = [NoRun EXCEPT !.phase = "journal_start", !.prompt = prompt,
                          !.checkpoint = checkpoint]
  /\ UNCHANGED <<history, working, checkpoint, stable, journal, announced, faults>>

\* A new user prompt.
Stream(i) ==
  /\ StartRun(<<i>>)
  /\ TakeDirectly(i)

\* The owner shifts the oldest next-turn input and streams it.
StreamQueued ==
  /\ nextTurn # <<>>
  /\ StartRun(<<Head(nextTurn)>>)
  /\ ShiftNextTurn

(* The run: its journalled prompt. *)

\* startRun is durable: the prompt enters the history, the stable context is
\* refreshed and agent_start is emitted.
PromptWritten ==
  /\ At("journal_start") /\ JournalWorks
  /\ history' = history \o UserMessages(run.prompt)
  /\ journal' = [journal EXCEPT !.messages = @ \o UserMessages(run.prompt),
                                !.turn = "open"]
  /\ working' = history'
  /\ stable' = StableContext(history', checkpoint)
  /\ announced' = announced \cup ToSet(run.prompt)
  /\ run' = [run EXCEPT !.phase = "turn", !.turn = 1]
  /\ UNCHANGED <<queueVars, checkpoint, faults>>

\* Mutant of JournalFails: a reply enters the history before it is written.
JournalFailsAfterPush ==
  /\ run.phase \in {"journal_start", "record", "tools", "policy", "journal_end"}
  /\ JournalBreaks
  /\ Fail
  /\ history' = IF At("record") THEN Append(history, AssistantMessage(run.calls))
                                ELSE history
  /\ UNCHANGED <<queueVars, working, checkpoint, stable, announced>>

\* Mutant of JournalFails: a refused write is tried again for ever.
JournalFailsRetried ==
  /\ run.phase \in {"journal_start", "record", "tools", "policy", "journal_end"}
  /\ JournalBreaks
  /\ UNCHANGED <<queueVars, run, history, working, checkpoint, stable, announced>>

\* A journal write fails outside attempt(): startRun, an assistant message, a
\* tool result, a policy message or a closing endRun.
JournalFails ==
  /\ run.phase \in {"journal_start", "record", "tools", "policy", "journal_end"}
  /\ JournalBreaks
  /\ Fail
  /\ UNCHANGED <<queueVars, history, working, checkpoint, stable, announced>>

\* A journal write fails inside attempt(): a runtime-context message or a
\* compaction of the run.
JournalFailsInAttempt ==
  /\ run.phase \in {"context", "compact_write"}
  /\ JournalBreaks
  /\ FailUnlessAborted
  /\ UNCHANGED <<queueVars, history, working, stable, announced>>

(* One turn: prompt assembly, model request, reply. *)

\* The top of the loop body.
BeginTurn ==
  /\ At("turn")
  /\ IF run.aborted
     THEN EndLoop("aborted")
     ELSE /\ run' = [run EXCEPT !.phase = "assemble", !.forced = FALSE,
                                !.stop = "none", !.calls = 0, !.took = FALSE]
          /\ UNCHANGED checkpoint
  /\ UNCHANGED <<queueVars, history, working, stable, journal, announced, faults>>

\* applyPrompt finds no changed runtime context, or none is wanted after an
\* abort.
AssembleUnchanged ==
  /\ At("assemble")
  /\ IF run.aborted THEN EndLoop("aborted")
                    ELSE Goto("request") /\ UNCHANGED checkpoint
  /\ UNCHANGED <<queueVars, history, working, stable, journal, announced, faults>>

\* applyPrompt journals a changed runtime-context message.
AssembleChanged ==
  /\ At("assemble") /\ ~run.aborted
  /\ Len(history) < HistoryBound
  /\ Goto("context")
  /\ UNCHANGED <<queueVars, history, working, checkpoint, stable, journal,
                 announced, faults>>

ContextWritten ==
  /\ At("context")
  /\ Commit(ContextMessage)
  /\ working' = Append(working, ContextMessage)
  /\ IF run.aborted THEN EndLoop("aborted")
                    ELSE Goto("request") /\ UNCHANGED checkpoint
  /\ UNCHANGED <<queueVars, stable, announced, faults>>

\* Prompt assembly, request preparation or the model stream throws; so does a
\* forced compaction that finds no complete turn to summarise.
AttemptFails ==
  /\ \/ run.phase \in {"assemble", "request", "respond"} /\ Broken
     \/ /\ At("request") /\ run.forced
        /\ Cutoffs(working, run.checkpoint) = {}
        /\ UNCHANGED faults
  /\ UNCHANGED journal
  /\ FailUnlessAborted
  /\ UNCHANGED <<queueVars, history, working, stable, announced>>

\* prepareForModel leaves the context as it is.
RequestPlain ==
  /\ At("request") /\ ~run.forced
  /\ Goto("respond")
  /\ UNCHANGED <<queueVars, history, working, checkpoint, stable, journal,
                 announced, faults>>

\* Mutant of RequestCompacted: the checkpoint is adopted before it is durable.
RequestCompactedEagerly ==
  /\ At("request")
  /\ \E cutoff \in Cutoffs(working, run.checkpoint) :
       /\ run' = [run EXCEPT !.phase = "compact_write", !.checkpoint = cutoff]
       /\ checkpoint' = cutoff
  /\ UNCHANGED <<queueVars, history, working, stable, journal, announced, faults>>

\* prepareForModel compacts: the fork holds the new checkpoint while the
\* journal entry is being written.
RequestCompacted ==
  /\ At("request")
  /\ \E cutoff \in Cutoffs(working, run.checkpoint) :
       run' = [run EXCEPT !.phase = "compact_write", !.checkpoint = cutoff]
  /\ UNCHANGED <<queueVars, history, working, checkpoint, stable, journal,
                 announced, faults>>

\* The compaction is durable: the Agent adopts the checkpoint.
CompactionWritten ==
  /\ At("compact_write") /\ JournalWorks
  /\ journal' = [journal EXCEPT !.checkpoints = @ \cup {run.checkpoint}]
  /\ checkpoint' = run.checkpoint
  /\ Goto("respond")
  /\ UNCHANGED <<queueVars, history, working, stable, announced, faults>>

\* The provider rejects the context size before any output: one retry with a
\* forced compaction, then the error is thrown.
ContextLimit ==
  /\ At("respond")
  /\ Fault
  /\ UNCHANGED journal
  /\ IF run.forced
     THEN Fail
     ELSE run' = [run EXCEPT !.phase = "request", !.forced = TRUE]
  /\ UNCHANGED <<queueVars, history, working, checkpoint, stable, announced>>

\* The model completes a message; it is journalled before any tool runs.
Reply ==
  /\ At("respond")
  /\ \E stop \in {"stop", "toolUse", "length"}, n \in 0..MaxCalls :
       /\ stop = "stop" => n = 0
       /\ stop = "toolUse" => n > 0
       /\ n > 0 => run.turn <= ToolTurnBound /\ Len(history) < HistoryBound
       /\ run' = [run EXCEPT !.phase = "record", !.stop = stop, !.calls = n]
  /\ UNCHANGED <<queueVars, history, working, checkpoint, stable, journal,
                 announced, faults>>

\* The stream ends with an error event after partial text.  Calls are dropped.
ReplyCut ==
  /\ At("respond")
  /\ Broken
  /\ run' = [run EXCEPT !.phase = "record", !.calls = 0,
                        !.stop = IF run.aborted THEN "aborted" ELSE "error"]
  /\ UNCHANGED <<queueVars, history, working, checkpoint, stable, journal,
                 announced>>

\* The stream ends with an error event and nothing to keep.
ReplyEmpty ==
  /\ At("respond")
  /\ Broken
  /\ stable' = StableContext(working, run.checkpoint)
  /\ EndLoop(IF run.aborted THEN "aborted" ELSE "error")
  /\ UNCHANGED <<queueVars, history, working, journal, announced>>

\* Mutant of ReplyWritten: a message with open tool calls is published as stable.
ReplyWrittenAsStable ==
  /\ At("record")
  /\ Commit(AssistantMessage(run.calls))
  /\ working' = Append(working, AssistantMessage(run.calls))
  /\ stable' = StableContext(working', run.checkpoint)
  /\ IF run.aborted \/ run.stop \in {"error", "aborted"}
     THEN EndLoop(IF run.aborted THEN "aborted" ELSE run.stop)
     ELSE /\ IF run.stop = "toolUse"
             THEN run' = [run EXCEPT !.phase = "tools", !.left = run.calls]
             ELSE Goto("boundary")
          /\ UNCHANGED checkpoint
  /\ UNCHANGED <<queueVars, announced, faults>>

\* The assistant message is durable.  After an error or an abort the loop ends
\* here; otherwise the advertised calls are executed.
ReplyWritten ==
  /\ At("record")
  /\ Commit(AssistantMessage(run.calls))
  /\ working' = Append(working, AssistantMessage(run.calls))
  /\ IF run.calls = 0 THEN stable' = StableContext(working', run.checkpoint)
                      ELSE UNCHANGED stable
  /\ IF run.aborted \/ run.stop \in {"error", "aborted"}
     THEN EndLoop(IF run.aborted THEN "aborted" ELSE run.stop)
     ELSE /\ IF run.stop = "toolUse"
             THEN run' = [run EXCEPT !.phase = "tools", !.left = run.calls]
             ELSE Goto("boundary")
          /\ UNCHANGED checkpoint
  /\ UNCHANGED <<queueVars, announced, faults>>

(* Tool execution and the turn boundary. *)

\* The tool turn is over: the results and policy messages join the working
\* context, which is complete and published; an aborted execution ends the run.
EndToolTurn(policy) ==
  /\ working' = working \o [k \in 1..run.calls |-> ToolMessage] \o policy
  /\ stable' = StableContext(working', run.checkpoint)
  /\ \E abortRun \in BOOLEAN :
       IF abortRun THEN EndLoop("aborted")
                   ELSE Goto("boundary") /\ UNCHANGED checkpoint

\* Mutant of ToolResultWritten: the count of missing results runs past zero.
ToolResultMiscounted ==
  /\ At("tools")
  /\ Commit(ToolMessage)
  /\ \/ /\ run.left >= 0 /\ run.left # 1
        /\ run' = [run EXCEPT !.left = @ - 2]
        /\ UNCHANGED <<working, stable, checkpoint>>
     \/ run.left = 1 /\ EndToolTurn(<<>>)
  /\ UNCHANGED <<queueVars, announced, faults>>

\* The next result, in model order, is durable.  After the last one a result
\* policy may add context.
ToolResultWritten ==
  /\ At("tools")
  /\ Commit(ToolMessage)
  /\ \/ /\ run.left > 1
        /\ run' = [run EXCEPT !.left = @ - 1]
        /\ UNCHANGED <<working, stable, checkpoint>>
     \/ /\ run.left = 1 /\ Len(history) < HistoryBound
        /\ run' = [run EXCEPT !.left = 0, !.phase = "policy"]
        /\ UNCHANGED <<working, stable, checkpoint>>
     \/ run.left = 1 /\ EndToolTurn(<<>>)
  /\ UNCHANGED <<queueVars, announced, faults>>

PolicyWritten ==
  /\ At("policy")
  /\ Commit(ContextMessage)
  /\ EndToolTurn(<<ContextMessage>>)
  /\ UNCHANGED <<queueVars, announced, faults>>

\* consumeTurnInputs: only when another turn is available.
TakeInputs ==
  /\ At("boundary")
  /\ CanStartAnotherTurn
  /\ BeginConsume
  /\ Goto("consume")
  /\ UNCHANGED <<history, working, checkpoint, stable, journal, announced, faults>>

\* One steering input is durable and claimed.
InputWritten ==
  /\ At("consume")
  /\ \E i \in committing :
       /\ Commit(UserMessage(i))
       /\ run' = [run EXCEPT !.inputs = Append(@, i),
                  !.phase = IF Len(nextStep) = 1 THEN "deliver" ELSE "consume"]
  /\ CommitWritten
  /\ UNCHANGED <<working, checkpoint, stable, announced, faults>>

\* The journal refuses one: the run fails, and what this consume() already
\* claimed is dropped with its local list.
InputFails ==
  /\ At("consume")
  /\ JournalBreaks
  /\ CommitFailed
  /\ Fail
  /\ UNCHANGED <<history, working, checkpoint, stable, announced>>

\* Mutant of DeliverInput: only the first input of a batch is announced.
DeliverFirstAloud ==
  /\ At("deliver") /\ run.inputs # <<>>
  /\ working' = Append(working, UserMessage(Head(run.inputs)))
  /\ IF run.stop = "toolUse" \/ run.calls = 0
     THEN stable' = StableContext(working', run.checkpoint)
     ELSE UNCHANGED stable
  /\ announced' = IF run.took THEN announced ELSE announced \cup {Head(run.inputs)}
  /\ run' = [run EXCEPT !.inputs = Tail(@), !.took = TRUE]
  /\ UNCHANGED <<queueVars, history, checkpoint, journal, faults>>

\* A claimed input joins the working context and is announced by turn_input.
DeliverInput ==
  /\ At("deliver") /\ run.inputs # <<>>
  /\ working' = Append(working, UserMessage(Head(run.inputs)))
  /\ IF run.stop = "toolUse" \/ run.calls = 0
     THEN stable' = StableContext(working', run.checkpoint)
     ELSE UNCHANGED stable
  /\ announced' = announced \cup {Head(run.inputs)}
  /\ run' = [run EXCEPT !.inputs = Tail(@), !.took = TRUE]
  /\ UNCHANGED <<queueVars, history, checkpoint, journal, faults>>

\* Mutant of EndTurn: a reply without calls ends the run although input arrived.
EndTurnIgnoringInput ==
  /\ \/ At("boundary") /\ (CanStartAnotherTurn => nextStep = <<>>)
     \/ At("deliver") /\ run.inputs = <<>>
  /\ IF run.stop # "toolUse"
     THEN EndLoop(run.stop)
     ELSE IF CanStartAnotherTurn
          THEN /\ run' = [run EXCEPT !.phase = "turn", !.turn = @ + 1]
               /\ UNCHANGED checkpoint
          ELSE EndLoop("turn_limit")
  /\ UNCHANGED <<queueVars, history, working, stable, journal, announced, faults>>

\* The bottom of the loop body, with or without new input.
EndTurn ==
  /\ \/ At("boundary") /\ (CanStartAnotherTurn => nextStep = <<>>)
     \/ At("deliver") /\ run.inputs = <<>>
  /\ IF run.stop # "toolUse" /\ ~run.took
     THEN EndLoop(run.stop)
     ELSE IF CanStartAnotherTurn
          THEN /\ run' = [run EXCEPT !.phase = "turn", !.turn = @ + 1]
               /\ UNCHANGED checkpoint
          ELSE EndLoop("turn_limit")
  /\ UNCHANGED <<queueVars, history, working, stable, journal, announced, faults>>

(* The end of a run. *)

\* endRun is durable after agent_end, and only then the run-committed hook.
EndWritten ==
  /\ At("journal_end") /\ JournalWorks
  /\ journal' = [journal EXCEPT !.turn = "closed"]
  /\ Goto("commit")
  /\ UNCHANGED <<queueVars, history, working, checkpoint, stable, announced, faults>>

RunCommitted ==
  /\ At("commit")
  /\ Goto("publish")
  /\ UNCHANGED <<queueVars, history, working, checkpoint, stable, journal,
                 announced, faults>>

CommitHookFails ==
  /\ At("commit")
  /\ Fault
  /\ UNCHANGED journal
  /\ Fail
  /\ UNCHANGED <<queueVars, history, working, checkpoint, stable, announced>>

\* agent_end is published.
EndPublished ==
  /\ At("publish")
  /\ Goto("finish")
  /\ UNCHANGED <<queueVars, history, working, checkpoint, stable, journal,
                 announced, faults>>

\* The failed run closes its journal turn, or fails at that as well.
CloseFailedRun ==
  /\ At("close")
  /\ Goto("finish")
  /\ \/ journal' = [journal EXCEPT !.turn = "closed"] /\ UNCHANGED faults
     \/ JournalBreaks
  /\ UNCHANGED <<queueVars, history, working, checkpoint, stable, announced>>

\* runWithLifecycle's finally: leftover steering is deferred, the Agent is idle.
Finish ==
  /\ At("finish")
  /\ DeferPending
  /\ run' = NoRun
  /\ working' = <<>>
  /\ UNCHANGED <<history, checkpoint, stable, journal, announced, faults>>

(* Manual compaction of an idle Agent.  It is a run without steering. *)
Compact ==
  /\ ~Running
  /\ run' = [NoRun EXCEPT !.phase = "summarise", !.checkpoint = checkpoint]
  /\ UNCHANGED <<queueVars, history, working, checkpoint, stable, journal,
                 announced, faults>>

\* The forced compaction chose a cutoff and summarised up to it.
CompactSummarised ==
  /\ At("summarise")
  /\ \E cutoff \in Cutoffs(history, run.checkpoint) :
       run' = [run EXCEPT !.phase = "compact_journal", !.checkpoint = cutoff]
  /\ UNCHANGED <<queueVars, history, working, checkpoint, stable, journal,
                 announced, faults>>

CompactJournaled ==
  /\ At("compact_journal") /\ JournalWorks
  /\ journal' = [journal EXCEPT !.checkpoints = @ \cup {run.checkpoint}]
  /\ Goto("compact_hook")
  /\ UNCHANGED <<queueVars, history, working, checkpoint, stable, announced, faults>>

\* Every persistence step succeeded: the checkpoint takes effect.
CompactAdopted ==
  /\ At("compact_hook")
  /\ checkpoint' = run.checkpoint
  /\ stable' = StableContext(history, run.checkpoint)
  /\ run' = NoRun
  /\ UNCHANGED <<queueVars, history, working, journal, announced,
                 faults>>

\* Nothing can be compacted, the summary fails or is aborted, or a persistence
\* step fails: the fork is dropped.
CompactFails ==
  /\ \/ At("summarise") /\ Cutoffs(history, run.checkpoint) = {} /\ UNCHANGED faults
     \/ At("summarise") /\ Cutoffs(history, run.checkpoint) # {} /\ Broken
     \/ At("compact_hook") /\ Fault
  /\ run' = NoRun
  /\ UNCHANGED <<queueVars, history, working, checkpoint, stable, journal,
                 announced>>

CompactJournalFails ==
  /\ At("compact_journal")
  /\ JournalBreaks
  /\ run' = NoRun
  /\ UNCHANGED <<queueVars, history, working, checkpoint, stable, announced>>

-----------------------------------------------------------------------------
\* The steps of the Agent itself.
RunStep ==
  \/ PromptWritten \/ JournalFails \/ JournalFailsInAttempt
  \/ BeginTurn \/ AssembleUnchanged \/ AssembleChanged \/ ContextWritten
  \/ AttemptFails \/ RequestPlain \/ RequestCompacted \/ CompactionWritten
  \/ ContextLimit \/ Reply \/ ReplyCut \/ ReplyEmpty \/ ReplyWritten
  \/ ToolResultWritten \/ PolicyWritten
  \/ TakeInputs \/ InputWritten \/ InputFails \/ DeliverInput \/ EndTurn
  \/ EndWritten \/ RunCommitted \/ CommitHookFails \/ EndPublished
  \/ CloseFailedRun \/ Finish

CompactStep ==
  \/ CompactSummarised \/ CompactJournaled \/ CompactAdopted
  \/ CompactFails \/ CompactJournalFails

\* The steps of its owner.
OwnerStep ==
  \/ \E i \in Inputs : \/ Steer(i) \/ Enqueue(i) \/ EnqueueBehind(i)
                       \/ CancelInput(i) \/ Stream(i)
  \/ StreamQueued \/ ClearInbox \/ Abort \/ Compact

AgentNext == RunStep \/ CompactStep \/ OwnerStep

AgentSpec == AgentInit /\ [][AgentNext]_vars

-----------------------------------------------------------------------------
(* Properties. *)

IsPrefixOf(s, t) == Len(s) <= Len(t) /\ \A k \in DOMAIN s : s[k] = t[k]

\* The history holds exactly the durable messages, in journal order: a message
\* whose write failed never enters it, whatever else the run does
\* (agent.ts:378-382, 385-390).
HistoryIsDurable == history = journal.messages

\* When a model request is prepared, the loop's working context is the durable
\* history: nothing is sent that a recovery would lose, and a compaction is
\* journalled right after the messages it was made from, as
\* KanaSessionJournal.appendCompaction demands (journal.ts:150-154).
RequestsSeeTheHistory ==
  run.phase \in {"turn", "assemble", "context", "request", "compact_write",
                 "respond", "record"} => working = history

\* The stable context is a prefix of the history that never reaches into a
\* tool turn whose results are still being committed, and its checkpoint
\* summarises only messages it holds, up to a complete boundary.
StableContextIsSettled ==
  /\ IsPrefixOf(stable.messages, history)
  /\ run.phase \in {"tools", "policy"} => Len(stable.messages) < Len(working)
  /\ stable.checkpoint > 0 =>
       /\ stable.checkpoint <= Len(stable.messages)
       /\ IsCompleteBoundary(stable.messages, stable.checkpoint)

\* As long as the journal works, a checkpoint takes effect only after the
\* session can recover it (agent.ts:400).
CheckpointIsDurable ==
  checkpoint > 0 /\ journal.turn # "failed" => checkpoint \in journal.checkpoints

\* An idle Agent has left nothing in flight: its journal turn is closed unless
\* the journal failed, no input is stranded in the next-step lane, no steer()
\* caller still waits, and the listeners have seen the current inbox.
IdleIsClean ==
  ~Running =>
    /\ journal.turn # "open"
    /\ nextStep = <<>>
    /\ \A i \in Inputs : promise[i] # "pending"
    /\ view = Snapshot(nextStep, nextTurn)

\* The run-committed hook and the published agent_end see a run that is
\* durable as a whole: its journal turn is closed and the messages it reports
\* are the durable ones (agent.ts:432-446).
EndIsDurable ==
  run.phase \in {"commit", "publish"} =>
    journal.turn = "closed" /\ working = history

\* A run that ends by itself has answered the input it accepted: its last
\* message is not a user message.
AcceptedInputIsAnswered ==
  run.done /\ run.reason \in {"stop", "length", "turn_limit"} =>
    working # <<>> /\ working[Len(working)].role # "user"

\* Unless something failed, every input the run committed has been announced by
\* the time the run is over, so completions are acknowledged.
CommittedIsAnnounced ==
  ~Running /\ faults = 0 =>
    \A i \in Inputs : fate[i] = "committed" => i \in announced

\* The turn limit holds, and a run without turns left takes no input.
TurnLimitHolds ==
  HasTurnLimit => /\ run.turn <= MaxTurns
                  /\ run.phase \in {"consume", "deliver"} => run.turn < MaxTurns

\* A message once in the history stays where it is, and nothing is appended
\* while no journal turn is open.
HistoryOnlyGrows ==
  [][/\ IsPrefixOf(history, history')
     /\ history' # history => journal'.turn = "open"]_vars

\* A caller of steer() is answered.
SteeringIsAnswered ==
  \A i \in Inputs : promise[i] = "pending" ~> promise[i] # "pending"

\* A run settles, and so does one that is aborted.
RunsSettle == Running ~> ~Running

\* Every run and every caller is served: a run settles, and one who steered it
\* hears what became of the input.
RunsAndCallersSettle == RunsSettle /\ SteeringIsAnswered

\* Nothing is left behind by a run: an idle Agent has nothing in flight, and a
\* run that stopped by itself has answered all input it took.
NothingIsLeftBehind == IdleIsClean /\ AcceptedInputIsAnswered

\* At every await the stable context is settled, an idle Agent has nothing in
\* flight, and what it committed it announced.
AgentIsConsistent ==
  StableContextIsSettled /\ NothingIsLeftBehind /\ CommittedIsAnnounced

-----------------------------------------------------------------------------
(* Statements of the documentation and of comments that the code does not
   keep in every execution. *)

\* Every call in the stable context is answered in it.  Stated by
\* docs/agent-runtime.md:101 and tests/agent/stable-context.test.ts:157; after
\* a truncated response with calls, the next run publishes the whole history
\* at its start (agent.ts:390).
StableContextIsComplete ==
  \A a \in DOMAIN stable.messages :
    LET n == stable.messages[a].calls
    IN  \A k \in (a + 1)..(a + n) :
          k \in DOMAIN stable.messages /\ stable.messages[k].role = "tool"

\* A checkpoint takes effect only after the session can recover it, as
\* agent.ts:400 says.  When the write of a compaction fails in an aborted run,
\* the run still ends with agent_end, which adopts the fork (agent.ts:415-419).
CheckpointIsAlwaysDurable == checkpoint > 0 => checkpoint \in journal.checkpoints

\* Every input the run committed has been announced once the run is over, as
\* docs/conversation-runtime.md:88 says of completion notifications.  When the
\* write of a later item of the same batch fails, the items committed before
\* it are never announced (steering.ts:92-110).
CommittedIsAlwaysAnnounced ==
  ~Running => \A i \in Inputs : fate[i] = "committed" => i \in announced
=============================================================================
