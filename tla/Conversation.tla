---------------------------- MODULE Conversation ----------------------------
(***************************************************************************)
(* One conversation: the runtime (src/kana/conversation/runtime.ts), its   *)
(* input coordinator (input-coordinator.ts) and goal controller            *)
(* (goal-controller.ts) around an Agent.  Inputs are typed, queued,        *)
(* steered, scheduled, or are notifications of background jobs and         *)
(* subagents; the coordinator's drain loop turns the queued ones into      *)
(* runs, one at a time, and continues an active goal when none waits.      *)
(*                                                                         *)
(* A step is a synchronous segment of the event loop.  The promise chain   *)
(* of a run has three links (executeRun, submit, drain) and other segments *)
(* may run between any two of them.  The Agent is reduced to what the      *)
(* coordinator sees of it; AgentRun and SteeringQueue have the details.    *)
(* The state is one record because drain(), called synchronously from most *)
(* handlers, reads and writes nearly all of it.                            *)
(***************************************************************************)
EXTENDS Naturals, Sequences, FiniteSets, SequencesExt

CONSTANTS
  UserInputs,     \* messages a user sends
  Wakes,          \* one-shot scheduled messages
  Jobs,           \* background jobs, standing for their notifications
  Subagents,      \* subagents, likewise
  GoalInput,      \* the prompt of every goal run
  CompletionRuns, \* backgroundJobCompletionRuns and subagentCompletionRuns
  MaxRounds,      \* goalMaxRounds
  MaxGoals,       \* bound: goals started
  MaxSessions,    \* bound: sessions opened
  MaxAside        \* bound: compactions, gate closings and reconfigurations

Completions == Jobs \cup Subagents
Items == UserInputs \cup Wakes \cup Completions

ASSUME ConversationAssumption ==
  /\ GoalInput \notin Items
  /\ UserInputs \cap (Wakes \cup Completions) = {}
  /\ Wakes \cap Completions = {} /\ Jobs \cap Subagents = {}
  /\ CompletionRuns \in BOOLEAN
  /\ MaxRounds \in Nat \ {0} /\ MaxSessions \in Nat \ {0}
  /\ {MaxGoals, MaxAside} \subseteq Nat

VARIABLES
  conv,   \* the conversation: the runtime, the coordinator, the Agent's inbox
  inputFate,   \* history: what became of every input
  stamp,  \* history: the session each input belongs to
  status, \* the jobs and subagents behind the notifications
  open,   \* the sessions the host holds open
  bounds  \* how often the bounded operations were used

conversationVars == <<conv, inputFate, stamp, status, open, bounds>>

InputFates == {"new", "timer", "waiting", "prompt", "committed", "withdrawn",
          "unannounced", "discarded", "lost", "failed", "refused"}
Frames == {"none", "running", "settled", "resuming"}

Goals == [status : {"none", "active", "completed", "blocked", "cancelled",
                    "round_limit"},
          rounds : 0..MaxRounds, session : 0..MaxSessions]

Conversations ==
  [nextStep : Seq(Items), nextTurn : Seq(Items), consumed : Seq(Items),
   prompt : Seq(Items \cup {GoalInput}),
   agent : {"idle", "journal", "loop", "consuming", "announcing", "ending",
            "compacting"},
   source : {"none", "user", "scheduled", "goal", "job", "subagent", "compaction"},
   drain : Frames, caller : Frames \ {"resuming"},
   settlingRun : BOOLEAN, changing : BOOLEAN, stopping : BOOLEAN,
   closed : BOOLEAN, gate : BOOLEAN, aborted : BOOLEAN, bad : BOOLEAN,
   goal : Goals, goalFailed : BOOLEAN,
   session : 1..MaxSessions, arrival : Seq(Items),
   refused : SUBSET (Items \cup {GoalInput})]

ConversationTypeOK ==
  /\ conv \in Conversations
  /\ inputFate \in [Items -> InputFates]
  /\ stamp \in [Items -> 0..MaxSessions]
  /\ status \in [Completions -> {"none", "active", "settled", "observed", "gone"}]
  /\ open \subseteq 1..MaxSessions
  /\ bounds \in [goals : 0..MaxGoals, sessions : 1..MaxSessions, aside : 0..MaxAside]

-----------------------------------------------------------------------------
Kind(i) == CASE i \in UserInputs -> "user" [] i \in Wakes -> "scheduled"
             [] i \in Jobs -> "job"        [] i \in Subagents -> "subagent"

AgentRuns(c) == c.agent \in {"journal", "loop", "consuming", "announcing", "ending"}

\* isRunning of the runtime, the coordinator's isRunActive().
IsRunning(c) == c.changing \/ c.source # "none" \/ c.agent # "idle"
\* canSteer
CanSteer(c) == c.source \notin {"none", "compaction"} /\ c.agent # "idle"

InStep(c) == ToSet(c.nextStep)
InTurn(c) == ToSet(c.nextTurn)
InLanes(c) == InStep(c) \cup InTurn(c)
\* What consume() is journaling can be neither cancelled nor cleared.
Committing(c) == IF c.agent = "consuming" THEN {Head(c.nextStep)} ELSE {}

\* Inputs join the tail of next-turn.
Arrive(c, is) == [c EXCEPT !.nextTurn = @ \o is, !.arrival = @ \o is]

\* The lane items, once input i has left it.
Leave(items, i) ==
  IF i \in ToSet(items)
  THEN RemoveAt(items, CHOOSE k \in DOMAIN items : items[k] = i)
  ELSE items

\* Input i leaves its lane, unless it is being journaled.
Withdraw(c, i) ==
  IF i \in Committing(c) THEN c
  ELSE [c EXCEPT !.nextStep = Leave(@, i), !.nextTurn = Leave(@, i)]

\* All inputs do.
Cleared(c) == [c EXCEPT !.nextStep = IF Committing(c) = {} THEN <<>> ELSE <<Head(@)>>,
                      !.nextTurn = <<>>]

Withdrawn(c, S) == (S \cap InLanes(c)) \ Committing(c)

Mark(S, f) == [i \in Items |-> IF i \in S THEN f ELSE inputFate[i]]

-----------------------------------------------------------------------------
\* submit() and executeRun() up to the first await, for the drain loop or for
\* a caller of the runtime: a run that may not start fails at once.
StartConversationRun(c, source, prompt, frame) ==
  IF c.stopping \/ IsRunning(c)
  THEN [c EXCEPT ![frame] = "settled", !.settlingRun = TRUE,
                 !.refused = @ \cup ToSet(prompt)]
  ELSE [c EXCEPT ![frame] = "running", !.settlingRun = TRUE, !.source = source,
                 !.prompt = prompt, !.agent = "journal", !.aborted = FALSE,
                 !.bad = FALSE]

\* The head of next-turn with the notifications of its kind right behind it
\* (takePendingCompletionInputs).
Adjacent(items) ==
  LET like == {k \in DOMAIN items :
                 \A j \in 1..k : Kind(items[j]) = Kind(Head(items))}
  IN  SubSeq(items, 1, IF Head(items) \in Completions THEN Cardinality(like) ELSE 1)

\* The drain loop starts a run with the head of next-turn, or a goal's next round.
StartQueued(c) ==
  LET taken == Adjacent(c.nextTurn)
  IN  StartConversationRun([c EXCEPT !.nextTurn = SubSeq(@, Len(taken) + 1, Len(@))],
                           Kind(Head(taken)), taken, "drain")
ContinueGoal(c) ==
  StartConversationRun([c EXCEPT !.goal.rounds = @ + 1], "goal", <<GoalInput>>, "drain")

\* Mutant of DrainLoop: a run that started meanwhile is not noticed.
DrainLoopBlind(c) ==
  IF c.stopping \/ c.changing \/ ~c.gate \/ c.nextTurn = <<>>
  THEN [c EXCEPT !.drain = "none"] ELSE StartQueued(c)

\* Mutant of DrainLoop: an active goal goes first.
DrainLoopGoalFirst(c) ==
  IF c.stopping \/ IsRunning(c) \/ ~c.gate THEN [c EXCEPT !.drain = "none"]
  ELSE IF c.goal.status = "active" /\ c.goal.rounds < MaxRounds THEN ContinueGoal(c)
  ELSE IF c.nextTurn = <<>> THEN [c EXCEPT !.drain = "none"]
  ELSE StartQueued(c)

\* Mutant of DrainLoop: rounds are not counted.
DrainLoopUncounted(c) ==
  IF c.stopping \/ IsRunning(c) \/ ~c.gate THEN [c EXCEPT !.drain = "none"]
  ELSE IF c.nextTurn # <<>> THEN StartQueued(c)
  ELSE IF c.goal.status = "active"
  THEN StartConversationRun(c, "goal", <<GoalInput>>, "drain")
  ELSE [c EXCEPT !.drain = "none"]

\* Mutant of DrainLoop: one round too many.
DrainLoopOverLimit(c) ==
  IF c.stopping \/ IsRunning(c) \/ ~c.gate THEN [c EXCEPT !.drain = "none"]
  ELSE IF c.nextTurn # <<>> THEN StartQueued(c)
  ELSE IF c.goal.status # "active" THEN [c EXCEPT !.drain = "none"]
  ELSE IF c.goal.rounds > MaxRounds
  THEN [c EXCEPT !.drain = "none", !.goal.status = "round_limit"]
  ELSE ContinueGoal(c)

\* One iteration of the drain loop: it starts a run and awaits it, or ends.
DrainLoop(c) ==
  LET idle == [c EXCEPT !.drain = "none"]
  IN  CASE c.stopping \/ IsRunning(c) \/ ~c.gate -> idle
        [] OTHER ->
           CASE c.nextTurn # <<>> ->
                  IF ~CompletionRuns /\ Head(c.nextTurn) \in Completions
                  THEN idle ELSE StartQueued(c)
             [] c.nextTurn = <<>> /\ c.goal.status = "active" ->
                  IF c.goal.rounds < MaxRounds THEN ContinueGoal(c)
                  ELSE [idle EXCEPT !.goal.status = "round_limit"]
             [] OTHER -> idle

\* drain(): nothing happens while it drains already or a run is settling.
Drain(c) ==
  IF c.drain # "none" \/ c.settlingRun THEN c ELSE DrainLoop(c)

\* The conversation becomes c and the fates f, but for the inputs a run took.
Becomes(c, f) ==
  /\ conv' = c
  /\ inputFate' = [i \in Items |->
               IF i \in c.refused THEN "refused"
               ELSE IF f[i] = "waiting" /\ i \in ToSet(c.prompt) THEN "prompt"
               ELSE f[i]]

-----------------------------------------------------------------------------
NoGoal == [status |-> "none", rounds |-> 0, session |-> 0]

ConversationInit ==
  /\ conv = [nextStep |-> <<>>, nextTurn |-> <<>>, consumed |-> <<>>,
             prompt |-> <<>>, agent |-> "idle", source |-> "none",
             drain |-> "none", caller |-> "none", settlingRun |-> FALSE,
             changing |-> FALSE, stopping |-> FALSE, closed |-> FALSE,
             gate |-> TRUE, aborted |-> FALSE, bad |-> FALSE,
             goal |-> NoGoal, goalFailed |-> FALSE,
             session |-> 1, arrival |-> <<>>, refused |-> {}]
  /\ inputFate = [i \in Items |-> "new"]
  /\ stamp = [i \in Items |-> 0]
  /\ status = [j \in Completions |-> "none"]
  /\ open = {1}
  /\ bounds = [goals |-> 0, sessions |-> 1, aside |-> 0]

Accepting == ~conv.stopping /\ ~conv.changing
\* assertCanStartRun
MayStart == ~conv.stopping /\ ~IsRunning(conv)
Stamped(i) == stamp' = [stamp EXCEPT ![i] = conv.session]
Aside == /\ bounds.aside < MaxAside
         /\ bounds' = [bounds EXCEPT !.aside = @ + 1]

\* The user queues an input for a later run (queueInput).
QueueInput(i) ==
  /\ inputFate[i] = "new"
  /\ IF Accepting
     THEN /\ Becomes(Drain(Arrive(conv, <<i>>)), Mark({i}, "waiting"))
          /\ Stamped(i)
     ELSE Becomes(conv, Mark({i}, "discarded")) /\ UNCHANGED stamp
  /\ UNCHANGED <<status, open, bounds>>

\* The user offers an input to the active run (steer); without one it waits
\* for a run of its own.
SteerConversation(i) ==
  /\ inputFate[i] = "new"
  /\ IF Accepting
     THEN /\ Becomes(IF AgentRuns(conv)
                     THEN [conv EXCEPT !.nextStep = Append(@, i)]
                     ELSE Drain(Arrive(conv, <<i>>)),
                     Mark({i}, "waiting"))
          /\ Stamped(i)
     ELSE Becomes(conv, Mark({i}, "discarded")) /\ UNCHANGED stamp
  /\ UNCHANGED <<status, open, bounds>>

\* A frontend starts a run with an input (runtime submit).
Submit(i) ==
  /\ inputFate[i] = "new" /\ MayStart /\ conv.caller = "none"
  /\ Becomes(StartConversationRun(conv, "user", <<i>>, "caller"), Mark({i}, "waiting"))
  /\ Stamped(i)
  /\ UNCHANGED <<status, open, bounds>>

\* startGoal(): the goal's first run.
StartGoal ==
  /\ MayStart /\ conv.caller = "none"
  /\ conv.goal.status # "active"
  /\ bounds.goals < MaxGoals
  /\ Becomes(StartConversationRun([conv EXCEPT !.goal = [status |-> "active", rounds |-> 1,
                                              session |-> conv.session],
                                   !.goalFailed = FALSE],
                      "goal", <<GoalInput>>, "caller"), inputFate)
  /\ bounds' = [bounds EXCEPT !.goals = @ + 1]
  /\ UNCHANGED <<stamp, status, open>>

\* The user stops the goal, and with it the continuation but not the run.
CancelGoal ==
  /\ conv.goal.status = "active"
  /\ Becomes([conv EXCEPT !.goal.status = "cancelled"], inputFate)
  /\ UNCHANGED <<stamp, status, open, bounds>>

\* The user aborts the run (runtime abort).
AbortConversation ==
  /\ AgentRuns(conv) /\ ~conv.aborted
  /\ Becomes([conv EXCEPT !.aborted = TRUE,
                          !.goal.status = IF @ = "active" THEN "cancelled" ELSE @],
             inputFate)
  /\ UNCHANGED <<stamp, status, open, bounds>>

\* compact(): it runs like a run, but takes no input.
CompactConversation ==
  /\ MayStart /\ Aside
  /\ Becomes([conv EXCEPT !.source = "compaction", !.agent = "compacting"], inputFate)
  /\ UNCHANGED <<stamp, status, open>>

\* Mutant of CompactEnds: nothing is drained.
CompactEndsOnly ==
  /\ conv.agent = "compacting"
  /\ Becomes([conv EXCEPT !.source = "none", !.agent = "idle"], inputFate)
  /\ UNCHANGED <<stamp, status, open, bounds>>

CompactEnds ==
  /\ conv.agent = "compacting"
  /\ Becomes(Drain([conv EXCEPT !.source = "none", !.agent = "idle"]), inputFate)
  /\ UNCHANGED <<stamp, status, open, bounds>>

\* reconfigure(): a new Agent with the same inbox; the goal is discarded.
Reconfigure ==
  /\ ~IsRunning(conv) /\ ~conv.closed /\ Aside
  /\ Becomes([conv EXCEPT !.goal = IF @.status = "active"
                                   THEN NoGoal ELSE @],
             inputFate)
  /\ UNCHANGED <<stamp, status, open>>

\* The frontend's gate canStartQueuedRun closes, and opens with a call of
\* notifyCanStartQueuedRun.
CloseGate ==
  /\ conv.gate /\ Aside
  /\ Becomes([conv EXCEPT !.gate = FALSE], inputFate)
  /\ UNCHANGED <<stamp, status, open>>

OpenGate ==
  /\ ~conv.gate
  /\ Becomes(Drain([conv EXCEPT !.gate = TRUE]), inputFate)
  /\ UNCHANGED <<stamp, status, open, bounds>>

-----------------------------------------------------------------------------
\* The Agent, as far as the coordinator sees it.

\* The notifications among the inputs S are observed: their tasks leave the
\* model's context and no notification of them waits any more.
Observed(S) ==
  [j \in Completions |-> IF j \in S /\ status[j] = "settled"
                         THEN "observed" ELSE status[j]]

\* Mutant of PromptCommitted: only the first input is observed.
PromptCommittedFirst ==
  /\ conv.agent = "journal"
  /\ status' = Observed({conv.prompt[1]})
  /\ Becomes([conv EXCEPT !.agent = "loop", !.prompt = <<>>],
             Mark(ToSet(conv.prompt), "committed"))
  /\ UNCHANGED <<stamp, open, bounds>>

\* The prompt is journaled: agent_start (observeRunInputs).
PromptCommitted ==
  /\ conv.agent = "journal"
  /\ status' = Observed(ToSet(conv.prompt))
  /\ Becomes([conv EXCEPT !.agent = "loop", !.prompt = <<>>],
             Mark(ToSet(conv.prompt), "committed"))
  /\ UNCHANGED <<stamp, open, bounds>>

\* At the start of a turn the loop takes the next-step inputs: each is
\* journaled and then claimed, and all are announced after that.
ConsumeStep ==
  /\ conv.agent = "loop" /\ conv.nextStep # <<>> /\ ~conv.aborted
  /\ Becomes([conv EXCEPT !.agent = "consuming"], inputFate)
  /\ UNCHANGED <<stamp, status, open, bounds>>

Claim ==
  /\ conv.agent = "consuming"
  /\ Becomes([conv EXCEPT !.nextStep = Tail(@),
                          !.consumed = Append(@, Head(conv.nextStep)),
                          !.agent = IF Len(conv.nextStep) = 1
                                    THEN "announcing" ELSE "consuming"],
             Mark({Head(conv.nextStep)}, "committed"))
  /\ UNCHANGED <<stamp, status, open, bounds>>

\* turn_input (observeAgentEvent).
Announce ==
  /\ conv.agent = "announcing"
  /\ status' = Observed({Head(conv.consumed)})
  /\ Becomes([conv EXCEPT !.consumed = Tail(@),
                          !.agent = IF Len(conv.consumed) = 1
                                    THEN "loop" ELSE "announcing"], inputFate)
  /\ UNCHANGED <<stamp, open, bounds>>

\* A tool of the run starts a background job or a subagent.
StartBackground(j) ==
  /\ conv.agent = "loop" /\ status[j] = "none" /\ ~conv.stopping
  /\ status' = [status EXCEPT ![j] = "active"]
  /\ Stamped(j)
  /\ UNCHANGED <<conv, inputFate, open, bounds>>

\* A tool of the run reads the end of a task: its notification, if it waits,
\* is withdrawn (discardCompletion), unless shutdown has begun.
ObserveTask(j) ==
  /\ conv.agent = "loop" /\ status[j] \in {"active", "settled"}
  /\ stamp[j] = conv.session
  /\ status' = [status EXCEPT ![j] = "observed"]
  /\ IF conv.stopping THEN UNCHANGED <<conv, inputFate>>
     ELSE Becomes(Drain(Withdraw(conv, j)),
                  Mark(Withdrawn(conv, {j}), "withdrawn"))
  /\ UNCHANGED <<stamp, open, bounds>>

\* The model completes the goal or reports it blocked (update_goal).
UpdateGoal ==
  /\ conv.agent = "loop" /\ conv.goal.status = "active"
  /\ \E s \in {"completed", "blocked"} :
       Becomes([conv EXCEPT !.goal.status = s], inputFate)
  /\ UNCHANGED <<stamp, status, open, bounds>>

\* The loop ends; an aborted run ends badly, like one with an error.
LoopEnds ==
  /\ conv.agent = "loop"
  /\ \E bad \in BOOLEAN :
       /\ conv.aborted => bad
       /\ Becomes([conv EXCEPT !.agent = "ending", !.bad = bad], inputFate)
  /\ UNCHANGED <<stamp, status, open, bounds>>

\* The Agent is idle again: what waits in next-step joins next-turn.
Idle(c, bad) == [Arrive(c, c.nextStep) EXCEPT !.nextStep = <<>>,
                   !.consumed = <<>>, !.agent = "idle", !.bad = bad]

AgentSettles ==
  /\ conv.agent = "ending"
  /\ Becomes(Drain(Idle(conv, conv.bad)), inputFate)
  /\ UNCHANGED <<stamp, status, open, bounds>>

\* A write of the journal or a hook fails: the run fails.  A prompt that was
\* not journaled is gone; the caller of submit() is told, nobody else is.
RunFails ==
  /\ AgentRuns(conv)
  /\ Becomes(Drain([Idle(conv, TRUE) EXCEPT !.prompt = <<>>]),
             [i \in Items |->
               IF i \in ToSet(conv.consumed) THEN "unannounced"
               ELSE IF i \notin ToSet(conv.prompt) THEN inputFate[i]
               ELSE IF conv.caller = "running" THEN "failed" ELSE "lost"])
  /\ UNCHANGED <<stamp, status, open, bounds>>

-----------------------------------------------------------------------------
\* The promise chain of a run.
ConversationRunning(frame) == conv[frame] = "running" /\ conv.agent = "idle"

\* executeRun() after its stream: a goal run that ended badly blocks the goal.
RunSettles(frame) ==
  /\ ConversationRunning(frame)
  /\ LET failed == conv.source = "goal" /\ conv.bad
     IN  Becomes([conv EXCEPT ![frame] = "settled", !.source = "none",
                              !.goalFailed = failed,
                              !.goal.status = IF failed /\ @ = "active"
                                              THEN "blocked" ELSE @], inputFate)
  /\ UNCHANGED <<stamp, status, open, bounds>>

\* Mutant of SubmitReturns: the drain of notifyRunSettled is dropped.
SubmitReturnsQuietly(frame) ==
  /\ conv[frame] = "settled"
  /\ Becomes([conv EXCEPT ![frame] = IF frame = "drain" THEN "resuming" ELSE "none",
                          !.settlingRun = FALSE], inputFate)
  /\ UNCHANGED <<stamp, status, open, bounds>>

\* The finally block of submit(), notifyRunSettled() included.
SubmitReturns(frame) ==
  /\ conv[frame] = "settled"
  /\ Becomes(Drain([conv EXCEPT ![frame] = IF frame = "drain"
                                           THEN "resuming" ELSE "none",
                                !.settlingRun = FALSE]), inputFate)
  /\ UNCHANGED <<stamp, status, open, bounds>>

DrainResumes ==
  /\ conv.drain = "resuming"
  /\ Becomes(DrainLoop(conv), inputFate)
  /\ UNCHANGED <<stamp, status, open, bounds>>

-----------------------------------------------------------------------------
\* scheduleInput() and the timers of the wake scheduler.
ScheduleWake(w) ==
  /\ Accepting /\ inputFate[w] = "new"
  /\ Becomes(conv, Mark({w}, "timer"))
  /\ Stamped(w)
  /\ UNCHANGED <<status, open, bounds>>

\* A timer fires (queueWakeEvent); only shutdown and a foreign session drop it.
WakeFires(w) ==
  /\ inputFate[w] = "timer"
  /\ IF conv.stopping \/ stamp[w] # conv.session
     THEN Becomes(conv, Mark({w}, "withdrawn"))
     ELSE Becomes(Drain(Arrive(conv, <<w>>)), Mark({w}, "waiting"))
  /\ UNCHANGED <<stamp, status, open, bounds>>

\* cancelScheduledInput(): a future wake, or a due one that still waits.
CancelWake(w) ==
  /\ inputFate[w] \in {"timer", "waiting"} /\ stamp[w] = conv.session
  /\ IF inputFate[w] = "timer" THEN Becomes(conv, Mark({w}, "withdrawn"))
     ELSE /\ w \in InTurn(conv)
          /\ Becomes(Drain(Withdraw(conv, w)), Mark({w}, "withdrawn"))
  /\ UNCHANGED <<stamp, status, open, bounds>>

\* A job or subagent ends (queueCompletion): its notification joins the active
\* run if there is one that takes input, else it waits for a run of its own.
TaskSettles(j) ==
  /\ status[j] = "active"
  /\ status' = [status EXCEPT ![j] = "settled"]
  /\ IF ~Accepting THEN UNCHANGED <<conv, inputFate>>
     ELSE Becomes(IF CanSteer(conv) THEN [conv EXCEPT !.nextStep = Append(@, j)]
                  ELSE Drain(Arrive(conv, <<j>>)), Mark({j}, "waiting"))
  /\ UNCHANGED <<stamp, open, bounds>>

-----------------------------------------------------------------------------
\* A new, forked or resumed session: the host opens it and its Agent is built;
\* if that fails it is closed again and the current session stays.
BeginSessionChange ==
  /\ ~IsRunning(conv) /\ ~conv.closed
  /\ bounds.sessions < MaxSessions
  /\ bounds' = [bounds EXCEPT !.sessions = @ + 1]
  /\ \/ /\ Becomes([conv EXCEPT !.changing = TRUE], inputFate)
        /\ open' = open \cup {bounds'.sessions}
     \/ UNCHANGED <<conv, inputFate, open>>
  /\ UNCHANGED <<stamp, status>>

Candidate == bounds.sessions
OfSession(s) == {i \in Items : stamp[i] = s}

\* Mutant of SessionChanged: the old session's timers stay.
SessionChangedKeepingTimers ==
  /\ conv.changing /\ ~conv.stopping
  /\ Becomes([Cleared(conv) EXCEPT
                !.goal = NoGoal,
                !.session = Candidate, !.changing = FALSE],
             Mark(InLanes(conv), "withdrawn"))
  /\ open' = open \ {conv.session}
  /\ status' = [j \in Completions |->
                  IF stamp[j] = conv.session THEN "gone" ELSE status[j]]
  /\ UNCHANGED <<stamp, bounds>>

\* The old session is disposed of: its tasks are gone.  Its wakes, its inbox
\* and its goal go, and the candidate is adopted.
SessionChanged ==
  /\ conv.changing /\ ~conv.stopping
  /\ Becomes([Cleared(conv) EXCEPT
                !.goal = NoGoal,
                !.session = Candidate, !.changing = FALSE],
             [i \in Items |-> IF /\ stamp[i] = conv.session
                                 /\ inputFate[i] \in {"timer", "waiting"}
                              THEN "withdrawn" ELSE inputFate[i]])
  /\ open' = open \ {conv.session}
  /\ status' = [j \in Completions |->
                  IF stamp[j] = conv.session THEN "gone" ELSE status[j]]
  /\ UNCHANGED <<stamp, bounds>>

\* The runtime was closed meanwhile: the candidate is disposed of as well.
ChangeStopped ==
  /\ conv.changing /\ conv.stopping
  /\ Becomes([conv EXCEPT !.changing = FALSE], inputFate)
  /\ open' = open \ {conv.session, Candidate}
  /\ UNCHANGED <<stamp, status, bounds>>

\* close(): nothing is accepted any more, the goal and what waits are
\* dropped, the run is aborted.
Close ==
  /\ ~conv.stopping
  /\ Becomes([Cleared(conv) EXCEPT
                !.stopping = TRUE, !.aborted = AgentRuns(conv),
                !.goal = IF @.status = "active"
                         THEN NoGoal ELSE @],
             Mark(Withdrawn(conv, InLanes(conv)), "withdrawn"))
  /\ UNCHANGED <<stamp, status, open, bounds>>

\* The Agent and the tasks of the session have settled; the timers go.
Closed ==
  /\ conv.stopping /\ ~conv.closed /\ conv.agent = "idle"
  /\ Becomes([conv EXCEPT !.closed = TRUE],
             [i \in Items |-> IF inputFate[i] = "timer" THEN "withdrawn" ELSE inputFate[i]])
  /\ open' = open \ {conv.session}
  /\ UNCHANGED <<stamp, status, bounds>>

-----------------------------------------------------------------------------
User ==
  \/ \E i \in UserInputs : QueueInput(i) \/ SteerConversation(i) \/ Submit(i)
  \/ \E w \in Wakes : ScheduleWake(w) \/ CancelWake(w)
  \/ StartGoal \/ CancelGoal \/ AbortConversation \/ CompactConversation \/ Reconfigure \/ CloseGate
  \/ BeginSessionChange \/ Close

\* What the Agent, its tasks and the timers do.
Agent ==
  \/ \E j \in Completions : StartBackground(j) \/ ObserveTask(j) \/ TaskSettles(j)
  \/ \E w \in Wakes : WakeFires(w)
  \/ UpdateGoal \/ RunFails

\* What happens in the end, each for itself.
RunProgress ==
  \/ PromptCommitted \/ ConsumeStep \/ Claim \/ Announce \/ LoopEnds
  \/ AgentSettles \/ CompactEnds
ChainProgress ==
  \/ \E frame \in {"drain", "caller"} : RunSettles(frame) \/ SubmitReturns(frame)
  \/ DrainResumes

Next ==
  \/ User \/ Agent \/ RunProgress \/ ChainProgress \/ OpenGate
  \/ SessionChanged \/ ChangeStopped \/ Closed

Spec == ConversationInit /\ [][Next]_conversationVars

-----------------------------------------------------------------------------
Startable(c) ==
  \/ c.nextTurn # <<>> /\ (CompletionRuns \/ Head(c.nextTurn) \notin Completions)
  \/ c.nextTurn = <<>> /\ c.goal.status = "active"

(* drain() gives up whenever it drains, a run settles, or the gate is      *)
(* closed, and relies on a later call.  That call always comes: when       *)
(* nothing is under way and the gate is open, no input and no goal is left *)
(* that could start a run.                                                 *)
NoStall ==
  (/\ conv.drain = "none" /\ conv.caller = "none" /\ ~IsRunning(conv)
   /\ ~conv.stopping /\ conv.gate)
    => ~Startable(conv)

(* A run is started only when none is under way, whoever starts it, so the *)
(* assertion in executeRun() never costs an input that was taken out of    *)
(* the inbox; and a run has exactly one frame waiting for it.              *)
OneRunAtATime ==
  /\ conv.refused = {}
  /\ ~(conv.drain = "running" /\ conv.caller = "running")
  /\ AgentRuns(conv) => "running" \in {conv.drain, conv.caller}

(* Inputs that wait for a run of their own start in the order in which     *)
(* they began to wait; notifications join an earlier one only when nothing *)
(* else waits between them (docs: "without crossing earlier human,         *)
(* scheduled, or Goal input").                                             *)
StartInOrder ==
  \A i, j \in DOMAIN conv.arrival :
    i < j /\ inputFate[conv.arrival[i]] = "waiting"
      => inputFate[conv.arrival[j]] \in {"waiting", "withdrawn"}

(* The end of a job or subagent reaches the model: until it is observed,   *)
(* its notification waits, is part of the prompt, or has been journaled,   *)
(* unless the run it was to start failed first.                            *)
CompletionsReachTheModel ==
  \A j \in Completions :
    status[j] = "settled" /\ stamp[j] = conv.session /\ Accepting
      => inputFate[j] \in {"waiting", "prompt", "committed", "unannounced", "lost"}

(* When a tool has read the end of a task, no notification of it is left,  *)
(* and when a notification is committed and announced the task is          *)
(* observed: the model neither hears twice nor sees a stale task.          *)
ObservedOnce ==
  \A j \in Completions :
    /\ status[j] = "observed" /\ ~conv.stopping => j \notin InLanes(conv)
    /\ inputFate[j] = "committed" /\ j \notin ToSet(conv.consumed)
         => status[j] # "settled"

(* Nothing of an earlier session is left: neither inputs, timers, a goal   *)
(* nor a run.                                                              *)
SessionsStaySeparate ==
  /\ \A i \in InLanes(conv) \cup ToSet(conv.consumed) : stamp[i] = conv.session
  /\ \A w \in Wakes : inputFate[w] = "timer" /\ ~conv.closed => stamp[w] = conv.session
  /\ conv.goal.status = "active" => conv.goal.session = conv.session

(* The host holds the current session open, the candidate too while it     *)
(* changes, and none once close() and a change it overtook are over.       *)
SessionsAreReleased ==
  /\ ~conv.stopping => conv.session \in open
  /\ ~conv.changing => open \subseteq {conv.session}
  /\ ~conv.changing /\ conv.closed => open = {}

(* A goal whose last run failed or was aborted is not continued: blocking  *)
(* it comes before anything that could drain (executeRun).                 *)
FailedGoalsStop == conv.goalFailed => conv.goal.status # "active"

(* A goal is continued only when no input waits for a run.                 *)
GoalYieldsToInput ==
  [][conv'.goal.status = "active" /\ conv'.goal.rounds > conv.goal.rounds
       /\ conv.goal.status = "active"
     => conv'.nextTurn = <<>>]_conversationVars

(* Once close() was called no run starts; once it is complete, none runs.  *)
NothingRunsAfterClose ==
  [][/\ conv.stopping /\ conv.agent = "idle" => conv'.agent = "idle"
     /\ conv'.closed => conv'.agent = "idle"]_conversationVars

(* Every input that waits is taken or withdrawn in the end, unless the     *)
(* conversation is closed.                                                 *)
WaitingEnds ==
  \A i \in Items : inputFate[i] = "waiting" ~> inputFate[i] # "waiting" \/ conv.closed

(* Every goal comes to an end: rounds are limited, and no run, dialog or   *)
(* compaction keeps a goal from its next round for good.                   *)
GoalsEnd == conv.goal.status = "active" ~> conv.goal.status # "active"

(* close() completes, and so does a session change it overtook.            *)
CloseEnds == conv.stopping ~> conv.closed /\ ~conv.changing

(* Runs are started one at a time, in the order in which inputs began to   *)
(* wait.                                                                   *)
StartsAreSerial == OneRunAtATime /\ StartInOrder

(* The end of a job or subagent reaches the model, and only once.          *)
CompletionsReachTheModelOnce == CompletionsReachTheModel /\ ObservedOnce

(* drain() neither stops short of work it should start nor goes on with a  *)
(* goal that failed.                                                       *)
DrainDecidesRightly == NoStall /\ FailedGoalsStop

(* A session change leaves nothing of the old session behind: no input,    *)
(* timer or goal, and no resources held by the host.                       *)
SessionsAreSevered == SessionsStaySeparate /\ SessionsAreReleased

(* A goal round never overtakes an input, and close() is final.            *)
StartsAreAllowed == GoalYieldsToInput /\ NothingRunsAfterClose

(* Goals end and close() completes, whatever else goes on.                 *)
ConversationSettles == GoalsEnd /\ CloseEnds

(* Inputs are run one at a time and in order, and what a background task   *)
(* reports is run once.                                                    *)
InputsRunOnce == StartsAreSerial /\ CompletionsReachTheModelOnce

(* The drain loop and the session changes of a conversation are sound.     *)
ConversationIsSafe == ConversationTypeOK /\ DrainDecidesRightly /\ SessionsAreSevered

(* Nothing in a conversation waits for good: inputs, goals and close().    *)
InputsSettle == WaitingEnds /\ ConversationSettles

(* The claim of docs/conversation-runtime.md that an input is discarded    *)
(* only when shutdown or a session change invalidates its context.         *)
DiscardedOnlyOnChange == \A i \in UserInputs : inputFate[i] # "lost"
=============================================================================
