---------------------------- MODULE HeadlessRun ----------------------------
(***************************************************************************)
(* `kana exec` (src/headless): one turn or one bounded goal, run without a *)
(* user.  The lifecycle turns SIGINT and the deadline into one abort, the  *)
(* projector turns the events of the runtime into a public stream with one *)
(* terminal event, and the exit status must agree with both.               *)
(*                                                                         *)
(* The conversation runtime is reduced to what the frontend can tell: a    *)
(* run is in progress or not, and the goal has a status.  Conversation     *)
(* models the rest.  A write to a stream may throw.                        *)
(***************************************************************************)
EXTENDS Naturals, Sequences

CONSTANTS
  GoalRounds,    \* agent.goal_max_rounds
  MaxOtherRuns   \* bound: runs that a background completion starts

ASSUME HeadlessAssumption == GoalRounds \in Nat \ {0} /\ MaxOtherRuns \in Nat

VARIABLES
  exec,     \* startHeadless, runHeadlessConversation and their lifecycle
  headlessRuns,     \* the conversation runtime
  waiter,   \* waitForGoalCompletion
  output    \* HeadlessRunOutputProjector, with what it has emitted

headlessVars == <<exec, headlessRuns, waiter, output>>

Terms == {"none", "timeout", "sigint"}
GoalStates == {"none", "active", "completed", "blocked", "cancelled", "round_limit"}
HeadlessReasons == {"stop", "error", "aborted"}
NoExit == 2   \* no exit status yet

HeadlessTypeOK ==
  /\ exec \in [pc : {"startup", "running", "await", "closing", "done"}, goal : BOOLEAN,
               connected : BOOLEAN, timer : BOOLEAN, signaled : BOOLEAN,
               abortRequested : BOOLEAN, term : Terms, exit : {0, 1, NoExit, 124, 130},
               result : BOOLEAN]
  /\ headlessRuns \in [active : BOOLEAN, source : {"user", "goal", "job"}, goal : GoalStates,
               rounds : 0..GoalRounds, others : 0..MaxOtherRuns,
               first : {"running", "resolved", "rejected"}]
  /\ waiter \in [terminal : BOOLEAN, resolved : BOOLEAN]
  /\ output.outcome \in HeadlessReasons \cup {"none"} /\ output.term \in Terms
  /\ {output.failed, output.completed, output.writeFailed, output.late} \subseteq BOOLEAN
  /\ output.started \in 0..2
  /\ output.ends \in Seq([type : {"run.completed", "run.failed"}, term : Terms,
                          outcome : HeadlessReasons \cup {"none"}, goal : GoalStates])

HeadlessInit ==
  /\ exec \in [pc : {"startup"}, goal : BOOLEAN, connected : {FALSE}, timer : {FALSE},
               signaled : {FALSE}, abortRequested : {FALSE}, term : {"none"},
               exit : {NoExit}, result : {FALSE}]
  /\ headlessRuns = [active |-> FALSE, source |-> "user", goal |-> "none", rounds |-> 0,
             others |-> 0, first |-> "running"]
  /\ waiter = [terminal |-> FALSE, resolved |-> FALSE]
  /\ output = [outcome |-> "none", term |-> "none", failed |-> FALSE, completed |-> FALSE,
               writeFailed |-> FALSE, late |-> FALSE, started |-> 0, ends |-> <<>>]

-----------------------------------------------------------------------------
(* The projector.  `throws` is whether the stream does. *)

\* write(): the first failure is kept for throwIfWriteFailed().
HeadlessWritten(o, new, throws) == IF throws THEN [o EXCEPT !.writeFailed = TRUE] ELSE new

\* fail(): once, and not after the run has completed.
HeadlessFails(o, goal, throws) ==
  IF o.failed \/ o.completed THEN o
  ELSE LET f == [o EXCEPT !.failed = TRUE, !.outcome = "none", !.term = exec.term]
       IN  HeadlessWritten(f, [f EXCEPT !.ends = Append(@, [type |-> "run.failed", term |-> f.term,
                                                   outcome |-> "none", goal |-> goal])],
                   throws)

\* Mutant of CompleteRun: the cancellation is not looked at again.
CompleteAsEnded(o, goal, throws) ==
  IF o.failed \/ o.completed \/ o.outcome = "none" THEN o
  ELSE LET c == [o EXCEPT !.completed = TRUE, !.term = exec.term]
       IN  HeadlessWritten(c, [c EXCEPT !.ends = Append(@, [type |-> "run.completed", term |-> c.term,
                                                   outcome |-> c.outcome, goal |-> goal])],
                   throws)

\* complete(): with the termination of this moment.
CompleteRun(o, goal, throws) ==
  IF o.failed \/ o.completed \/ o.outcome = "none" THEN o
  ELSE LET c == [o EXCEPT !.completed = TRUE, !.term = exec.term,
                          !.outcome = IF exec.term = "none" THEN @ ELSE "aborted"]
       IN  HeadlessWritten(c, [c EXCEPT !.ends = Append(@, [type |-> "run.completed", term |-> c.term,
                                                   outcome |-> c.outcome, goal |-> goal])],
                   throws)

\* run_end: "Frontend cancellation wins a race with the Agent terminal event."
HeadlessEnded(o, reason, throws) ==
  LET e == [o EXCEPT !.term = exec.term,
                     !.outcome = IF exec.term = "none" THEN reason ELSE "aborted"]
  IN  IF exec.goal THEN e ELSE CompleteRun(e, "none", throws)

ExitCode(o, goal) ==
  IF o.failed THEN 1
  ELSE IF o.term # "none" THEN IF o.term = "timeout" THEN 124 ELSE 130
  ELSE IF exec.goal THEN IF goal = "completed" THEN 0 ELSE 1
  ELSE IF o.outcome = "stop" THEN 0 ELSE 1

-----------------------------------------------------------------------------
(* waitForGoalCompletion *)

\* Mutant of GoalEnds: the goal that has ended is not waited out.
GoalEndsAtOnce(w, running) == [terminal |-> TRUE, resolved |-> TRUE]

\* goal_state_changed to a terminal status; the run it came in is waited for.
GoalEnds(w, running) == [terminal |-> TRUE, resolved |-> w.resolved \/ ~running]

\* Mutant of RunSettled: only the goal's own events are listened to.
RunSettledNever(w) == w

\* run_end or run_error.
RunSettled(w) == [w EXCEPT !.resolved = @ \/ w.terminal]

\* The goal ends, if it is active, with a status.
GoalStops(status, running) ==
  IF headlessRuns.goal = "active" THEN <<status, GoalEnds(waiter, running)>> ELSE <<headlessRuns.goal, waiter>>

-----------------------------------------------------------------------------
(* startHeadless and runHeadlessConversation *)

\* An error leaves runHeadlessConversation, or startup.
Escapes(x) ==
  [x EXCEPT !.pc = "closing", !.connected = FALSE, !.timer = FALSE,
            !.exit = IF x.signaled THEN 130 ELSE 1]

Returns(x, o, goal) ==
  [x EXCEPT !.pc = "closing", !.connected = FALSE, !.timer = FALSE, !.result = TRUE,
            !.exit = ExitCode(o, goal)]

\* The host or MCP fails, or SIGINT came while MCP started.
StartupFails ==
  /\ exec.pc = "startup"
  /\ exec' = Escapes(exec)
  /\ UNCHANGED <<headlessRuns, waiter, output>>

\* Session, warnings, hook, deadline, run.started and submission: no event
\* comes between them.
Submitted(hasTimeout) ==
  /\ exec.pc = "startup" /\ ~exec.signaled
  /\ \/ /\ exec' = Escapes(exec) /\ output' = [output EXCEPT !.writeFailed = TRUE]
        /\ UNCHANGED <<headlessRuns, waiter>>
     \/ /\ exec' = [exec EXCEPT !.pc = "running", !.connected = TRUE, !.timer = hasTimeout]
        /\ output' = [output EXCEPT !.started = @ + 1]
        /\ headlessRuns' = [headlessRuns EXCEPT !.active = TRUE,
                                !.source = IF exec.goal THEN "goal" ELSE "user",
                                !.goal = IF exec.goal THEN "active" ELSE "none",
                                !.rounds = IF exec.goal THEN 1 ELSE 0]
        /\ UNCHANGED waiter

\* The submission settles with its run.
SubmissionSettles(throws) ==
  /\ exec.pc = "running" /\ headlessRuns.first # "running"
  /\ IF output.writeFailed THEN exec' = Escapes(exec) /\ UNCHANGED output
     ELSE IF headlessRuns.first = "rejected"
     THEN /\ output' = HeadlessFails(output, headlessRuns.goal, throws)
          /\ exec' = IF output'.writeFailed THEN Escapes(exec)
                     ELSE Returns(exec, output', headlessRuns.goal)
     ELSE /\ UNCHANGED output
          /\ exec' = IF exec.goal THEN [exec EXCEPT !.pc = "await"]
                     ELSE Returns(exec, output, headlessRuns.goal)
  /\ UNCHANGED <<headlessRuns, waiter>>

\* completeGoal(): the terminal event of a goal.
GoalAwaited(throws) ==
  /\ exec.pc = "await" /\ waiter.resolved
  /\ output' = CompleteRun(output, headlessRuns.goal, throws)
  /\ exec' = IF output'.writeFailed THEN Escapes(exec) ELSE Returns(exec, output', headlessRuns.goal)
  /\ UNCHANGED <<headlessRuns, waiter>>

\* closeHeadlessResources(): runtime, then host; an error of either is thrown.
ResourcesClose ==
  /\ exec.pc = "closing"
  /\ exec' \in {[exec EXCEPT !.pc = "done"],
                [exec EXCEPT !.pc = "done", !.exit = 1, !.result = FALSE]}
  /\ headlessRuns' = [headlessRuns EXCEPT !.active = FALSE]
  /\ UNCHANGED <<waiter, output>>

-----------------------------------------------------------------------------
(* HeadlessRunLifecycle *)

\* Mutant of AbortRuntime: the goal is left to the run that is aborted.
AbortRuntimeAgent == UNCHANGED <<headlessRuns, waiter>>

\* ConversationRuntime.abort(): cancels the goal, and aborts the agent.
AbortRuntime ==
  LET stopped == GoalStops("cancelled", headlessRuns.active)
  IN  headlessRuns' = [headlessRuns EXCEPT !.goal = stopped[1]] /\ waiter' = stopped[2]

\* requestAbort(): the first source is the one reported.
RequestAbort(x, term) ==
  IF x.abortRequested THEN exec' = x /\ UNCHANGED <<headlessRuns, waiter>>
  ELSE exec' = [x EXCEPT !.abortRequested = TRUE, !.term = term] /\ AbortRuntime

Interrupt ==
  /\ ~exec.signaled /\ exec.pc # "done"
  /\ LET x == [exec EXCEPT !.signaled = TRUE]
     IN  IF exec.connected THEN RequestAbort(x, "sigint")
         ELSE exec' = x /\ UNCHANGED <<headlessRuns, waiter>>
  /\ UNCHANGED output

DeadlineElapses ==
  /\ exec.timer
  /\ RequestAbort([exec EXCEPT !.timer = FALSE], "timeout")
  /\ UNCHANGED output

-----------------------------------------------------------------------------
(* The runtime *)

AgentEvent(throws) ==
  /\ headlessRuns.active /\ exec.connected
  /\ output' = HeadlessWritten(output, [output EXCEPT !.late = @ \/ output.ends # <<>>], throws)
  /\ UNCHANGED <<exec, headlessRuns, waiter>>

\* update_goal, called in a run of the goal.
GoalUpdated(status) ==
  /\ headlessRuns.active /\ headlessRuns.source = "goal" /\ headlessRuns.goal = "active"
  /\ headlessRuns' = [headlessRuns EXCEPT !.goal = status]
  /\ waiter' = GoalEnds(waiter, TRUE)
  /\ UNCHANGED <<exec, output>>

\* A run of the goal that ends in an error or an abort blocks it.
HeadlessRunEnds(reason, throws) ==
  LET stops == headlessRuns.source = "goal" /\ reason # "stop"
      goal == IF stops THEN GoalStops("blocked", TRUE) ELSE <<headlessRuns.goal, waiter>>
  IN  /\ headlessRuns.active /\ exec.connected
      /\ headlessRuns' = [headlessRuns EXCEPT !.active = FALSE, !.goal = goal[1],
                              !.first = IF @ = "running" THEN "resolved" ELSE @]
      /\ output' = HeadlessEnded(output, reason, throws)
      /\ waiter' = RunSettled(goal[2])
      /\ UNCHANGED exec

\* run_error, after the goal is blocked if the run was one of its own.
HeadlessRunFails(throws) ==
  LET goal == IF headlessRuns.source = "goal" THEN GoalStops("blocked", TRUE)
              ELSE <<headlessRuns.goal, waiter>>
  IN  /\ headlessRuns.active /\ exec.connected
      /\ headlessRuns' = [headlessRuns EXCEPT !.active = FALSE, !.goal = goal[1],
                              !.first = IF @ = "running" THEN "rejected" ELSE @]
      /\ output' = HeadlessFails(output, goal[1], throws)
      /\ waiter' = RunSettled(goal[2])
      /\ UNCHANGED exec

\* The next run: a background completion, or a round of the goal.  What the
\* frontend awaits resumes before it.
RunContinues ==
  /\ ~headlessRuns.active /\ exec.pc = "await" /\ ~waiter.resolved
  /\ \/ /\ headlessRuns.others < MaxOtherRuns
        /\ headlessRuns' = [headlessRuns EXCEPT !.active = TRUE, !.source = "job", !.others = @ + 1]
        /\ UNCHANGED waiter
     \/ /\ headlessRuns.goal = "active" /\ headlessRuns.rounds < GoalRounds
        /\ headlessRuns' = [headlessRuns EXCEPT !.active = TRUE, !.source = "goal", !.rounds = @ + 1]
        /\ UNCHANGED waiter
     \/ /\ headlessRuns.goal = "active" /\ headlessRuns.rounds = GoalRounds
        /\ headlessRuns' = [headlessRuns EXCEPT !.goal = "round_limit"]
        /\ waiter' = GoalEnds(waiter, FALSE)
  /\ UNCHANGED <<exec, output>>

HeadlessNext ==
  \/ StartupFails
  \/ \E b \in BOOLEAN :
       \/ Submitted(b) \/ SubmissionSettles(b) \/ GoalAwaited(b) \/ AgentEvent(b)
       \/ HeadlessRunFails(b)
       \/ \E reason \in HeadlessReasons : HeadlessRunEnds(reason, b)
  \/ ResourcesClose \/ Interrupt \/ DeadlineElapses \/ RunContinues
  \/ \E status \in {"completed", "blocked"} : GoalUpdated(status)

HeadlessSpec == HeadlessInit /\ [][HeadlessNext]_headlessVars

-----------------------------------------------------------------------------
\* A run that returns a result has emitted one run.started and one terminal
\* event, and the exit status says what that event says ("exactly one public
\* run.started and one terminal run.completed or run.failed",
\* docs/headless.md:100).
ExitIsTruthful ==
  exec.result =>
    /\ output.started = 1 /\ Len(output.ends) = 1
    /\ LET e == output.ends[1]
       IN  exec.exit = IF e.type = "run.failed" THEN 1
                       ELSE IF e.term = "timeout" THEN 124
                       ELSE IF e.term = "sigint" THEN 130
                       ELSE IF exec.goal THEN (IF e.goal = "completed" THEN 0 ELSE 1)
                       ELSE IF e.outcome = "stop" THEN 0 ELSE 1

\* A cancelled run is reported as aborted, whatever the agent said.
CancelledIsAborted ==
  \A i \in DOMAIN output.ends :
    output.ends[i].type = "run.completed" /\ output.ends[i].term # "none"
      => output.ends[i].outcome = "aborted"

\* A result is final: the run it reports has ended.
ResultIsFinal == exec.result => ~headlessRuns.active

\* An abort reaches the goal, and no result leaves one active: a cancelled
\* execution does no further round.
AbortStopsTheGoal == (exec.abortRequested \/ exec.result) => headlessRuns.goal # "active"

HeadlessIsSafe ==
  /\ HeadlessTypeOK /\ ExitIsTruthful /\ CancelledIsAborted /\ ResultIsFinal
  /\ AbortStopsTheGoal

\* Every execution ends.
HeadlessEnds == exec.pc = "running" ~> exec.pc = "done"

\* "Model, assistant, tool, and compaction events from every internal Agent
\* run appear between those boundaries" (docs/headless.md:100).
EventsAreWithinTheRun == ~output.late
=============================================================================
