----------------------------- MODULE NestedCalls -----------------------------
(***************************************************************************)
(* The tool calls a run_code script makes                                  *)
(* (src/agent/tool-runtime/nested.ts): a queue in which parallel calls     *)
(* share a few slots and an exclusive call is a barrier, the serial        *)
(* approval hook, the outer deadline that pauses while a call waits for    *)
(* approval (invocation.ts), and what the end of the script, its deadline  *)
(* or an abort of the run does to the calls under way.                     *)
(*                                                                         *)
(* The sandbox is external: it cancels the calls the script left when the  *)
(* script ends, and a hook answers as soon as its call is cancelled, which *)
(* is before the sandbox's worker is gone.                                 *)
(***************************************************************************)
EXTENDS Naturals, Sequences, FiniteSets, SequencesExt

CONSTANTS
  NestedCall,  \* the calls the script may make, by number
  NestedLimit  \* maxParallelToolCalls

ASSUME NestedAssumption ==
  NestedCall \subseteq Nat /\ IsFiniteSet(NestedCall) /\ NestedLimit \in Nat \ {0}

VARIABLES
  exclusive,       \* the calls of tools that are not parallel
  nestedPhase,           \* how far each call is
  queue,           \* calls not yet invoked
  activeCount,     \* calls invoked and not finished
  exclusiveActive, \* one of them is exclusive
  nestedApprovals,       \* the calls in the serial approval queue; the first is asked
  nestedAsking,          \* the hook is waiting for its answer
  cancelledCalls,  \* calls whose own signal is aborted
  detached,        \* calls that were given up while their tool still ran
  script,          \* running, or returned (or stopped by the signal)
  outer,           \* the run_code invocation
  waitingApprovals,\* calls for which the outer deadline is paused
  deadline         \* armed, paused or off

nestedVars == <<exclusive, nestedPhase, queue, activeCount, exclusiveActive, nestedApprovals,
                nestedAsking, cancelledCalls, detached, script, outer,
                waitingApprovals, deadline>>

NestedTypeOK ==
  /\ exclusive \subseteq NestedCall
  /\ nestedPhase \in [NestedCall -> {"new", "queued", "approving", "starting",
                               "executing", "cancelling", "ending", "done"}]
  /\ queue \in Seq(NestedCall) /\ nestedApprovals \in Seq(NestedCall)
  /\ activeCount \in 0..NestedLimit /\ exclusiveActive \in BOOLEAN
  /\ nestedAsking \in BOOLEAN /\ detached \subseteq NestedCall
  /\ cancelledCalls \subseteq NestedCall
  /\ script \in {"running", "returned"}
  /\ outer \in {"running", "interrupted", "settled", "unknown"}
  /\ waitingApprovals \in Nat /\ deadline \in {"armed", "paused", "off"}

In(p) == {c \in NestedCall : nestedPhase[c] = p}
\* The call's signal, which combines the outer one with its own, is aborted.
IsAborted(c) == outer \in {"interrupted", "unknown"} \/ c \in cancelledCalls

NestedInit ==
  /\ exclusive \in SUBSET NestedCall
  /\ nestedPhase = [c \in NestedCall |-> "new"]
  /\ queue = <<>> /\ nestedApprovals = <<>>
  /\ activeCount = 0 /\ exclusiveActive = FALSE
  /\ nestedAsking = FALSE /\ cancelledCalls = {} /\ detached = {}
  /\ script = "running" /\ outer = "running"
  /\ waitingApprovals = 0 /\ deadline = "armed"

-----------------------------------------------------------------------------
\* Mutant of Invoked: an exclusive call does not wait for the running ones.
InvokedWithoutBarrier(q, n, blocked) ==
  {i \in DOMAIN q : ~blocked /\ n + i <= NestedLimit
                    /\ \A j \in 1..(i - 1) : q[j] \notin exclusive}

\* drain(): the prefix of the queue that is invoked when n calls are active: one
\* exclusive call if there is none, or parallel ones up to the limit.
Invoked(q, n, blocked) ==
  {i \in DOMAIN q : /\ ~blocked /\ n + i <= NestedLimit
                    /\ \A j \in 1..i : q[j] \in exclusive => j = 1 /\ i = 1 /\ n = 0}

\* The queue q is drained; a call that is invoked joins the approval queue, and
\* the outer deadline pauses for the first that waits.
DrainNested(q, n, blocked, phases) ==
  LET k       == Cardinality(Invoked(q, n, blocked))
      started == SubSeq(q, 1, k)
  IN  /\ queue' = SubSeq(q, k + 1, Len(q))
      /\ activeCount' = n + k
      /\ exclusiveActive' = (blocked \/ \E i \in 1..k : q[i] \in exclusive)
      /\ nestedPhase' = [c \in NestedCall |-> IF c \in ToSet(started) THEN "approving"
                                        ELSE phases[c]]
      /\ nestedApprovals' = nestedApprovals \o started
      /\ IF k = 0 \/ outer # "running" THEN UNCHANGED <<waitingApprovals, deadline>>
         ELSE waitingApprovals' = waitingApprovals + k /\ deadline' = "paused"

\* The script calls a tool.
CallNested(c) ==
  /\ script = "running" /\ nestedPhase[c] = "new"
  /\ \A b \in NestedCall : b < c => nestedPhase[b] # "new"
  /\ DrainNested(Append(queue, c), activeCount, exclusiveActive,
                 [nestedPhase EXCEPT ![c] = "queued"])
  /\ UNCHANGED <<exclusive, nestedAsking, cancelledCalls, detached, script, outer>>

\* interrupt() of the outer call, and what a tool under way sees of its signal.
Interrupted(out, cancelled, phases) ==
  [c \in NestedCall |->
     IF phases[c] = "executing" /\ (out # "running" \/ c \in cancelled)
     THEN "cancelling" ELSE phases[c]]

\* Mutant of OnAbortRun: the cancellation of a call aborts the run.
OnAnyAbortRun(c) == IF outer = "running" THEN "interrupted" ELSE outer

\* onAbortRun: a call that ends the run interrupts run_code, unless the call was
\* itself cancelled.
OnAbortRun(c) == IF outer = "running" /\ ~IsAborted(c) THEN "interrupted" ELSE outer

\* Mutant of EndWait: the deadline resumes with the first call that is answered.
EndWaitAtOnce ==
  /\ waitingApprovals' = waitingApprovals - 1
  /\ deadline' = "armed"

\* waiting(false): the last answered call resumes the outer deadline.
EndWait ==
  IF outer # "running" THEN UNCHANGED <<waitingApprovals, deadline>>
  ELSE /\ waitingApprovals' = waitingApprovals - 1
       /\ deadline' = IF waitingApprovals = 1 THEN "armed" ELSE deadline

\* The serial queue comes to a call; a cancelled one is not asked about.
AskApproval ==
  /\ nestedApprovals # <<>> /\ ~nestedAsking
  /\ ~IsAborted(Head(nestedApprovals))
  /\ nestedAsking' = TRUE
  /\ UNCHANGED <<exclusive, nestedPhase, queue, activeCount, exclusiveActive, nestedApprovals,
                 cancelledCalls, detached, script, outer, waitingApprovals, deadline>>

\* approve() returns: the hook, or the queue itself, answered.  A refusal and
\* an aborted signal end the run.
ApprovalReturns(approved) ==
  LET c == Head(nestedApprovals) IN
  /\ nestedApprovals # <<>>
  /\ IF nestedAsking THEN IsAborted(c) => ~approved ELSE IsAborted(c) /\ ~approved
  /\ nestedApprovals' = Tail(nestedApprovals) /\ nestedAsking' = FALSE
  /\ EndWait
  /\ outer' = IF approved THEN outer ELSE OnAbortRun(c)
  /\ nestedPhase' = Interrupted(outer', cancelledCalls,
                          [nestedPhase EXCEPT ![c] = IF approved THEN "starting" ELSE "ending"])
  /\ UNCHANGED <<exclusive, queue, activeCount, exclusiveActive, cancelledCalls,
                 detached, script>>

\* The start event is delivered and the tool is called, also with a signal that
\* was aborted meanwhile.
StartNested(c) ==
  /\ nestedPhase[c] = "starting"
  /\ nestedPhase' = Interrupted(outer, cancelledCalls, [nestedPhase EXCEPT ![c] = "executing"])
  /\ UNCHANGED <<exclusive, queue, activeCount, exclusiveActive, nestedApprovals, nestedAsking,
                 cancelledCalls, detached, script, outer, waitingApprovals, deadline>>

\* The tool returns, after an interruption within the cancellation grace.
ToolReturns(c) ==
  /\ nestedPhase[c] \in {"executing", "cancelling"}
  /\ nestedPhase' = [nestedPhase EXCEPT ![c] = "ending"]
  /\ UNCHANGED <<exclusive, queue, activeCount, exclusiveActive, nestedApprovals, nestedAsking,
                 cancelledCalls, detached, script, outer, waitingApprovals, deadline>>

\* The deadline of the call's own tool.
NestedDeadline(c) ==
  /\ nestedPhase[c] = "executing"
  /\ outer' = OnAbortRun(c)
  /\ nestedPhase' = Interrupted(outer', cancelledCalls, [nestedPhase EXCEPT ![c] = "cancelling"])
  /\ UNCHANGED <<exclusive, queue, activeCount, exclusiveActive, nestedApprovals, nestedAsking,
                 cancelledCalls, detached, script, waitingApprovals, deadline>>

\* The grace is over: the call is given up, its tool may still run.
GraceEnds(c) ==
  /\ nestedPhase[c] = "cancelling"
  /\ nestedPhase' = [nestedPhase EXCEPT ![c] = "ending"]
  /\ detached' = detached \cup {c}
  /\ UNCHANGED <<exclusive, queue, activeCount, exclusiveActive, nestedApprovals, nestedAsking,
                 cancelledCalls, script, outer, waitingApprovals, deadline>>

\* Mutant of FinishNested: the queue is not drained again.
FinishNestedOnly(c) ==
  /\ nestedPhase[c] = "ending"
  /\ nestedPhase' = [nestedPhase EXCEPT ![c] = "done"]
  /\ activeCount' = activeCount - 1 /\ exclusiveActive' = FALSE
  /\ UNCHANGED <<exclusive, queue, nestedApprovals, nestedAsking, cancelledCalls, detached,
                 script, outer, waitingApprovals, deadline>>

\* The end event is published and the script gets its answer; finally the slot
\* is free and the queue is drained.
FinishNested(c) ==
  /\ nestedPhase[c] = "ending"
  /\ DrainNested(queue, activeCount - 1, FALSE, [nestedPhase EXCEPT ![c] = "done"])
  /\ UNCHANGED <<exclusive, nestedAsking, cancelledCalls, detached, script, outer>>

\* The script ends, by itself or stopped by the outer signal: the sandbox
\* cancels what it left.
ScriptReturns ==
  /\ script = "running"
  /\ script' = "returned"
  /\ cancelledCalls' = cancelledCalls \cup {c \in NestedCall : nestedPhase[c] \notin {"new", "done"}}
  /\ nestedPhase' = Interrupted(outer, cancelledCalls', nestedPhase)
  /\ UNCHANGED <<exclusive, queue, activeCount, exclusiveActive, nestedApprovals, nestedAsking,
                 detached, outer, waitingApprovals, deadline>>

\* run_code settles and is disposed; interrupted, its grace may end before that.
OuterReturns ==
  /\ outer \in {"running", "interrupted"}
  /\ \/ script = "returned" /\ nestedApprovals = <<>> /\ outer' = "settled"
     \/ outer = "interrupted" /\ outer' = "unknown"
  /\ deadline' = "off"
  /\ UNCHANGED <<exclusive, nestedPhase, queue, activeCount, exclusiveActive, nestedApprovals,
                 nestedAsking, cancelledCalls, detached, script, waitingApprovals>>

\* The outer deadline fires, or the run is aborted.
OuterInterrupted(reason) ==
  /\ outer = "running"
  /\ reason = "deadline" => deadline = "armed"
  /\ outer' = "interrupted"
  /\ nestedPhase' = Interrupted(outer', cancelledCalls, nestedPhase)
  /\ UNCHANGED <<exclusive, queue, activeCount, exclusiveActive, nestedApprovals, nestedAsking,
                 cancelledCalls, detached, script, waitingApprovals, deadline>>

\* What goes on by itself; a hook, a tool and a script may take forever.
NestedGoesOn ==
  \/ AskApproval
  \/ \E c \in NestedCall : StartNested(c) \/ GraceEnds(c) \/ FinishNested(c)
  \/ OuterReturns

NestedNext ==
  \/ \E c \in NestedCall : CallNested(c) \/ ToolReturns(c) \/ NestedDeadline(c)
  \/ \E approved \in BOOLEAN : ApprovalReturns(approved)
  \/ \E reason \in {"deadline", "run_aborted"} : OuterInterrupted(reason)
  \/ ScriptReturns
  \/ NestedGoesOn

NestedSpec == NestedInit /\ [][NestedNext]_nestedVars

-----------------------------------------------------------------------------
NestedActive == In("approving") \cup In("starting") \cup In("executing")
            \cup In("cancelling") \cup In("ending")

(* An exclusive call is alone from its invocation to its end, also when it *)
(* overlaps calls that were cancelled or given up, and the counters agree  *)
(* with the calls under way.                                               *)
ExclusiveIsAlone ==
  /\ \A c \in NestedActive \cap exclusive : NestedActive = {c}
  /\ activeCount = Cardinality(NestedActive)
  /\ exclusiveActive = (NestedActive \cap exclusive # {})
  /\ \A c \in In("executing") \cap exclusive : detached \subseteq {c}

(* The outer deadline is paused exactly while some call waits for its      *)
(* approval, and the hook never asks about two calls at once.              *)
DeadlineWaitsForApprovals ==
  /\ outer = "running" => /\ waitingApprovals = Cardinality(In("approving"))
                          /\ deadline = "paused" <=> In("approving") # {}
  /\ ToSet(nestedApprovals) = In("approving")

(* No call sits in the queue while a slot is free for it.                  *)
NoSlotIsWasted == Invoked(queue, activeCount, exclusiveActive) = {}

NestedIsSafe == /\ NestedTypeOK /\ ExclusiveIsAlone /\ DeadlineWaitsForApprovals
                /\ NoSlotIsWasted

(* Calls the script left behind do not fail it: once it has returned, only *)
(* the run's abort or the outer deadline interrupts run_code, and a call   *)
(* whose signal is aborted before it was asked about is never asked about. *)
LeftCallsAreHarmless ==
  [][/\ (outer' = "interrupted" /\ outer = "running" /\ script = "returned") =>
          \E reason \in {"deadline", "run_aborted"} : OuterInterrupted(reason)
     /\ (nestedAsking' /\ ~nestedAsking) => ~IsAborted(Head(nestedApprovals))]_nestedVars

(* An interrupted run_code comes to an end, and every call the script made *)
(* is answered once the script is over.                                    *)
NestedCallsEnd ==
  /\ (outer = "interrupted") ~> (outer \in {"settled", "unknown"})
  /\ (script = "returned") ~> (NestedActive = {} /\ queue = <<>>)

NestedBehaves == LeftCallsAreHarmless /\ NestedCallsEnd
=============================================================================
