------------------------------ MODULE ToolPool ------------------------------
(***************************************************************************)
(* ToolRuntime.execute (src/agent/tool-runtime/runtime.ts) and the         *)
(* invocations it schedules (invocation.ts): the tool calls of one         *)
(* assistant message.                                                      *)
(*                                                                         *)
(* Adjacent parallel calls form a group that at most MaxParallel workers   *)
(* claim in model order; exclusive calls are groups of one.  A claimed     *)
(* call is validated, waits for its serial approval, runs, and publishes   *)
(* its end; the runtime meanwhile commits the results in model order.  An  *)
(* abort of the run, a deadline or a failure stops the pool, interrupts    *)
(* what runs, and gives it a grace period after which it is orphaned.      *)
(*                                                                         *)
(* phase[c] is the await at which call c is suspended and physical[c]      *)
(* tells whether the tool's own code runs, which an orphan's still does    *)
(* when its result is committed.  A result is abstracted to its kind.      *)
(* Nested run_code calls are another component.                            *)
(***************************************************************************)
EXTENDS Integers, Sequences, FiniteSets

CONSTANTS
  N,                  \* tool calls of the assistant message
  MaxParallel,        \* maxParallelToolCalls
  ParallelToolCalls,  \* parallelToolCalls
  Tools,              \* the kinds of tools the calls name
  FaultBound          \* bound: lost events and refused journal writes

ToolKinds == [concurrency : {"parallel", "exclusive"},
              check : {"valid", "malformed", "unknown"}]

\* A call whose tool is not found counts as exclusive (concurrencyOf).
ASSUME ToolPoolAssumption ==
  /\ N \in Nat \ {0} /\ MaxParallel \in Nat \ {0} /\ FaultBound \in Nat
  /\ ParallelToolCalls \in BOOLEAN
  /\ Tools \subseteq ToolKinds
  /\ \A t \in Tools : t.check = "unknown" => t.concurrency = "exclusive"

Calls == 1..N

VARIABLES
  tool,         \* the tool each call names
  pc,           \* where execute() is
  pool,         \* the group's scheduler state (startPool)
  phase,        \* where each call is
  physical,     \* what each call's tool.execute does
  result,       \* the kind of result of each call
  approvals,    \* the calls waiting in ToolInvoker.approvals
  asking,       \* the call whose approval hook runs, 0 for none
  eventError,   \* SerialEventQueue.firstError is set
  aborted,      \* the run's signal
  turnAborted,  \* execute's abortRun
  committed,    \* history: the durable results in commit order
  faults        \* history: failures so far

callVars == <<phase, physical, result, approvals, asking>>
vars == <<tool, pc, pool, callVars, eventError, aborted, turnAborted,
          committed, faults>>

PCs == {"turn", "group", "failing", "rest", "context", "done", "failed"}
CallPhases == {"queued", "rejected", "approval", "starting", "running",
               "grace", "publishing", "slotted"}
Results == {"outcome", "answered", "error", "cancelled", "interrupted",
            "unknown"}

PoolTypeOK ==
  /\ tool \in [Calls -> Tools]
  /\ pc \in PCs
  /\ pool \in [last : 0..N, next : 1..(N + 1), stopped : BOOLEAN,
               abortRun : BOOLEAN, failure : BOOLEAN]
  /\ phase \in [Calls -> CallPhases]
  /\ physical \in [Calls -> {"no", "running", "settled"}]
  /\ result \in [Calls -> Results \cup {"none"}]
  /\ approvals \in Seq(Calls)
  /\ asking \in 0..N
  /\ eventError \in BOOLEAN /\ aborted \in BOOLEAN /\ turnAborted \in BOOLEAN
  /\ committed \in Seq([call : Calls, result : Results])
  /\ faults \in 0..FaultBound

-----------------------------------------------------------------------------
Ended == pc \in {"done", "failed"}
NextCall == Len(committed) + 1
Fault == faults < FaultBound /\ faults' = faults + 1

\* The signal an invocation sees (combineAbortSignals).
Signalled == aborted \/ pool.stopped

Joins(c) == ParallelToolCalls /\ tool[c].concurrency = "parallel"

\* Mutant of IsGroup: only the first call of a group is looked at.
IsGroupUnchecked(start, last) == last = IF Joins(start) THEN N ELSE start

\* A group: one call, or the adjacent parallel calls from start on (readGroup).
IsGroup(start, last) ==
  /\ \A c \in start..last : last > start => Joins(c)
  /\ last < N /\ Joins(start) => ~Joins(last + 1)

\* Mutant of StopForAbort: the pool goes on replenishing.
AbortWithoutStop(p) == [p EXCEPT !.abortRun = TRUE]

StopForAbort(p) == [p EXCEPT !.abortRun = TRUE, !.stopped = TRUE]

\* A scheduler failure also stops the group.
StopForFailure(p) == [p EXCEPT !.failure = TRUE, !.stopped = TRUE]

\* Scheduler state p and phases ph take effect: an aborted signal interrupts
\* every running invocation at once, and each interruption stops for abort.
Apply(p, ph, signal) ==
  LET cut == {c \in Calls : ph[c] = "running" /\ (signal \/ p.stopped)}
  IN  /\ phase' = [c \in Calls |-> IF c \in cut THEN "grace" ELSE ph[c]]
      /\ pool' = IF cut = {} THEN p ELSE StopForAbort(p)

\* The phase a claimed call enters before its first await.
Claimed(c) == CASE tool[c].check = "unknown"   -> "publishing"
                [] tool[c].check = "malformed" -> "rejected"
                [] OTHER                       -> "approval"

\* The workers claim the calls of S, in model order.
ClaimAll(S) ==
  LET asks == {c \in S : Claimed(c) = "approval"}
  IN  /\ result' = [c \in Calls |-> IF c \in S /\ tool[c].check = "unknown"
                                    THEN "error" ELSE result[c]]
      /\ \E order \in [1..Cardinality(asks) -> asks] :
           /\ \A j, k \in DOMAIN order : j < k => order[j] < order[k]
           /\ approvals' = approvals \o order

Become(c, newPhase, newResult) ==
  /\ result' = [result EXCEPT ![c] = newResult]
  /\ Apply(pool, [phase EXCEPT ![c] = newPhase], aborted)

\* SerialEventQueue.emit and drain: the first lost event, of whichever call,
\* surfaces at the next drain.
Delivered == ~eventError /\ UNCHANGED <<eventError, faults>>
DeliveryFails ==
  /\ eventError' = FALSE
  /\ IF eventError THEN UNCHANGED faults ELSE Fault

\* What a drain that pushed nothing makes of a result.
Drained(r) == IF eventError THEN "error" ELSE r
Drain == eventError' = FALSE /\ UNCHANGED faults

-----------------------------------------------------------------------------
PoolInit ==
  /\ tool \in [Calls -> Tools]
  /\ pc = "turn"
  /\ pool = [last |-> 0, next |-> 1, stopped |-> FALSE, abortRun |-> FALSE,
             failure |-> FALSE]
  /\ phase = [c \in Calls |-> "queued"]
  /\ physical = [c \in Calls |-> "no"]
  /\ result = [c \in Calls |-> "none"]
  /\ approvals = <<>>
  /\ asking = 0
  /\ eventError = FALSE
  /\ aborted = FALSE
  /\ turnAborted = FALSE
  /\ committed = <<>>
  /\ faults = 0

\* Run abort, at any time before the turn ends.
Abort ==
  /\ ~aborted /\ ~Ended
  /\ aborted' = TRUE
  /\ Apply(pool, phase, TRUE)
  /\ UNCHANGED <<tool, pc, physical, result, approvals, asking, eventError,
                 turnAborted, committed, faults>>

(* execute() and executeGroup(). *)

\* Mutant of StartGroup: MaxParallel workers, however short the group is.
StartGroupOverrun ==
  /\ pc = "turn" /\ NextCall <= N /\ ~turnAborted /\ ~aborted
  /\ \E last \in NextCall..N :
       LET claimed == {c \in NextCall..last : c < NextCall + MaxParallel}
       IN /\ IsGroup(NextCall, last)
          /\ pool' = [last |-> last, next |-> NextCall + MaxParallel,
                      stopped |-> FALSE, abortRun |-> FALSE, failure |-> FALSE]
          /\ phase' = [c \in Calls |->
                       IF c \in claimed THEN Claimed(c) ELSE phase[c]]
          /\ ClaimAll(claimed)
  /\ pc' = "group"
  /\ UNCHANGED <<tool, physical, asking, eventError, aborted, turnAborted,
                 committed, faults>>

\* The next group starts: each worker claims a call.
StartGroup ==
  /\ pc = "turn" /\ NextCall <= N /\ ~turnAborted /\ ~aborted
  /\ \E last \in NextCall..N :
       LET claimed == {c \in NextCall..last : c < NextCall + MaxParallel}
       IN /\ IsGroup(NextCall, last)
          /\ pool' = [last |-> last, next |-> NextCall + Cardinality(claimed),
                      stopped |-> FALSE, abortRun |-> FALSE, failure |-> FALSE]
          /\ phase' = [c \in Calls |->
                       IF c \in claimed THEN Claimed(c) ELSE phase[c]]
          /\ ClaimAll(claimed)
  /\ pc' = "group"
  /\ UNCHANGED <<tool, physical, asking, eventError, aborted, turnAborted,
                 committed, faults>>

\* Mutant of CommitResult: a result is committed as soon as it is there.
CommitAnyResult ==
  /\ pc \in {"group", "rest"}
  /\ \E c \in 1..pool.last :
       /\ phase[c] = "slotted"
       /\ \A k \in DOMAIN committed : committed[k].call # c
       /\ committed' = Append(committed, [call |-> c, result |-> result[c]])
  /\ pc' = IF pc = "rest" /\ Len(committed) + 1 = N THEN "context" ELSE pc
  /\ UNCHANGED <<tool, pool, callVars, eventError, aborted, turnAborted,
                 faults>>

\* The oldest uncommitted result is there and becomes durable.
CommitResult ==
  /\ pc \in {"group", "rest"} /\ NextCall <= N
  /\ pc = "group" => NextCall <= pool.last
  /\ phase[NextCall] = "slotted"
  /\ committed' = Append(committed, [call   |-> NextCall,
                                     result |-> result[NextCall]])
  /\ pc' = IF pc = "rest" /\ NextCall = N THEN "context" ELSE pc
  /\ UNCHANGED <<tool, pool, callVars, eventError, aborted, turnAborted,
                 faults>>

\* Its write is refused: a group is stopped and drained before execute throws.
CommitFails ==
  /\ pc \in {"group", "rest"} /\ NextCall <= N
  /\ pc = "group" => NextCall <= pool.last
  /\ phase[NextCall] = "slotted"
  /\ Fault
  /\ IF pc = "group"
     THEN /\ pc' = "failing"
          /\ Apply(StopForFailure(pool), phase, aborted)
     ELSE /\ pc' = "failed"
          /\ UNCHANGED <<pool, phase>>
  /\ UNCHANGED <<tool, physical, result, approvals, asking, eventError,
                 aborted, turnAborted, committed>>

\* All results of the group are committed and its workers are done.
EndGroup ==
  /\ pc = "group" /\ NextCall > pool.last
  /\ IF pool.failure
     THEN pc' = "failed" /\ UNCHANGED turnAborted
     ELSE pc' = "turn" /\ turnAborted' = pool.abortRun
  /\ UNCHANGED <<tool, pool, callVars, eventError, aborted, committed, faults>>

\* pool.done after a failed commit.
GroupFailed ==
  /\ pc = "failing"
  /\ \A c \in 1..pool.last : phase[c] = "slotted"
  /\ pc' = "failed"
  /\ UNCHANGED <<tool, pool, callVars, eventError, aborted, turnAborted,
                 committed, faults>>

\* The top of execute's loop after an abort: the rest is cancelled unseen.
CancelTheRest ==
  /\ pc = "turn" /\ NextCall <= N /\ (turnAborted \/ aborted)
  /\ pc' = "rest"
  /\ turnAborted' = TRUE
  /\ UNCHANGED <<tool, pool, callVars, eventError, aborted, committed, faults>>

\* The end of a cancelled call is published, or execute throws.
PublishCancelled ==
  /\ pc = "rest" /\ phase[NextCall] = "queued"
  /\ \/ /\ Delivered
        /\ phase' = [phase EXCEPT ![NextCall] = "slotted"]
        /\ result' = [result EXCEPT ![NextCall] = "cancelled"]
        /\ UNCHANGED pc
     \/ /\ DeliveryFails
        /\ pc' = "failed"
        /\ UNCHANGED <<phase, result>>
  /\ UNCHANGED <<tool, pool, physical, approvals, asking, aborted,
                 turnAborted, committed>>

AllAnswered ==
  /\ pc = "turn" /\ NextCall > N
  /\ pc' = "context"
  /\ UNCHANGED <<tool, pool, callVars, eventError, aborted, turnAborted,
                 committed, faults>>

\* The policies' user messages follow the results, or one is refused.
EndExecute ==
  /\ pc = "context"
  /\ \/ pc' = "done" /\ UNCHANGED faults
     \/ pc' = "failed" /\ Fault
  /\ UNCHANGED <<tool, pool, callVars, eventError, aborted, turnAborted,
                 committed>>

(* One invocation (ToolInvoker.execute) in a worker of the pool. *)

\* validateToolArguments throws.
RejectArguments(c) ==
  /\ phase[c] = "rejected"
  /\ Become(c, "publishing", "error")
  /\ Drain
  /\ UNCHANGED <<tool, pc, physical, approvals, asking, aborted, turnAborted,
                 committed>>

\* The serial queue asks the hook of the next call.
Ask(c) ==
  /\ asking = 0 /\ approvals # <<>> /\ Head(approvals) = c
  /\ ~Signalled
  /\ asking' = c
  /\ approvals' = Tail(approvals)
  /\ UNCHANGED <<tool, pc, pool, phase, physical, result, eventError, aborted,
                 turnAborted, committed, faults>>

\* An aborted call is cancelled without being asked.
CancelUnasked(c) ==
  /\ asking = 0 /\ approvals # <<>> /\ Head(approvals) = c
  /\ Signalled
  /\ Apply(StopForAbort(pool), [phase EXCEPT ![c] = "publishing"], aborted)
  /\ result' = [result EXCEPT ![c] = "cancelled"]
  /\ approvals' = Tail(approvals)
  /\ UNCHANGED <<tool, pc, physical, asking, eventError, aborted, turnAborted,
                 committed, faults>>

\* The hook lets the call run, or supplies its result, and nothing was aborted
\* meanwhile.
Answer(c) ==
  /\ asking = c /\ asking' = 0
  /\ ~Signalled
  /\ \/ Become(c, "starting", "none")
     \/ Become(c, "publishing", "answered")
  /\ UNCHANGED <<tool, pc, physical, approvals, eventError, aborted,
                 turnAborted, committed, faults>>

\* The hook cancels the call, and by default the run with it; whatever else it
\* answers an aborted call is cancelled.
Refuse(c) ==
  /\ asking = c /\ asking' = 0
  /\ \E abortRun \in BOOLEAN :
       Apply(IF abortRun THEN StopForAbort(pool) ELSE pool,
             [phase EXCEPT ![c] = "publishing"], aborted)
  /\ result' = [result EXCEPT ![c] = "cancelled"]
  /\ UNCHANGED <<tool, pc, physical, approvals, eventError, aborted,
                 turnAborted, committed, faults>>

\* The hook throws.
HookFails(c) ==
  /\ asking = c /\ asking' = 0
  /\ Become(c, "publishing", "error")
  /\ Drain
  /\ UNCHANGED <<tool, pc, physical, approvals, aborted, turnAborted,
                 committed>>

\* The start event is delivered and the tool called, even if the signal was
\* aborted meanwhile; or the event is lost and the tool not called.
Start(c) ==
  /\ phase[c] = "starting"
  /\ \/ /\ Delivered
        /\ Become(c, "running", "none")
        /\ physical' = [physical EXCEPT ![c] = "running"]
     \/ /\ DeliveryFails
        /\ Become(c, "publishing", "error")
        /\ UNCHANGED physical
  /\ UNCHANGED <<tool, pc, approvals, asking, aborted, turnAborted, committed>>

\* A listener throws at an update of the running tool.
UpdateLost(c) ==
  /\ phase[c] = "running"
  /\ Fault
  /\ eventError' = TRUE
  /\ UNCHANGED <<tool, pc, pool, callVars, aborted, turnAborted, committed>>

\* The tool fulfils or rejects.
Settle(c) ==
  /\ phase[c] = "running"
  /\ physical' = [physical EXCEPT ![c] = "settled"]
  /\ Become(c, "publishing", Drained("outcome"))
  /\ Drain
  /\ UNCHANGED <<tool, pc, approvals, asking, aborted, turnAborted, committed>>

\* The deadline timer fires: the pool stops before the grace period begins.
Deadline(c) ==
  /\ phase[c] = "running"
  /\ Apply(StopForAbort(pool), phase, aborted)
  /\ UNCHANGED <<tool, pc, physical, result, approvals, asking, eventError,
                 aborted, turnAborted, committed, faults>>

\* The interrupted tool settles within its grace period.
SettleInGrace(c) ==
  /\ phase[c] = "grace"
  /\ physical' = [physical EXCEPT ![c] = "settled"]
  /\ Become(c, "publishing", Drained("interrupted"))
  /\ Drain
  /\ UNCHANGED <<tool, pc, approvals, asking, aborted, turnAborted, committed>>

\* Mutant of Orphan: the call is reported as settled.
OrphanAsSettled(c) ==
  /\ phase[c] = "grace"
  /\ Become(c, "publishing", Drained("interrupted"))
  /\ Drain
  /\ UNCHANGED <<tool, pc, physical, approvals, asking, aborted, turnAborted,
                 committed>>

\* Mutant of Orphan: the call is waited for.
OrphanAwaited(c) ==
  /\ phase[c] = "grace" /\ physical[c] = "settled"
  /\ Become(c, "publishing", Drained("unknown"))
  /\ Drain
  /\ UNCHANGED <<tool, pc, physical, approvals, asking, aborted, turnAborted,
                 committed>>

\* It does not: it is reported while it still runs.
Orphan(c) ==
  /\ phase[c] = "grace"
  /\ Become(c, "publishing", Drained("unknown"))
  /\ Drain
  /\ UNCHANGED <<tool, pc, physical, approvals, asking, aborted, turnAborted,
                 committed>>

\* An orphan settles at last; only a diagnostic is logged.
OrphanSettles(c) ==
  /\ phase[c] \in {"publishing", "slotted"} /\ physical[c] = "running"
  /\ physical' = [physical EXCEPT ![c] = "settled"]
  /\ UNCHANGED <<tool, pc, pool, phase, result, approvals, asking, eventError,
                 aborted, turnAborted, committed, faults>>

\* The end event is delivered, or its loss fails the pool; the slot resolves,
\* and the worker returns to the top of its loop, where it claims the next
\* call of the group unless the pool was stopped or the run aborted.
Publish(c) ==
  /\ phase[c] = "publishing"
  /\ \E lost \in BOOLEAN :
       /\ IF lost THEN DeliveryFails ELSE Delivered
       /\ LET p0 == IF lost THEN StopForFailure(pool) ELSE pool
              p1 == IF aborted THEN StopForAbort(p0) ELSE p0
              claimed == IF p1.stopped THEN {}
                         ELSE {d \in Calls : d = p1.next /\ d <= p1.last}
          IN  /\ Apply([p1 EXCEPT !.next = @ + Cardinality(claimed)],
                       [d \in Calls |-> IF d = c THEN "slotted"
                                        ELSE IF d \in claimed THEN Claimed(d)
                                        ELSE phase[d]],
                       aborted)
              /\ ClaimAll(claimed)
  /\ UNCHANGED <<tool, pc, physical, asking, aborted, turnAborted, committed>>

\* The workers have returned: the unclaimed calls are cancelled in turn.
CancelUnclaimed(c) ==
  /\ pc \in {"group", "failing"}
  /\ pool.next <= c /\ c <= pool.last /\ phase[c] = "queued"
  /\ \A d \in 1..(c - 1) : phase[d] = "slotted"
  /\ Become(c, "publishing", "cancelled")
  /\ UNCHANGED <<tool, pc, physical, approvals, asking, eventError, aborted,
                 turnAborted, committed, faults>>

-----------------------------------------------------------------------------
\* The runtime's own steps: they end by themselves.
RuntimeStep ==
  \/ StartGroup \/ CommitResult \/ CommitFails \/ EndGroup \/ GroupFailed
  \/ CancelTheRest \/ PublishCancelled \/ AllAnswered \/ EndExecute
  \/ \E c \in Calls :
       \/ RejectArguments(c) \/ Ask(c) \/ CancelUnasked(c) \/ Start(c)
       \/ Deadline(c) \/ Orphan(c) \/ Publish(c) \/ CancelUnclaimed(c)

\* Approvals are for the hook, that is the frontend and its user, to answer.
HookStep == \E c \in Calls : Answer(c) \/ Refuse(c) \/ HookFails(c)

\* What tools and their callers do, when they like.
ToolStep ==
  \E c \in Calls : \/ UpdateLost(c) \/ Settle(c) \/ SettleInGrace(c)
                   \/ OrphanSettles(c)

PoolNext == RuntimeStep \/ HookStep \/ ToolStep \/ Abort

PoolSpec == PoolInit /\ [][PoolNext]_vars

-----------------------------------------------------------------------------
(* Properties. *)

\* An exclusive tool never runs together with another tool, not even with one
\* that was orphaned (docs/tools.md:74; runtime.ts:124-137).
ExclusiveRunsAlone ==
  \A c, d \in Calls :
    /\ physical[c] = "running" /\ physical[d] = "running" /\ c # d
    => tool[c].concurrency = "parallel"

\* At most MaxParallel invocation bodies run at once, or one if parallel calls
\* are switched off (docs/tools.md:74-76), again counting orphans: the pool must
\* not claim another call in an orphan's place.
PoolIsBounded ==
  Cardinality({c \in Calls : physical[c] = "running"}) <=
    (IF ParallelToolCalls THEN MaxParallel ELSE 1)

\* A result tells the truth about the execution: an outcome or an interruption
\* is reported of a tool that stopped, a cancellation or the hook's answer of
\* one that never ran, and what still runs is not said to have stopped.
ResultsAreTruthful ==
  \A c \in Calls :
    /\ result[c] \in {"outcome", "interrupted"} => physical[c] = "settled"
    /\ result[c] \in {"cancelled", "answered"} => physical[c] = "no"
    /\ phase[c] \in {"publishing", "slotted"} /\ physical[c] = "running"
         => result[c] \in {"unknown", "error"}

\* When a tool was interrupted, or the hook cancelled the run, the caller of
\* execute learns that the run is to be aborted, unless execute throws.
InterruptionIsReported ==
  /\ (\E c \in Calls : result[c] \in {"interrupted", "unknown"}) => pool.abortRun
  /\ pool.abortRun /\ pc \in {"turn", "rest", "context", "done"} => turnAborted

\* Once the run is aborted, the pool stopped or a tool in its grace period, no
\* further call is claimed (docs/tools.md:82; invocation.ts:149-151).
StopsReplenishing ==
  [][aborted \/ pool.stopped \/ (\E c \in Calls : phase[c] = "grace") =>
       \A c \in Calls : phase[c] = "queued" /\ phase'[c] # "queued" =>
                          result'[c] = "cancelled"]_vars

\* The results are committed one at a time in model order, and the turn ends
\* as ToolTurn promises.
Turn == INSTANCE ToolTurn WITH
          Calls <- N,
          results <- committed,
          status <- IF Ended THEN pc ELSE "running",
          abort <- pc = "done" /\ turnAborted

ImplementsToolTurn == Turn!TurnSpec

\* What runs together may: exclusive tools alone, the others within the pool's
\* bound, orphans counted (startPool).
SchedulingIsSafe == ExclusiveRunsAlone /\ PoolIsBounded

\* What the runtime reports is true, of each call to the model and of the
\* interruption to the Agent.
ReportsAreTruthful == ResultsAreTruthful /\ InterruptionIsReported

\* The invariant of the pool.
PoolIsSafe == PoolTypeOK /\ SchedulingIsSafe /\ ReportsAreTruthful

\* A running tool, whether it cooperates or not, holds up its turn only until
\* its deadline and grace period are over.
RunningCallEnds ==
  \A c \in Calls : phase[c] = "running" ~> phase[c] = "slotted"

\* An aborted turn ends, whatever its tools and its user do.
AbortedTurnEnds == aborted ~> Ended

\* Nothing holds up a turn for good: neither a running call nor, once it is
\* aborted, an approval or a queue.
TurnsEnd == RunningCallEnds /\ AbortedTurnEnds

-----------------------------------------------------------------------------
\* Stated by docs/tools.md:84: a call that ignores cancellation past its grace
\* period gets the result "unknown".  When an event was lost meanwhile, the
\* drain after the grace period throws and the result becomes a plain error
\* (invocation.ts:154, 192-200).
OrphanIsUnknown ==
  \A c \in Calls :
    phase[c] \in {"publishing", "slotted"} /\ physical[c] = "running" =>
      result[c] = "unknown"
=============================================================================
