--------------------------- MODULE SteeringQueue ---------------------------
(***************************************************************************)
(* The in-memory inbox of an Agent (src/agent/inbox.ts) and the steering   *)
(* queue that owns it (src/agent/steering.ts).                             *)
(*                                                                         *)
(* Inputs wait in one of two lanes.  The next-step lane is consumed by the *)
(* active run at a turn boundary: each item is journaled first and removed *)
(* from the lane only afterwards, and the journal write is asynchronous,   *)
(* so cancels, clears and new steering interleave with it.  The next-turn  *)
(* lane feeds later runs.  A caller of steer() holds a promise that the    *)
(* queue settles as "consumed" or "deferred".                              *)
(*                                                                         *)
(* Every action is one synchronous segment of the event loop.              *)
(***************************************************************************)
EXTENDS Naturals, Sequences, SequencesExt, FiniteSets, Functions

CONSTANT Inputs   \* the identified user messages, one MessageId each

VARIABLES
  nextStep,    \* AgentInbox.nextStepItems
  nextTurn,    \* AgentInbox.nextTurnItems
  committing,  \* SteeringQueue.committing: items crossing the journal boundary
  promise,     \* what a steer() caller has been told; "pending" = resolver held
  view,        \* the snapshot last handed to the inbox listeners
  fate         \* history: where each input is, or why it left the inbox

queueVars == <<nextStep, nextTurn, committing, promise, view, fate>>

Promises == {"none", "pending", "consumed", "deferred"}

\* "new": the id was never offered; "queued": in a lane; "committed": journaled
\* and claimed by the active run; "shifted": taken as the input of a new run;
\* "removed": cancelled or cleared.
Fates == {"new", "queued", "committed", "shifted", "removed"}

QueueTypeOK ==
  /\ nextStep \in Seq(Inputs)
  /\ nextTurn \in Seq(Inputs)
  /\ committing \subseteq Inputs
  /\ promise \in [Inputs -> Promises]
  /\ view \in [nextStep : Seq(Inputs), nextTurn : Seq(Inputs)]
  /\ fate \in [Inputs -> Fates]

-----------------------------------------------------------------------------
(* Helpers on lanes. *)

Snapshot(step, turn) == [nextStep |-> step, nextTurn |-> turn]

\* The ids for which `pendingIds` answers true.
Pending == ToSet(nextStep) \cup ToSet(nextTurn)

\* The n-th smallest index of K.
Nth(K, n) == CHOOSE k \in K : Cardinality({m \in K : m <= k}) = n

\* The items of lane s at the indexes K, in lane order.  (SelectSeq is
\* recursive; this definition can be reasoned about.)
ItemsAt(s, K) == [n \in 1..Cardinality(K) |-> s[Nth(K, n)]]

\* Mutant of Kept: clear() keeps nothing, not even the item being journaled.
KeptNothing(s, T) == <<>>

\* The items of lane s that belong to T.
Kept(s, T) == ItemsAt(s, {k \in DOMAIN s : s[k] \in T})

\* Lane s without the item i; unchanged when i is not in it.
Without(s, i) ==
  IF \E k \in DOMAIN s : s[k] = i
  THEN RemoveAt(s, CHOOSE k \in DOMAIN s : s[k] = i)
  ELSE s

\* SteeringQueue.settle for every id of S: only a held resolver is called.
Settled(S, result) ==
  [i \in Inputs |-> IF i \in S /\ promise[i] = "pending" THEN result ELSE promise[i]]

\* SteeringQueue.changed: every listener receives the current snapshot.
Changed == view' = Snapshot(nextStep', nextTurn')

-----------------------------------------------------------------------------
QueueInit ==
  /\ nextStep = <<>>
  /\ nextTurn = <<>>
  /\ committing = {}
  /\ promise = [i \in Inputs |-> "none"]
  /\ view = Snapshot(<<>>, <<>>)
  /\ fate = [i \in Inputs |-> "new"]

\* enqueue(input, "next-step"): an input that joins the active run, without a
\* caller waiting for it (a completion, a user task).
EnqueueStep(i) ==
  /\ fate[i] = "new"
  /\ nextStep' = Append(nextStep, i)
  /\ fate' = [fate EXCEPT ![i] = "queued"]
  /\ UNCHANGED <<nextTurn, committing, promise>>
  /\ Changed

\* enqueue(input, "next-turn").
EnqueueTurn(i) ==
  /\ fate[i] = "new"
  /\ nextTurn' = Append(nextTurn, i)
  /\ fate' = [fate EXCEPT ![i] = "queued"]
  /\ UNCHANGED <<nextStep, committing, promise>>
  /\ Changed

\* steer(input) while a run can accept it: the caller's resolver is registered
\* after the insertion.
SteerIntoRun(i) ==
  /\ fate[i] = "new"
  /\ nextStep' = Append(nextStep, i)
  /\ promise' = [promise EXCEPT ![i] = "pending"]
  /\ fate' = [fate EXCEPT ![i] = "queued"]
  /\ UNCHANGED <<nextTurn, committing>>
  /\ Changed

\* Agent.steer outside a prompt run: the input waits for a later run and the
\* caller is answered at once.
SteerForLater(i) ==
  /\ fate[i] = "new"
  /\ nextTurn' = Append(nextTurn, i)
  /\ promise' = [promise EXCEPT ![i] = "deferred"]
  /\ fate' = [fate EXCEPT ![i] = "queued"]
  /\ UNCHANGED <<nextStep, committing>>
  /\ Changed

\* shiftNextTurn(): the owner of the Agent takes the oldest next-turn item.
ShiftNextTurn ==
  /\ nextTurn # <<>>
  /\ nextTurn' = Tail(nextTurn)
  /\ fate' = [fate EXCEPT ![Head(nextTurn)] = "shifted"]
  /\ UNCHANGED <<nextStep, committing, promise>>
  /\ Changed

\* An input that its owner streams as the prompt of a new run never enters the
\* inbox; its id is used up (Agent.stream refuses a known id).
TakeDirectly(i) ==
  /\ fate[i] = "new"
  /\ fate' = [fate EXCEPT ![i] = "shifted"]
  /\ UNCHANGED <<nextStep, nextTurn, committing, promise, view>>

\* Mutant of Cancel: the check for a commit in progress is missing.
CancelUnchecked(i) ==
  /\ i \in Pending
  /\ nextStep' = Without(nextStep, i)
  /\ nextTurn' = Without(nextTurn, i)
  /\ promise' = Settled({i}, "deferred")
  /\ fate' = [fate EXCEPT ![i] = "removed"]
  /\ UNCHANGED committing
  /\ Changed

\* Mutant of Cancel: the caller is told an outcome that does not exist.
CancelAsCancelled(i) ==
  /\ i \notin committing
  /\ i \in Pending
  /\ nextStep' = Without(nextStep, i)
  /\ nextTurn' = Without(nextTurn, i)
  /\ promise' = Settled({i}, "cancelled")
  /\ fate' = [fate EXCEPT ![i] = "removed"]
  /\ UNCHANGED committing
  /\ Changed

\* cancel(id): refused for an item that is crossing the journal boundary.
Cancel(i) ==
  /\ i \notin committing
  /\ i \in Pending
  /\ nextStep' = Without(nextStep, i)
  /\ nextTurn' = Without(nextTurn, i)
  /\ promise' = Settled({i}, "deferred")
  /\ fate' = [fate EXCEPT ![i] = "removed"]
  /\ UNCHANGED committing
  /\ Changed

\* clear(): everything but the item crossing the journal boundary goes.
Clear ==
  LET removed == Pending \ committing
  IN  /\ removed # {}
      /\ nextStep' = Kept(nextStep, committing)
      /\ nextTurn' = Kept(nextTurn, committing)
      /\ promise' = Settled(removed, "deferred")
      /\ fate' = [i \in Inputs |-> IF i \in removed THEN "removed" ELSE fate[i]]
      /\ UNCHANGED committing
      /\ Changed

\* The head of the lane that consume() reserves before it journals it.
Reserve(lane) == IF lane = <<>> THEN {} ELSE {Head(lane)}

\* Mutant of BeginConsume: the caller is told before the journal is written.
BeginConsumeSettled ==
  /\ committing = {}
  /\ nextStep # <<>>
  /\ committing' = Reserve(nextStep)
  /\ promise' = Settled(committing', "consumed")
  /\ UNCHANGED <<nextStep, nextTurn, view, fate>>

\* consume() starts: it reserves the head and begins to journal it.
BeginConsume ==
  /\ committing = {}
  /\ nextStep # <<>>
  /\ committing' = Reserve(nextStep)
  /\ UNCHANGED <<nextStep, nextTurn, promise, view, fate>>

\* The journal accepted the reserved item: claim it, settle its caller and, in
\* the same segment, reserve the next head or finish (one change notification
\* for the whole batch).
CommitWritten ==
  \E i \in committing :
    /\ nextStep' = Tail(nextStep)
    /\ committing' = Reserve(nextStep')
    /\ promise' = Settled({i}, "consumed")
    /\ fate' = [fate EXCEPT ![i] = "committed"]
    /\ UNCHANGED nextTurn
    /\ IF committing' = {} THEN Changed ELSE UNCHANGED view

\* Mutant of CommitFailed: the item was claimed before the journal answered.
CommitFailedAfterClaim ==
  /\ committing # {}
  /\ nextStep' = Tail(nextStep)
  /\ committing' = {}
  /\ fate' = [i \in Inputs |-> IF i \in committing THEN "removed" ELSE fate[i]]
  /\ UNCHANGED <<nextTurn, promise, view>>

\* The journal refused it: consume() throws, the item stays queued.
CommitFailed ==
  /\ committing # {}
  /\ committing' = {}
  /\ UNCHANGED <<nextStep, nextTurn, promise, view, fate>>

\* Mutant of DeferPending: deferred steering jumps the next-turn queue.
DeferPendingInFront ==
  /\ committing = {}
  /\ nextStep' = <<>>
  /\ nextTurn' = nextStep \o nextTurn
  /\ promise' = Settled(ToSet(nextStep), "deferred")
  /\ UNCHANGED <<committing, fate>>
  /\ IF nextStep = <<>> THEN UNCHANGED view ELSE Changed

\* deferPending(): what the run leaves in next-step joins the next-turn tail.
DeferPending ==
  /\ committing = {}
  /\ nextStep' = <<>>
  /\ nextTurn' = nextTurn \o nextStep
  /\ promise' = Settled(ToSet(nextStep), "deferred")
  /\ UNCHANGED <<committing, fate>>
  /\ IF nextStep = <<>> THEN UNCHANGED view ELSE Changed

QueueNext ==
  \/ \E i \in Inputs : \/ EnqueueStep(i)
                       \/ EnqueueTurn(i)
                       \/ SteerIntoRun(i)
                       \/ SteerForLater(i)
                       \/ TakeDirectly(i)
                       \/ Cancel(i)
  \/ ShiftNextTurn
  \/ Clear
  \/ BeginConsume
  \/ CommitWritten
  \/ CommitFailed
  \/ DeferPending

QueueSpec == QueueInit /\ [][QueueNext]_queueVars

-----------------------------------------------------------------------------
(* Properties. *)

\* No input is in two places of the inbox.
LanesDistinct ==
  /\ IsInjective(nextStep)
  /\ IsInjective(nextTurn)
  /\ ToSet(nextStep) \cap ToSet(nextTurn) = {}

\* An input waits in exactly one place of the inbox if and only if it was
\* offered and has neither been claimed, taken for a new run nor withdrawn:
\* cancels, clears and deferrals lose nothing and duplicate nothing.
Conserved ==
  /\ LanesDistinct
  /\ \A i \in Inputs : fate[i] = "queued" <=> i \in Pending

\* While consume() journals an item, that item stays at the head of the
\* next-step lane whatever cancels, clears and steering arrive meanwhile, so
\* claimNextStep (inbox.ts:86-102) finds the item it committed and never throws.
ClaimFindsItsItem ==
  committing # {} => nextStep # <<>> /\ committing = {Head(nextStep)}

\* The inbox is sound: its types, conservation, and claims that succeed.
QueueIsSound == QueueTypeOK /\ Conserved /\ ClaimFindsItsItem

\* A steer() caller that is still waiting has its input in the next-step lane,
\* where the run or the end of the run will settle it; nobody waits for an
\* input that has left the lane.
WaitersAreQueued ==
  \A i \in Inputs : promise[i] = "pending" => i \in ToSet(nextStep)

\* What a steer() caller was told is what happened: "consumed" only for an
\* input the run committed, "deferred" never for one it committed.
OutcomeIsTruthful ==
  \A i \in Inputs : /\ promise[i] = "consumed" => fate[i] = "committed"
                    /\ fate[i] = "committed" => promise[i] \in {"none", "consumed"}

\* A reserved item is beyond withdrawal: it can only be claimed or stay queued.
ReservedIsNeverWithdrawn ==
  [][\A i \in committing : fate'[i] \in {"queued", "committed"}]_queueVars

\* Next-turn input is first in, first out: a step never reorders two items
\* that stay, and whatever it adds goes behind them.
NextTurnIsFifo ==
  [][\A j, k \in DOMAIN nextTurn' :
       j < k /\ nextTurn'[k] \in ToSet(nextTurn)
         => \E m, n \in DOMAIN nextTurn :
              m < n /\ nextTurn[m] = nextTurn'[j] /\ nextTurn[n] = nextTurn'[k]]_queueVars

\* The queue implements the delivery contract of module InputDelivery: the item
\* that consume() is journaling is the reserved one.
StatusAt(f, c, i) ==
  CASE f[i] = "new"       -> "new"
    [] f[i] = "queued"    -> IF i \in c THEN "reserved" ELSE "waiting"
    [] f[i] = "committed" -> "delivered"
    [] f[i] = "shifted"   -> "handed"
    [] f[i] = "removed"   -> "withdrawn"

Status == [i \in Inputs |-> StatusAt(fate, committing, i)]

Delivery == INSTANCE InputDelivery WITH status <- Status, reply <- promise

DeliversInput == Delivery!DeliverySpec
=============================================================================
