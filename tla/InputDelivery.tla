--------------------------- MODULE InputDelivery ---------------------------
(***************************************************************************)
(* What the Agent promises about an offered input, whatever lanes, commits *)
(* and runs do with it (docs/agent-runtime.md, "Agent lifecycle and        *)
(* inbox"): it waits until it is delivered to the active run, handed over  *)
(* to a new run, or withdrawn; each of these is final and excludes the     *)
(* others; an input being delivered can no longer be withdrawn; and a      *)
(* caller that asked learns "consumed" exactly when its input is           *)
(* delivered, "deferred" otherwise.                                        *)
(***************************************************************************)
EXTENDS Naturals, FiniteSets

CONSTANT Inputs

VARIABLES status, reply

deliveryVars == <<status, reply>>

Statuses == {"new", "waiting", "reserved", "delivered", "handed", "withdrawn"}
Replies == {"none", "pending", "consumed", "deferred"}

DeliveryInit ==
  /\ status = [i \in Inputs |-> "new"]
  /\ reply = [i \in Inputs |-> "none"]

\* The reply of every caller of S that still waits becomes r.
Answer(S, r) ==
  reply' = [i \in Inputs |->
              IF i \in S /\ reply[i] = "pending" THEN r ELSE reply[i]]

Offer(i) ==
  /\ status[i] = "new"
  /\ status' = [status EXCEPT ![i] = "waiting"]
  /\ \E r \in {"none", "pending", "deferred"} : reply' = [reply EXCEPT ![i] = r]

\* An input enters a new run, from the queue or directly.  Nobody waits for it.
HandOver(i) ==
  /\ status[i] \in {"new", "waiting"}
  /\ reply[i] # "pending"
  /\ status' = [status EXCEPT ![i] = "handed"]
  /\ UNCHANGED reply

\* One input at a time crosses the boundary to the active run.
NoneReserved == \A i \in Inputs : status[i] # "reserved"

ReserveOne(i) ==
  /\ NoneReserved
  /\ status[i] = "waiting"
  /\ status' = [status EXCEPT ![i] = "reserved"]
  /\ UNCHANGED reply

Release(i) ==
  /\ status[i] = "reserved"
  /\ status' = [status EXCEPT ![i] = "waiting"]
  /\ UNCHANGED reply

\* The reserved input is delivered; at most one other takes its place.
Deliver(i) ==
  /\ status[i] = "reserved"
  /\ \E next \in SUBSET Inputs :
       /\ \A j \in next : status[j] = "waiting" /\ \A k \in next : k = j
       /\ status' = [j \in Inputs |-> IF j = i THEN "delivered"
                                      ELSE IF j \in next THEN "reserved"
                                      ELSE status[j]]
  /\ Answer({i}, "consumed")

\* Waiting inputs are withdrawn, never a reserved one.
Withdraw(S) ==
  /\ S # {}
  /\ \A i \in S : status[i] = "waiting"
  /\ status' = [i \in Inputs |-> IF i \in S THEN "withdrawn" ELSE status[i]]
  /\ Answer(S, "deferred")

\* Waiting inputs will not make it into the active run.
Defer(S) ==
  /\ \A i \in S : status[i] = "waiting"
  /\ Answer(S, "deferred")
  /\ UNCHANGED status

DeliveryNext ==
  \/ \E i \in Inputs : \/ Offer(i) \/ HandOver(i) \/ ReserveOne(i)
                       \/ Release(i) \/ Deliver(i)
  \/ \E S \in SUBSET Inputs : Withdraw(S) \/ Defer(S)

DeliverySpec == DeliveryInit /\ [][DeliveryNext]_deliveryVars
=============================================================================
