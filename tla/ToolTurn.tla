------------------------------ MODULE ToolTurn ------------------------------
(***************************************************************************)
(* What the tool runtime promises the turn loop about the calls of one     *)
(* assistant message (docs/tools.md, "Scheduling"): however the calls      *)
(* interleave, their results are committed one at a time in model order;   *)
(* the turn ends only when every call is answered, and with abortRun when  *)
(* a call was interrupted; a failed turn commits nothing more.             *)
(***************************************************************************)
EXTENDS Naturals, Sequences

CONSTANT Calls  \* number of tool calls of the assistant message

VARIABLES
  results,  \* the committed results, in commit order
  status,   \* "running", "done" or "failed"
  abort     \* the abortRun the loop is told

turnVars == <<results, status, abort>>

\* The results that report an execution that was cut short.
CutShort == {"interrupted", "unknown"}
TurnResults == {"outcome", "answered", "error", "cancelled"} \cup CutShort

TurnInit == results = <<>> /\ status = "running" /\ abort = FALSE

\* The next result in model order is made durable.
CommitNext ==
  /\ status = "running" /\ Len(results) < Calls
  /\ \E r \in TurnResults : results' = Append(results, [call |-> Len(results) + 1,
                                                        result |-> r])
  /\ UNCHANGED <<status, abort>>

EndTurn ==
  /\ status = "running" /\ Len(results) = Calls
  /\ status' = "done"
  /\ abort' \in BOOLEAN
  /\ (\E k \in 1..Calls : results[k].result \in CutShort) => abort'
  /\ UNCHANGED results

FailTurn ==
  /\ status = "running"
  /\ status' = "failed"
  /\ UNCHANGED <<results, abort>>

TurnNext == CommitNext \/ EndTurn \/ FailTurn

TurnSpec == TurnInit /\ [][TurnNext]_turnVars
=============================================================================
