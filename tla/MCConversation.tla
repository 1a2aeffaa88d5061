--------------------------- MODULE MCConversation ---------------------------
(***************************************************************************)
(* One instance of the state machines that must not get stuck: the runs of *)
(* an Agent, the inputs and sessions of a conversation, and the HTTP       *)
(* server in front of it.  Which of them a behaviour exercises is chosen   *)
(* at the start, so that TLC's states are their sum and not their product. *)
(***************************************************************************)
EXTENDS AgentRun, Conversation, ServerApi, TLC

CONSTANT Machines   \* those this instance exercises

ASSUME MachinesAssumption == Machines \subseteq {"agent", "conversation", "server"}

\* The inputs of an Agent are interchangeable.
InputSymmetry == Permutations(Inputs)

VARIABLE machine

machinesVars == <<machine, vars, conversationVars, serverVars>>

\* What is not exercised begins in one of its initial states.
MachinesInit ==
  /\ machine \in Machines
  /\ AgentInit /\ ConversationInit /\ ServerInit
  /\ machine # "server" =>
       /\ runtime.session = CHOOSE s \in ApiSessions : TRUE
       /\ \A c \in ApiCalls : calls[c].kind = CHOOSE k \in ApiKinds : TRUE
       /\ policy.mode = CHOOSE m \in ApiModes : TRUE

MachinesNext ==
  /\ UNCHANGED machine
  /\ \/ machine = "agent" /\ AgentNext /\ UNCHANGED <<conversationVars, serverVars>>
     \/ machine = "conversation" /\ Next /\ UNCHANGED <<vars, serverVars>>
     \/ machine = "server" /\ ServerNext /\ UNCHANGED <<vars, conversationVars>>

MachinesSpec == MachinesInit /\ [][MachinesNext]_machinesVars

\* Journal writes, model streams and tool executions settle: a run that is
\* suspended is eventually resumed.  Owners need do nothing.
AgentFairness ==
  /\ WF_vars(machine = "agent" /\ RunStep)
  /\ WF_vars(machine = "agent" /\ CompactStep)

\* A run goes on and ends, the promise chain of a run goes on, an old session
\* is disposed of, close() goes on, and a user leaves the dialog that closed
\* the gate.
ConversationFairness ==
  /\ WF_conversationVars(machine = "conversation" /\ RunProgress)
  /\ WF_conversationVars(machine = "conversation" /\ ChainProgress)
  /\ WF_conversationVars(machine = "conversation" /\ OpenGate)
  /\ WF_conversationVars(machine = "conversation" /\ SessionChanged)
  /\ WF_conversationVars(machine = "conversation" /\ ChangeStopped)
  /\ WF_conversationVars(machine = "conversation" /\ Closed)

FairMachinesSpec == MachinesSpec /\ AgentFairness /\ ConversationFairness
=============================================================================
