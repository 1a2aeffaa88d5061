------------------------------ MODULE MCTools ------------------------------
(***************************************************************************)
(* One instance of what a turn of an Agent works with besides the model:   *)
(* the pool its tool calls run in, the calls a run_code script nests in    *)
(* one of them, a command that a tool or a job runs, the background tasks  *)
(* they leave behind, and the inbox that is read between two of them, here *)
(* with owners that do whatever its methods allow.  Which of them a        *)
(* behaviour exercises is chosen at the start, the others stay where they  *)
(* begin, so that TLC's states are the sum of theirs and not the product.  *)
(***************************************************************************)
EXTENDS ToolPool, NestedCalls, CommandProcess, OwnedTasks, SteeringQueue

VARIABLE part

toolsVars == <<part, vars, nestedVars, commandVars, taskVars, queueVars>>

ToolsInit ==
  /\ part \in {"pool", "nested", "command", "tasks", "inbox"}
  /\ PoolInit /\ NestedInit /\ CommandInit /\ TasksInit /\ QueueInit
  /\ part # "pool" => tool = [c \in Calls |-> CHOOSE t \in Tools : TRUE]
  /\ part # "nested" => exclusive = {}
  /\ part # "command" => command.tool = "shell"

ToolsNext ==
  /\ UNCHANGED part
  /\ \/ part = "pool" /\ PoolNext /\ UNCHANGED <<nestedVars, commandVars, taskVars, queueVars>>
     \/ part = "nested" /\ NestedNext /\ UNCHANGED <<vars, commandVars, taskVars, queueVars>>
     \/ part = "command" /\ CommandNext /\ UNCHANGED <<vars, nestedVars, taskVars, queueVars>>
     \/ part = "tasks" /\ TasksNext /\ UNCHANGED <<vars, nestedVars, commandVars, queueVars>>
     \/ part = "inbox" /\ QueueNext /\ UNCHANGED <<vars, nestedVars, commandVars, taskVars>>

ToolsSpec == ToolsInit /\ [][ToolsNext]_toolsVars

\* Events and journal writes settle, timers fire, and a hook answers when its
\* signal is aborted, as those of the TUI and the server do
\* (tool-approval-controller.ts:87-92, approvals.ts:51-73).  No tool need ever
\* settle and no user answer.
PoolFairness ==
  /\ WF_vars(part = "pool" /\ RuntimeStep)
  /\ WF_vars(part = "pool" /\ Signalled /\ HookStep)

\* The same of nested calls.
NestedFairness ==
  /\ WF_nestedVars(part = "nested" /\ NestedGoesOn)
  /\ WF_nestedVars(/\ part = "nested"
                   /\ nestedApprovals # <<>> /\ IsAborted(Head(nestedApprovals))
                   /\ ApprovalReturns(FALSE))

\* Promises resolve, timers fire, and a shell that was sent SIGKILL ends; what
\* it left running may stay.
CommandsFairness ==
  /\ WF_commandVars(part = "command" /\ CommandGoesOn)
  /\ WF_commandVars(part = "command" /\ command.stop \in {"kill", "lingers"} /\ ShellKilled)

\* Microtasks and timers run, and a producer that was told to stop settles (the
\* shell escalates to SIGKILL).  One that was not may run for ever.
TasksFairness ==
  /\ \A t \in Tasks :
       /\ WF_taskVars(part = "tasks" /\ PublishSettled(t))
       /\ WF_taskVars(part = "tasks" /\ ReadReturns(t))
       /\ WF_taskVars(part = "tasks" /\ KillReturns(t))
       /\ WF_taskVars(part = "tasks" /\ task[t].status = "stopping" /\ SettleTask(t))
  /\ \A o \in Owners : WF_taskVars(part = "tasks" /\ OwnerClosed(o))

FairToolsSpec ==
  ToolsSpec /\ PoolFairness /\ NestedFairness /\ CommandsFairness /\ TasksFairness

-----------------------------------------------------------------------------
Tool(concurrency, check) == [concurrency |-> concurrency, check |-> check]

\* Every kind of call; a malformed call of an exclusive tool is a group of one
\* like an unknown one.
SomeTools == {Tool("parallel", "valid"), Tool("exclusive", "valid"),
              Tool("parallel", "malformed"), Tool("exclusive", "unknown")}

\* Nobody waits for good: a turn and its calls end, the outer call of nested
\* ones ends and is not disturbed by those it left, a command that is stopped
\* ends, and readers, killers and closing owners of tasks are answered.
ToolsSettle == TurnsEnd /\ NestedBehaves /\ CommandsEnd /\ NothingWaitsForever
=============================================================================
