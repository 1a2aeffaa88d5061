----------------------------- MODULE McpServers -----------------------------
(***************************************************************************)
(* The MCP servers of one host: KanaMcpRuntime (src/kana/mcp/runtime.ts)   *)
(* runs start, reload and close one after the other, and gives each start  *)
(* and reload a McpManager of its own (src/mcp/manager.ts), which connects *)
(* its servers concurrently and closes their clients one by one.           *)
(*                                                                         *)
(* An operation is aborted through its signal, at any moment.  A client is *)
(* a process or an HTTP session: it is open from createClient() until its  *)
(* close() has settled, with or without an error.                          *)
(***************************************************************************)
EXTENDS Naturals, Sequences, FiniteSets, FiniteSetsExt

CONSTANTS
  McpServerCount,  \* servers of the configuration, in their order
  MaxReloads       \* bound: reloads asked for

ASSUME McpAssumption == McpServerCount \in Nat /\ MaxReloads \in Nat

McpServer == 1..McpServerCount
McpIdle == [status |-> "idle", client |-> "none", at |-> "none"]
NoManager == [state |-> "none", servers |-> {}]

VARIABLES
  mcpQueue,      \* operations: the operations asked for, the first one running
  mcpOp,         \* the running operation: where it is suspended
  mcpAborted,    \* operations whose signal was aborted
  mcpClosing,    \* closePromise is set
  mcpStarted,    \* startRequested
  manager,       \* the newest manager: stateData, and the servers it was given
  registered,    \* whether KanaMcpRuntime.manager names it
  records,       \* McpServerRecord of each server, and where its start is
  closers,       \* closeClients(): the clients left to close, the last first
  reloads        \* how many reloads were asked for

mcpVars == <<mcpQueue, mcpOp, mcpAborted, mcpClosing, mcpStarted, manager,
             registered, records, closers, reloads>>

McpTypeOK ==
  /\ mcpQueue \in Seq(Nat \X {"start", "reload", "close"})
  /\ mcpOp \in {"none", "retire", "create", "starting", "stopStart", "started",
                "giveUp", "closing"}
  /\ mcpAborted \subseteq 0..MaxReloads
  /\ mcpClosing \in BOOLEAN /\ mcpStarted \in BOOLEAN /\ registered \in BOOLEAN
  /\ manager \in [state : {"none", "idle", "starting", "ready", "closing", "closed"},
                  servers : SUBSET McpServer]
  /\ records \in [McpServer ->
       [status : {"idle", "starting", "ready", "failed", "closed"},
        client : {"none", "open", "closed"},
        at : {"none", "begin", "connect", "list", "close", "done"}]]
  /\ closers \subseteq McpServer
  /\ reloads \in 0..MaxReloads

-----------------------------------------------------------------------------
McpRunning == Head(mcpQueue)
IsAbortedOp == mcpQueue # <<>> /\ McpRunning[1] \in mcpAborted
OpenClients == {s \in manager.servers : records[s].client = "open"}
\* KanaMcpRuntime.registry
Registry == registered /\ manager.state = "ready"

McpInit ==
  /\ mcpQueue = <<>> /\ mcpOp = "none" /\ mcpAborted = {}
  /\ mcpClosing = FALSE /\ mcpStarted = FALSE
  /\ manager = NoManager /\ registered = FALSE
  /\ records = [s \in McpServer |-> McpIdle]
  /\ closers = {} /\ reloads = 0

\* start(), reload() and close() take their place in the SerialTaskQueue.
McpAsk(op) ==
  /\ CASE op[2] = "start"  -> ~mcpStarted /\ ~mcpClosing
       [] op[2] = "reload" -> mcpStarted /\ ~mcpClosing /\ reloads < MaxReloads
       [] op[2] = "close"  -> ~mcpClosing
  /\ mcpQueue' = Append(mcpQueue, op)
  /\ mcpStarted' = (mcpStarted \/ op[2] = "start")
  /\ mcpClosing' = (op[2] = "close")
  /\ reloads' = IF op[2] = "reload" THEN reloads + 1 ELSE reloads
  /\ UNCHANGED <<mcpOp, mcpAborted, manager, registered, records, closers>>

AskOperation ==
  \/ McpAsk(<<0, "start">>)
  \/ McpAsk(<<reloads + 1, "reload">>)
  \/ McpAsk(<<0, "close">>)

\* The frontend aborts the signal of an operation it waits for.
AbortOperation(i) ==
  /\ mcpQueue[i][2] # "close" /\ mcpQueue[i][1] \notin mcpAborted
  /\ mcpAborted' = mcpAborted \cup {mcpQueue[i][1]}
  /\ UNCHANGED <<mcpQueue, mcpOp, mcpClosing, mcpStarted, manager, registered,
                 records, closers, reloads>>

\* Mutant of BeginClose: the clients that became ready are forgotten.
BeginCloseOfReady == closers' = {s \in OpenClients : records[s].status # "ready"}

\* closeClients() picks its clients before it awaits the first.
BeginClose == closers' = OpenClients

\* The next operation: it forgets the manager, then closes it.
BeginOperation ==
  /\ mcpOp = "none" /\ mcpQueue # <<>>
  /\ IF McpRunning[2] # "close" /\ mcpClosing
     THEN /\ mcpOp' = "giveUp"                 \* "closing or closed"
          /\ UNCHANGED <<manager, registered, closers>>
     ELSE /\ mcpOp' = IF McpRunning[2] = "close" THEN "closing" ELSE "retire"
          /\ registered' = FALSE
          /\ IF registered /\ manager.state # "closed"
             THEN manager' = [manager EXCEPT !.state = "closing"] /\ BeginClose
             ELSE UNCHANGED <<manager, closers>>
  /\ UNCHANGED <<mcpQueue, mcpAborted, mcpClosing, mcpStarted, records, reloads>>

\* closeClient() of the last client left settles.
ClientCloses ==
  LET s == Max(closers)
  IN  /\ closers # {}
      /\ records' = [records EXCEPT ![s].client = "closed",
                       ![s].status = IF @ = "failed" THEN @ ELSE "closed"]
      /\ closers' = closers \ {s}
      /\ UNCHANGED <<mcpQueue, mcpOp, mcpAborted, mcpClosing, mcpStarted, manager,
                     registered, reloads>>

\* closeClients() has returned: closeInternal() or closeAfterStartFailure().
ManagerCloses ==
  /\ manager.state = "closing" /\ closers = {}
  /\ manager' = [manager EXCEPT !.state = "closed"]
  /\ UNCHANGED <<mcpQueue, mcpOp, mcpAborted, mcpClosing, mcpStarted, registered,
                 records, closers, reloads>>

\* Mutant of Retired: the new manager does not wait for the old one.
RetiredAtOnce == TRUE

\* closeCurrentManager() has returned.
Retired == manager.state \in {"none", "closed"}

\* replaceManager(): the manager of the servers that are enabled now.
CreateManager(enabled) ==
  /\ mcpOp = "retire" /\ Retired
  /\ IF IsAbortedOp \/ mcpClosing
     THEN mcpOp' = "giveUp" /\ UNCHANGED <<manager, registered, records>>
     ELSE /\ mcpOp' = "starting"
          /\ manager' = [state |-> "starting", servers |-> enabled]
          /\ registered' = TRUE
          /\ records' = [s \in McpServer |->
               IF s \in enabled THEN [status |-> "starting", client |-> "none", at |-> "begin"]
                                ELSE McpIdle]
  /\ UNCHANGED <<mcpQueue, mcpAborted, mcpClosing, mcpStarted, closers, reloads>>

\* The catch of startServer(): the server failed, unless it was interrupted,
\* and closeClient() closes what it has.
Caught(s) ==
  [records EXCEPT ![s].at = IF @ = "begin" THEN "done" ELSE "close",
                  ![s].status = CASE ~IsAbortedOp -> "failed"
                                  [] IsAbortedOp /\ records[s].at = "begin" -> "closed"
                                  [] OTHER -> @]

\* createClient(), unless the start is aborted; it may throw.
CreateClient(s) ==
  /\ records[s].at = "begin"
  /\ \/ records' = Caught(s)
     \/ /\ ~IsAbortedOp
        /\ records' = [records EXCEPT ![s].client = "open", ![s].at = "connect"]
  /\ UNCHANGED <<mcpQueue, mcpOp, mcpAborted, mcpClosing, mcpStarted, manager,
                 registered, closers, reloads>>

\* throwIfStartAborted() behind each await.
Continues(s) == ~IsAbortedOp

\* connect() or listTools() settles: the next await, the catalog, or the catch.
ServerAnswers(s) ==
  /\ records[s].at \in {"connect", "list"}
  /\ \/ records' = Caught(s)
     \/ /\ Continues(s)
        /\ records' = IF records[s].at = "connect"
                      THEN [records EXCEPT ![s].at = "list"]
                      ELSE [records EXCEPT ![s].at = "done", ![s].status = "ready"]
  /\ UNCHANGED <<mcpQueue, mcpOp, mcpAborted, mcpClosing, mcpStarted, manager,
                 registered, closers, reloads>>

\* Mutant of ServerGivesUp: the client of a server that failed is kept.
ServerGivesUpOnly(s) ==
  /\ records[s].at = "close"
  /\ records' = [records EXCEPT ![s].at = "done",
                   ![s].status = IF @ = "failed" THEN @ ELSE "closed"]
  /\ UNCHANGED <<mcpQueue, mcpOp, mcpAborted, mcpClosing, mcpStarted, manager,
                 registered, closers, reloads>>

\* closeClient() of a server whose start failed or was interrupted returns.
ServerGivesUp(s) ==
  /\ records[s].at = "close"
  /\ records' = [records EXCEPT ![s].client = "closed", ![s].at = "done",
                   ![s].status = IF @ = "failed" THEN @ ELSE "closed"]
  /\ UNCHANGED <<mcpQueue, mcpOp, mcpAborted, mcpClosing, mcpStarted, manager,
                 registered, closers, reloads>>

\* All servers have answered: startServers() ends, or closeAfterStartFailure().
ServersStarted ==
  /\ mcpOp = "starting"
  /\ \A s \in manager.servers : records[s].at = "done"
  /\ IF IsAbortedOp
     THEN /\ mcpOp' = "stopStart"
          /\ manager' = [manager EXCEPT !.state = "closing"] /\ BeginClose
     ELSE /\ mcpOp' = "started"
          /\ manager' = [manager EXCEPT !.state = "ready"]
          /\ UNCHANGED closers
  /\ UNCHANGED <<mcpQueue, mcpAborted, mcpClosing, mcpStarted, registered, records,
                 reloads>>

\* replaceManager() resumes behind manager.start(): an abort that came in
\* between closes what was started.
StartedOperation ==
  /\ mcpOp = "started"
  /\ IF IsAbortedOp
     THEN /\ mcpOp' = "stopStart"
          /\ manager' = [manager EXCEPT !.state = "closing"] /\ BeginClose
     ELSE mcpOp' = "giveUp" /\ UNCHANGED <<manager, closers>>
  /\ UNCHANGED <<mcpQueue, mcpAborted, mcpClosing, mcpStarted, registered, records,
                 reloads>>

\* The operation's promise settles, and the queue goes on.
EndOperation ==
  /\ \/ mcpOp = "giveUp"
     \/ mcpOp = "stopStart" /\ manager.state = "closed"
     \/ mcpOp = "closing" /\ Retired
  /\ mcpOp' = "none"
  /\ mcpQueue' = Tail(mcpQueue)
  /\ UNCHANGED <<mcpAborted, mcpClosing, mcpStarted, manager, registered, records,
                 closers, reloads>>

McpNext ==
  \/ AskOperation
  \/ \E i \in DOMAIN mcpQueue : AbortOperation(i)
  \/ BeginOperation
  \/ ClientCloses
  \/ ManagerCloses
  \/ \E enabled \in SUBSET McpServer : CreateManager(enabled)
  \/ \E s \in McpServer : CreateClient(s)
  \/ \E s \in McpServer : ServerAnswers(s)
  \/ \E s \in McpServer : ServerGivesUp(s)
  \/ ServersStarted
  \/ StartedOperation
  \/ EndOperation

McpSpec == McpInit /\ [][McpNext]_mcpVars

-----------------------------------------------------------------------------
\* A client is open only under a manager that starts, is ready or is closing:
\* no manager is replaced, and no operation ends after an abort, while one of
\* its servers still runs.
NoClientIsLost ==
  /\ manager.state \in {"none", "closed"} =>
       \A s \in McpServer : records[s].client # "open"
  /\ mcpOp = "none" => manager.state \in {"none", "ready", "closed"}
  /\ ~registered /\ mcpOp \in {"none", "giveUp"} => OpenClients = {}

\* The tools of a server are offered only while its client is open, and every
\* server of the registry has either answered or failed.
RegistryIsSettled ==
  Registry => \A s \in manager.servers :
    /\ records[s].status \in {"ready", "failed"}
    /\ records[s].status = "ready" <=> records[s].client = "open"

\* What a manager says of a server: it is closed only with its client.
DiagnosticsAreTrue ==
  \A s \in McpServer :
    records[s].status = "closed" => records[s].client # "open"

McpIsSafe == McpTypeOK /\ NoClientIsLost /\ RegistryIsSettled /\ DiagnosticsAreTrue

\* The catalog of a manager changes only when it is replaced or closed: a
\* reload that is refused, because close() was called, leaves it alone.
CatalogIsStable ==
  [][Registry /\ Registry' => records' = records /\ manager' = manager]_mcpVars

\* Every operation settles, also one that waits behind a start that hangs
\* until its timeout, and after close() no client is open for good.
McpOperationsEnd ==
  /\ mcpQueue # <<>> ~> mcpQueue = <<>>
  /\ mcpClosing ~> [](OpenClients = {})

McpBehaves == CatalogIsStable /\ McpOperationsEnd
=============================================================================
