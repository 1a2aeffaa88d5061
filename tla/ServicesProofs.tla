--------------------------- MODULE ServicesProofs ---------------------------
(***************************************************************************)
(* Proofs about the services around the Agent, for any set of servers,     *)
(* messages and scopes: the MCP servers of a host, scheduled messages, and *)
(* memory consolidation.                                                   *)
(***************************************************************************)
EXTENDS McpServers, WakeScheduler, MemoryConsolidation, SequenceTheorems,
        FiniteSetTheorems, TLAPS

-----------------------------------------------------------------------------
(* The invariant of the MCP servers *)

McpShape ==
  /\ mcpQueue \in Seq((0..reloads) \X {"start", "reload", "close"})
  /\ mcpOp \in {"none", "retire", "create", "starting", "stopStart", "started", "giveUp", "closing"}
  /\ mcpAborted \subseteq 0..MaxReloads /\ reloads \in 0..MaxReloads
  /\ mcpClosing \in BOOLEAN /\ mcpStarted \in BOOLEAN /\ registered \in BOOLEAN
  /\ manager \in [state : {"none", "idle", "starting", "ready", "closing", "closed"},
                  servers : SUBSET McpServer]
  /\ records \in [McpServer ->
       [status : {"idle", "starting", "ready", "failed", "closed"},
        client : {"none", "open", "closed"},
        at : {"none", "begin", "connect", "list", "close", "done"}]]
  /\ closers \subseteq McpServer

\* What a record says of its client while its start goes on, and behind it.
RecordIsTrue(r) ==
  /\ r.at = "none" => r = McpIdle
  /\ r.at = "begin" => r.status = "starting" /\ r.client = "none"
  /\ r.at \in {"connect", "list"} => r.status = "starting" /\ r.client = "open"
  /\ r.at = "close" => r.status \in {"starting", "failed"} /\ r.client = "open"
  /\ r.at = "done" => /\ r.status \in {"ready", "failed", "closed"}
                      /\ r.status = "ready" <=> r.client = "open"

RecordsAreTrue ==
  /\ \A s \in McpServer : RecordIsTrue(records[s])
  /\ \A s \in McpServer \ manager.servers : records[s].at = "none"
  /\ manager.state # "starting" => \A s \in McpServer : records[s].at \in {"none", "done"}
  /\ manager.state = "starting" => \A s \in manager.servers : records[s].at # "none"

\* The clients that are still to be closed are the open ones.
ClosersAreOpen ==
  /\ closers # {} => manager.state = "closing"
  /\ manager.state = "closing" => closers = OpenClients
  /\ manager.state \in {"none", "closed"} => OpenClients = {}

\* Where the running operation and its manager are.
ManagerOfOperation ==
  /\ mcpOp # "none" => mcpQueue # <<>>
  /\ mcpOp = "starting" <=> manager.state = "starting"
  /\ mcpOp = "started" => manager.state = "ready"
  /\ mcpOp = "stopStart" => manager.state \in {"closing", "closed"}
  /\ mcpOp \in {"none", "giveUp"} =>
       manager.state \in IF registered THEN {"ready", "closed"} ELSE {"none", "closed"}
  /\ mcpOp \in {"retire", "closing"} => manager.state \in {"none", "closing", "closed"}
  /\ mcpOp \in {"starting", "started", "stopStart"} => registered
  /\ mcpOp \in {"retire", "closing"} => ~registered

\* A server that closed without an abort failed.
StartsAreHonest ==
  /\ mcpOp = "starting" /\ ~IsAbortedOp =>
       \A s \in manager.servers : /\ records[s].status # "closed"
                                  /\ records[s].at = "close" => records[s].status = "failed"
  /\ manager.state = "ready" => \A s \in manager.servers : records[s].status \in {"ready", "failed"}

McpInv == McpShape /\ RecordsAreTrue /\ ClosersAreOpen /\ ManagerOfOperation /\ StartsAreHonest

-----------------------------------------------------------------------------
(* The client closeClients() closes next exists *)

\* A set of positions that is not empty has a last one.
LEMMA LastOfServers ==
  ASSUME NEW m, m \in Nat, NEW S, S \subseteq 1..m, S # {}
  PROVE  Max(S) \in S
<1>. DEFINE D == {j \in 1..m : \E i \in S : i >= j}
            k == Cardinality(D)
<1>1. /\ IsFiniteSet(1..m) /\ Cardinality(1..m) = m
  <2>1. IsFiniteSet(1..m) /\ Cardinality(1..m) = IF 1 > m THEN 0 ELSE m - 1 + 1
    BY FS_Interval
  <2>. QED BY <2>1
<1>2. D \subseteq 1..m
  OBVIOUS
<1>3. /\ IsFiniteSet(D) /\ k \in Nat /\ k <= m
  <2>. HIDE DEF D
  <2>. QED BY <1>1, <1>2, FS_Subset, FS_CardinalityType
<1>4. ASSUME NEW i \in D PROVE i <= k
  <2>1. i \in Nat /\ i >= 1 /\ 1..i \subseteq D
    OBVIOUS
  <2>2. Cardinality(1..i) = i
    BY <2>1, FS_Interval
  <2>3. Cardinality(1..i) <= k
    <3>. HIDE DEF D
    <3>. QED BY <1>3, <2>1, FS_Subset
  <2>. QED BY <2>2, <2>3
<1>5. D = 1..k
  <2>1. D \subseteq 1..k
    <3>. HIDE DEF D
    <3>. QED BY <1>2, <1>3, <1>4
  <2>2. IsFiniteSet(1..k) /\ Cardinality(1..k) = k
    <3>1. k \in Int /\ 1 \in Int
      BY <1>3
    <3>2. IsFiniteSet(1..k) /\ Cardinality(1..k) = IF 1 > k THEN 0 ELSE k - 1 + 1
      <4>. HIDE DEF k
      <4>. QED BY <3>1, FS_Interval
    <3>. QED BY <1>3, <3>2
  <2>. HIDE DEF D
  <2>. QED BY <2>1, <2>2, FS_Subset
<1>6. S \subseteq D
  OBVIOUS
<1>7. k \in D
  <2>. HIDE DEF D
  <2>1. PICK i \in S : i \in 1..k
    BY <1>5, <1>6
  <2>. HIDE DEF k
  <2>. QED BY <2>1, <1>3, <1>5
<1>8. PICK i \in S : i >= k
  BY <1>7
<1>9. \A j \in S : i >= j
  <2>. HIDE DEF D
  <2>. QED BY <1>2, <1>3, <1>4, <1>6, <1>8
<1>. QED BY <1>9 DEF Max

-----------------------------------------------------------------------------
(* Every step of the servers keeps the invariant *)

LEMMA McpInitially == McpInit => McpInv
<1>. SUFFICES ASSUME McpInit PROVE McpInv
  OBVIOUS
<1>. USE McpAssumption DEF McpInit, McpIdle, NoManager
<1>1. McpShape
  <2>1. mcpQueue \in Seq((0..reloads) \X {"start", "reload", "close"})
    OBVIOUS
  <2>2. reloads \in 0..MaxReloads /\ mcpAborted \subseteq 0..MaxReloads
    OBVIOUS
  <2>3. records \in [McpServer ->
           [status : {"idle", "starting", "ready", "failed", "closed"},
            client : {"none", "open", "closed"},
            at : {"none", "begin", "connect", "list", "close", "done"}]]
    OBVIOUS
  <2>4. manager \in [state : {"none", "idle", "starting", "ready", "closing", "closed"},
                     servers : SUBSET McpServer]
    OBVIOUS
  <2>. QED BY <2>1, <2>2, <2>3, <2>4 DEF McpShape
<1>2. RecordsAreTrue
  BY DEF RecordsAreTrue, RecordIsTrue
<1>3. ClosersAreOpen
  BY DEF ClosersAreOpen, OpenClients
<1>4. ManagerOfOperation
  BY DEF ManagerOfOperation
<1>5. StartsAreHonest
  BY DEF StartsAreHonest
<1>. QED BY <1>1, <1>2, <1>3, <1>4, <1>5 DEF McpInv

LEMMA AskKeeps ==
  ASSUME McpInv, AskOperation
  PROVE  McpInv'
<1>. USE McpAssumption
<1>1. PICK op \in {<<0, "start">>, <<reloads + 1, "reload">>, <<0, "close">>} : McpAsk(op)
  BY DEF AskOperation
<1>2. /\ UNCHANGED <<mcpOp, mcpAborted, manager, registered, records, closers>>
      /\ mcpQueue' = Append(mcpQueue, op)
      /\ mcpStarted' = (mcpStarted \/ op[2] = "start")
      /\ mcpClosing' = (op[2] = "close")
      /\ reloads' = IF op[2] = "reload" THEN reloads + 1 ELSE reloads
      /\ op[2] = "reload" => reloads < MaxReloads
  BY <1>1 DEF McpAsk
<1>3. /\ reloads' \in 0..MaxReloads /\ reloads <= reloads'
      /\ op \in (0..reloads') \X {"start", "reload", "close"}
  BY <1>2 DEF McpInv, McpShape
<1>4. /\ mcpQueue \in Seq((0..reloads') \X {"start", "reload", "close"})
  <2>1. (0..reloads) \X {"start", "reload", "close"} \subseteq (0..reloads') \X {"start", "reload", "close"}
    BY <1>3 DEF McpInv, McpShape
  <2>. QED BY <2>1 DEF McpInv, McpShape
<1>5. /\ mcpQueue' \in Seq((0..reloads') \X {"start", "reload", "close"})
      /\ mcpQueue' # <<>>
      /\ mcpQueue # <<>> => Head(mcpQueue') = Head(mcpQueue)
  <2>. DEFINE T == (0..reloads') \X {"start", "reload", "close"}
  <2>1. mcpQueue \in Seq(T) /\ op \in T
    BY <1>3, <1>4
  <2>. HIDE DEF T
  <2>2. /\ Append(mcpQueue, op) \in Seq(T)
        /\ Append(mcpQueue, op) # <<>>
        /\ mcpQueue # <<>> => Head(Append(mcpQueue, op)) = Head(mcpQueue)
    <3>1. /\ Len(mcpQueue) \in Nat /\ Append(mcpQueue, op) \in Seq(T)
          /\ Len(Append(mcpQueue, op)) = Len(mcpQueue) + 1
      BY <2>1
    <3>2. Append(mcpQueue, op) # <<>>
      BY <3>1
    <3>3. mcpQueue # <<>> => Append(mcpQueue, op)[1] = mcpQueue[1]
      BY <2>1, <3>1
    <3>4. /\ Head(Append(mcpQueue, op)) = Append(mcpQueue, op)[1]
          /\ mcpQueue # <<>> => Head(mcpQueue) = mcpQueue[1]
      BY <2>1, <3>1, <3>2
    <3>. QED BY <3>1, <3>2, <3>3, <3>4
  <2>. QED BY <1>2, <2>2 DEF T
<1>6. McpShape'
  BY <1>2, <1>3, <1>5 DEF McpInv, McpShape
<1>7. ManagerOfOperation'
  BY <1>2, <1>5 DEF McpInv, ManagerOfOperation
<1>8. StartsAreHonest'
  BY <1>2, <1>5 DEF McpInv, StartsAreHonest, IsAbortedOp, McpRunning, ManagerOfOperation
<1>. QED BY <1>2, <1>6, <1>7, <1>8 DEF McpInv, RecordsAreTrue, RecordIsTrue, ClosersAreOpen, OpenClients

LEMMA AbortKeeps ==
  ASSUME McpInv, NEW i \in DOMAIN mcpQueue, AbortOperation(i)
  PROVE  McpInv'
<1>1. mcpQueue[i][1] \in 0..MaxReloads
  BY McpAssumption DEF McpInv, McpShape
<1>2. McpShape'
  BY <1>1 DEF McpInv, McpShape, AbortOperation
<1>3. StartsAreHonest'
  BY DEF McpInv, StartsAreHonest, IsAbortedOp, McpRunning, AbortOperation
<1>. QED BY <1>2, <1>3 DEF AbortOperation, McpInv, RecordsAreTrue, RecordIsTrue, ClosersAreOpen,
          OpenClients, ManagerOfOperation

LEMMA BeginKeeps ==
  ASSUME McpInv, BeginOperation
  PROVE  McpInv'
<1>1. McpShape'
  BY DEF McpInv, McpShape, BeginOperation, BeginClose, OpenClients
<1>2. RecordsAreTrue'
  BY DEF McpInv, McpShape, RecordsAreTrue, RecordIsTrue, BeginOperation, ManagerOfOperation
<1>3. ClosersAreOpen'
  BY DEF McpInv, McpShape, ClosersAreOpen, OpenClients, BeginOperation, BeginClose, ManagerOfOperation
<1>4. ManagerOfOperation'
  BY DEF McpInv, McpShape, ManagerOfOperation, BeginOperation
<1>5. StartsAreHonest'
  BY DEF McpInv, McpShape, StartsAreHonest, BeginOperation, ManagerOfOperation
<1>. QED BY <1>1, <1>2, <1>3, <1>4, <1>5 DEF McpInv

LEMMA ClientClosesKeeps ==
  ASSUME McpInv, ClientCloses
  PROVE  McpInv'
<1>1. Max(closers) \in closers
  BY McpAssumption, LastOfServers DEF ClientCloses, McpInv, McpShape, McpServer
<1>2. PICK s \in closers : s = Max(closers)
  BY <1>1
<1>3. /\ records' = [records EXCEPT ![s].client = "closed",
                       ![s].status = IF @ = "failed" THEN @ ELSE "closed"]
      /\ closers' = closers \ {s}
      /\ UNCHANGED <<mcpQueue, mcpOp, mcpAborted, mcpClosing, mcpStarted, manager,
                     registered, reloads>>
  BY <1>2 DEF ClientCloses
<1>4. /\ manager.state = "closing" /\ s \in manager.servers /\ s \in McpServer
      /\ records[s].client = "open" /\ records[s].at = "done" /\ closers = OpenClients
      /\ records[s].status = "ready"
  <2>1. manager.state = "closing" /\ closers = OpenClients /\ s \in McpServer
    BY <1>2 DEF McpInv, McpShape, ClosersAreOpen
  <2>2. s \in manager.servers /\ records[s].client = "open"
    BY <1>2, <2>1 DEF OpenClients
  <2>3. records[s].at = "done"
    BY <2>1, <2>2 DEF McpInv, RecordsAreTrue, RecordIsTrue, McpIdle
  <2>. QED BY <2>1, <2>2, <2>3 DEF McpInv, RecordsAreTrue, RecordIsTrue
<1>5. McpShape'
  BY <1>3, <1>4 DEF McpInv, McpShape
<1>6. /\ records'[s] = [status |-> "closed", client |-> "closed", at |-> "done"]
      /\ \A t \in McpServer : t # s => records'[t] = records[t]
  BY <1>3, <1>4 DEF McpInv, McpShape
<1>7. RecordsAreTrue'
  <2>1. \A t \in McpServer : RecordIsTrue(records'[t])
    BY <1>6 DEF McpInv, RecordsAreTrue, RecordIsTrue
  <2>2. \A t \in McpServer : records'[t].at = records[t].at
    BY <1>4, <1>6
  <2>. QED BY <1>3, <1>4, <2>1, <2>2 DEF McpInv, RecordsAreTrue
<1>8. ClosersAreOpen'
  BY <1>3, <1>4, <1>6 DEF McpInv, McpShape, ClosersAreOpen, OpenClients
<1>9. StartsAreHonest'
  BY <1>3, <1>4 DEF McpInv, StartsAreHonest, ManagerOfOperation
<1>. QED BY <1>3, <1>5, <1>7, <1>8, <1>9 DEF McpInv, ManagerOfOperation

LEMMA ManagerClosesKeeps ==
  ASSUME McpInv, ManagerCloses
  PROVE  McpInv'
<1>. USE DEF McpInv, ManagerCloses
<1>1. McpShape'
  BY DEF McpShape
<1>2. RecordsAreTrue'
  BY DEF McpShape, RecordsAreTrue, RecordIsTrue
<1>3. ClosersAreOpen'
  BY DEF McpShape, ClosersAreOpen, OpenClients
<1>4. ManagerOfOperation'
  BY DEF McpShape, ManagerOfOperation
<1>5. StartsAreHonest'
  BY DEF McpShape, StartsAreHonest, ManagerOfOperation
<1>. QED BY <1>1, <1>2, <1>3, <1>4, <1>5

LEMMA CreateManagerKeeps ==
  ASSUME McpInv, NEW enabled \in SUBSET McpServer, CreateManager(enabled)
  PROVE  McpInv'
<1>1. /\ mcpOp = "retire" /\ manager.state \in {"none", "closed"} /\ closers = {}
      /\ ~registered /\ mcpQueue # <<>>
      /\ UNCHANGED <<mcpQueue, mcpAborted, mcpClosing, mcpStarted, closers, reloads>>
  BY DEF McpInv, CreateManager, Retired, ClosersAreOpen, ManagerOfOperation
<1>2. CASE mcpOp' = "giveUp" /\ UNCHANGED <<manager, registered, records>>
  <2>1. McpShape'
    BY <1>1, <1>2 DEF McpInv, McpShape
  <2>2. ManagerOfOperation'
    BY <1>1, <1>2 DEF ManagerOfOperation
  <2>3. StartsAreHonest'
    BY <1>1, <1>2 DEF StartsAreHonest
  <2>. QED BY <1>1, <1>2, <2>1, <2>2, <2>3
            DEF McpInv, RecordsAreTrue, RecordIsTrue, ClosersAreOpen, OpenClients
<1>3. CASE /\ mcpOp' = "starting"
           /\ manager' = [state |-> "starting", servers |-> enabled]
           /\ registered' = TRUE
           /\ records' = [s \in McpServer |->
                IF s \in enabled THEN [status |-> "starting", client |-> "none", at |-> "begin"]
                                 ELSE McpIdle]
  <2>0. records' = [s \in McpServer |->
             IF s \in enabled THEN [status |-> "starting", client |-> "none", at |-> "begin"]
                              ELSE McpIdle]
    BY <1>3
  <2>1. \A s \in McpServer :
          records'[s] = IF s \in enabled
                        THEN [status |-> "starting", client |-> "none", at |-> "begin"]
                        ELSE [status |-> "idle", client |-> "none", at |-> "none"]
    BY <2>0 DEF McpIdle
  <2>2. records' \in [McpServer ->
           [status : {"idle", "starting", "ready", "failed", "closed"},
            client : {"none", "open", "closed"},
            at : {"none", "begin", "connect", "list", "close", "done"}]]
    BY <2>0 DEF McpIdle
  <2>3. McpShape'
    BY <1>1, <1>3, <2>2 DEF McpInv, McpShape
  <2>4. RecordsAreTrue'
    BY <1>3, <2>1 DEF RecordsAreTrue, RecordIsTrue, McpIdle
  <2>5. ClosersAreOpen'
    BY <1>1, <1>3 DEF ClosersAreOpen
  <2>6. ManagerOfOperation'
    BY <1>1, <1>3 DEF ManagerOfOperation
  <2>7. StartsAreHonest'
    BY <1>3, <2>1 DEF StartsAreHonest
  <2>. QED BY <2>3, <2>4, <2>5, <2>6, <2>7 DEF McpInv
<1>. QED BY <1>2, <1>3 DEF CreateManager

\* A step of one server's start changes its record alone, and what it makes of
\* the record decides.
LEMMA ServerKeeps ==
  ASSUME McpInv, NEW s \in McpServer, records[s].at \notin {"none", "done"},
         UNCHANGED <<mcpQueue, mcpOp, mcpAborted, mcpClosing, mcpStarted, manager,
                     registered, closers, reloads>>,
         NEW r, r \in [status : {"idle", "starting", "ready", "failed", "closed"},
                      client : {"none", "open", "closed"},
                      at : {"none", "begin", "connect", "list", "close", "done"}],
         records' = [records EXCEPT ![s] = r],
         r.at # "none", RecordIsTrue(r),
         ~IsAbortedOp => r.status # "closed" /\ (r.at = "close" => r.status = "failed")
  PROVE  McpInv'
<1>1. /\ manager.state = "starting" /\ s \in manager.servers /\ mcpOp = "starting"
      /\ closers = {}
  BY DEF McpInv, RecordsAreTrue, ManagerOfOperation, ClosersAreOpen
<1>2. /\ records'[s] = r /\ \A t \in McpServer : t # s => records'[t] = records[t]
  BY DEF McpInv, McpShape
<1>3. McpShape'
  BY DEF McpInv, McpShape
<1>4. RecordsAreTrue'
  BY <1>1, <1>2 DEF McpInv, RecordsAreTrue, RecordIsTrue
<1>5. ClosersAreOpen'
  BY <1>1 DEF ClosersAreOpen
<1>6. StartsAreHonest'
  <2>1. manager.servers \subseteq McpServer
    BY DEF McpInv, McpShape
  <2>. QED BY <1>1, <1>2, <2>1 DEF McpInv, StartsAreHonest, IsAbortedOp, McpRunning
<1>. QED BY <1>3, <1>4, <1>5, <1>6 DEF McpInv, ManagerOfOperation

LEMMA CaughtKeeps ==
  ASSUME McpInv, NEW s \in McpServer, records[s].at \in {"begin", "connect", "list"},
         UNCHANGED <<mcpQueue, mcpOp, mcpAborted, mcpClosing, mcpStarted, manager,
                     registered, closers, reloads>>,
         records' = Caught(s)
  PROVE  McpInv'
<1>. DEFINE r == [status |-> IF ~IsAbortedOp THEN "failed"
                            ELSE IF records[s].at = "begin" THEN "closed" ELSE records[s].status,
                  client |-> records[s].client,
                  at |-> IF records[s].at = "begin" THEN "done" ELSE "close"]
<1>1. /\ RecordIsTrue(records[s])
      /\ records \in [McpServer ->
           [status : {"idle", "starting", "ready", "failed", "closed"},
            client : {"none", "open", "closed"},
            at : {"none", "begin", "connect", "list", "close", "done"}]]
  BY DEF McpInv, McpShape, RecordsAreTrue
<1>2. Caught(s) = [records EXCEPT ![s] = r]
  <2>. DEFINE newAt == IF records[s].at = "begin" THEN "done" ELSE "close"
  <2>1. ASSUME NEW x PROVE [records EXCEPT ![s].at = newAt, ![s].status = x]
                             = [records EXCEPT ![s] = [status |-> x, client |-> records[s].client,
                                                       at |-> newAt]]
    <3>. DEFINE a == [records EXCEPT ![s].at = newAt]
    <3>1. a = [records EXCEPT ![s] = [records[s] EXCEPT !.at = newAt]]
      OBVIOUS
    <3>2. DOMAIN a = McpServer /\ a[s] = [records[s] EXCEPT !.at = newAt]
      BY <1>1
    <3>3. [a EXCEPT ![s].status = x] = [a EXCEPT ![s] = [a[s] EXCEPT !.status = x]]
      OBVIOUS
    <3>4. [a[s] EXCEPT !.status = x] = [status |-> x, client |-> records[s].client, at |-> newAt]
      <4>. DEFINE b == [status |-> records[s].status, client |-> records[s].client, at |-> newAt]
      <4>1. a[s] = b
        <5>. HIDE DEF newAt
        <5>. QED BY <1>1, <3>2
      <4>2. [b EXCEPT !.status = x] = [status |-> x, client |-> records[s].client, at |-> newAt]
        <5>. HIDE DEF newAt
        <5>. QED  OBVIOUS
      <4>. HIDE DEF a, b
      <4>. QED BY <4>1, <4>2
    <3>. QED BY <1>1, <3>1, <3>2, <3>3, <3>4
  <2>2. (CASE ~IsAbortedOp -> "failed"
           [] IsAbortedOp /\ records[s].at = "begin" -> "closed"
           [] OTHER -> records[s].status) = r.status
    OBVIOUS
  <2>3. Caught(s) = [records EXCEPT ![s].at = newAt, ![s].status = r.status]
    BY <1>1, <2>2 DEF Caught
  <2>4. r = [status |-> r.status, client |-> records[s].client, at |-> newAt]
    OBVIOUS
  <2>. HIDE DEF r, newAt
  <2>. QED BY <2>1, <2>3, <2>4
<1>3. /\ r \in [status : {"idle", "starting", "ready", "failed", "closed"},
                client : {"none", "open", "closed"},
                at : {"none", "begin", "connect", "list", "close", "done"}]
      /\ r.at # "none" /\ RecordIsTrue(r)
      /\ ~IsAbortedOp => r.status # "closed" /\ (r.at = "close" => r.status = "failed")
  BY <1>1 DEF RecordIsTrue
<1>. HIDE DEF r
<1>. QED BY <1>2, <1>3, ServerKeeps

LEMMA CreateClientKeeps ==
  ASSUME McpInv, NEW s \in McpServer, CreateClient(s)
  PROVE  McpInv'
<1>1. CASE records' = Caught(s)
  BY <1>1, CaughtKeeps DEF CreateClient
<1>2. CASE records' = [records EXCEPT ![s].client = "open", ![s].at = "connect"]
  <2>. DEFINE r == [status |-> "starting", client |-> "open", at |-> "connect"]
  <2>1. records[s].at = "begin" /\ RecordIsTrue(records[s])
    BY DEF CreateClient, McpInv, RecordsAreTrue
  <2>2. records' = [records EXCEPT ![s] = r]
    BY <1>2, <2>1 DEF McpInv, McpShape, RecordIsTrue
  <2>3. r.at # "none" /\ RecordIsTrue(r) /\ r.status # "closed" /\ r.at # "close"
    BY DEF RecordIsTrue
  <2>4. r \in [status : {"idle", "starting", "ready", "failed", "closed"},
                client : {"none", "open", "closed"},
                at : {"none", "begin", "connect", "list", "close", "done"}]
    OBVIOUS
  <2>5. UNCHANGED <<mcpQueue, mcpOp, mcpAborted, mcpClosing, mcpStarted, manager,
                     registered, closers, reloads>>
    BY DEF CreateClient
  <2>. HIDE DEF r
  <2>. QED BY <2>1, <2>2, <2>3, <2>4, <2>5, ServerKeeps
<1>. QED BY <1>1, <1>2 DEF CreateClient

LEMMA ServerAnswersKeeps ==
  ASSUME McpInv, NEW s \in McpServer, ServerAnswers(s)
  PROVE  McpInv'
<1>1. CASE records' = Caught(s)
  BY <1>1, CaughtKeeps DEF ServerAnswers
<1>2. CASE records' = IF records[s].at = "connect"
                      THEN [records EXCEPT ![s].at = "list"]
                      ELSE [records EXCEPT ![s].at = "done", ![s].status = "ready"]
  <2>. DEFINE r == IF records[s].at = "connect"
                   THEN [status |-> "starting", client |-> "open", at |-> "list"]
                   ELSE [status |-> "ready", client |-> "open", at |-> "done"]
  <2>1. records[s].at \in {"connect", "list"} /\ RecordIsTrue(records[s])
    BY DEF ServerAnswers, McpInv, RecordsAreTrue
  <2>2. records' = [records EXCEPT ![s] = r]
    <3>1. CASE records[s].at = "connect"
      <4>1. records[s] = [status |-> "starting", client |-> "open", at |-> "connect"]
        BY <2>1, <3>1 DEF McpInv, McpShape, RecordIsTrue
      <4>2. records' = [records EXCEPT ![s].at = "list"]
        BY <1>2, <3>1
      <4>3. [records[s] EXCEPT !.at = "list"] = r
        BY <3>1, <4>1
      <4>. QED BY <4>2, <4>3, Zenon
    <3>2. CASE records[s].at = "list"
      BY <1>2, <2>1, <3>2 DEF McpInv, McpShape, RecordIsTrue
    <3>. QED BY <2>1, <3>1, <3>2
  <2>3. r.at # "none" /\ RecordIsTrue(r) /\ r.status # "closed" /\ r.at # "close"
    BY DEF RecordIsTrue
  <2>4. r \in [status : {"idle", "starting", "ready", "failed", "closed"},
                client : {"none", "open", "closed"},
                at : {"none", "begin", "connect", "list", "close", "done"}]
    OBVIOUS
  <2>5. UNCHANGED <<mcpQueue, mcpOp, mcpAborted, mcpClosing, mcpStarted, manager,
                     registered, closers, reloads>>
    BY DEF ServerAnswers
  <2>. HIDE DEF r
  <2>. QED BY <2>1, <2>2, <2>3, <2>4, <2>5, ServerKeeps
<1>. QED BY <1>1, <1>2 DEF ServerAnswers

LEMMA ServerGivesUpKeeps ==
  ASSUME McpInv, NEW s \in McpServer, ServerGivesUp(s)
  PROVE  McpInv'
<1>. DEFINE r == [status |-> IF records[s].status = "failed" THEN "failed" ELSE "closed",
                  client |-> "closed", at |-> "done"]
<1>1. records[s].at = "close" /\ RecordIsTrue(records[s])
  BY DEF ServerGivesUp, McpInv, RecordsAreTrue
<1>2. records' = [records EXCEPT ![s] = r]
  BY <1>1 DEF ServerGivesUp, McpInv, McpShape
<1>3. r.at # "none" /\ RecordIsTrue(r) /\ r.at # "close"
  BY DEF RecordIsTrue
<1>4. ~IsAbortedOp => r.status # "closed"
  BY <1>1 DEF McpInv, StartsAreHonest, RecordsAreTrue, ManagerOfOperation
<1>5. r \in [status : {"idle", "starting", "ready", "failed", "closed"},
              client : {"none", "open", "closed"},
              at : {"none", "begin", "connect", "list", "close", "done"}]
  OBVIOUS
<1>6. UNCHANGED <<mcpQueue, mcpOp, mcpAborted, mcpClosing, mcpStarted, manager,
                   registered, closers, reloads>>
  BY DEF ServerGivesUp
<1>. HIDE DEF r
<1>. QED BY <1>1, <1>2, <1>3, <1>4, <1>5, <1>6, ServerKeeps

LEMMA ServersStartedKeeps ==
  ASSUME McpInv, ServersStarted
  PROVE  McpInv'
<1>1. McpShape'
  BY DEF McpInv, McpShape, ServersStarted, BeginClose, OpenClients
<1>2. RecordsAreTrue'
  BY DEF McpInv, McpShape, RecordsAreTrue, RecordIsTrue, ServersStarted
<1>3. ClosersAreOpen'
  BY DEF McpInv, McpShape, ClosersAreOpen, OpenClients, ServersStarted, BeginClose, ManagerOfOperation
<1>4. ManagerOfOperation'
  BY DEF McpInv, McpShape, ManagerOfOperation, ServersStarted
<1>5. StartsAreHonest'
  <2>1. CASE IsAbortedOp
    BY <2>1 DEF McpInv, McpShape, StartsAreHonest, ServersStarted
  <2>2. CASE ~IsAbortedOp
    <3>1. ASSUME NEW s \in manager.servers PROVE records[s].status \in {"ready", "failed"}
      BY <2>2 DEF McpInv, McpShape, StartsAreHonest, ServersStarted, RecordsAreTrue, RecordIsTrue
    <3>2. mcpOp' = "started" /\ manager'.servers = manager.servers /\ records' = records
      BY <2>2 DEF McpInv, McpShape, ServersStarted
    <3>. QED BY <3>1, <3>2 DEF StartsAreHonest
  <2>. QED BY <2>1, <2>2
<1>. QED BY <1>1, <1>2, <1>3, <1>4, <1>5 DEF McpInv

LEMMA StartedKeeps ==
  ASSUME McpInv, StartedOperation
  PROVE  McpInv'
<1>1. McpShape'
  BY DEF McpInv, McpShape, StartedOperation, BeginClose, OpenClients
<1>2. RecordsAreTrue'
  BY DEF McpInv, McpShape, RecordsAreTrue, RecordIsTrue, StartedOperation, ManagerOfOperation
<1>3. ClosersAreOpen'
  BY DEF McpInv, McpShape, ClosersAreOpen, OpenClients, StartedOperation, BeginClose, ManagerOfOperation
<1>4. ManagerOfOperation'
  BY DEF McpInv, McpShape, ManagerOfOperation, StartedOperation
<1>5. StartsAreHonest'
  BY DEF McpInv, McpShape, StartsAreHonest, StartedOperation
<1>. QED BY <1>1, <1>2, <1>3, <1>4, <1>5 DEF McpInv

LEMMA EndKeeps ==
  ASSUME McpInv, EndOperation
  PROVE  McpInv'
<1>1. mcpQueue # <<>>
  BY DEF McpInv, ManagerOfOperation, EndOperation
<1>2. McpShape'
  BY <1>1 DEF McpInv, McpShape, EndOperation
<1>3. ManagerOfOperation'
  BY DEF McpInv, ManagerOfOperation, EndOperation, Retired
<1>4. StartsAreHonest'
  BY DEF McpInv, StartsAreHonest, EndOperation
<1>. QED BY <1>2, <1>3, <1>4 DEF McpInv, RecordsAreTrue, RecordIsTrue, ClosersAreOpen, OpenClients, EndOperation

LEMMA McpStep == McpInv /\ [McpNext]_mcpVars => McpInv'
<1>. SUFFICES ASSUME McpInv, [McpNext]_mcpVars PROVE McpInv'
  OBVIOUS
<1>1. CASE UNCHANGED mcpVars
  BY <1>1 DEF mcpVars, McpInv, McpShape, RecordsAreTrue, RecordIsTrue, ClosersAreOpen, OpenClients,
     ManagerOfOperation, StartsAreHonest, IsAbortedOp, McpRunning
<1>2. CASE McpNext
  BY <1>2, AskKeeps, AbortKeeps, BeginKeeps, ClientClosesKeeps, ManagerClosesKeeps, CreateManagerKeeps,
     CreateClientKeeps, ServerAnswersKeeps, ServerGivesUpKeeps, ServersStartedKeeps, StartedKeeps,
     EndKeeps DEF McpNext
<1>. QED BY <1>1, <1>2

-----------------------------------------------------------------------------
(* The theorems of the MCP servers *)

\* What the records, the manager and the running operation say of each other
\* holds in every reachable state.
THEOREM McpInvariance == McpSpec => []McpInv
BY McpInitially, McpStep, PTL DEF McpSpec

\* No client outlives its manager, an operation that ends after an abort has
\* closed what it started, the registry offers the tools of open clients only,
\* and a server is shown as closed only with its client.
THEOREM McpSafe == McpSpec => []McpIsSafe
<1>1. McpInv => McpIsSafe
  <2>. SUFFICES ASSUME McpInv PROVE McpIsSafe
    OBVIOUS
  <2>1. McpTypeOK
    <3>1. (0..reloads) \X {"start", "reload", "close"} \subseteq Nat \X {"start", "reload", "close"}
      OBVIOUS
    <3>2. mcpQueue \in Seq(Nat \X {"start", "reload", "close"})
      BY <3>1 DEF McpInv, McpShape
    <3>. QED BY <3>2 DEF McpInv, McpShape, McpTypeOK
  <2>2. NoClientIsLost
    BY DEF McpInv, NoClientIsLost, RecordsAreTrue, RecordIsTrue, ClosersAreOpen, OpenClients,
       ManagerOfOperation, McpIdle
  <2>3. RegistryIsSettled
    <3>. SUFFICES ASSUME registered, manager.state = "ready", NEW s \in manager.servers
                  PROVE  /\ records[s].status \in {"ready", "failed"}
                         /\ records[s].status = "ready" <=> records[s].client = "open"
      BY DEF RegistryIsSettled, Registry
    <3>1. records[s].status \in {"ready", "failed"} /\ s \in McpServer
      BY DEF McpInv, StartsAreHonest, McpShape
    <3>2. records[s].at = "done" /\ RecordIsTrue(records[s])
      BY <3>1 DEF McpInv, RecordsAreTrue, RecordIsTrue, McpIdle
    <3>. QED BY <3>1, <3>2 DEF RecordIsTrue
  <2>4. DiagnosticsAreTrue
    BY DEF McpInv, DiagnosticsAreTrue, RecordsAreTrue, RecordIsTrue, McpShape, McpIdle
  <2>. QED BY <2>1, <2>2, <2>3, <2>4 DEF McpIsSafe
<1>. QED BY <1>1, McpInvariance, PTL

\* The catalog of a manager that the host offers changes only when the manager
\* is replaced or closed.
THEOREM CatalogKeeps == McpSpec => CatalogIsStable
<1>1. McpInv /\ [McpNext]_mcpVars =>
        [Registry /\ Registry' => records' = records /\ manager' = manager]_mcpVars
  <2>. SUFFICES ASSUME McpInv, McpNext, Registry, Registry'
                PROVE  records' = records /\ manager' = manager
    OBVIOUS
  <2>1. /\ registered /\ manager.state = "ready" /\ closers = {}
        /\ \A s \in McpServer : records[s].at \in {"none", "done"}
    BY DEF McpInv, Registry, RecordsAreTrue, ClosersAreOpen
  <2>2. registered' /\ manager'.state = "ready"
    BY DEF Registry
  <2>3. CASE AskOperation
    BY <2>3 DEF AskOperation, McpAsk
  <2>4. CASE \E i \in DOMAIN mcpQueue : AbortOperation(i)
    BY <2>4 DEF AbortOperation
  <2>5. CASE BeginOperation
    BY <2>2, <2>5 DEF BeginOperation
  <2>6. CASE ClientCloses \/ ManagerCloses \/ \E e \in SUBSET McpServer : CreateManager(e)
    BY <2>1, <2>6 DEF ClientCloses, ManagerCloses, CreateManager, Retired
  <2>7. CASE \E s \in McpServer : CreateClient(s) \/ ServerAnswers(s) \/ ServerGivesUp(s)
    BY <2>1, <2>7 DEF CreateClient, ServerAnswers, ServerGivesUp
  <2>8. CASE ServersStarted
    BY <2>1, <2>8 DEF ServersStarted, McpInv, ManagerOfOperation
  <2>9. CASE StartedOperation
    BY <2>2, <2>9 DEF StartedOperation, McpInv, McpShape
  <2>10. CASE EndOperation
    BY <2>10 DEF EndOperation
  <2>. QED BY <2>3, <2>4, <2>5, <2>6, <2>7, <2>8, <2>9, <2>10 DEF McpNext
<1>. QED BY <1>1, McpInvariance, PTL DEF McpSpec, CatalogIsStable

-----------------------------------------------------------------------------
(* The invariant of scheduled messages *)

\* The input at position j of the inbox is the one-shot wake i.
OneShot(j, i) == ~wakeInbox[j].fresh /\ wakeInbox[j].schedule = i

\* Ids are given out in turn, and a timer has one of its own.
IdsAreUnique ==
  /\ \A t \in timers : t.id <= scheduled
  /\ \A t, u \in timers : t.id = u.id => t = u
  /\ \A j \in DOMAIN wakeInbox : wakeInbox[j].schedule <= scheduled
  /\ \A i \in Schedules : i > scheduled => gone[i] = "no"

\* A wake nobody gave up is armed or waits as one input, and only such a wake.
WakesAreSomewhere ==
  /\ \A t \in timers : gone[t.id] = "no"
  /\ \A t \in timers : \A j \in DOMAIN wakeInbox : ~OneShot(j, t.id)
  /\ \A j \in DOMAIN wakeInbox : ~wakeInbox[j].fresh => gone[wakeInbox[j].schedule] = "no"
  /\ \A i \in Schedules : \A j, k \in DOMAIN wakeInbox : OneShot(j, i) /\ OneShot(k, i) => j = k
  /\ \A i \in 1..scheduled : gone[i] = "no" =>
       \/ \E t \in timers : t.id = i
       \/ \E j \in DOMAIN wakeInbox : OneShot(j, i)

\* What waits of an armed schedule is its last delivery, once.
DeliveriesAreLast ==
  \A t \in timers : \A j \in DOMAIN wakeInbox : wakeInbox[j].schedule = t.id =>
    /\ wakeInbox[j] = lastDelivery[t.id]
    /\ \A k \in DOMAIN wakeInbox : wakeInbox[k].schedule = t.id => k = j

\* Shutdown empties the inbox and nothing fills it any more.
StoppedIsEmpty == wakeRuntime.state # "open" => wakeInbox = <<>>

WakeInv ==
  /\ WakeTypeOK
  /\ IdsAreUnique
  /\ WakesAreSomewhere
  /\ DeliveriesAreLast
  /\ KeysNameLiveWakes
  /\ WakesStayInTheirSession
  /\ StoppedIsEmpty

-----------------------------------------------------------------------------
(* What the operations do to the inbox, the keys and a repeating timer *)

LEMMA Appended ==
  ASSUME NEW S, NEW s, s \in Seq(S), NEW d, d \in S
  PROVE  /\ Append(s, d) \in Seq(S) /\ DOMAIN Append(s, d) = DOMAIN s \cup {Len(s) + 1}
         /\ Len(s) + 1 \notin DOMAIN s
         /\ \A j \in DOMAIN s : Append(s, d)[j] = s[j]
         /\ Append(s, d)[Len(s) + 1] = d
OBVIOUS

\* An input leaves the inbox: the ones behind it move up.
LEMMA Removed ==
  ASSUME NEW S, NEW s, s \in Seq(S), NEW i, i \in DOMAIN s
  PROVE  /\ RemoveAt(s, i) \in Seq(S) /\ DOMAIN RemoveAt(s, i) = 1..(Len(s) - 1)
         /\ \A j \in 1..(Len(s) - 1) : RemoveAt(s, i)[j] = s[IF j < i THEN j ELSE j + 1]
<1>. DEFINE front == SubSeq(s, 1, i - 1)
            back == SubSeq(s, i + 1, Len(s))
<1>1. /\ i \in 1..Len(s) /\ Len(s) \in Nat
  OBVIOUS
<1>2. /\ front \in Seq(S) /\ Len(front) = i - 1 /\ \A j \in 1..(i - 1) : front[j] = s[j]
  BY <1>1
<1>3. /\ back \in Seq(S) /\ Len(back) = Len(s) - i
      /\ \A j \in 1..(Len(s) - i) : back[j] = s[i + j]
  BY <1>1
<1>4. RemoveAt(s, i) = front \o back
  BY DEF RemoveAt
<1>. HIDE DEF front, back
<1>5. /\ front \o back \in Seq(S) /\ Len(front \o back) = Len(s) - 1
      /\ \A j \in 1..(Len(s) - 1) :
           (front \o back)[j] = IF j < i THEN front[j] ELSE back[j - (i - 1)]
  BY <1>1, <1>2, <1>3
<1>6. ASSUME NEW j \in 1..(Len(s) - 1)
      PROVE  (front \o back)[j] = s[IF j < i THEN j ELSE j + 1]
  <2>1. CASE j < i
    BY <1>1, <1>2, <1>5, <2>1
  <2>2. CASE ~(j < i)
    <3>1. j - (i - 1) \in 1..(Len(s) - i) /\ i + (j - (i - 1)) = j + 1
      BY <1>1, <2>2
    <3>. QED BY <1>3, <1>5, <2>2, <3>1
  <2>. QED BY <2>1, <2>2
<1>. QED BY <1>4, <1>5, <1>6

\* The first occurrence that has not passed, counted in whole intervals.
LEMMA NextOccurrence ==
  ASSUME NEW now, now \in Nat, NEW due, due \in Nat, due <= now, NEW e, e \in Nat, e # 0
  PROVE  LET next == due + (((now - due) \div e) + 1) * e
         IN  /\ next \in Nat /\ next > now /\ next - e <= now
             /\ (next - due) % e = 0
<1>. DEFINE q == (now - due) \div e
<1>1. now - due \in Nat
  OBVIOUS
<1>2. /\ q \in Nat /\ q * e <= now - due /\ now - due < (q + 1) * e
  BY <1>1, Z3
<1>3. ((q + 1) * e) % e = 0
  <2>. HIDE DEF q
  <2>. QED BY <1>2, Z3
<1>4. (q + 1) * e \in Nat /\ (q + 1) * e = q * e + e
  <2>. HIDE DEF q
  <2>. QED BY <1>2
<1>. HIDE DEF q
<1>. DEFINE m == (q + 1) * e
<1>5. due + m \in Nat /\ due + m > now /\ due + m - e <= now /\ due + m - due = m
  <2>. DEFINE n == q * e
  <2>1. m \in Nat /\ n \in Nat /\ m = n + e /\ n <= now - due /\ now - due < m
    BY <1>2, <1>4
  <2>. HIDE DEF m, n
  <2>. QED BY <2>1
<1>6. m % e = 0
  BY <1>3
<1>. HIDE DEF m
<1>7. due + m \in Nat /\ due + m > now /\ due + m - e <= now /\ (due + m - due) % e = 0
  BY <1>5, <1>6
<1>. QED BY <1>7 DEF m, q

-----------------------------------------------------------------------------
(* Every step of scheduled messages keeps the invariant *)

LEMMA WakeInitially == WakeInit => WakeInv
<1>. SUFFICES ASSUME WakeInit PROVE WakeInv
  OBVIOUS
<1>. USE WakeAssumption DEF WakeInit
<1>1. WakeTypeOK
  <2>1. /\ wakeKeys \in [WakeSessions \X WakeKeys -> 0..MaxWakes]
        /\ lastDelivery \in [Schedules -> Deliveries \cup {NoDelivery}]
        /\ gone \in [Schedules -> {"no", "cancelled", "withdrawn", "replaced",
                                   "taken", "severed", "unheard"}]
    OBVIOUS
  <2>2. wakeRuntime \in [session : WakeSessions, changing : BOOLEAN,
                         state : {"open", "stopping", "closed"}]
    OBVIOUS
  <2>3. wakeInbox \in Seq(Deliveries) /\ clock \in 0..MaxClock /\ scheduled \in 0..MaxWakes
    OBVIOUS
  <2>. QED BY <2>1, <2>2, <2>3 DEF WakeTypeOK
<1>2. IdsAreUnique /\ WakesAreSomewhere /\ DeliveriesAreLast
  BY DEF IdsAreUnique, WakesAreSomewhere, DeliveriesAreLast, Schedules
<1>3. KeysNameLiveWakes /\ WakesStayInTheirSession /\ StoppedIsEmpty
  BY DEF KeysNameLiveWakes, WakesStayInTheirSession, StoppedIsEmpty
<1>. QED BY <1>1, <1>2, <1>3 DEF WakeInv

\* The timers of some ids are given up, with their keys.
LEMMA KeysOfTheRest ==
  ASSUME WakeInv, NEW ids, NEW left, left = {t \in timers : t.id \notin ids},
         timers' = left, wakeKeys' = KeysWithout(ids)
  PROVE  /\ KeysNameLiveWakes'
         /\ wakeKeys' \in [WakeSessions \X WakeKeys -> 0..MaxWakes]
<1>1. /\ wakeKeys \in [WakeSessions \X WakeKeys -> 0..MaxWakes]
      /\ \A k \in WakeSessions \X WakeKeys :
           wakeKeys[k] # 0 => \E t \in timers : t.id = wakeKeys[k] /\ <<t.session, t.key>> = k
      /\ \A t \in timers : t.key # NoWakeKey => wakeKeys[<<t.session, t.key>>] = t.id
      /\ \A t \in timers : /\ t.id \in 1..MaxWakes /\ t.session \in WakeSessions
                           /\ t.key \in WakeKeys \cup {NoWakeKey}
  BY DEF WakeInv, WakeTypeOK, KeysNameLiveWakes, Schedules
<1>2. /\ DOMAIN wakeKeys' = WakeSessions \X WakeKeys
      /\ \A k \in WakeSessions \X WakeKeys :
           wakeKeys'[k] = IF wakeKeys[k] \in ids THEN 0 ELSE wakeKeys[k]
  BY <1>1 DEF KeysWithout
<1>3. wakeKeys' \in [WakeSessions \X WakeKeys -> 0..MaxWakes]
  <2>. DOMAIN wakeKeys = WakeSessions \X WakeKeys /\ 0 \in 0..MaxWakes
    BY <1>1, WakeAssumption
  <2>. QED BY <1>1 DEF KeysWithout
<1>4. ASSUME NEW k \in WakeSessions \X WakeKeys, wakeKeys'[k] # 0
      PROVE  \E t \in timers' : t.id = wakeKeys'[k] /\ <<t.session, t.key>> = k
  <2>1. wakeKeys'[k] = wakeKeys[k] /\ wakeKeys[k] \notin ids /\ wakeKeys[k] # 0
    BY <1>2, <1>4
  <2>2. PICK t \in timers : t.id = wakeKeys[k] /\ <<t.session, t.key>> = k
    BY <1>1, <2>1
  <2>. QED BY <2>1, <2>2
<1>5. ASSUME NEW t \in timers', t.key # NoWakeKey
      PROVE  wakeKeys'[<<t.session, t.key>>] = t.id
  <2>1. t \in timers /\ t.id \notin ids
    OBVIOUS
  <2>2. <<t.session, t.key>> \in WakeSessions \X WakeKeys /\ wakeKeys[<<t.session, t.key>>] = t.id
    BY <1>1, <1>5, <2>1
  <2>. QED BY <1>2, <2>1, <2>2
<1>. QED BY <1>2, <1>3, <1>4, <1>5 DEF KeysNameLiveWakes

LEMMA ScheduleKeeps ==
  ASSUME WakeInv, wakeRuntime.state # "closed",
         NEW key \in WakeKeys \cup {NoWakeKey}, NEW delay \in 1..MaxDelay, NEW every \in 0..MaxDelay,
         Schedule(key, delay, every)
  PROVE  WakeInv'
<1>. DEFINE s == wakeRuntime.session
            id == scheduled + 1
            slot == <<s, key>>
            old == IF key = NoWakeKey THEN {} ELSE {wakeKeys[slot]} \ {0}
            left == {t \in timers : t.id \notin old}
            new == [id |-> id, session |-> s, key |-> key, every |-> every, due |-> clock + delay]
<1>1. /\ scheduled < MaxWakes /\ scheduled' = id
      /\ timers' = left \cup {new}
      /\ wakeKeys' = IF key = NoWakeKey THEN wakeKeys ELSE [wakeKeys EXCEPT ![slot] = id]
      /\ gone' = GoneAs(old, "replaced")
      /\ UNCHANGED <<clock, wakeInbox, lastDelivery, wakeRuntime, wakesHeard>>
  BY DEF Schedule
<1>2. /\ timers \subseteq [id : Schedules, session : WakeSessions,
                       key : WakeKeys \cup {NoWakeKey}, every : 0..MaxDelay,
                       due : 1..(MaxClock + MaxDelay)]
      /\ wakeKeys \in [WakeSessions \X WakeKeys -> 0..MaxWakes]
      /\ clock \in 0..MaxClock /\ scheduled \in 0..MaxWakes
      /\ gone \in [Schedules -> {"no", "cancelled", "withdrawn", "replaced",
                                 "taken", "severed", "unheard"}]
      /\ s \in WakeSessions
      /\ MaxClock \in Nat /\ MaxDelay \in Nat /\ MaxWakes \in Nat
      /\ wakeInbox \in Seq(Deliveries)
  BY WakeAssumption DEF WakeInv, WakeTypeOK
<1>3. /\ id \in Schedules /\ id \in 1..MaxWakes /\ clock + delay \in 1..(MaxClock + MaxDelay)
      /\ id \in 0..MaxWakes /\ id > scheduled
  BY <1>1, <1>2 DEF Schedules
<1>4. new \in [id : Schedules, session : WakeSessions, key : WakeKeys \cup {NoWakeKey},
               every : 0..MaxDelay, due : 1..(MaxClock + MaxDelay)]
  BY <1>2, <1>3
<1>5. /\ \A t \in timers : t.id <= scheduled /\ t.id \in Nat /\ t.id # id
      /\ \A t, u \in timers : t.id = u.id => t = u
      /\ \A j \in DOMAIN wakeInbox : wakeInbox[j].schedule <= scheduled /\ wakeInbox[j].schedule # id
      /\ \A i \in Schedules : i > scheduled => gone[i] = "no"
      /\ \A j \in DOMAIN wakeInbox : wakeInbox[j] \in Deliveries /\ wakeInbox[j].schedule \in Schedules
  <2>1. \A j \in DOMAIN wakeInbox : wakeInbox[j] \in Deliveries
    BY <1>2
  <2>. QED BY <1>2, <1>3, <2>1 DEF WakeInv, IdsAreUnique, Schedules, Deliveries
<1>6. \A i \in old : \E t \in timers : t.id = i
  <2>. SUFFICES ASSUME key # NoWakeKey, wakeKeys[slot] # 0
                PROVE  \E t \in timers : t.id = wakeKeys[slot]
    OBVIOUS
  <2>1. slot \in DOMAIN wakeKeys
    BY <1>2
  <2>. QED BY <2>1 DEF WakeInv, KeysNameLiveWakes
<1>7. /\ \A i \in Schedules : gone'[i] = IF i \in old THEN "replaced" ELSE gone[i]
      /\ gone' \in [Schedules -> {"no", "cancelled", "withdrawn", "replaced",
                                 "taken", "severed", "unheard"}]
  <2>. HIDE DEF old
  <2>. QED BY <1>1, <1>2 DEF GoneAs
<1>8. id \notin old
  BY <1>5, <1>6
<1>9. WakeTypeOK'
  <2>1. wakeKeys' \in [WakeSessions \X WakeKeys -> 0..MaxWakes]
    BY <1>1, <1>2, <1>3
  <2>2. timers' \subseteq [id : Schedules, session : WakeSessions,
                       key : WakeKeys \cup {NoWakeKey}, every : 0..MaxDelay,
                       due : 1..(MaxClock + MaxDelay)]
    <3>. HIDE DEF old, new
    <3>. QED BY <1>1, <1>2, <1>4
  <2>. QED BY <1>1, <1>3, <1>7, <2>1, <2>2 DEF WakeInv, WakeTypeOK
<1>10. IdsAreUnique'
  <2>1. \A t \in timers' : t.id <= id /\ (t # new => t.id # id)
    BY <1>1, <1>2, <1>5
  <2>2. \A t, u \in timers' : t.id = u.id => t = u
    <3>. new.id = id
      OBVIOUS
    <3>. HIDE DEF old, new, id
    <3>. QED BY <1>1, <1>5, <2>1
  <2>3. \A j \in DOMAIN wakeInbox : wakeInbox[j].schedule <= id
    BY <1>2, <1>5 DEF Schedules
  <2>4. \A i \in Schedules : i > id => gone'[i] = "no"
    <3>. SUFFICES ASSUME NEW i \in Schedules, i > id PROVE i \notin old /\ gone[i] = "no"
      BY <1>7
    <3>1. i > scheduled
      BY <1>2 DEF Schedules
    <3>2. i \notin old
      <4>. SUFFICES ASSUME i \in old PROVE FALSE
        OBVIOUS
      <4>1. PICK t \in timers : t.id = i
        BY <1>6
      <4>. QED BY <1>2, <1>5, <3>1, <4>1 DEF Schedules
    <3>. QED BY <1>5, <3>1, <3>2
  <2>. QED BY <1>1, <2>1, <2>2, <2>3, <2>4 DEF IdsAreUnique
<1>11. WakesAreSomewhere'
  <2>. USE DEF OneShot
  <2>1. \A t \in timers' : gone'[t.id] = "no"
    <3>. SUFFICES ASSUME NEW t \in timers' PROVE t.id \in Schedules /\ t.id \notin old /\ gone[t.id] = "no"
      BY <1>7
    <3>1. CASE t = new
      BY <1>3, <1>5, <1>8, <3>1
    <3>2. CASE t # new
      <4>1. t \in left
        BY <1>1, <3>2
      <4>. QED BY <1>2, <4>1 DEF WakeInv, WakesAreSomewhere
    <3>. QED BY <3>1, <3>2
  <2>2. \A t \in timers' : \A j \in DOMAIN wakeInbox : ~OneShot(j, t.id)
    BY <1>1, <1>5 DEF WakeInv, WakesAreSomewhere
  <2>3. ASSUME NEW j \in DOMAIN wakeInbox, ~wakeInbox[j].fresh
        PROVE  gone'[wakeInbox[j].schedule] = "no"
    <3>1. wakeInbox[j].schedule \notin old
      BY <1>6, <2>3 DEF WakeInv, WakesAreSomewhere
    <3>. QED BY <1>5, <1>7, <2>3, <3>1 DEF WakeInv, WakesAreSomewhere
  <2>4. ASSUME NEW i \in 1..id, gone'[i] = "no"
        PROVE  \/ \E t \in timers' : t.id = i
               \/ \E j \in DOMAIN wakeInbox : OneShot(j, i)
    <3>1. CASE i = id
      <4>. new \in timers' /\ new.id = id
        BY <1>1
      <4>. QED BY <3>1
    <3>2. CASE i # id
      <4>1. i \in 1..scheduled /\ i \in Schedules
        BY <1>2, <1>3, <3>2 DEF Schedules
      <4>2. i \notin old /\ gone[i] = "no"
        BY <1>7, <2>4, <4>1
      <4>3. \/ \E t \in timers : t.id = i
            \/ \E j \in DOMAIN wakeInbox : OneShot(j, i)
        BY <4>1, <4>2 DEF WakeInv, WakesAreSomewhere
      <4>. QED BY <1>1, <4>2, <4>3
    <3>. QED BY <3>1, <3>2
  <2>. QED BY <1>1, <2>1, <2>2, <2>3, <2>4 DEF WakeInv, WakesAreSomewhere
<1>12. DeliveriesAreLast'
  <2>. SUFFICES ASSUME NEW t \in timers', NEW j \in DOMAIN wakeInbox, wakeInbox[j].schedule = t.id
                PROVE  /\ wakeInbox[j] = lastDelivery[t.id]
                       /\ \A k \in DOMAIN wakeInbox : wakeInbox[k].schedule = t.id => k = j
    BY <1>1 DEF DeliveriesAreLast
  <2>1. t # new
    BY <1>5
  <2>2. t \in timers
    BY <1>1, <2>1
  <2>. QED BY <2>2 DEF WakeInv, DeliveriesAreLast
<1>13. KeysNameLiveWakes'
  <2>. USE DEF KeysNameLiveWakes
  <2>1. CASE key = NoWakeKey
    BY <1>1, <2>1 DEF WakeInv
  <2>2. CASE key # NoWakeKey
    <3>1. /\ key \in WakeKeys /\ slot \in WakeSessions \X WakeKeys
          /\ wakeKeys'[slot] = id
          /\ \A k \in WakeSessions \X WakeKeys : k # slot => wakeKeys'[k] = wakeKeys[k]
          /\ DOMAIN wakeKeys' = WakeSessions \X WakeKeys
      BY <1>1, <1>2, <2>2
    <3>2. new \in timers' /\ new.id = id /\ <<new.session, new.key>> = slot
      BY <1>1
    <3>3. ASSUME NEW k \in WakeSessions \X WakeKeys, wakeKeys'[k] # 0
          PROVE  \E t \in timers' : t.id = wakeKeys'[k] /\ <<t.session, t.key>> = k
      <4>1. CASE k = slot
        BY <3>1, <3>2, <4>1
      <4>2. CASE k # slot
        <5>1. wakeKeys'[k] = wakeKeys[k]
          BY <3>1, <4>2
        <5>2. PICK t \in timers : t.id = wakeKeys[k] /\ <<t.session, t.key>> = k
          BY <1>2, <3>3, <5>1 DEF WakeInv
        <5>3. t.id \notin old
          <6>. SUFFICES ASSUME t.id = wakeKeys[slot], wakeKeys[slot] # 0 PROVE FALSE
            OBVIOUS
          <6>1. PICK u \in timers : u.id = wakeKeys[slot] /\ <<u.session, u.key>> = slot
            BY <1>2, <3>1 DEF WakeInv
          <6>2. u = t
            BY <1>5, <6>1
          <6>. QED BY <4>2, <5>2, <6>1, <6>2
        <5>4. t \in timers'
          BY <1>1, <5>3
        <5>. QED BY <5>1, <5>2, <5>4
      <4>. QED BY <4>1, <4>2
    <3>4. ASSUME NEW t \in timers', t.key # NoWakeKey
          PROVE  wakeKeys'[<<t.session, t.key>>] = t.id
      <4>1. CASE t = new
        BY <3>1, <3>2, <4>1
      <4>2. CASE t # new
        <5>1. t \in timers /\ t.id \notin old
          BY <1>1, <4>2
        <5>2. /\ wakeKeys[<<t.session, t.key>>] = t.id /\ t.id # 0
              /\ <<t.session, t.key>> \in WakeSessions \X WakeKeys
          BY <1>2, <3>4, <5>1 DEF WakeInv, Schedules
        <5>3. <<t.session, t.key>> # slot
          BY <2>2, <5>1, <5>2
        <5>. QED BY <3>1, <5>2, <5>3
      <4>. QED BY <4>1, <4>2
    <3>. QED BY <3>1, <3>3, <3>4
  <2>. QED BY <2>1, <2>2
<1>14. WakesStayInTheirSession'
  <2>1. \A t \in timers' : t.session = s
    BY <1>1 DEF WakeInv, WakesStayInTheirSession
  <2>2. wakeRuntime.state = "open" => \A i \in Schedules : gone'[i] # "unheard"
    BY <1>7 DEF WakeInv, WakesStayInTheirSession
  <2>. QED BY <1>1, <2>1, <2>2 DEF WakesStayInTheirSession
<1>15. StoppedIsEmpty'
  BY <1>1 DEF WakeInv, StoppedIsEmpty
<1>. QED BY <1>9, <1>10, <1>11, <1>12, <1>13, <1>14, <1>15 DEF WakeInv

LEMMA TickKeeps ==
  ASSUME WakeInv, NEW t, Tick(t)
  PROVE  WakeInv'
<1>1. clock' \in 0..MaxClock
  BY WakeAssumption DEF Tick, WakeInv, WakeTypeOK
<1>2. WakeTypeOK'
  BY <1>1 DEF Tick, WakeInv, WakeTypeOK
<1>. QED BY <1>2 DEF Tick, WakeInv, IdsAreUnique, WakesAreSomewhere, OneShot, DeliveriesAreLast,
          KeysNameLiveWakes, WakesStayInTheirSession, StoppedIsEmpty

\* The timers of some ids go, their wakes given up, while the inbox stays or
\* loses everything.
LEMMA GivenUpKeeps ==
  ASSUME WakeInv, NEW ids, NEW more, NEW what,
         what \in {"cancelled", "severed", "unheard"},
         timers' = {t \in timers : t.id \notin ids},
         wakeKeys' = KeysWithout(ids),
         gone' = GoneAs(ids \cup more, what),
         \A i \in more : \E j \in DOMAIN wakeInbox : OneShot(j, i),
         \A i \in ids : i \in Schedules => \E t \in timers : t.id = i,
         UNCHANGED <<clock, scheduled, wakesHeard>>,
         \/ wakeInbox' = wakeInbox /\ more = {}
         \/ wakeInbox' = <<>> /\ \A j \in DOMAIN wakeInbox : ~wakeInbox[j].fresh =>
                                   wakeInbox[j].schedule \in more,
         lastDelivery' \in [Schedules -> Deliveries \cup {NoDelivery}],
         \A i \in Schedules : i \notin ids => lastDelivery'[i] = lastDelivery[i] \/ wakeInbox' = <<>>
  PROVE  /\ IdsAreUnique' /\ WakesAreSomewhere' /\ DeliveriesAreLast' /\ KeysNameLiveWakes'
         /\ (wakeRuntime \in [session : WakeSessions, changing : BOOLEAN,
                             state : {"open", "stopping", "closed"}])' => WakeTypeOK'
         /\ \A i \in Schedules : gone'[i] = IF i \in ids \cup more THEN what ELSE gone[i]
<1>1. /\ KeysNameLiveWakes'
      /\ wakeKeys' \in [WakeSessions \X WakeKeys -> 0..MaxWakes]
  BY KeysOfTheRest
<1>2. /\ \A i \in Schedules : gone'[i] = IF i \in ids \cup more THEN what ELSE gone[i]
      /\ gone' \in [Schedules -> {"no", "cancelled", "withdrawn", "replaced",
                                 "taken", "severed", "unheard"}]
  <2>1. gone \in [Schedules -> {"no", "cancelled", "withdrawn", "replaced",
                                 "taken", "severed", "unheard"}]
    BY DEF WakeInv, WakeTypeOK
  <2>. QED BY <2>1 DEF GoneAs
<1>3. /\ \A t \in timers : t.id \in Schedules /\ t.id <= scheduled
      /\ \A j \in DOMAIN wakeInbox : wakeInbox[j].schedule \in Schedules /\ wakeInbox[j].schedule <= scheduled
      /\ scheduled \in 0..MaxWakes /\ MaxWakes \in Nat
      /\ wakeInbox' \in Seq(Deliveries)
  <2>1. \A j \in DOMAIN wakeInbox : wakeInbox[j] \in Deliveries
    BY DEF WakeInv, WakeTypeOK
  <2>2. \A j \in DOMAIN wakeInbox : wakeInbox[j].schedule \in Schedules
    BY <2>1 DEF Deliveries
  <2>3. \A t \in timers : t.id \in Schedules
    BY DEF WakeInv, WakeTypeOK
  <2>4. wakeInbox' \in Seq(Deliveries)
    <3>1. wakeInbox \in Seq(Deliveries)
      BY DEF WakeInv, WakeTypeOK
    <3>2. wakeInbox' = wakeInbox \/ wakeInbox' = <<>>
      OBVIOUS
    <3>3. <<>> \in Seq(Deliveries)
      OBVIOUS
    <3>. QED BY <3>1, <3>2, <3>3, Zenon
  <2>5. scheduled \in 0..MaxWakes /\ MaxWakes \in Nat
    BY WakeAssumption DEF WakeInv, WakeTypeOK
  <2>. QED BY <2>2, <2>3, <2>4, <2>5 DEF WakeInv, IdsAreUnique
<1>4. (wakeRuntime \in [session : WakeSessions, changing : BOOLEAN,
                        state : {"open", "stopping", "closed"}])' => WakeTypeOK'
  BY <1>1, <1>2, <1>3 DEF WakeInv, WakeTypeOK
<1>5. IdsAreUnique'
  <2>1. \A i \in Schedules : i > scheduled => gone'[i] = "no"
    <3>. SUFFICES ASSUME NEW i \in Schedules, i > scheduled PROVE gone'[i] = "no"
      OBVIOUS
    <3>1. i \notin ids
      BY <1>3 DEF Schedules
    <3>2. i \notin more
      BY <1>3 DEF Schedules, OneShot
    <3>. QED BY <1>2, <3>1, <3>2 DEF WakeInv, IdsAreUnique
  <2>2. \A j \in DOMAIN wakeInbox' : wakeInbox'[j].schedule <= scheduled
    BY <1>3
  <2>. QED BY <2>1, <2>2 DEF WakeInv, IdsAreUnique
<1>6. WakesAreSomewhere'
  <2>. USE DEF OneShot
  <2>1. ASSUME NEW t \in timers' PROVE gone'[t.id] = "no"
    <3>1. t \in timers /\ t.id \notin ids
      OBVIOUS
    <3>2. t.id \notin more
      BY <3>1 DEF WakeInv, WakesAreSomewhere
    <3>. QED BY <1>2, <1>3, <3>1, <3>2 DEF WakeInv, WakesAreSomewhere
  <2>2. \A t \in timers' : \A j \in DOMAIN wakeInbox' : ~(~wakeInbox'[j].fresh /\ wakeInbox'[j].schedule = t.id)
    BY DEF WakeInv, WakesAreSomewhere
  <2>3. ASSUME NEW j \in DOMAIN wakeInbox', ~wakeInbox'[j].fresh
        PROVE  gone'[wakeInbox'[j].schedule] = "no"
    <3>1. wakeInbox' = wakeInbox /\ more = {}
      OBVIOUS
    <3>2. wakeInbox[j].schedule \notin ids
      BY <1>3, <2>3, <3>1 DEF WakeInv, WakesAreSomewhere
    <3>. QED BY <1>2, <1>3, <2>3, <3>1, <3>2 DEF WakeInv, WakesAreSomewhere
  <2>4. \A i \in Schedules : \A j, k \in DOMAIN wakeInbox' :
          (~wakeInbox'[j].fresh /\ wakeInbox'[j].schedule = i) /\ (~wakeInbox'[k].fresh /\ wakeInbox'[k].schedule = i) => j = k
    BY DEF WakeInv, WakesAreSomewhere
  <2>5. ASSUME NEW i \in 1..scheduled, gone'[i] = "no"
        PROVE  \/ \E t \in timers' : t.id = i
               \/ \E j \in DOMAIN wakeInbox' : ~wakeInbox'[j].fresh /\ wakeInbox'[j].schedule = i
    <3>1. i \in Schedules /\ i \notin ids \cup more /\ gone[i] = "no"
      <4>1. i \in Schedules
        BY <1>3 DEF Schedules
      <4>2. what # "no"
        OBVIOUS
      <4>. QED BY <1>2, <2>5, <4>1, <4>2
    <3>2. \/ \E t \in timers : t.id = i
          \/ \E j \in DOMAIN wakeInbox : OneShot(j, i)
      BY <3>1 DEF WakeInv, WakesAreSomewhere
    <3>3. CASE \E t \in timers : t.id = i
      BY <3>1, <3>3
    <3>4. CASE \E j \in DOMAIN wakeInbox : OneShot(j, i)
      BY <3>1, <3>4
    <3>. QED BY <3>2, <3>3, <3>4
  <2>. QED BY <2>1, <2>2, <2>3, <2>4, <2>5 DEF WakesAreSomewhere
<1>7. DeliveriesAreLast'
  <2>. SUFFICES ASSUME NEW t \in timers', NEW j \in DOMAIN wakeInbox', wakeInbox'[j].schedule = t.id
                PROVE  /\ wakeInbox'[j] = lastDelivery'[t.id]
                       /\ \A k \in DOMAIN wakeInbox' : wakeInbox'[k].schedule = t.id => k = j
    BY DEF DeliveriesAreLast
  <2>1. wakeInbox' = wakeInbox /\ wakeInbox' # <<>>
    OBVIOUS
  <2>2. t \in timers /\ t.id \notin ids /\ t.id \in Schedules
    BY <1>3
  <2>. QED BY <2>1, <2>2 DEF WakeInv, DeliveriesAreLast
<1>. QED BY <1>1, <1>2, <1>4, <1>5, <1>6, <1>7

LEMMA CancelFutureKeeps ==
  ASSUME WakeInv, NEW id \in Schedules, CancelFuture(id)
  PROVE  WakeInv'
<1>. DEFINE none == {}
<1>1. /\ timers' = {t \in timers : t.id \notin {id}}
      /\ wakeKeys' = KeysWithout({id})
      /\ gone' = GoneAs({id} \cup none, "cancelled")
      /\ \A i \in {id} : i \in Schedules => \E t \in timers : t.id = i
      /\ UNCHANGED <<clock, wakeInbox, wakeRuntime, scheduled, wakesHeard>>
  <2>. {id} \cup none = {id}
    OBVIOUS
  <2>. QED BY DEF CancelFuture
<1>2. /\ lastDelivery' \in [Schedules -> Deliveries \cup {NoDelivery}]
      /\ \A i \in Schedules : i \notin {id} => lastDelivery'[i] = lastDelivery[i]
  BY DEF CancelFuture, WakeInv, WakeTypeOK
<1>3. /\ IdsAreUnique' /\ WakesAreSomewhere' /\ DeliveriesAreLast' /\ KeysNameLiveWakes'
      /\ (wakeRuntime \in [session : WakeSessions, changing : BOOLEAN,
                           state : {"open", "stopping", "closed"}])' => WakeTypeOK'
      /\ \A i \in Schedules : gone'[i] = IF i \in {id} \cup none THEN "cancelled" ELSE gone[i]
  <2>1. \A i \in none : \E j \in DOMAIN wakeInbox : OneShot(j, i)
    OBVIOUS
  <2>2. none = {}
    OBVIOUS
  <2>3. /\ wakeInbox' = wakeInbox /\ UNCHANGED <<clock, scheduled, wakesHeard>>
        /\ "cancelled" \in {"cancelled", "severed", "unheard"}
        /\ \A i \in Schedules : i \notin {id} => lastDelivery'[i] = lastDelivery[i] \/ wakeInbox' = <<>>
    BY <1>1, <1>2
  <2>. DEFINE ids == {id}
  <2>4. /\ timers' = {t \in timers : t.id \notin ids} /\ wakeKeys' = KeysWithout(ids)
        /\ gone' = GoneAs(ids \cup none, "cancelled")
        /\ \A i \in ids : i \in Schedules => \E t \in timers : t.id = i
        /\ \A i \in Schedules : i \notin ids => lastDelivery'[i] = lastDelivery[i] \/ wakeInbox' = <<>>
    BY <1>1, <2>3
  <2>. HIDE DEF none, ids
  <2>5. /\ IdsAreUnique' /\ WakesAreSomewhere' /\ DeliveriesAreLast' /\ KeysNameLiveWakes'
        /\ (wakeRuntime \in [session : WakeSessions, changing : BOOLEAN,
                             state : {"open", "stopping", "closed"}])' => WakeTypeOK'
        /\ \A i \in Schedules : gone'[i] = IF i \in ids \cup none THEN "cancelled" ELSE gone[i]
    BY <1>2, <2>1, <2>2, <2>3, <2>4, GivenUpKeeps, SMTT(30)
  <2>. QED BY <2>5 DEF ids
<1>4. WakeTypeOK'
  BY <1>1, <1>3 DEF WakeInv, WakeTypeOK
<1>5. WakesStayInTheirSession' /\ StoppedIsEmpty'
  BY <1>1, <1>3 DEF WakeInv, WakesStayInTheirSession, StoppedIsEmpty
<1>. QED BY <1>3, <1>4, <1>5 DEF WakeInv

LEMMA ChangeSessionKeeps ==
  ASSUME WakeInv, WakesChangeSession
  PROVE  WakeInv'
<1>1. /\ UNCHANGED <<timers, wakeKeys, clock, wakeInbox, lastDelivery, scheduled, wakesHeard, gone>>
      /\ wakeRuntime'.session = wakeRuntime.session /\ wakeRuntime'.state = wakeRuntime.state
      /\ wakeRuntime' \in [session : WakeSessions, changing : BOOLEAN,
                            state : {"open", "stopping", "closed"}]
  BY DEF WakesChangeSession, WakeInv, WakeTypeOK
<1>2. WakeTypeOK'
  BY <1>1 DEF WakeInv, WakeTypeOK
<1>. QED BY <1>1, <1>2 DEF WakeInv, IdsAreUnique, WakesAreSomewhere, OneShot, DeliveriesAreLast,
          KeysNameLiveWakes, WakesStayInTheirSession, StoppedIsEmpty

\* Inboxed names the one-shot wakes that wait.
LEMMA InboxedAreOneShots ==
  ASSUME WakeInv
  PROVE  /\ \A i \in Inboxed : \E j \in DOMAIN wakeInbox : OneShot(j, i)
         /\ \A j \in DOMAIN wakeInbox : ~wakeInbox[j].fresh => wakeInbox[j].schedule \in Inboxed
BY DEF Inboxed, OneShot, Range

LEMMA ChangedSessionKeeps ==
  ASSUME WakeInv, NEW s \in WakeSessions, WakesChangedSession(s)
  PROVE  WakeInv'
<1>. DEFINE out == CancelledSession(wakeRuntime.session)
<1>1. /\ wakeRuntime.state = "open"
      /\ timers' = {t \in timers : t.id \notin out}
      /\ wakeKeys' = KeysWithout(out)
      /\ gone' = GoneAs(out \cup Inboxed, "severed")
      /\ wakeInbox' = <<>>
      /\ lastDelivery' = [i \in Schedules |-> NoDelivery]
      /\ wakeRuntime' = [wakeRuntime EXCEPT !.session = s, !.changing = FALSE]
      /\ UNCHANGED <<clock, scheduled, wakesHeard>>
  BY DEF WakesChangedSession
<1>2. \A t \in timers : t.id \in out
  BY <1>1 DEF CancelledSession, WakeInv, WakesStayInTheirSession
<1>3. \A i \in out : i \in Schedules => \E t \in timers : t.id = i
  BY DEF CancelledSession
<1>4. lastDelivery' \in [Schedules -> Deliveries \cup {NoDelivery}]
  BY <1>1
<1>. HIDE DEF out
<1>5. /\ IdsAreUnique' /\ WakesAreSomewhere' /\ DeliveriesAreLast' /\ KeysNameLiveWakes'
      /\ (wakeRuntime \in [session : WakeSessions, changing : BOOLEAN,
                           state : {"open", "stopping", "closed"}])' => WakeTypeOK'
      /\ \A i \in Schedules : gone'[i] = IF i \in out \cup Inboxed THEN "severed" ELSE gone[i]
  BY <1>1, <1>3, <1>4, GivenUpKeeps, InboxedAreOneShots, ZenonT(30)
<1>6. /\ wakeRuntime' \in [session : WakeSessions, changing : BOOLEAN,
                            state : {"open", "stopping", "closed"}]
      /\ wakeRuntime'.state = "open"
  BY <1>1 DEF WakeInv, WakeTypeOK
<1>7. timers' = {}
  BY <1>1, <1>2
<1>8. WakesStayInTheirSession' /\ StoppedIsEmpty'
  BY <1>1, <1>5, <1>6, <1>7 DEF WakeInv, WakesStayInTheirSession, StoppedIsEmpty
<1>. QED BY <1>5, <1>6, <1>8 DEF WakeInv

LEMMA PrepareKeeps ==
  ASSUME WakeInv, PrepareForShutdown
  PROVE  WakeInv'
<1>. DEFINE none == {}
<1>1. /\ wakeRuntime.state = "open"
      /\ wakeRuntime' = [wakeRuntime EXCEPT !.state = "stopping"]
      /\ gone' = GoneAs(none \cup Inboxed, "severed")
      /\ wakeInbox' = <<>>
      /\ UNCHANGED <<timers, wakeKeys, clock, lastDelivery, scheduled, wakesHeard>>
  <2>. none \cup Inboxed = Inboxed
    OBVIOUS
  <2>. QED BY DEF PrepareForShutdown
<1>2. timers' = {t \in timers : t.id \notin none} /\ wakeKeys' = KeysWithout(none)
  <2>1. wakeKeys = [k \in DOMAIN wakeKeys |-> wakeKeys[k]]
    BY DEF WakeInv, WakeTypeOK
  <2>. QED BY <1>1, <2>1 DEF KeysWithout
<1>3. lastDelivery' \in [Schedules -> Deliveries \cup {NoDelivery}]
  BY <1>1 DEF WakeInv, WakeTypeOK
<1>4. \A i \in none : i \in Schedules => \E t \in timers : t.id = i
  OBVIOUS
<1>. HIDE DEF none
<1>5. /\ IdsAreUnique' /\ WakesAreSomewhere' /\ DeliveriesAreLast' /\ KeysNameLiveWakes'
      /\ (wakeRuntime \in [session : WakeSessions, changing : BOOLEAN,
                           state : {"open", "stopping", "closed"}])' => WakeTypeOK'
      /\ \A i \in Schedules : gone'[i] = IF i \in none \cup Inboxed THEN "severed" ELSE gone[i]
  BY <1>1, <1>2, <1>3, <1>4, GivenUpKeeps, InboxedAreOneShots
<1>6. /\ wakeRuntime' \in [session : WakeSessions, changing : BOOLEAN,
                            state : {"open", "stopping", "closed"}]
      /\ wakeRuntime'.state = "stopping" /\ wakeRuntime'.session = wakeRuntime.session
  BY <1>1 DEF WakeInv, WakeTypeOK
<1>7. WakesStayInTheirSession' /\ StoppedIsEmpty'
  BY <1>1, <1>5, <1>6 DEF WakeInv, WakesStayInTheirSession, StoppedIsEmpty
<1>. QED BY <1>5, <1>6, <1>7 DEF WakeInv

LEMMA FinishKeeps ==
  ASSUME WakeInv, FinishShutdown
  PROVE  WakeInv'
<1>. DEFINE none == {}
<1>1. /\ wakeRuntime.state = "stopping" /\ wakeInbox = <<>>
      /\ timers' = {} /\ wakeKeys' = KeysWithout(TimerIds)
      /\ gone' = GoneAs(TimerIds \cup none, "severed")
      /\ wakeRuntime' = [wakeRuntime EXCEPT !.state = "closed", !.changing = FALSE]
      /\ UNCHANGED <<clock, wakeInbox, lastDelivery, scheduled, wakesHeard>>
  <2>. TimerIds \cup none = TimerIds
    OBVIOUS
  <2>. QED BY DEF FinishShutdown, WakeInv, StoppedIsEmpty
<1>2. /\ timers' = {t \in timers : t.id \notin TimerIds}
      /\ \A i \in TimerIds : \E t \in timers : t.id = i
  BY <1>1 DEF TimerIds
<1>3. lastDelivery' \in [Schedules -> Deliveries \cup {NoDelivery}]
  BY <1>1 DEF WakeInv, WakeTypeOK
<1>4. \A i \in none : \E j \in DOMAIN wakeInbox : OneShot(j, i)
  OBVIOUS
<1>5. none = {}
  OBVIOUS
<1>. HIDE DEF none
<1>6. /\ IdsAreUnique' /\ WakesAreSomewhere' /\ DeliveriesAreLast' /\ KeysNameLiveWakes'
      /\ (wakeRuntime \in [session : WakeSessions, changing : BOOLEAN,
                           state : {"open", "stopping", "closed"}])' => WakeTypeOK'
  BY <1>1, <1>2, <1>3, <1>4, <1>5, GivenUpKeeps
<1>7. /\ wakeRuntime' \in [session : WakeSessions, changing : BOOLEAN,
                            state : {"open", "stopping", "closed"}]
      /\ wakeRuntime'.state = "closed"
  BY <1>1 DEF WakeInv, WakeTypeOK
<1>8. WakesStayInTheirSession' /\ StoppedIsEmpty'
  BY <1>1, <1>7 DEF WakesStayInTheirSession, StoppedIsEmpty
<1>. QED BY <1>6, <1>7, <1>8 DEF WakeInv

\* One input leaves the inbox.
LEMMA InputLeaves ==
  ASSUME WakeInv, NEW i, i \in DOMAIN wakeInbox, NEW what, what \in {"withdrawn", "taken"},
         wakeInbox' \in Seq(Deliveries), DOMAIN wakeInbox' = 1..(Len(wakeInbox) - 1),
         \A j \in 1..(Len(wakeInbox) - 1) : wakeInbox'[j] = wakeInbox[IF j < i THEN j ELSE j + 1],
         gone' = IF wakeInbox[i].fresh THEN gone ELSE GoneAs({wakeInbox[i].schedule}, what),
         UNCHANGED <<timers, wakeKeys, clock, lastDelivery, wakeRuntime, scheduled, wakesHeard>>
  PROVE  WakeInv'
<1>. DEFINE D == 1..(Len(wakeInbox) - 1)
            P(j) == IF j < i THEN j ELSE j + 1
            taken(x) == ~wakeInbox[i].fresh /\ x = wakeInbox[i].schedule
<1>1. /\ Len(wakeInbox) \in Nat /\ i \in 1..Len(wakeInbox) /\ DOMAIN wakeInbox = 1..Len(wakeInbox)
      /\ \A j \in DOMAIN wakeInbox : wakeInbox[j] \in Deliveries /\ wakeInbox[j].schedule \in Schedules
      /\ gone \in [Schedules -> {"no", "cancelled", "withdrawn", "replaced",
                                 "taken", "severed", "unheard"}]
  <2>1. wakeInbox \in Seq(Deliveries)
    BY DEF WakeInv, WakeTypeOK
  <2>2. \A j \in DOMAIN wakeInbox : wakeInbox[j] \in Deliveries
    BY <2>1
  <2>. QED BY <2>1, <2>2 DEF WakeInv, WakeTypeOK, Deliveries
<1>2. /\ \A j \in D : P(j) \in DOMAIN wakeInbox /\ P(j) # i
      /\ \A j, k \in D : P(j) = P(k) => j = k
      /\ \A k \in DOMAIN wakeInbox : k # i => \E j \in D : P(j) = k
  <2>1. ASSUME NEW k \in DOMAIN wakeInbox, k # i PROVE \E j \in D : P(j) = k
    <3>1. CASE k < i
      BY <1>1, <3>1
    <3>2. CASE k > i
      <4>. k - 1 \in D /\ P(k - 1) = k
        BY <1>1, <3>2
      <4>. QED  OBVIOUS
    <3>. QED BY <1>1, <2>1, <3>1, <3>2
  <2>. QED BY <1>1, <2>1
<1>3. /\ \A x \in Schedules : gone'[x] = IF taken(x) THEN what ELSE gone[x]
      /\ gone' \in [Schedules -> {"no", "cancelled", "withdrawn", "replaced",
                                 "taken", "severed", "unheard"}]
  <2>1. CASE wakeInbox[i].fresh
    BY <1>1, <2>1
  <2>2. CASE ~wakeInbox[i].fresh
    BY <1>1, <2>2 DEF GoneAs
  <2>. QED BY <2>1, <2>2
<1>4. \A j \in D : wakeInbox'[j] = wakeInbox[P(j)]
  OBVIOUS
<1>5. \A k \in DOMAIN wakeInbox : ~wakeInbox[k].fresh /\ taken(wakeInbox[k].schedule) => k = i
  BY <1>1 DEF WakeInv, WakesAreSomewhere, OneShot
<1>. HIDE DEF P
<1>6. WakeTypeOK'
  BY <1>3 DEF WakeInv, WakeTypeOK
<1>7. IdsAreUnique'
  <2>1. \A j \in D : wakeInbox'[j].schedule <= scheduled
    BY <1>2, <1>4 DEF WakeInv, IdsAreUnique
  <2>2. \A x \in Schedules : x > scheduled => gone'[x] = "no"
    <3>. SUFFICES ASSUME NEW x \in Schedules, x > scheduled PROVE gone[x] = "no" /\ ~taken(x)
      BY <1>3
    <3>1. wakeInbox[i].schedule <= scheduled /\ scheduled \in Nat /\ x \in Nat
      BY WakeAssumption DEF WakeInv, IdsAreUnique, WakeTypeOK, Schedules
    <3>. QED BY <3>1 DEF WakeInv, IdsAreUnique
  <2>. QED BY <2>1, <2>2 DEF WakeInv, IdsAreUnique
<1>8. WakesAreSomewhere'
  <2>. USE DEF OneShot
  <2>1. ASSUME NEW t \in timers PROVE gone'[t.id] = "no"
    <3>1. t.id \in Schedules
      BY DEF WakeInv, WakeTypeOK
    <3>2. ~taken(t.id)
      BY DEF WakeInv, WakesAreSomewhere
    <3>. QED BY <1>3, <3>1, <3>2 DEF WakeInv, WakesAreSomewhere
  <2>2. \A t \in timers : \A j \in D : ~(~wakeInbox'[j].fresh /\ wakeInbox'[j].schedule = t.id)
    BY <1>2, <1>4 DEF WakeInv, WakesAreSomewhere
  <2>3. ASSUME NEW j \in D, ~wakeInbox'[j].fresh PROVE gone'[wakeInbox'[j].schedule] = "no"
    <3>1. /\ wakeInbox'[j] = wakeInbox[P(j)] /\ P(j) \in DOMAIN wakeInbox /\ P(j) # i
      BY <1>2, <1>4
    <3>2. ~taken(wakeInbox[P(j)].schedule)
      BY <1>5, <2>3, <3>1
    <3>3. gone[wakeInbox[P(j)].schedule] = "no"
      BY <2>3, <3>1 DEF WakeInv, WakesAreSomewhere
    <3>. QED BY <1>1, <1>3, <3>1, <3>2, <3>3
  <2>4. ASSUME NEW x \in Schedules, NEW j \in D, NEW k \in D,
               ~wakeInbox'[j].fresh /\ wakeInbox'[j].schedule = x,
               ~wakeInbox'[k].fresh /\ wakeInbox'[k].schedule = x
        PROVE  j = k
    <3>1. P(j) = P(k)
      BY <1>2, <1>4, <2>4 DEF WakeInv, WakesAreSomewhere
    <3>. QED BY <1>2, <3>1
  <2>5. ASSUME NEW x \in 1..scheduled, gone'[x] = "no"
        PROVE  \/ \E t \in timers : t.id = x
               \/ \E j \in D : ~wakeInbox'[j].fresh /\ wakeInbox'[j].schedule = x
    <3>1. x \in Schedules
      BY WakeAssumption DEF WakeInv, WakeTypeOK, Schedules
    <3>2. ~taken(x) /\ gone[x] = "no"
      BY <1>3, <2>5, <3>1
    <3>3. CASE \E t \in timers : t.id = x
      BY <3>3
    <3>4. CASE \E k \in DOMAIN wakeInbox : OneShot(k, x)
      <4>1. PICK k \in DOMAIN wakeInbox : OneShot(k, x)
        BY <3>4
      <4>2. k # i
        BY <3>2, <4>1
      <4>3. PICK j \in D : P(j) = k
        BY <1>2, <4>2
      <4>. QED BY <1>4, <4>1, <4>3
    <3>. QED BY <3>2, <3>3, <3>4 DEF WakeInv, WakesAreSomewhere
  <2>. QED BY <2>1, <2>2, <2>3, <2>4, <2>5 DEF WakesAreSomewhere
<1>9. DeliveriesAreLast'
  <2>. SUFFICES ASSUME NEW t \in timers, NEW j \in D, wakeInbox'[j].schedule = t.id
                PROVE  /\ wakeInbox'[j] = lastDelivery[t.id]
                       /\ \A k \in D : wakeInbox'[k].schedule = t.id => k = j
    BY DEF DeliveriesAreLast
  <2>1. wakeInbox'[j] = wakeInbox[P(j)] /\ P(j) \in DOMAIN wakeInbox
    BY <1>2, <1>4
  <2>2. /\ wakeInbox[P(j)] = lastDelivery[t.id]
        /\ \A k \in DOMAIN wakeInbox : wakeInbox[k].schedule = t.id => k = P(j)
    BY <2>1 DEF WakeInv, DeliveriesAreLast
  <2>. QED BY <1>2, <1>4, <2>1, <2>2
<1>10. KeysNameLiveWakes'
  BY DEF WakeInv, KeysNameLiveWakes
<1>11. StoppedIsEmpty' /\ WakesStayInTheirSession'
  <2>1. wakeRuntime.state = "open"
    <3>. wakeInbox # <<>>
      BY <1>1
    <3>. QED BY DEF WakeInv, StoppedIsEmpty
  <2>. QED BY <1>3, <2>1 DEF WakeInv, WakesStayInTheirSession, StoppedIsEmpty
<1>. QED BY <1>6, <1>7, <1>8, <1>9, <1>10, <1>11 DEF WakeInv

LEMMA CancelPendingKeeps ==
  ASSUME WakeInv, NEW i \in DOMAIN wakeInbox, CancelPending(i)
  PROVE  WakeInv'
<1>1. wakeInbox \in Seq(Deliveries)
  BY DEF WakeInv, WakeTypeOK
<1>2. /\ wakeInbox' \in Seq(Deliveries) /\ DOMAIN wakeInbox' = 1..(Len(wakeInbox) - 1)
      /\ \A j \in 1..(Len(wakeInbox) - 1) : wakeInbox'[j] = wakeInbox[IF j < i THEN j ELSE j + 1]
  BY <1>1, Removed DEF CancelPending
<1>3. /\ gone' = IF wakeInbox[i].fresh THEN gone ELSE GoneAs({wakeInbox[i].schedule}, "withdrawn")
      /\ UNCHANGED <<timers, wakeKeys, clock, lastDelivery, wakeRuntime, scheduled, wakesHeard>>
  BY DEF CancelPending
<1>. QED BY <1>2, <1>3, InputLeaves

LEMMA TakeInputKeeps ==
  ASSUME WakeInv, TakeInput
  PROVE  WakeInv'
<1>1. wakeInbox \in Seq(Deliveries) /\ wakeInbox # <<>> /\ wakeInbox' = Tail(wakeInbox)
  BY DEF WakeInv, WakeTypeOK, TakeInput
<1>2. /\ 1 \in DOMAIN wakeInbox /\ Head(wakeInbox) = wakeInbox[1]
      /\ wakeInbox' \in Seq(Deliveries) /\ DOMAIN wakeInbox' = 1..(Len(wakeInbox) - 1)
      /\ \A j \in 1..(Len(wakeInbox) - 1) : wakeInbox'[j] = wakeInbox[IF j < 1 THEN j ELSE j + 1]
  BY <1>1
<1>3. /\ gone' = IF wakeInbox[1].fresh THEN gone ELSE GoneAs({wakeInbox[1].schedule}, "taken")
      /\ UNCHANGED <<timers, wakeKeys, clock, lastDelivery, wakeRuntime, scheduled, wakesHeard>>
  BY <1>2 DEF TakeInput
<1>. QED BY <1>2, <1>3, InputLeaves

\* The timer of a one-shot wake expires: the wake is in the inbox, or nobody
\* listens any more.
LEMMA OneShotFires ==
  ASSUME WakeInv, NEW t \in timers, Fire(t), t.every = 0
  PROVE  WakeInv'
<1>. DEFINE d == [schedule |-> t.id, due |-> t.due, fresh |-> FALSE]
            n == Len(wakeInbox) + 1
<1>1. /\ wakeRuntime.state # "closed" /\ t.session = wakeRuntime.session
      /\ timers' = timers \ {t} /\ wakeKeys' = KeysWithout({t.id})
      /\ UNCHANGED <<clock, wakeRuntime, scheduled>>
  BY DEF Fire, Rearmed, WakeInv, WakesStayInTheirSession
<1>2. timers' = {u \in timers : u.id \notin {t.id}}
  BY <1>1 DEF WakeInv, IdsAreUnique
<1>3. CASE ~Listening(t)
  <2>. DEFINE none == {}
              ids == {t.id}
  <2>1. /\ wakeRuntime.state = "stopping"
        /\ gone' = GoneAs(ids \cup none, "unheard")
        /\ UNCHANGED <<wakeInbox, lastDelivery, wakesHeard>>
    <3>. ids \cup none = ids
      OBVIOUS
    <3>. QED BY <1>1, <1>3 DEF Fire, Listening, WakeInv, WakeTypeOK
  <2>2. /\ \A i \in none : \E j \in DOMAIN wakeInbox : OneShot(j, i)
        /\ none = {}
        /\ \A i \in ids : i \in Schedules => \E u \in timers : u.id = i
        /\ \A i \in Schedules : i \notin ids => lastDelivery'[i] = lastDelivery[i] \/ wakeInbox' = <<>>
        /\ lastDelivery' \in [Schedules -> Deliveries \cup {NoDelivery}]
    BY <2>1 DEF WakeInv, WakeTypeOK
  <2>3. timers' = {u \in timers : u.id \notin ids} /\ wakeKeys' = KeysWithout(ids)
    BY <1>1, <1>2
  <2>. HIDE DEF none, ids
  <2>4. /\ IdsAreUnique' /\ WakesAreSomewhere' /\ DeliveriesAreLast' /\ KeysNameLiveWakes'
        /\ (wakeRuntime \in [session : WakeSessions, changing : BOOLEAN,
                             state : {"open", "stopping", "closed"}])' => WakeTypeOK'
    BY <1>1, <2>1, <2>2, <2>3, GivenUpKeeps
  <2>5. WakeTypeOK'
    BY <1>1, <2>4 DEF WakeInv, WakeTypeOK
  <2>6. WakesStayInTheirSession' /\ StoppedIsEmpty'
    BY <1>1, <2>1 DEF WakeInv, WakesStayInTheirSession, StoppedIsEmpty
  <2>. QED BY <2>4, <2>5, <2>6 DEF WakeInv
<1>4. CASE Listening(t)
  <2>1. /\ wakeRuntime.state = "open"
        /\ wakeInbox' = Append(wakeInbox, d)
        /\ wakesHeard' = wakesHeard \cup {d}
        /\ UNCHANGED <<lastDelivery, gone>>
    BY <1>4 DEF Fire, Listening, Skipped, Remembered
  <2>2. /\ d \in Deliveries /\ t.id \in Schedules /\ t.id <= scheduled
    BY DEF WakeInv, WakeTypeOK, IdsAreUnique, Deliveries
  <2>3. /\ wakeInbox' \in Seq(Deliveries) /\ DOMAIN wakeInbox' = DOMAIN wakeInbox \cup {n}
        /\ n \notin DOMAIN wakeInbox
        /\ \A j \in DOMAIN wakeInbox : wakeInbox'[j] = wakeInbox[j]
        /\ wakeInbox'[n] = d
    <3>1. wakeInbox \in Seq(Deliveries)
      BY DEF WakeInv, WakeTypeOK
    <3>. QED BY <2>1, <2>2, <3>1, Appended
  <2>4. d.schedule = t.id /\ ~d.fresh
    OBVIOUS
  <2>. HIDE DEF d, n
  <2>5. /\ KeysNameLiveWakes'
        /\ wakeKeys' \in [WakeSessions \X WakeKeys -> 0..MaxWakes]
    BY <1>1, <1>2, KeysOfTheRest
  <2>6. WakeTypeOK'
    <3>. timers' \subseteq timers
      BY <1>1
    <3>. QED BY <1>1, <2>1, <2>2, <2>3, <2>5 DEF WakeInv, WakeTypeOK
  <2>7. IdsAreUnique'
    BY <1>1, <2>1, <2>2, <2>3, <2>4 DEF WakeInv, IdsAreUnique
  <2>8. WakesAreSomewhere'
    <3>. USE DEF OneShot
    <3>1. \A u \in timers' : u \in timers /\ u.id # t.id
      BY <1>2
    <3>2. \A u \in timers' : gone'[u.id] = "no"
      BY <2>1, <3>1 DEF WakeInv, WakesAreSomewhere
    <3>3. \A u \in timers' : \A j \in DOMAIN wakeInbox' :
            ~(~wakeInbox'[j].fresh /\ wakeInbox'[j].schedule = u.id)
      BY <2>3, <2>4, <3>1 DEF WakeInv, WakesAreSomewhere
    <3>4. \A j \in DOMAIN wakeInbox' : ~wakeInbox'[j].fresh => gone'[wakeInbox'[j].schedule] = "no"
      BY <2>1, <2>3, <2>4 DEF WakeInv, WakesAreSomewhere
    <3>5. \A i \in Schedules : \A j, k \in DOMAIN wakeInbox' :
            /\ ~wakeInbox'[j].fresh /\ wakeInbox'[j].schedule = i
            /\ ~wakeInbox'[k].fresh /\ wakeInbox'[k].schedule = i
            => j = k
      <4>1. \A j \in DOMAIN wakeInbox : ~(~wakeInbox[j].fresh /\ wakeInbox[j].schedule = t.id)
        BY DEF WakeInv, WakesAreSomewhere
      <4>. QED BY <2>3, <2>4, <4>1 DEF WakeInv, WakesAreSomewhere
    <3>6. ASSUME NEW i \in 1..scheduled, gone[i] = "no"
          PROVE  \/ \E u \in timers' : u.id = i
                 \/ \E j \in DOMAIN wakeInbox' : ~wakeInbox'[j].fresh /\ wakeInbox'[j].schedule = i
      <4>1. CASE i = t.id
        BY <2>3, <2>4, <4>1
      <4>2. CASE i # t.id
        BY <1>2, <2>3, <3>6, <4>2 DEF WakeInv, WakesAreSomewhere
      <4>. QED BY <4>1, <4>2
    <3>. QED BY <1>1, <2>1, <3>2, <3>3, <3>4, <3>5, <3>6 DEF WakesAreSomewhere
  <2>9. DeliveriesAreLast'
    <3>. SUFFICES ASSUME NEW u \in timers', NEW j \in DOMAIN wakeInbox', wakeInbox'[j].schedule = u.id
                  PROVE  /\ wakeInbox'[j] = lastDelivery[u.id]
                         /\ \A k \in DOMAIN wakeInbox' : wakeInbox'[k].schedule = u.id => k = j
      BY <2>1 DEF DeliveriesAreLast
    <3>1. u \in timers /\ u.id # t.id
      BY <1>2
    <3>2. j \in DOMAIN wakeInbox /\ wakeInbox'[j] = wakeInbox[j]
      BY <2>3, <2>4, <3>1
    <3>. QED BY <2>3, <2>4, <3>1, <3>2 DEF WakeInv, DeliveriesAreLast
  <2>10. WakesStayInTheirSession' /\ StoppedIsEmpty'
    BY <1>1, <2>1 DEF WakeInv, WakesStayInTheirSession, StoppedIsEmpty
  <2>. QED BY <2>5, <2>6, <2>7, <2>8, <2>9, <2>10 DEF WakeInv
<1>. QED BY <1>3, <1>4

\* A repeating wake that fires is armed for its next occurrence.
LEMMA RearmedTimer ==
  ASSUME WakeInv, NEW t \in timers, t.every # 0, t.due <= clock
  PROVE  LET u == [t EXCEPT !.due = NextDue(t)]
         IN  /\ Rearmed(t) = (timers \ {t}) \cup {u}
             /\ u \in [id : Schedules, session : WakeSessions,
                       key : WakeKeys \cup {NoWakeKey}, every : 0..MaxDelay,
                       due : 1..(MaxClock + MaxDelay)]
             /\ u.id = t.id /\ u.session = t.session /\ u.key = t.key /\ u.every = t.every
             /\ u.due > clock /\ u.due - t.every <= clock /\ (u.due - t.due) % t.every = 0
<1>. DEFINE u == [t EXCEPT !.due = NextDue(t)]
<1>1. /\ t \in [id : Schedules, session : WakeSessions,
                key : WakeKeys \cup {NoWakeKey}, every : 0..MaxDelay,
                due : 1..(MaxClock + MaxDelay)]
      /\ clock \in 0..MaxClock /\ MaxClock \in Nat /\ MaxDelay \in Nat
  BY WakeAssumption DEF WakeInv, WakeTypeOK
<1>2. /\ NextDue(t) \in Nat /\ NextDue(t) > clock /\ NextDue(t) - t.every <= clock
      /\ (NextDue(t) - t.due) % t.every = 0
  <2>1. /\ clock \in Nat /\ t.due \in Nat /\ t.due <= clock /\ t.every \in Nat /\ t.every # 0
    BY <1>1
  <2>. QED BY <2>1, NextOccurrence DEF NextDue
<1>3. NextDue(t) \in 1..(MaxClock + MaxDelay)
  BY <1>1, <1>2
<1>4. /\ u \in [id : Schedules, session : WakeSessions, key : WakeKeys \cup {NoWakeKey},
                every : 0..MaxDelay, due : 1..(MaxClock + MaxDelay)]
      /\ u.id = t.id /\ u.session = t.session /\ u.key = t.key /\ u.every = t.every
      /\ u.due = NextDue(t)
  BY <1>1, <1>3
<1>5. Rearmed(t) = (timers \ {t}) \cup {u}
  BY DEF Rearmed
<1>. HIDE DEF u
<1>6. /\ u.due > clock /\ u.due - t.every <= clock /\ (u.due - t.due) % t.every = 0
  BY <1>2, <1>4
<1>. QED BY <1>4, <1>5, <1>6 DEF u

LEMMA RepeatingFires ==
  ASSUME WakeInv, NEW t \in timers, Fire(t), t.every # 0
  PROVE  WakeInv'
<1>. DEFINE u == [t EXCEPT !.due = NextDue(t)]
            d == [schedule |-> t.id, due |-> t.due, fresh |-> TRUE]
            n == Len(wakeInbox) + 1
<1>1. /\ t.due <= clock /\ wakeRuntime.state # "closed"
      /\ timers' = (timers \ {t}) \cup {u} /\ wakeKeys' = wakeKeys
      /\ UNCHANGED <<clock, wakeRuntime, scheduled>>
  BY RearmedTimer DEF Fire
<1>2. /\ u \in [id : Schedules, session : WakeSessions,
                key : WakeKeys \cup {NoWakeKey}, every : 0..MaxDelay,
                due : 1..(MaxClock + MaxDelay)]
      /\ u.id = t.id /\ u.session = t.session /\ u.key = t.key
  BY <1>1, RearmedTimer
<1>3. /\ t.id \in Schedules /\ t.id <= scheduled /\ d \in Deliveries
      /\ d.schedule = t.id /\ d.fresh
  BY DEF WakeInv, WakeTypeOK, IdsAreUnique, Deliveries
<1>. HIDE DEF u
<1>4. \A v \in timers' : \E w \in timers :
        v.id = w.id /\ v.session = w.session /\ v.key = w.key /\ (v # u => v = w /\ v # t)
  BY <1>1, <1>2
<1>5. \A w \in timers : \E v \in timers' : v.id = w.id /\ v.session = w.session /\ v.key = w.key
  BY <1>1, <1>2
<1>6. KeysNameLiveWakes'
  <2>1. \A k \in DOMAIN wakeKeys : wakeKeys[k] # 0 =>
          \E v \in timers' : v.id = wakeKeys[k] /\ <<v.session, v.key>> = k
    BY <1>5 DEF WakeInv, KeysNameLiveWakes
  <2>2. \A v \in timers' : v.key # NoWakeKey => wakeKeys[<<v.session, v.key>>] = v.id
    BY <1>4 DEF WakeInv, KeysNameLiveWakes
  <2>. QED BY <1>1, <2>1, <2>2 DEF KeysNameLiveWakes
<1>7. \A v, w \in timers' : v.id = w.id => v = w
  BY <1>1, <1>2 DEF WakeInv, IdsAreUnique
<1>8. timers' \subseteq [id : Schedules, session : WakeSessions,
                       key : WakeKeys \cup {NoWakeKey}, every : 0..MaxDelay,
                       due : 1..(MaxClock + MaxDelay)]
  BY <1>1, <1>2 DEF WakeInv, WakeTypeOK
<1>9. CASE ~(Listening(t) /\ ~Skipped(t))
  <2>1. UNCHANGED <<wakeInbox, lastDelivery, wakesHeard, gone>>
    BY <1>9 DEF Fire
  <2>2. WakeTypeOK'
    BY <1>1, <1>8, <2>1 DEF WakeInv, WakeTypeOK
  <2>3. IdsAreUnique'
    BY <1>1, <1>4, <1>7, <2>1 DEF WakeInv, IdsAreUnique
  <2>4. WakesAreSomewhere'
    <3>1. \A v \in timers' : gone[v.id] = "no" /\ \A j \in DOMAIN wakeInbox : ~OneShot(j, v.id)
      BY <1>4 DEF WakeInv, WakesAreSomewhere
    <3>2. \A i \in 1..scheduled : gone[i] = "no" =>
            \/ \E v \in timers' : v.id = i
            \/ \E j \in DOMAIN wakeInbox : OneShot(j, i)
      BY <1>5 DEF WakeInv, WakesAreSomewhere
    <3>. QED BY <1>1, <2>1, <3>1, <3>2 DEF WakeInv, WakesAreSomewhere, OneShot
  <2>5. DeliveriesAreLast'
    BY <1>4, <2>1 DEF WakeInv, DeliveriesAreLast
  <2>6. WakesStayInTheirSession' /\ StoppedIsEmpty'
    BY <1>1, <1>4, <2>1 DEF WakeInv, WakesStayInTheirSession, StoppedIsEmpty
  <2>. QED BY <1>6, <2>2, <2>3, <2>4, <2>5, <2>6 DEF WakeInv
<1>10. CASE Listening(t) /\ ~Skipped(t)
  <2>1. /\ wakeRuntime.state = "open"
        /\ wakeInbox' = Append(wakeInbox, d)
        /\ lastDelivery' = [lastDelivery EXCEPT ![t.id] = d]
        /\ wakesHeard' = wakesHeard \cup {d}
        /\ gone' = gone
        /\ ~IsPending(lastDelivery[t.id])
    BY <1>10 DEF Fire, Listening, Skipped, Remembered
  <2>2. /\ wakeInbox' \in Seq(Deliveries) /\ DOMAIN wakeInbox' = DOMAIN wakeInbox \cup {n}
        /\ n \notin DOMAIN wakeInbox
        /\ \A j \in DOMAIN wakeInbox : wakeInbox'[j] = wakeInbox[j]
        /\ wakeInbox'[n] = d
    <3>1. wakeInbox \in Seq(Deliveries)
      BY DEF WakeInv, WakeTypeOK
    <3>. QED BY <1>3, <2>1, <3>1, Appended
  <2>3. \A j \in DOMAIN wakeInbox : wakeInbox[j].schedule # t.id
    <3>1. \A j \in DOMAIN wakeInbox : wakeInbox[j] # lastDelivery[t.id]
      BY <2>1 DEF IsPending, Range
    <3>. QED BY <3>1 DEF WakeInv, DeliveriesAreLast
  <2>4. /\ lastDelivery' \in [Schedules -> Deliveries \cup {NoDelivery}]
        /\ lastDelivery'[t.id] = d
        /\ \A i \in Schedules : i # t.id => lastDelivery'[i] = lastDelivery[i]
    BY <1>3, <2>1 DEF WakeInv, WakeTypeOK
  <2>. HIDE DEF d, n
  <2>5. WakeTypeOK'
    BY <1>1, <1>3, <1>8, <2>1, <2>2, <2>4 DEF WakeInv, WakeTypeOK
  <2>6. IdsAreUnique'
    <3>1. \A j \in DOMAIN wakeInbox' : wakeInbox'[j].schedule <= scheduled
      BY <1>3, <2>2 DEF WakeInv, IdsAreUnique
    <3>. QED BY <1>1, <1>4, <1>7, <2>1, <3>1 DEF WakeInv, IdsAreUnique
  <2>7. WakesAreSomewhere'
    <3>. USE DEF OneShot
    <3>1. \A j \in DOMAIN wakeInbox' : ~wakeInbox'[j].fresh => j \in DOMAIN wakeInbox /\ wakeInbox'[j] = wakeInbox[j]
      BY <1>3, <2>2
    <3>2. \A v \in timers' : /\ gone[v.id] = "no"
                            /\ \A j \in DOMAIN wakeInbox' : ~(~wakeInbox'[j].fresh /\ wakeInbox'[j].schedule = v.id)
      BY <1>4, <3>1 DEF WakeInv, WakesAreSomewhere
    <3>3. \A i \in 1..scheduled : gone[i] = "no" =>
            \/ \E v \in timers' : v.id = i
            \/ \E j \in DOMAIN wakeInbox' : ~wakeInbox'[j].fresh /\ wakeInbox'[j].schedule = i
      BY <1>5, <2>2 DEF WakeInv, WakesAreSomewhere
    <3>4. \A j \in DOMAIN wakeInbox' : ~wakeInbox'[j].fresh => gone[wakeInbox'[j].schedule] = "no"
      BY <3>1 DEF WakeInv, WakesAreSomewhere
    <3>5. \A i \in Schedules : \A j, k \in DOMAIN wakeInbox' :
            /\ ~wakeInbox'[j].fresh /\ wakeInbox'[j].schedule = i
            /\ ~wakeInbox'[k].fresh /\ wakeInbox'[k].schedule = i
            => j = k
      BY <3>1 DEF WakeInv, WakesAreSomewhere
    <3>. QED BY <1>1, <2>1, <3>2, <3>3, <3>4, <3>5 DEF WakesAreSomewhere
  <2>8. DeliveriesAreLast'
    <3>. SUFFICES ASSUME NEW v \in timers', NEW j \in DOMAIN wakeInbox', wakeInbox'[j].schedule = v.id
                  PROVE  /\ wakeInbox'[j] = lastDelivery'[v.id]
                         /\ \A k \in DOMAIN wakeInbox' : wakeInbox'[k].schedule = v.id => k = j
      BY DEF DeliveriesAreLast
    <3>1. CASE v.id = t.id
      <4>1. j = n
        BY <2>2, <2>3, <3>1
      <4>. QED BY <2>2, <2>3, <2>4, <3>1, <4>1
    <3>2. CASE v.id # t.id
      <4>1. j \in DOMAIN wakeInbox /\ wakeInbox'[j] = wakeInbox[j]
        BY <1>3, <2>2, <3>2
      <4>2. v \in timers /\ v.id \in Schedules
        BY <1>2, <1>4, <1>8, <3>2
      <4>3. /\ wakeInbox[j] = lastDelivery[v.id]
            /\ \A k \in DOMAIN wakeInbox : wakeInbox[k].schedule = v.id => k = j
        BY <4>1, <4>2 DEF WakeInv, DeliveriesAreLast
      <4>. QED BY <1>3, <2>2, <2>4, <3>2, <4>1, <4>2, <4>3
    <3>. QED BY <3>1, <3>2
  <2>9. WakesStayInTheirSession' /\ StoppedIsEmpty'
    BY <1>1, <1>4, <2>1 DEF WakeInv, WakesStayInTheirSession, StoppedIsEmpty
  <2>. QED BY <1>6, <2>5, <2>6, <2>7, <2>8, <2>9 DEF WakeInv
<1>. QED BY <1>9, <1>10

LEMMA WakeStep == WakeInv /\ [WakeNext]_wakeVars => WakeInv'
<1>. SUFFICES ASSUME WakeInv, [WakeNext]_wakeVars PROVE WakeInv'
  OBVIOUS
<1>1. CASE UNCHANGED wakeVars
  <2>1. WakeTypeOK'
    BY <1>1 DEF wakeVars, WakeInv, WakeTypeOK
  <2>. QED BY <1>1, <2>1 DEF wakeVars, WakeInv, IdsAreUnique, WakesAreSomewhere, OneShot, DeliveriesAreLast,
            KeysNameLiveWakes, WakesStayInTheirSession, StoppedIsEmpty
<1>2. ASSUME NEW e \in 1..MaxDelay, NEW r \in BOOLEAN, ScheduleInput(e, r) PROVE WakeInv'
  <2>1. (IF r THEN e ELSE 0) \in 0..MaxDelay
    BY WakeAssumption
  <2>. QED BY <1>2, <2>1, ScheduleKeeps DEF ScheduleInput
<1>3. ASSUME NEW k \in WakeKeys, NEW e \in 1..MaxDelay, ScheduleWakeTool(k, e) PROVE WakeInv'
  <2>1. 0 \in 0..MaxDelay
    BY WakeAssumption
  <2>. QED BY <1>3, <2>1, ScheduleKeeps DEF ScheduleWakeTool
<1>4. ASSUME NEW t \in timers, Fire(t) PROVE WakeInv'
  BY <1>4, OneShotFires, RepeatingFires
<1>. QED BY <1>1, <1>2, <1>3, <1>4, TickKeeps, CancelFutureKeeps, CancelPendingKeeps, TakeInputKeeps,
          ChangeSessionKeeps, ChangedSessionKeeps, PrepareKeeps, FinishKeeps DEF WakeNext

-----------------------------------------------------------------------------
(* The theorems of scheduled messages *)

\* What the timers, the keys, the inbox and the last deliveries say of each
\* other holds in every reachable state.
THEOREM WakeInvariance == WakeSpec => []WakeInv
BY WakeInitially, WakeStep, PTL DEF WakeSpec

\* A scheduled message nobody gave up is in exactly one place, a repeating one
\* waits at most once, keys name the armed wake, and no wake leaves its session.
THEOREM WakesSafe == WakeSpec => []WakesAreSafe
<1>1. WakeInv => WakesAreSafe
  <2>. SUFFICES ASSUME WakeInv PROVE WakesAreSafe
    OBVIOUS
  <2>1. EachWakeIsSomewhere
    <3>. SUFFICES ASSUME NEW i \in 1..scheduled
                  PROVE  LET places == (IF i \in TimerIds THEN 1 ELSE 0) + Cardinality(Identified(i))
                         IN  /\ gone[i] = "no" => places = 1
                             /\ gone[i] # "no" => places = 0
      BY DEF EachWakeIsSomewhere
    <3>1. i \in Schedules
      BY WakeAssumption DEF WakeInv, WakeTypeOK, Schedules
    <3>2. Cardinality(Identified(i)) = IF \E j \in DOMAIN wakeInbox : OneShot(j, i) THEN 1 ELSE 0
      <4>1. CASE \E j \in DOMAIN wakeInbox : OneShot(j, i)
        <5>1. PICK j \in DOMAIN wakeInbox : OneShot(j, i)
          BY <4>1
        <5>2. Identified(i) = {wakeInbox[j]}
          BY <3>1, <5>1 DEF Identified, Range, OneShot, WakeInv, WakesAreSomewhere
        <5>. QED BY <4>1, <5>2, FS_Singleton
      <4>2. CASE ~\E j \in DOMAIN wakeInbox : OneShot(j, i)
        <5>1. Identified(i) = {}
          BY <4>2 DEF Identified, Range, OneShot
        <5>. QED BY <4>2, <5>1, FS_EmptySet
      <4>. QED BY <4>1, <4>2
    <3>3. i \in TimerIds <=> \E t \in timers : t.id = i
      BY DEF TimerIds
    <3>4. i \in TimerIds => gone[i] = "no" /\ ~\E j \in DOMAIN wakeInbox : OneShot(j, i)
      BY <3>3 DEF WakeInv, WakesAreSomewhere
    <3>5. (\E j \in DOMAIN wakeInbox : OneShot(j, i)) => gone[i] = "no"
      BY DEF OneShot, WakeInv, WakesAreSomewhere
    <3>6. gone[i] = "no" => i \in TimerIds \/ \E j \in DOMAIN wakeInbox : OneShot(j, i)
      BY <3>3 DEF WakeInv, WakesAreSomewhere
    <3>. QED BY <3>2, <3>4, <3>5, <3>6
  <2>2. OnePendingPerSchedule
    BY DEF OnePendingPerSchedule, TimerIds, WakeInv, DeliveriesAreLast
  <2>. QED BY <2>1, <2>2 DEF WakeInv, WakesAreSafe
<1>. QED BY <1>1, WakeInvariance, PTL

\* A repeating wake advances by whole intervals to the first occurrence that has
\* not passed, and no other step moves a timer.
THEOREM BeatIsKept == WakeSpec => RepeatsKeepTheirBeat
<1>. DEFINE Beat == \A t \in timers, u \in timers' :
                      t.id = u.id /\ t # u =>
                        /\ u.due > clock /\ (u.due - t.due) % t.every = 0
                        /\ u.due - t.every <= clock
<1>1. WakeInv /\ [WakeNext]_wakeVars => [Beat]_wakeVars
  <2>. SUFFICES ASSUME WakeInv, WakeNext, NEW t \in timers, NEW u \in timers', t.id = u.id, t # u
                PROVE  /\ u.due > clock /\ (u.due - t.due) % t.every = 0
                       /\ u.due - t.every <= clock
    OBVIOUS
  <2>0. \A v, w \in timers : v.id = w.id => v = w
    BY DEF WakeInv, IdsAreUnique
  <2>1. u \notin timers
    BY <2>0
  <2>2. ASSUME NEW f \in timers, Fire(f)
        PROVE  /\ u.due > clock /\ (u.due - t.due) % t.every = 0
               /\ u.due - t.every <= clock
    <3>1. f.every # 0 /\ f.due <= clock /\ timers' = Rearmed(f)
      BY <2>1, <2>2 DEF Fire, Rearmed
    <3>. DEFINE v == [f EXCEPT !.due = NextDue(f)]
    <3>2. /\ Rearmed(f) = (timers \ {f}) \cup {v} /\ v.id = f.id
          /\ v.due > clock /\ v.due - f.every <= clock /\ (v.due - f.due) % f.every = 0
      BY <3>1, RearmedTimer
    <3>. HIDE DEF v
    <3>3. u = v /\ f = t
      BY <2>0, <2>1, <3>1, <3>2
    <3>. QED BY <3>2, <3>3
  <2>3. ASSUME NEW key, NEW delay, NEW every, Schedule(key, delay, every) PROVE FALSE
    <3>1. u.id = scheduled + 1
      BY <2>1, <2>3 DEF Schedule
    <3>2. t.id <= scheduled /\ scheduled \in Nat /\ t.id \in Nat
      BY WakeAssumption DEF WakeInv, WakeTypeOK, IdsAreUnique, Schedules
    <3>. QED BY <3>1, <3>2
  <2>4. CASE \E e \in 1..MaxDelay, r \in BOOLEAN : ScheduleInput(e, r)
    BY <2>3, <2>4 DEF ScheduleInput
  <2>5. CASE \E k \in WakeKeys, e \in 1..MaxDelay : ScheduleWakeTool(k, e)
    BY <2>3, <2>5 DEF ScheduleWakeTool
  <2>6. CASE \/ \E x \in 1..MaxClock : Tick(x)
             \/ \E id \in Schedules : CancelFuture(id)
             \/ \E i \in DOMAIN wakeInbox : CancelPending(i)
             \/ TakeInput \/ WakesChangeSession
             \/ \E s \in WakeSessions : WakesChangedSession(s)
             \/ PrepareForShutdown \/ FinishShutdown
    BY <2>1, <2>6 DEF Tick, CancelFuture, CancelPending, TakeInput, WakesChangeSession,
       WakesChangedSession, PrepareForShutdown, FinishShutdown
  <2>. QED BY <2>2, <2>4, <2>5, <2>6 DEF WakeNext
<1>. QED BY <1>1, WakeInvariance, PTL DEF WakeSpec, RepeatsKeepTheirBeat

-----------------------------------------------------------------------------
(* The invariant of memory consolidation *)

\* Positions of the automatic jobs of a scope.
AutomaticOf(s) == {i \in DOMAIN scopeQueue[s] : ~scopeQueue[s][i].manual}

\* What is shown of the job at position i.
ShownOf(s, i) ==
  [scope |-> s, batch |-> scopeQueue[s][i].batch,
   status |-> IF i = 1 /\ \E w \in consolidating : w.scope = s THEN "organizing" ELSE "queued"]

\* The job that runs is the first of its queue, and has read the file as it is.
RunningIsFirst ==
  /\ \A w \in consolidating :
       /\ 1 \in DOMAIN scopeQueue[w.scope] /\ w.job = scopeQueue[w.scope][1]
       /\ w.base = memoryFile[w.scope]
  /\ \A w, v \in consolidating : w.scope = v.scope => w = v

\* The automatic jobs are those with a batch, and no entry is in two batches of
\* a scope, or in one and still to be scheduled.
BatchesAreApart ==
  /\ \A r \in remembered : r[1] \in DOMAIN appended
  /\ \A s \in MemoryScopes : \A i \in DOMAIN scopeQueue[s] :
       /\ scopeQueue[s][i].manual <=> scopeQueue[s][i].batch = {}
       /\ scopeQueue[s][i].batch \subseteq DOMAIN appended
       /\ \A r \in remembered : r[1] \notin scopeQueue[s][i].batch
       /\ \A j \in DOMAIN scopeQueue[s] : j # i => scopeQueue[s][i].batch \cap scopeQueue[s][j].batch = {}

ShownAsTheyAre ==
  \A a : a \in activities <=> \E s \in MemoryScopes : \E i \in AutomaticOf(s) : a = ShownOf(s, i)

ClosedHasNoJobs ==
  memoryHost.closed => memoryHost.closing /\ \A s \in MemoryScopes : AutomaticOf(s) = {}

EntriesAreKept ==
  \A e \in DOMAIN appended : appended[e].day + RetentionDays > today =>
    \E k \in DOMAIN daily[appended[e].scope][appended[e].day] :
      daily[appended[e].scope][appended[e].day][k] = e

MemoryShape ==
  /\ MemoryTypeOK /\ scopeQueue \in [MemoryScopes -> Seq(MemoryJobs)]
  /\ Len(appended) <= MaxEntries

MemoryInv ==
  /\ MemoryShape
  /\ RunningIsFirst
  /\ BatchesAreApart
  /\ ShownAsTheyAre
  /\ ClosedHasNoJobs
  /\ NothingIsOverwritten
  /\ EntriesAreKept

-----------------------------------------------------------------------------
(* The head of a queue leaves it *)

LEMMA HeadLeaves ==
  ASSUME MemoryInv, NEW s \in MemoryScopes, 1 \in DOMAIN scopeQueue[s],
         NEW job, job = scopeQueue[s][1], JobLeaves(s, job)
  PROVE  /\ scopeQueue' \in [MemoryScopes -> Seq(MemoryJobs)]
         /\ \A t \in MemoryScopes : t # s => scopeQueue'[t] = scopeQueue[t]
         /\ Len(scopeQueue[s]) \in Nat /\ Len(scopeQueue[s]) > 0
         /\ DOMAIN scopeQueue[s] = 1..Len(scopeQueue[s])
         /\ DOMAIN scopeQueue'[s] = 1..(Len(scopeQueue[s]) - 1)
         /\ \A j \in 1..(Len(scopeQueue[s]) - 1) : scopeQueue'[s][j] = scopeQueue[s][j + 1]
<1>. DEFINE q == scopeQueue[s]
<1>1. /\ scopeQueue \in [MemoryScopes -> Seq(MemoryJobs)] /\ q \in Seq(MemoryJobs)
  BY DEF MemoryInv, MemoryShape
<1>2. PICK i \in DOMAIN q :
        /\ q[i] = job /\ \A j \in 1..(i - 1) : q[j] # job
        /\ scopeQueue' = [scopeQueue EXCEPT ![s] = RemoveAt(@, i)]
  BY DEF JobLeaves
<1>3. i \in 1..Len(q) /\ Len(q) \in Nat
  BY <1>1
<1>4. i = 1
  <2>. SUFFICES ASSUME i # 1 PROVE FALSE
    OBVIOUS
  <2>1. 1 \in 1..(i - 1)
    BY <1>3
  <2>. QED BY <1>2, <2>1
<1>5. scopeQueue'[s] = RemoveAt(q, 1)
  BY <1>1, <1>2, <1>4
<1>6. RemoveAt(q, 1) = SubSeq(q, 1, 0) \o SubSeq(q, 2, Len(q))
  BY DEF RemoveAt
<1>7. /\ SubSeq(q, 1, 0) = <<>> /\ SubSeq(q, 2, Len(q)) \in Seq(MemoryJobs)
      /\ Len(SubSeq(q, 2, Len(q))) = Len(q) - 1
      /\ \A j \in 1..(Len(q) - 1) : SubSeq(q, 2, Len(q))[j] = q[j + 1]
  <2>1. SubSeq(q, 1, 0) = <<>>
    BY <1>1
  <2>2. /\ SubSeq(q, 2, Len(q)) \in Seq(MemoryJobs)
        /\ Len(SubSeq(q, 2, Len(q))) = Len(q) - 1
        /\ \A j \in 1..(Len(q) - 1) : SubSeq(q, 2, Len(q))[j] = q[j + 1]
    <3>1. q # <<>>
      BY <1>3
    <3>2. SubSeq(q, 2, Len(q)) = Tail(q)
      BY <1>1, <3>1, TailIsSubSeq
    <3>3. /\ Tail(q) \in Seq(MemoryJobs) /\ Len(Tail(q)) = Len(q) - 1
          /\ \A j \in 1..Len(Tail(q)) : Tail(q)[j] = q[j + 1]
      <4>. HIDE DEF q
      <4>. QED BY <1>1, <3>1, HeadTailProperties
    <3>. QED BY <3>2, <3>3
  <2>. QED BY <2>1, <2>2
<1>8. RemoveAt(q, 1) = SubSeq(q, 2, Len(q))
  <2>. DEFINE back == SubSeq(q, 2, Len(q))
  <2>1. back \in Seq(MemoryJobs)
    BY <1>7
  <2>. HIDE DEF back
  <2>2. <<>> \o back = back
    BY <2>1
  <2>. QED BY <1>6, <1>7, <2>2 DEF back
<1>9. /\ scopeQueue'[s] \in Seq(MemoryJobs) /\ Len(scopeQueue'[s]) = Len(q) - 1
      /\ \A j \in 1..(Len(q) - 1) : scopeQueue'[s][j] = q[j + 1]
  BY <1>5, <1>7, <1>8
<1>10. DOMAIN scopeQueue'[s] = 1..(Len(q) - 1)
  BY <1>9
<1>11. /\ scopeQueue' \in [MemoryScopes -> Seq(MemoryJobs)]
       /\ \A t \in MemoryScopes : t # s => scopeQueue'[t] = scopeQueue[t]
  <2>. DEFINE new == RemoveAt(q, 1)
  <2>1. scopeQueue' = [scopeQueue EXCEPT ![s] = new] /\ new \in Seq(MemoryJobs)
    BY <1>2, <1>4, <1>5, <1>9
  <2>. HIDE DEF new, q
  <2>. QED BY <1>1, <2>1
<1>. QED BY <1>1, <1>3, <1>9, <1>10, <1>11

\* The running job of a scope, or the first of its queue, settles.
LEMMA SettledKeeps ==
  ASSUME MemoryInv, NEW s \in MemoryScopes, 1 \in DOMAIN scopeQueue[s],
         JobSettled(s, scopeQueue[s][1]),
         consolidating' = {v \in consolidating : v.scope # s},
         UNCHANGED <<remembered, memoryHost, appended>>,
         \A t \in MemoryScopes : t # s => memoryFile'[t] = memoryFile[t]
  PROVE  /\ scopeQueue' \in [MemoryScopes -> Seq(MemoryJobs)]
         /\ activities' \subseteq activities
         /\ RunningIsFirst' /\ BatchesAreApart' /\ ShownAsTheyAre' /\ ClosedHasNoJobs'
<1>. DEFINE job == scopeQueue[s][1]
            last == Len(scopeQueue[s]) - 1
<1>1. /\ JobLeaves(s, job) /\ activities' = activities \ Activity(s, job)
  BY DEF JobSettled
<1>2. /\ scopeQueue' \in [MemoryScopes -> Seq(MemoryJobs)]
      /\ \A t \in MemoryScopes : t # s => scopeQueue'[t] = scopeQueue[t]
      /\ Len(scopeQueue[s]) \in Nat /\ last \in Nat
      /\ DOMAIN scopeQueue[s] = 1..(last + 1)
      /\ DOMAIN scopeQueue'[s] = 1..last
      /\ \A j \in 1..last : scopeQueue'[s][j] = scopeQueue[s][j + 1]
  BY <1>1, HeadLeaves
<1>3. \A j \in 1..last : j + 1 \in DOMAIN scopeQueue[s] /\ j + 1 # 1 /\ j \in Nat
  BY <1>2
<1>4. \A w \in consolidating : w.scope \in MemoryScopes
  BY DEF MemoryInv, MemoryShape, MemoryTypeOK
<1>. HIDE DEF last, job
<1>5. RunningIsFirst'
  BY <1>2, <1>4 DEF MemoryInv, RunningIsFirst
<1>6. BatchesAreApart'
  <2>1. ASSUME NEW i \in 1..last
        PROVE  /\ scopeQueue'[s][i].manual <=> scopeQueue'[s][i].batch = {}
               /\ scopeQueue'[s][i].batch \subseteq DOMAIN appended
               /\ \A r \in remembered : r[1] \notin scopeQueue'[s][i].batch
               /\ \A j \in 1..last : j # i => scopeQueue'[s][i].batch \cap scopeQueue'[s][j].batch = {}
    <3>1. \A j \in 1..last : j # i => j + 1 # i + 1
      BY <1>2
    <3>2. /\ i + 1 \in DOMAIN scopeQueue[s] /\ scopeQueue'[s][i] = scopeQueue[s][i + 1]
          /\ \A j \in 1..last : j + 1 \in DOMAIN scopeQueue[s] /\ scopeQueue'[s][j] = scopeQueue[s][j + 1]
      BY <1>2, <1>3
    <3>3. /\ scopeQueue[s][i + 1].manual <=> scopeQueue[s][i + 1].batch = {}
          /\ scopeQueue[s][i + 1].batch \subseteq DOMAIN appended
          /\ \A r \in remembered : r[1] \notin scopeQueue[s][i + 1].batch
          /\ \A j \in DOMAIN scopeQueue[s] : j # i + 1 =>
               scopeQueue[s][i + 1].batch \cap scopeQueue[s][j].batch = {}
      BY <3>2, Zenon DEF MemoryInv, BatchesAreApart
    <3>4. ASSUME NEW j \in 1..last, j # i
          PROVE  scopeQueue'[s][i].batch \cap scopeQueue'[s][j].batch = {}
      BY <3>1, <3>2, <3>3, <3>4
    <3>. QED BY <3>2, <3>3, <3>4
  <2>2. ASSUME NEW t \in MemoryScopes, t # s, NEW i \in DOMAIN scopeQueue'[t]
        PROVE  /\ scopeQueue'[t][i].manual <=> scopeQueue'[t][i].batch = {}
               /\ scopeQueue'[t][i].batch \subseteq DOMAIN appended
               /\ \A r \in remembered : r[1] \notin scopeQueue'[t][i].batch
               /\ \A j \in DOMAIN scopeQueue'[t] : j # i => scopeQueue'[t][i].batch \cap scopeQueue'[t][j].batch = {}
    <3>1. scopeQueue'[t] = scopeQueue[t]
      BY <1>2, <2>2
    <3>. QED BY <2>2, <3>1, Zenon DEF MemoryInv, BatchesAreApart
  <2>3. \A r \in remembered : r[1] \in DOMAIN appended
    BY DEF MemoryInv, BatchesAreApart
  <2>. QED BY <1>2, <2>1, <2>2, <2>3, ZenonT(30) DEF BatchesAreApart
<1>7. ASSUME NEW a PROVE a \in activities' <=> \E t \in MemoryScopes : \E i \in AutomaticOf(t)' : a = ShownOf(t, i)'
  <2>1. ASSUME a \in activities'
        PROVE  \E t \in MemoryScopes : \E i \in AutomaticOf(t)' : a = ShownOf(t, i)'
    <3>1. a \in activities /\ ~(a.scope = s /\ a.batch = job.batch)
      BY <1>1, <2>1 DEF Activity
    <3>2. PICK t \in MemoryScopes : \E i \in AutomaticOf(t) : a = ShownOf(t, i)
      BY <3>1 DEF MemoryInv, ShownAsTheyAre
    <3>3. PICK i \in AutomaticOf(t) : a = ShownOf(t, i)
      BY <3>2
    <3>4. CASE t # s
      <4>1. i \in AutomaticOf(t)' /\ a = ShownOf(t, i)'
        BY <1>2, <3>3, <3>4 DEF AutomaticOf, ShownOf
      <4>. QED BY <4>1
    <3>5. CASE t = s
      <4>1. i # 1
        BY <3>1, <3>3, <3>5 DEF ShownOf, job
      <4>2. i \in 1..(last + 1) /\ i - 1 \in 1..last /\ (i - 1) + 1 = i
        <5>1. i \in DOMAIN scopeQueue[s] /\ DOMAIN scopeQueue[s] = 1..(last + 1) /\ last \in Nat
          BY <1>2, <3>5, Zenon DEF AutomaticOf
        <5>. QED BY <4>1, <5>1, SMT
      <4>3. scopeQueue'[s][i - 1] = scopeQueue[s][i]
        BY <1>2, <4>2
      <4>4. i - 1 \in AutomaticOf(s)'
        BY <1>2, <3>5, <4>2, <4>3 DEF AutomaticOf
      <4>5. a = ShownOf(s, i - 1)'
        BY <3>3, <3>5, <4>1, <4>3 DEF ShownOf
      <4>. QED BY <4>4, <4>5
    <3>. QED BY <3>4, <3>5
  <2>2. ASSUME NEW t \in MemoryScopes, NEW i \in AutomaticOf(t)', a = ShownOf(t, i)'
        PROVE  a \in activities'
    <3>1. CASE t # s
      <4>1. i \in AutomaticOf(t) /\ a = ShownOf(t, i)
        BY <1>2, <2>2, <3>1 DEF AutomaticOf, ShownOf
      <4>2. a \in activities /\ a.scope # s
        BY <3>1, <4>1 DEF MemoryInv, ShownAsTheyAre, ShownOf
      <4>. QED BY <1>1, <4>2 DEF Activity
    <3>2. CASE t = s
      <4>1. i \in 1..last /\ scopeQueue'[s][i] = scopeQueue[s][i + 1] /\ i + 1 \in DOMAIN scopeQueue[s] /\ i + 1 # 1
        BY <1>2, <1>3, <3>2 DEF AutomaticOf
      <4>2. i + 1 \in AutomaticOf(s)
        BY <3>2, <4>1 DEF AutomaticOf
      <4>3. a = ShownOf(s, i + 1)
        BY <2>2, <3>2, <4>1 DEF ShownOf
      <4>4. a \in activities
        BY <4>2, <4>3 DEF MemoryInv, ShownAsTheyAre
      <4>5. a.batch # job.batch
        <5>1. /\ a.batch = scopeQueue[s][i + 1].batch /\ ~scopeQueue[s][i + 1].manual
          BY <4>2, <4>3 DEF ShownOf, AutomaticOf
        <5>. QED BY <4>1, <5>1 DEF MemoryInv, BatchesAreApart, job
      <4>. QED BY <1>1, <4>4, <4>5 DEF Activity
    <3>. QED BY <3>1, <3>2
  <2>. QED BY <2>1, <2>2
<1>8. ClosedHasNoJobs'
  <2>1. ASSUME memoryHost.closed, NEW t \in MemoryScopes PROVE AutomaticOf(t)' = {}
    <3>1. AutomaticOf(t) = {}
      BY <2>1 DEF MemoryInv, ClosedHasNoJobs
    <3>2. CASE t # s
      BY <1>2, <3>1, <3>2 DEF AutomaticOf
    <3>3. CASE t = s
      BY <1>2, <1>3, <3>1, <3>3 DEF AutomaticOf
    <3>. QED BY <3>2, <3>3
  <2>. QED BY <2>1 DEF MemoryInv, ClosedHasNoJobs
<1>9. ShownAsTheyAre'
  BY <1>7 DEF ShownAsTheyAre
<1>. QED BY <1>1, <1>2, <1>5, <1>6, <1>8, <1>9

-----------------------------------------------------------------------------
(* Every step of memory keeps the invariant *)

LEMMA MemoryInitially == MemoryInit => MemoryInv
<1>. SUFFICES ASSUME MemoryInit PROVE MemoryInv
  OBVIOUS
<1>. USE MemoryAssumption DEF MemoryInit
<1>0. <<>> \in Seq(MemoryJobs) /\ <<>> \in Seq(Entries)
      /\ <<>> \in Seq([scope : MemoryScopes, day : 1..MaxDays]) /\ Len(<<>>) = 0 /\ DOMAIN <<>> = {}
  OBVIOUS
<1>1. MemoryShape
  <2>1. /\ scopeQueue \in [MemoryScopes -> Seq(MemoryJobs)]
        /\ \A s \in MemoryScopes : scopeQueue[s] \in Seq(MemoryJobs)
    BY <1>0
  <2>2. /\ memoryFile \in [MemoryScopes -> SUBSET AllParts]
        /\ memoryWritten \in [MemoryScopes -> SUBSET AllParts]
        /\ daily \in [MemoryScopes -> [1..MaxDays -> Seq(Entries)]]
    BY <1>0
  <2>3. /\ today \in 1..MaxDays /\ compactions \in 0..MaxCompactions /\ Len(appended) <= MaxEntries
        /\ appended \in Seq([scope : MemoryScopes, day : 1..MaxDays])
    BY <1>0
  <2>4. memoryHost \in [closing : BOOLEAN, closed : BOOLEAN]
    OBVIOUS
  <2>. QED BY <2>1, <2>2, <2>3, <2>4 DEF MemoryShape, MemoryTypeOK
<1>2. RunningIsFirst /\ BatchesAreApart /\ ClosedHasNoJobs /\ NothingIsOverwritten /\ EntriesAreKept
  BY <1>0 DEF RunningIsFirst, BatchesAreApart, ClosedHasNoJobs, NothingIsOverwritten, EntriesAreKept
<1>3. ShownAsTheyAre
  BY <1>0 DEF ShownAsTheyAre, AutomaticOf
<1>. QED BY <1>1, <1>2, <1>3 DEF MemoryInv

LEMMA DaysOfEntries ==
  ASSUME MemoryInv
  PROVE  \A x \in DOMAIN appended : /\ appended[x] \in [scope : MemoryScopes, day : 1..MaxDays]
                                   /\ appended[x].scope \in MemoryScopes
                                   /\ appended[x].day \in 1..MaxDays /\ appended[x].day \in Nat
<1>. DEFINE R == [scope : MemoryScopes, day : 1..MaxDays]
<1>1. appended \in Seq(R)
  BY DEF MemoryInv, MemoryShape, MemoryTypeOK
<1>2. \A x \in DOMAIN appended : appended[x] \in R
  <2>. HIDE DEF R
  <2>. QED BY <1>1
<1>. QED BY <1>2

LEMMA RememberKeeps ==
  ASSUME MemoryInv, NEW e \in Entries, NEW s \in MemoryScopes, Remember(e, s)
  PROVE  MemoryInv'
<1>. DEFINE r == [scope |-> s, day |-> today]
            n == Len(appended)
<1>1. /\ appended \in Seq([scope : MemoryScopes, day : 1..MaxDays])
      /\ n \in Nat /\ e = n + 1 /\ DOMAIN appended = 1..n
      /\ today \in 1..MaxDays
      /\ r \in [scope : MemoryScopes, day : 1..MaxDays]
      /\ appended' = Append(appended, r)
      /\ daily \in [MemoryScopes -> [1..MaxDays -> Seq(Entries)]]
      /\ daily' = [daily EXCEPT ![s][today] = Append(@, e)]
      /\ remembered' = remembered \cup {<<e, s>>}
      /\ UNCHANGED <<memoryFile, today, scopeQueue, consolidating, memoryHost, activities,
                     compactions, memoryWritten>>
  BY DEF Remember, MemoryInv, MemoryShape, MemoryTypeOK
<1>. HIDE DEF r
<1>2. /\ appended' \in Seq([scope : MemoryScopes, day : 1..MaxDays])
      /\ DOMAIN appended' = 1..(n + 1) /\ Len(appended') = n + 1
      /\ appended'[e] = r /\ \A i \in 1..n : appended'[i] = appended[i]
  BY <1>1
<1>3. /\ r.scope = s /\ r.day = today
  BY DEF r
<1>4. /\ daily' \in [MemoryScopes -> [1..MaxDays -> Seq(Entries)]]
      /\ daily'[s][today] = Append(daily[s][today], e)
      /\ \A t \in MemoryScopes : \A d \in 1..MaxDays :
           t # s \/ d # today => daily'[t][d] = daily[t][d]
  <2>1. Append(daily[s][today], e) \in Seq(Entries)
    <3>1. daily[s][today] \in Seq(Entries)
      BY <1>1
    <3>. QED BY <3>1
  <2>. QED BY <1>1, <2>1
<1>5. MemoryShape'
  <2>1. n + 1 <= MaxEntries
    BY <1>1, MemoryAssumption DEF Entries
  <2>. QED BY <1>1, <1>2, <1>4, <2>1 DEF MemoryInv, MemoryShape, MemoryTypeOK
<1>6. RunningIsFirst' /\ ShownAsTheyAre' /\ ClosedHasNoJobs' /\ NothingIsOverwritten'
  <2>1. RunningIsFirst' /\ ClosedHasNoJobs' /\ NothingIsOverwritten'
    BY <1>1 DEF MemoryInv, RunningIsFirst, AutomaticOf, ClosedHasNoJobs, NothingIsOverwritten
  <2>2. ShownAsTheyAre'
    <3>1. /\ \A t \in MemoryScopes : AutomaticOf(t)' = AutomaticOf(t)
          /\ \A t \in MemoryScopes : \A i : ShownOf(t, i)' = ShownOf(t, i)
      BY <1>1 DEF AutomaticOf, ShownOf
    <3>. QED BY <1>1, <3>1 DEF MemoryInv, ShownAsTheyAre
  <2>. QED BY <2>1, <2>2
<1>7. BatchesAreApart'
  <2>1. \A x \in remembered' : x[1] \in DOMAIN appended'
    BY <1>1, <1>2 DEF MemoryInv, BatchesAreApart
  <2>2. ASSUME NEW t \in MemoryScopes, NEW i \in DOMAIN scopeQueue[t]
        PROVE  /\ scopeQueue[t][i].batch \subseteq DOMAIN appended'
               /\ \A x \in remembered' : x[1] \notin scopeQueue[t][i].batch
    <3>1. scopeQueue[t][i].batch \subseteq 1..n /\ \A x \in remembered : x[1] \notin scopeQueue[t][i].batch
      BY <1>1, Zenon DEF MemoryInv, BatchesAreApart
    <3>. QED BY <1>1, <1>2, <3>1
  <2>. QED BY <1>1, <2>1, <2>2, Zenon DEF MemoryInv, BatchesAreApart
<1>8. EntriesAreKept'
  <2>. SUFFICES ASSUME NEW x \in 1..(n + 1), appended'[x].day + RetentionDays > today
                PROVE  \E k \in DOMAIN daily'[appended'[x].scope][appended'[x].day] :
                         daily'[appended'[x].scope][appended'[x].day][k] = x
    BY <1>1, <1>2 DEF EntriesAreKept
  <2>1. ASSUME NEW t \in MemoryScopes, NEW d \in 1..MaxDays, NEW k \in DOMAIN daily[t][d]
        PROVE  k \in DOMAIN daily'[t][d] /\ daily'[t][d][k] = daily[t][d][k]
    <3>1. daily[t][d] \in Seq(Entries)
      BY <1>1
    <3>2. /\ DOMAIN daily[t][d] \subseteq DOMAIN Append(daily[t][d], e)
          /\ Append(daily[t][d], e)[k] = daily[t][d][k]
      BY <3>1
    <3>3. daily'[t][d] = daily[t][d] \/ daily'[t][d] = Append(daily[t][d], e)
      BY <1>4
    <3>. QED BY <3>2, <3>3
  <2>2. CASE x = e
    <3>1. daily[s][today] \in Seq(Entries)
      BY <1>1
    <3>. DEFINE m == Len(daily[s][today]) + 1
    <3>2. m \in DOMAIN daily'[s][today] /\ daily'[s][today][m] = e
      BY <1>4, <3>1
    <3>. QED BY <1>2, <1>3, <2>2, <3>2
  <2>3. CASE x # e
    <3>1. x \in DOMAIN appended /\ appended'[x] = appended[x] /\ appended[x] \in [scope : MemoryScopes, day : 1..MaxDays]
      <4>1. x \in 1..n
        BY <1>1, <2>3
      <4>. QED BY <1>1, <1>2, <4>1, DaysOfEntries
    <3>2. PICK k \in DOMAIN daily[appended[x].scope][appended[x].day] :
            daily[appended[x].scope][appended[x].day][k] = x
      BY <3>1 DEF MemoryInv, EntriesAreKept
    <3>. QED BY <2>1, <3>1, <3>2
  <2>. QED BY <2>2, <2>3
<1>. QED BY <1>5, <1>6, <1>7, <1>8 DEF MemoryInv

LEMMA RunIsLostKeeps ==
  ASSUME MemoryInv, RunIsLost
  PROVE  MemoryInv'
<1>1. MemoryShape'
  BY DEF RunIsLost, MemoryInv, MemoryShape, MemoryTypeOK
<1>. QED BY <1>1 DEF RunIsLost, MemoryInv, RunningIsFirst, BatchesAreApart, ShownAsTheyAre, AutomaticOf,
          ShownOf, ClosedHasNoJobs, NothingIsOverwritten, EntriesAreKept

LEMMA HostStepsKeep ==
  ASSUME MemoryInv, BeginMemoryClose \/ MemoryCloses
  PROVE  MemoryInv'
<1>1. /\ UNCHANGED <<memoryFile, daily, today, remembered, scopeQueue, consolidating, activities,
                     compactions, appended, memoryWritten>>
      /\ memoryHost' \in [closing : BOOLEAN, closed : BOOLEAN]
      /\ memoryHost'.closed => memoryHost'.closing
      /\ memoryHost'.closed => memoryHost.closed \/ Automatic = {}
  BY DEF BeginMemoryClose, MemoryCloses, Awaited, MemoryInv, MemoryShape, MemoryTypeOK, ClosedHasNoJobs
<1>2. MemoryShape'
  BY <1>1 DEF MemoryInv, MemoryShape, MemoryTypeOK
<1>3. ClosedHasNoJobs'
  BY <1>1 DEF MemoryInv, ClosedHasNoJobs, AutomaticOf, Automatic
<1>. QED BY <1>1, <1>2, <1>3 DEF MemoryInv, RunningIsFirst, BatchesAreApart, ShownAsTheyAre, AutomaticOf,
          ShownOf, NothingIsOverwritten, EntriesAreKept

LEMMA NextDayKeeps ==
  ASSUME MemoryInv, NextDay
  PROVE  MemoryInv'
<1>1. /\ today' = today + 1 /\ today' \in 1..MaxDays /\ today \in 1..MaxDays
      /\ UNCHANGED <<memoryFile, daily, remembered, scopeQueue, consolidating, memoryHost,
                     activities, compactions, appended, memoryWritten>>
  BY MemoryAssumption DEF NextDay, MemoryInv, MemoryShape, MemoryTypeOK
<1>2. MemoryShape'
  BY <1>1 DEF MemoryInv, MemoryShape, MemoryTypeOK
<1>3. EntriesAreKept'
  <2>1. \A x \in DOMAIN appended : appended[x].day \in Nat
    BY DaysOfEntries
  <2>. QED BY <1>1, <2>1, MemoryAssumption DEF MemoryInv, EntriesAreKept
<1>. QED BY <1>1, <1>2, <1>3 DEF MemoryInv, RunningIsFirst, BatchesAreApart, ShownAsTheyAre, AutomaticOf,
          ShownOf, ClosedHasNoJobs, NothingIsOverwritten

\* Jobs are queued behind those that wait: at most one in each scope.
LEMMA JobsQueue ==
  ASSUME MemoryInv, NEW some, NEW new, \A s \in MemoryScopes : new[s] \in MemoryJobs,
         scopeQueue' \in [MemoryScopes -> Seq(MemoryJobs)],
         \A s \in MemoryScopes : s \notin some => scopeQueue'[s] = scopeQueue[s],
         \A s \in MemoryScopes : s \in some => scopeQueue'[s] = Append(scopeQueue[s], new[s])
  PROVE  \A s \in MemoryScopes :
           /\ DOMAIN scopeQueue[s] = 1..Len(scopeQueue[s]) /\ Len(scopeQueue[s]) \in Nat
           /\ DOMAIN scopeQueue'[s] = IF s \in some THEN DOMAIN scopeQueue[s] \cup {Len(scopeQueue[s]) + 1}
                                      ELSE DOMAIN scopeQueue[s]
           /\ \A i \in DOMAIN scopeQueue[s] : scopeQueue'[s][i] = scopeQueue[s][i]
           /\ s \in some => scopeQueue'[s][Len(scopeQueue[s]) + 1] = new[s]
           /\ Len(scopeQueue[s]) + 1 \notin DOMAIN scopeQueue[s]
<1>. SUFFICES ASSUME NEW s \in MemoryScopes
              PROVE  /\ DOMAIN scopeQueue[s] = 1..Len(scopeQueue[s]) /\ Len(scopeQueue[s]) \in Nat
                     /\ DOMAIN scopeQueue'[s] = IF s \in some THEN DOMAIN scopeQueue[s] \cup {Len(scopeQueue[s]) + 1}
                                                ELSE DOMAIN scopeQueue[s]
                     /\ \A i \in DOMAIN scopeQueue[s] : scopeQueue'[s][i] = scopeQueue[s][i]
                     /\ s \in some => scopeQueue'[s][Len(scopeQueue[s]) + 1] = new[s]
                     /\ Len(scopeQueue[s]) + 1 \notin DOMAIN scopeQueue[s]
  OBVIOUS
<1>1. scopeQueue[s] \in Seq(MemoryJobs)
  BY DEF MemoryInv, MemoryShape
<1>2. DOMAIN scopeQueue[s] = 1..Len(scopeQueue[s]) /\ Len(scopeQueue[s]) \in Nat
  BY <1>1
<1>3. Len(scopeQueue[s]) + 1 \notin DOMAIN scopeQueue[s]
  BY <1>2
<1>4. CASE s \in some
  <2>. DEFINE q == scopeQueue[s]
              m == new[s]
  <2>1. q \in Seq(MemoryJobs) /\ m \in MemoryJobs /\ scopeQueue'[s] = Append(q, m)
    BY <1>1, <1>4
  <2>. HIDE DEF q, m
  <2>2. /\ DOMAIN Append(q, m) = DOMAIN q \cup {Len(q) + 1}
        /\ \A i \in DOMAIN q : Append(q, m)[i] = q[i]
        /\ Append(q, m)[Len(q) + 1] = m
    BY <2>1
  <2>. QED BY <1>2, <1>3, <1>4, <2>1, <2>2 DEF q, m
<1>5. CASE s \notin some
  BY <1>2, <1>3, <1>5
<1>. QED BY <1>4, <1>5

LEMMA CompactMemoryKeeps ==
  ASSUME MemoryInv, NEW target, CompactMemory(target)
  PROVE  MemoryInv'
<1>. DEFINE job == [manual |-> TRUE, batch |-> {}]
            new == [s \in MemoryScopes |-> job]
<1>1. /\ ~memoryHost.closing /\ compactions' \in 0..MaxCompactions
      /\ scopeQueue' = [s \in MemoryScopes |->
           IF s \in target THEN Append(scopeQueue[s], job) ELSE scopeQueue[s]]
      /\ UNCHANGED <<memoryFile, daily, today, remembered, consolidating, memoryHost, activities, appended,
                     memoryWritten>>
  BY MemoryAssumption DEF CompactMemory, MemoryInv, MemoryShape, MemoryTypeOK
<1>2. /\ job \in MemoryJobs /\ job.manual /\ job.batch = {} /\ \A s \in MemoryScopes : new[s] = job
  BY DEF MemoryJobs
<1>. HIDE DEF job, new
<1>3. scopeQueue' \in [MemoryScopes -> Seq(MemoryJobs)]
  BY <1>1, <1>2 DEF MemoryInv, MemoryShape
<1>4. \A s \in MemoryScopes :
        /\ DOMAIN scopeQueue[s] = 1..Len(scopeQueue[s]) /\ Len(scopeQueue[s]) \in Nat
        /\ DOMAIN scopeQueue'[s] = IF s \in target THEN DOMAIN scopeQueue[s] \cup {Len(scopeQueue[s]) + 1}
                                   ELSE DOMAIN scopeQueue[s]
        /\ \A i \in DOMAIN scopeQueue[s] : scopeQueue'[s][i] = scopeQueue[s][i]
        /\ s \in target => scopeQueue'[s][Len(scopeQueue[s]) + 1] = job
        /\ Len(scopeQueue[s]) + 1 \notin DOMAIN scopeQueue[s]
  <2>1. \A s \in MemoryScopes :
        /\ DOMAIN scopeQueue[s] = 1..Len(scopeQueue[s]) /\ Len(scopeQueue[s]) \in Nat
        /\ DOMAIN scopeQueue'[s] = IF s \in target THEN DOMAIN scopeQueue[s] \cup {Len(scopeQueue[s]) + 1}
                                   ELSE DOMAIN scopeQueue[s]
        /\ \A i \in DOMAIN scopeQueue[s] : scopeQueue'[s][i] = scopeQueue[s][i]
        /\ s \in target => scopeQueue'[s][Len(scopeQueue[s]) + 1] = new[s]
        /\ Len(scopeQueue[s]) + 1 \notin DOMAIN scopeQueue[s]
    <3>1. \A s \in MemoryScopes : new[s] \in MemoryJobs
      BY <1>2
    <3>2. \A s \in MemoryScopes : s \notin target => scopeQueue'[s] = scopeQueue[s]
      BY <1>1
    <3>3. \A s \in MemoryScopes : s \in target => scopeQueue'[s] = Append(scopeQueue[s], new[s])
      BY <1>1, <1>2
    <3>. QED BY <1>3, <3>1, <3>2, <3>3, JobsQueue
  <2>. QED BY <1>2, <2>1
<1>5. MemoryShape'
  BY <1>1, <1>3 DEF MemoryInv, MemoryShape, MemoryTypeOK
<1>6. RunningIsFirst'
  <2>1. \A w \in consolidating : w.scope \in MemoryScopes
    BY DEF MemoryInv, MemoryShape, MemoryTypeOK
  <2>. QED BY <1>1, <1>4, <2>1 DEF MemoryInv, RunningIsFirst
<1>7. BatchesAreApart'
  <2>1. ASSUME NEW s \in MemoryScopes, NEW i \in DOMAIN scopeQueue'[s]
        PROVE  \/ scopeQueue'[s][i] = job
               \/ i \in DOMAIN scopeQueue[s] /\ scopeQueue'[s][i] = scopeQueue[s][i]
    BY <1>4
  <2>2. ASSUME NEW s \in MemoryScopes, NEW i \in DOMAIN scopeQueue'[s]
        PROVE  /\ scopeQueue'[s][i].manual <=> scopeQueue'[s][i].batch = {}
               /\ scopeQueue'[s][i].batch \subseteq DOMAIN appended
               /\ \A r \in remembered : r[1] \notin scopeQueue'[s][i].batch
               /\ \A j \in DOMAIN scopeQueue'[s] : j # i =>
                    scopeQueue'[s][i].batch \cap scopeQueue'[s][j].batch = {}
    <3>1. CASE scopeQueue'[s][i] = job
      BY <1>2, <3>1
    <3>2. CASE i \in DOMAIN scopeQueue[s] /\ scopeQueue'[s][i] = scopeQueue[s][i]
      <4>1. /\ scopeQueue[s][i].manual <=> scopeQueue[s][i].batch = {}
            /\ scopeQueue[s][i].batch \subseteq DOMAIN appended
            /\ \A r \in remembered : r[1] \notin scopeQueue[s][i].batch
            /\ \A j \in DOMAIN scopeQueue[s] : j # i =>
                 scopeQueue[s][i].batch \cap scopeQueue[s][j].batch = {}
        BY <3>2, Zenon DEF MemoryInv, BatchesAreApart
      <4>2. ASSUME NEW j \in DOMAIN scopeQueue'[s], j # i
            PROVE  scopeQueue'[s][i].batch \cap scopeQueue'[s][j].batch = {}
        BY <1>2, <2>1, <3>2, <4>1, <4>2
      <4>. QED BY <3>2, <4>1, <4>2
    <3>. QED BY <2>1, <3>1, <3>2
  <2>3. \A r \in remembered : r[1] \in DOMAIN appended
    BY DEF MemoryInv, BatchesAreApart
  <2>. QED BY <1>1, <2>2, <2>3, ZenonT(30) DEF BatchesAreApart
<1>8. \A s \in MemoryScopes : AutomaticOf(s)' = AutomaticOf(s)
  <2>. SUFFICES ASSUME NEW s \in MemoryScopes PROVE AutomaticOf(s)' = AutomaticOf(s)
    OBVIOUS
  <2>1. CASE s \in target
    BY <1>2, <1>4, <2>1 DEF AutomaticOf
  <2>2. CASE s \notin target
    BY <1>4, <2>2 DEF AutomaticOf
  <2>. QED BY <2>1, <2>2
<1>9. ShownAsTheyAre'
  <2>1. \A s \in MemoryScopes : \A i \in AutomaticOf(s) : ShownOf(s, i)' = ShownOf(s, i)
    BY <1>1, <1>4 DEF ShownOf, AutomaticOf
  <2>. QED BY <1>1, <1>8, <2>1 DEF MemoryInv, ShownAsTheyAre
<1>10. ClosedHasNoJobs' /\ NothingIsOverwritten' /\ EntriesAreKept'
  BY <1>1, <1>8 DEF MemoryInv, ClosedHasNoJobs, NothingIsOverwritten, EntriesAreKept
<1>. QED BY <1>5, <1>6, <1>7, <1>9, <1>10 DEF MemoryInv

LEMMA RunCommitsKeeps ==
  ASSUME MemoryInv, RunCommits
  PROVE  MemoryInv'
<1>. DEFINE batch(s) == {r[1] : r \in {x \in remembered : x[2] = s}}
            some == {s \in MemoryScopes : batch(s) # {}}
            new == [s \in MemoryScopes |-> [manual |-> FALSE, batch |-> batch(s)]]
<1>1. UNCHANGED <<memoryFile, daily, today, consolidating, memoryHost, compactions, appended, memoryWritten>>
  BY DEF RunCommits
<1>2. CASE memoryHost.closing
  <2>1. UNCHANGED <<remembered, scopeQueue, activities>>
    BY <1>2 DEF RunCommits
  <2>2. MemoryShape'
    BY <1>1, <2>1 DEF MemoryInv, MemoryShape, MemoryTypeOK
  <2>. QED BY <1>1, <2>1, <2>2 DEF MemoryInv, RunningIsFirst, BatchesAreApart, ShownAsTheyAre, AutomaticOf,
            ShownOf, ClosedHasNoJobs, NothingIsOverwritten, EntriesAreKept
<1>3. CASE ~memoryHost.closing
  <2>1. /\ remembered' = {}
        /\ scopeQueue' = [s \in MemoryScopes |-> scopeQueue[s] \o
             (IF s \in some THEN <<[manual |-> FALSE, batch |-> batch(s)]>> ELSE <<>>)]
        /\ activities' = activities \cup
             {[scope |-> s, batch |-> batch(s), status |-> "queued"] : s \in some}
    BY <1>3 DEF RunCommits
  <2>2. \A s \in MemoryScopes : batch(s) \subseteq Entries
    BY DEF MemoryInv, MemoryShape, MemoryTypeOK
  <2>3. /\ \A s \in MemoryScopes : batch(s) \subseteq DOMAIN appended
        /\ \A s \in MemoryScopes : \A i \in DOMAIN scopeQueue[s] : scopeQueue[s][i].batch \cap batch(s) = {}
    BY DEF MemoryInv, BatchesAreApart
  <2>4. /\ \A s \in MemoryScopes : new[s] = [manual |-> FALSE, batch |-> batch(s)]
        /\ \A s \in MemoryScopes : new[s] \in MemoryJobs /\ ~new[s].manual /\ new[s].batch = batch(s)
    BY <2>2 DEF MemoryJobs
  <2>5. some \subseteq MemoryScopes /\ \A s \in some : batch(s) # {}
    OBVIOUS
  <2>. HIDE DEF batch, some, new
  <2>6. ASSUME NEW s \in MemoryScopes
        PROVE  /\ scopeQueue'[s] \in Seq(MemoryJobs)
               /\ s \notin some => scopeQueue'[s] = scopeQueue[s]
               /\ s \in some => scopeQueue'[s] = Append(scopeQueue[s], new[s])
    <3>1. scopeQueue[s] \in Seq(MemoryJobs)
      BY DEF MemoryInv, MemoryShape
    <3>2. CASE s \in some
      <4>1. scopeQueue'[s] = scopeQueue[s] \o <<new[s]>>
        BY <2>1, <2>4, <3>2
      <4>2. Append(scopeQueue[s], new[s]) = scopeQueue[s] \o <<new[s]>>
        BY <2>4, <3>1, AppendIsConcat
      <4>3. Append(scopeQueue[s], new[s]) \in Seq(MemoryJobs)
        BY <2>4, <3>1
      <4>. QED BY <3>2, <4>1, <4>2, <4>3
    <3>3. CASE s \notin some
      <4>1. scopeQueue'[s] = scopeQueue[s] \o <<>>
        BY <2>1, <3>3
      <4>2. scopeQueue[s] \o <<>> = scopeQueue[s]
        BY <3>1
      <4>. QED BY <3>1, <3>3, <4>1, <4>2
    <3>. QED BY <3>2, <3>3
  <2>7. scopeQueue' \in [MemoryScopes -> Seq(MemoryJobs)]
    <3>. DEFINE f(s) == scopeQueue[s] \o
             (IF s \in some THEN <<[manual |-> FALSE, batch |-> batch(s)]>> ELSE <<>>)
    <3>1. scopeQueue' = [s \in MemoryScopes |-> f(s)]
      BY <2>1
    <3>2. \A s \in MemoryScopes : f(s) \in Seq(MemoryJobs)
      BY <2>6, <3>1
    <3>. HIDE DEF f
    <3>. QED BY <3>1, <3>2
  <2>8. \A s \in MemoryScopes :
          /\ DOMAIN scopeQueue[s] = 1..Len(scopeQueue[s]) /\ Len(scopeQueue[s]) \in Nat
          /\ DOMAIN scopeQueue'[s] = IF s \in some THEN DOMAIN scopeQueue[s] \cup {Len(scopeQueue[s]) + 1}
                                     ELSE DOMAIN scopeQueue[s]
          /\ \A i \in DOMAIN scopeQueue[s] : scopeQueue'[s][i] = scopeQueue[s][i]
          /\ s \in some => scopeQueue'[s][Len(scopeQueue[s]) + 1] = new[s]
          /\ Len(scopeQueue[s]) + 1 \notin DOMAIN scopeQueue[s]
    BY <2>4, <2>6, <2>7, JobsQueue
  <2>9. \A s \in MemoryScopes : \A i \in DOMAIN scopeQueue'[s] :
          \/ i \in DOMAIN scopeQueue[s] /\ scopeQueue'[s][i] = scopeQueue[s][i]
          \/ /\ s \in some /\ i = Len(scopeQueue[s]) + 1 /\ i \notin DOMAIN scopeQueue[s]
             /\ scopeQueue'[s][i] = new[s]
    BY <2>8
  <2>10. MemoryShape'
    <3>1. activities' \subseteq [scope : MemoryScopes, batch : SUBSET Entries, status : {"queued", "organizing"}]
      BY <2>1, <2>2, <2>5 DEF MemoryInv, MemoryShape, MemoryTypeOK
    <3>2. remembered' \subseteq Entries \X MemoryScopes
      BY <2>1
    <3>. QED BY <1>1, <2>7, <3>1, <3>2 DEF MemoryInv, MemoryShape, MemoryTypeOK
  <2>11. \A w \in consolidating : w.scope \in MemoryScopes /\ 1 \in DOMAIN scopeQueue[w.scope]
    BY DEF MemoryInv, MemoryShape, MemoryTypeOK, RunningIsFirst
  <2>12. RunningIsFirst'
    BY <1>1, <2>8, <2>11, ZenonT(30) DEF MemoryInv, RunningIsFirst
  <2>13. BatchesAreApart'
    <3>1. ASSUME NEW s \in MemoryScopes, NEW i \in DOMAIN scopeQueue'[s]
          PROVE  /\ scopeQueue'[s][i].manual <=> scopeQueue'[s][i].batch = {}
                 /\ scopeQueue'[s][i].batch \subseteq DOMAIN appended
                 /\ \A j \in DOMAIN scopeQueue'[s] : j # i =>
                      scopeQueue'[s][i].batch \cap scopeQueue'[s][j].batch = {}
      <4>1. \A k \in DOMAIN scopeQueue[s] :
              /\ scopeQueue[s][k].manual <=> scopeQueue[s][k].batch = {}
              /\ scopeQueue[s][k].batch \subseteq DOMAIN appended
              /\ \A j \in DOMAIN scopeQueue[s] : j # k =>
                   scopeQueue[s][k].batch \cap scopeQueue[s][j].batch = {}
        BY Zenon DEF MemoryInv, BatchesAreApart
      <4>2. s \in some => /\ ~new[s].manual /\ new[s].batch # {} /\ new[s].batch \subseteq DOMAIN appended
                          /\ \A k \in DOMAIN scopeQueue[s] : scopeQueue[s][k].batch \cap new[s].batch = {}
        BY <2>3, <2>4, <2>5
      <4>3. ASSUME NEW j \in DOMAIN scopeQueue'[s], j # i
            PROVE  scopeQueue'[s][i].batch \cap scopeQueue'[s][j].batch = {}
        BY <2>9, <4>1, <4>2, <4>3
      <4>. QED BY <2>9, <4>1, <4>2, <4>3
    <3>. QED BY <1>1, <2>1, <3>1, ZenonT(30) DEF BatchesAreApart
  <2>14. \A s \in MemoryScopes : \A i \in AutomaticOf(s) :
           i \in AutomaticOf(s)' /\ ShownOf(s, i)' = ShownOf(s, i)
    BY <1>1, <2>8 DEF AutomaticOf, ShownOf
  <2>15. ASSUME NEW s \in some, NEW n, n = Len(scopeQueue[s]) + 1
         PROVE  /\ s \in MemoryScopes /\ n \in AutomaticOf(s)'
                /\ ShownOf(s, n)' = [scope |-> s, batch |-> batch(s), status |-> "queued"]
    <3>1. /\ s \in MemoryScopes /\ n \in DOMAIN scopeQueue'[s]
          /\ ~scopeQueue'[s][n].manual /\ scopeQueue'[s][n].batch = batch(s)
      BY <2>4, <2>5, <2>8, <2>15
    <3>2. ~(n = 1 /\ \E w \in consolidating' : w.scope = s)
      BY <1>1, <2>8, <2>11, <2>15, <3>1
    <3>. QED BY <3>1, <3>2 DEF AutomaticOf, ShownOf
  <2>16. ASSUME NEW s \in MemoryScopes, NEW i \in AutomaticOf(s)'
         PROVE  i \in AutomaticOf(s) \/ (s \in some /\ i = Len(scopeQueue[s]) + 1)
    BY <2>9 DEF AutomaticOf
  <2>17. ShownAsTheyAre'
    <3>. SUFFICES ASSUME NEW a
                  PROVE  a \in activities' <=>
                           \E s \in MemoryScopes : \E i \in AutomaticOf(s)' : a = ShownOf(s, i)'
      BY DEF ShownAsTheyAre
    <3>1. ASSUME a \in activities PROVE \E s \in MemoryScopes : \E i \in AutomaticOf(s)' : a = ShownOf(s, i)'
      <4>1. PICK s \in MemoryScopes : \E i \in AutomaticOf(s) : a = ShownOf(s, i)
        BY <3>1 DEF MemoryInv, ShownAsTheyAre
      <4>2. PICK i \in AutomaticOf(s) : a = ShownOf(s, i)
        BY <4>1
      <4>3. i \in AutomaticOf(s)' /\ a = ShownOf(s, i)'
        BY <2>14, <4>2
      <4>. QED BY <4>3
    <3>2. ASSUME NEW s \in some, a = [scope |-> s, batch |-> batch(s), status |-> "queued"]
          PROVE  \E t \in MemoryScopes : \E i \in AutomaticOf(t)' : a = ShownOf(t, i)'
      <4>1. PICK n : n = Len(scopeQueue[s]) + 1
        OBVIOUS
      <4>2. s \in MemoryScopes /\ n \in AutomaticOf(s)' /\ a = ShownOf(s, n)'
        BY <2>15, <3>2, <4>1
      <4>. QED BY <4>2
    <3>3. ASSUME NEW s \in MemoryScopes, NEW i \in AutomaticOf(s)', a = ShownOf(s, i)'
          PROVE  a \in activities'
      <4>1. CASE i \in AutomaticOf(s)
        <5>1. a \in activities
          BY <2>14, <3>3, <4>1 DEF MemoryInv, ShownAsTheyAre
        <5>. QED BY <2>1, <5>1
      <4>2. CASE s \in some /\ i = Len(scopeQueue[s]) + 1
        <5>1. a = [scope |-> s, batch |-> batch(s), status |-> "queued"]
          BY <2>15, <3>3, <4>2
        <5>. QED BY <2>1, <4>2, <5>1
      <4>. QED BY <2>16, <4>1, <4>2
    <3>. QED BY <2>1, <3>1, <3>2, <3>3
  <2>18. ClosedHasNoJobs' /\ NothingIsOverwritten' /\ EntriesAreKept'
    BY <1>1, <1>3 DEF MemoryInv, ClosedHasNoJobs, NothingIsOverwritten, EntriesAreKept
  <2>. QED BY <2>10, <2>12, <2>13, <2>17, <2>18 DEF MemoryInv
<1>. QED BY <1>2, <1>3

LEMMA StartJobKeeps ==
  ASSUME MemoryInv, NEW s \in MemoryScopes, NEW i \in DOMAIN scopeQueue[s], StartJob(s, i)
  PROVE  MemoryInv'
<1>. DEFINE job == scopeQueue[s][1]
            run == [scope |-> s, job |-> job, base |-> memoryFile[s]]
            Now(a) == IF a \in Activity(s, job) THEN [a EXCEPT !.status = "organizing"] ELSE a
<1>1. /\ i = 1 /\ 1 \in DOMAIN scopeQueue[s] /\ \A w \in consolidating : w.scope # s
      /\ consolidating' = consolidating \cup {run}
      /\ activities' = {Now(a) : a \in activities}
      /\ UNCHANGED <<memoryFile, daily, today, remembered, scopeQueue, memoryHost,
                     compactions, appended, memoryWritten>>
  BY DEF StartJob, MayConsolidate
<1>2. /\ run.scope = s /\ run.job = job /\ run.base = memoryFile[s]
      /\ run \in [scope : MemoryScopes, job : MemoryJobs, base : SUBSET AllParts]
  <2>1. scopeQueue[s] \in Seq(MemoryJobs) /\ memoryFile[s] \in SUBSET AllParts
    BY DEF MemoryInv, MemoryShape, MemoryTypeOK
  <2>2. job \in MemoryJobs
    BY <1>1, <2>1
  <2>. QED BY <2>1, <2>2
<1>3. ASSUME NEW a \in activities
      PROVE  /\ a \in [scope : MemoryScopes, batch : SUBSET Entries, status : {"queued", "organizing"}]
             /\ a \in Activity(s, job) <=> a.scope = s /\ a.batch = job.batch
             /\ Now(a) = [scope |-> a.scope, batch |-> a.batch,
                          status |-> IF a.scope = s /\ a.batch = job.batch THEN "organizing" ELSE a.status]
  <2>1. a \in [scope : MemoryScopes, batch : SUBSET Entries, status : {"queued", "organizing"}]
    BY DEF MemoryInv, MemoryShape, MemoryTypeOK
  <2>2. a \in Activity(s, job) <=> a.scope = s /\ a.batch = job.batch
    BY DEF Activity
  <2>. QED BY <2>1, <2>2
<1>4. ASSUME NEW t \in MemoryScopes, NEW k \in AutomaticOf(t)
      PROVE  Now(ShownOf(t, k)) = ShownOf(t, k)'
  <2>1. /\ ShownOf(t, k) \in activities /\ ShownOf(t, k).scope = t
        /\ ShownOf(t, k).batch = scopeQueue[t][k].batch
    BY DEF MemoryInv, ShownAsTheyAre, ShownOf
  <2>2. t = s => (scopeQueue[t][k].batch = job.batch <=> k = 1)
    <3>1. /\ k \in DOMAIN scopeQueue[t] /\ ~scopeQueue[t][k].manual
      BY DEF AutomaticOf
    <3>2. scopeQueue[t][k].batch # {}
      BY <3>1, Zenon DEF MemoryInv, BatchesAreApart
    <3>3. t = s /\ k # 1 => scopeQueue[t][k].batch \cap job.batch = {}
      BY <1>1, <3>1 DEF MemoryInv, BatchesAreApart
    <3>. QED BY <3>2, <3>3
  <2>3. Now(ShownOf(t, k)) = [scope |-> t, batch |-> scopeQueue[t][k].batch,
                             status |-> IF t = s /\ k = 1 THEN "organizing" ELSE ShownOf(t, k).status]
    <3>. HIDE DEF Now, job
    <3>. QED BY <1>3, <2>1, <2>2
  <2>4. (k = 1 /\ \E w \in consolidating' : w.scope = t)
          <=> (t = s /\ k = 1) \/ (k = 1 /\ \E w \in consolidating : w.scope = t)
    <3>. HIDE DEF run
    <3>. QED BY <1>1, <1>2
  <2>. HIDE DEF Now, job, run
  <2>5. ShownOf(t, k)' = [scope |-> t, batch |-> scopeQueue[t][k].batch,
           status |-> IF (t = s /\ k = 1) \/ (k = 1 /\ \E w \in consolidating : w.scope = t)
                      THEN "organizing" ELSE "queued"]
    BY <1>1, <2>4 DEF ShownOf
  <2>. QED BY <2>3, <2>5 DEF ShownOf
<1>5. MemoryShape'
  <2>1. activities' \subseteq [scope : MemoryScopes, batch : SUBSET Entries, status : {"queued", "organizing"}]
    <3>. HIDE DEF Now
    <3>1. \A a \in activities : Now(a) \in [scope : MemoryScopes, batch : SUBSET Entries, status : {"queued", "organizing"}]
      BY <1>3
    <3>. QED BY <1>1, <3>1
  <2>2. consolidating' \subseteq [scope : MemoryScopes, job : MemoryJobs, base : SUBSET AllParts]
    <3>. HIDE DEF run
    <3>. QED BY <1>1, <1>2 DEF MemoryInv, MemoryShape, MemoryTypeOK
  <2>. QED BY <1>1, <2>1, <2>2 DEF MemoryInv, MemoryShape, MemoryTypeOK
<1>. HIDE DEF Now, run
<1>6. RunningIsFirst'
  <2>1. \A w \in consolidating' : w \in consolidating \/ w = run
    BY <1>1
  <2>2. ASSUME NEW w \in consolidating'
        PROVE  /\ 1 \in DOMAIN scopeQueue'[w.scope] /\ w.job = scopeQueue'[w.scope][1]
               /\ w.base = memoryFile'[w.scope]
    BY <1>1, <1>2, <2>1 DEF MemoryInv, RunningIsFirst
  <2>3. ASSUME NEW w \in consolidating', NEW v \in consolidating', w.scope = v.scope PROVE w = v
    BY <1>1, <1>2, <2>1, <2>3 DEF MemoryInv, RunningIsFirst
  <2>. QED BY <2>2, <2>3 DEF RunningIsFirst
<1>7. \A t \in MemoryScopes : AutomaticOf(t)' = AutomaticOf(t)
  BY <1>1 DEF AutomaticOf
<1>8. ShownAsTheyAre'
  <2>. SUFFICES ASSUME NEW a
                PROVE  a \in activities' <=>
                         \E t \in MemoryScopes : \E k \in AutomaticOf(t)' : a = ShownOf(t, k)'
    BY DEF ShownAsTheyAre
  <2>1. a \in activities' <=> \E b \in activities : a = Now(b)
    BY <1>1
  <2>2. (\E b \in activities : a = Now(b)) <=>
          \E t \in MemoryScopes : \E k \in AutomaticOf(t) : a = Now(ShownOf(t, k))
    BY DEF MemoryInv, ShownAsTheyAre
  <2>. QED BY <1>4, <1>7, <2>1, <2>2
<1>9. BatchesAreApart' /\ ClosedHasNoJobs' /\ NothingIsOverwritten' /\ EntriesAreKept'
  BY <1>1, <1>7 DEF MemoryInv, BatchesAreApart, ClosedHasNoJobs, NothingIsOverwritten, EntriesAreKept
<1>. QED BY <1>5, <1>6, <1>8, <1>9 DEF MemoryInv

LEMMA SkipJobKeeps ==
  ASSUME MemoryInv, NEW s \in MemoryScopes, NEW i \in DOMAIN scopeQueue[s], SkipJob(s, i)
  PROVE  MemoryInv'
<1>1. /\ i = 1 /\ 1 \in DOMAIN scopeQueue[s] /\ \A w \in consolidating : w.scope # s
      /\ JobSettled(s, scopeQueue[s][1])
      /\ UNCHANGED <<memoryFile, daily, today, remembered, consolidating, memoryHost,
                     compactions, appended, memoryWritten>>
  BY DEF SkipJob, MayConsolidate
<1>2. consolidating' = {v \in consolidating : v.scope # s}
  BY <1>1
<1>3. /\ scopeQueue' \in [MemoryScopes -> Seq(MemoryJobs)]
      /\ activities' \subseteq activities
      /\ RunningIsFirst' /\ BatchesAreApart' /\ ShownAsTheyAre' /\ ClosedHasNoJobs'
  BY <1>1, <1>2, SettledKeeps
<1>4. MemoryShape'
  BY <1>1, <1>3 DEF MemoryInv, MemoryShape, MemoryTypeOK
<1>5. NothingIsOverwritten' /\ EntriesAreKept'
  BY <1>1 DEF MemoryInv, NothingIsOverwritten, EntriesAreKept
<1>. QED BY <1>3, <1>4, <1>5 DEF MemoryInv

\* The job that runs is the one that leaves the queue.
LEMMA EndedKeeps ==
  ASSUME MemoryInv, NEW w \in consolidating, JobSettled(w.scope, w.job),
         consolidating' = consolidating \ {w},
         UNCHANGED <<remembered, memoryHost, appended>>,
         \A t \in MemoryScopes : t # w.scope => memoryFile'[t] = memoryFile[t]
  PROVE  /\ scopeQueue' \in [MemoryScopes -> Seq(MemoryJobs)]
         /\ activities' \subseteq activities
         /\ RunningIsFirst' /\ BatchesAreApart' /\ ShownAsTheyAre' /\ ClosedHasNoJobs'
<1>. DEFINE s == w.scope
<1>1. /\ s \in MemoryScopes /\ 1 \in DOMAIN scopeQueue[s] /\ w.job = scopeQueue[s][1]
  BY DEF MemoryInv, MemoryShape, MemoryTypeOK, RunningIsFirst
<1>2. consolidating' = {v \in consolidating : v.scope # s}
  BY DEF MemoryInv, RunningIsFirst
<1>3. JobSettled(s, scopeQueue[s][1])
  BY <1>1
<1>4. \A t \in MemoryScopes : t # s => memoryFile'[t] = memoryFile[t]
  OBVIOUS
<1>. HIDE DEF s
<1>. QED BY <1>1, <1>2, <1>3, <1>4, SettledKeeps

LEMMA JobFailsKeeps ==
  ASSUME MemoryInv, NEW w \in consolidating, JobFails(w)
  PROVE  MemoryInv'
<1>1. /\ JobSettled(w.scope, w.job) /\ consolidating' = consolidating \ {w}
      /\ UNCHANGED <<memoryFile, daily, today, remembered, memoryHost, compactions,
                     appended, memoryWritten>>
  BY DEF JobFails
<1>2. /\ scopeQueue' \in [MemoryScopes -> Seq(MemoryJobs)]
      /\ activities' \subseteq activities
      /\ RunningIsFirst' /\ BatchesAreApart' /\ ShownAsTheyAre' /\ ClosedHasNoJobs'
  BY <1>1, EndedKeeps
<1>3. MemoryShape'
  BY <1>1, <1>2 DEF MemoryInv, MemoryShape, MemoryTypeOK
<1>4. NothingIsOverwritten' /\ EntriesAreKept'
  BY <1>1 DEF MemoryInv, NothingIsOverwritten, EntriesAreKept
<1>. QED BY <1>2, <1>3, <1>4 DEF MemoryInv

\* A commit adds entry parts to the file its job has read.
LEMMA CommitAdds ==
  ASSUME MemoryInv, NEW w \in consolidating
  PROVE  /\ w.scope \in MemoryScopes /\ Committed(w) \subseteq AllParts
         /\ memoryFile[w.scope] \subseteq Committed(w)
<1>1. /\ w \in [scope : MemoryScopes, job : MemoryJobs, base : SUBSET AllParts]
      /\ w.base = memoryFile[w.scope]
      /\ daily \in [MemoryScopes -> [1..MaxDays -> Seq(Entries)]]
  BY DEF MemoryInv, MemoryShape, MemoryTypeOK, RunningIsFirst
<1>2. w.scope \in MemoryScopes /\ w.job.batch \subseteq Entries
  BY <1>1 DEF MemoryJobs
<1>3. \A e \in Entries : Parts(e) \subseteq AllParts /\ <<e, 1>> \in Parts(e)
  BY DEF AllParts, Parts
<1>4. ReadDaily(w.scope) \subseteq AllParts
  <2>1. ASSUME NEW d \in 1..MaxDays, NEW x \in UNION ToSet(Parsed(daily[w.scope][d]))
        PROVE  x \in AllParts
    <3>. DEFINE file == daily[w.scope][d]
    <3>1. file \in Seq(Entries)
      BY <1>1, <1>2
    <3>2. PICK i \in DOMAIN Parsed(file) : x \in Parsed(file)[i]
      BY <2>1 DEF ToSet
    <3>3. i \in DOMAIN file /\ x = <<file[i], 1>>
      BY <3>2 DEF Parsed
    <3>4. file[i] \in Entries
      <4>. HIDE DEF file
      <4>. QED BY <3>1, <3>3
    <3>. QED BY <1>3, <3>3, <3>4
  <2>. QED BY <2>1 DEF ReadDaily
<1>5. (UNION {Parts(e) : e \in w.job.batch}) \subseteq AllParts
  BY <1>2, <1>3
<1>6. w.base \subseteq AllParts
  BY <1>1
<1>. QED BY <1>1, <1>2, <1>4, <1>5, <1>6, Zenon DEF Committed

LEMMA JobStopsKeeps ==
  ASSUME MemoryInv, NEW w \in consolidating, JobStops(w)
  PROVE  MemoryInv'
<1>. DEFINE s == w.scope
            c == Committed(w)
<1>1. /\ s \in MemoryScopes /\ c \subseteq AllParts /\ memoryFile[s] \subseteq c
  BY CommitAdds
<1>2. /\ JobSettled(s, w.job) /\ consolidating' = consolidating \ {w}
      /\ UNCHANGED <<today, remembered, memoryHost, compactions, appended>>
      /\ daily' = IF w.job.manual THEN [daily EXCEPT ![s] = PrunedDays(s)] ELSE daily
  BY DEF JobStops
<1>3. \/ /\ memoryFile' = [memoryFile EXCEPT ![s] = c]
         /\ memoryWritten' = [memoryWritten EXCEPT ![s] = @ \cup c]
      \/ UNCHANGED <<memoryFile, memoryWritten>>
  BY DEF JobStops
<1>4. /\ memoryFile \in [MemoryScopes -> SUBSET AllParts] /\ memoryWritten = memoryFile
      /\ daily \in [MemoryScopes -> [1..MaxDays -> Seq(Entries)]]
      /\ today \in 1..MaxDays
  BY DEF MemoryInv, MemoryShape, MemoryTypeOK, NothingIsOverwritten
<1>. HIDE DEF c
<1>5. /\ memoryFile' \in [MemoryScopes -> SUBSET AllParts]
      /\ memoryWritten' = memoryFile'
      /\ \A t \in MemoryScopes : t # s => memoryFile'[t] = memoryFile[t]
  <2>1. memoryWritten[s] \cup c = c
    BY <1>1, <1>4
  <2>2. CASE UNCHANGED <<memoryFile, memoryWritten>>
    BY <1>4, <2>2
  <2>3. CASE /\ memoryFile' = [memoryFile EXCEPT ![s] = c]
             /\ memoryWritten' = [memoryWritten EXCEPT ![s] = @ \cup c]
    <3>1. memoryWritten' = [memoryFile EXCEPT ![s] = c]
      BY <1>4, <2>1, <2>3
    <3>. QED BY <1>1, <1>4, <2>3, <3>1
  <2>. QED BY <1>3, <2>2, <2>3
<1>6. /\ scopeQueue' \in [MemoryScopes -> Seq(MemoryJobs)]
      /\ activities' \subseteq activities
      /\ RunningIsFirst' /\ BatchesAreApart' /\ ShownAsTheyAre' /\ ClosedHasNoJobs'
  BY <1>2, <1>5, EndedKeeps
<1>7. /\ daily' \in [MemoryScopes -> [1..MaxDays -> Seq(Entries)]]
      /\ \A t \in MemoryScopes : \A d \in 1..MaxDays :
           d + RetentionDays > today => daily'[t][d] = daily[t][d]
  <2>. DEFINE left == PrunedDays(s)
  <2>1. /\ left \in [1..MaxDays -> Seq(Entries)]
        /\ \A d \in 1..MaxDays : d + RetentionDays > today => left[d] = daily[s][d]
    <3>1. \A d \in 1..MaxDays : daily[s][d] \in Seq(Entries) /\ <<>> \in Seq(Entries)
      <4>. HIDE DEF s
      <4>1. <<>> \in Seq(Entries)
        OBVIOUS
      <4>2. daily[s] \in [1..MaxDays -> Seq(Entries)]
        BY <1>1, <1>4
      <4>. QED BY <4>1, <4>2
    <3>2. \A d \in 1..MaxDays : d + RetentionDays > today => ~(d + RetentionDays <= today)
      BY <1>4, MemoryAssumption
    <3>. QED BY <3>1, <3>2 DEF PrunedDays
  <2>. HIDE DEF left, s
  <2>2. CASE daily' = daily
    BY <1>4, <2>2
  <2>3. CASE daily' = [daily EXCEPT ![s] = left]
    <3>1. daily'[s] = left /\ \A t \in MemoryScopes : t # s => daily'[t] = daily[t]
      BY <1>1, <1>4, <2>3
    <3>2. daily' \in [MemoryScopes -> [1..MaxDays -> Seq(Entries)]]
      <4>. DEFINE F == [1..MaxDays -> Seq(Entries)]
      <4>1. daily \in [MemoryScopes -> F] /\ left \in F
        BY <1>4, <2>1
      <4>. HIDE DEF F
      <4>2. daily' \in [MemoryScopes -> F]
        BY <1>1, <2>3, <4>1
      <4>. QED BY <4>2 DEF F
    <3>. QED BY <2>1, <3>1, <3>2
  <2>4. daily' = daily \/ daily' = [daily EXCEPT ![s] = left]
    BY <1>2 DEF left
  <2>. QED BY <2>2, <2>3, <2>4
<1>8. EntriesAreKept'
  <2>1. \A e \in DOMAIN appended : appended[e].scope \in MemoryScopes /\ appended[e].day \in 1..MaxDays
    BY DaysOfEntries
  <2>. QED BY <1>2, <1>7, <2>1 DEF MemoryInv, EntriesAreKept
<1>9. NothingIsOverwritten'
  BY <1>5 DEF NothingIsOverwritten
<1>10. MemoryShape'
  <2>1. consolidating' \subseteq consolidating
    BY <1>2
  <2>. QED BY <1>2, <1>5, <1>6, <1>7, <2>1 DEF MemoryInv, MemoryShape, MemoryTypeOK
<1>. QED BY <1>6, <1>8, <1>9, <1>10 DEF MemoryInv

LEMMA MemoryStep == MemoryInv /\ [MemoryNext]_memoryVars => MemoryInv'
<1>. SUFFICES ASSUME MemoryInv, [MemoryNext]_memoryVars PROVE MemoryInv'
  OBVIOUS
<1>1. CASE UNCHANGED memoryVars
  <2>1. MemoryShape'
    BY <1>1 DEF memoryVars, MemoryInv, MemoryShape, MemoryTypeOK
  <2>. QED BY <1>1, <2>1 DEF memoryVars, MemoryInv, RunningIsFirst, BatchesAreApart, ShownAsTheyAre,
            AutomaticOf, ShownOf, ClosedHasNoJobs, NothingIsOverwritten, EntriesAreKept
<1>2. CASE \E e \in Entries, s \in MemoryScopes : Remember(e, s)
  BY <1>2, RememberKeeps
<1>3. CASE RunCommits
  BY <1>3, RunCommitsKeeps
<1>4. CASE RunIsLost
  BY <1>4, RunIsLostKeeps
<1>5. CASE \E target \in SUBSET MemoryScopes \ {{}} : CompactMemory(target)
  BY <1>5, CompactMemoryKeeps
<1>6. CASE \E s \in MemoryScopes : QueueProceeds(s)
  <2>1. PICK s \in MemoryScopes : QueueProceeds(s)
    BY <1>6
  <2>2. CASE \E i \in DOMAIN scopeQueue[s] : StartJob(s, i)
    BY <2>2, StartJobKeeps
  <2>3. CASE \E i \in DOMAIN scopeQueue[s] : SkipJob(s, i)
    BY <2>3, SkipJobKeeps
  <2>4. CASE \E w \in consolidating : JobStops(w)
    BY <2>4, JobStopsKeeps
  <2>5. CASE \E w \in consolidating : JobFails(w)
    BY <2>5, JobFailsKeeps
  <2>. QED BY <2>1, <2>2, <2>3, <2>4, <2>5 DEF QueueProceeds
<1>7. CASE BeginMemoryClose \/ MemoryCloses
  BY <1>7, HostStepsKeep
<1>8. CASE NextDay
  BY <1>8, NextDayKeeps
<1>. QED BY <1>1, <1>2, <1>3, <1>4, <1>5, <1>6, <1>7, <1>8 DEF MemoryNext

\* Memory keeps its invariant, whatever the order of jobs, days and closing.
THEOREM MemoryInvariance == MemorySpec => []MemoryInv
<1>. QED BY MemoryInitially, MemoryStep, PTL DEF MemorySpec

\* What is shown is what the invariant says of every automatic job.
LEMMA ShownIsTrue == MemoryInv => ActivityIsTrue
<1>. SUFFICES ASSUME MemoryInv PROVE ActivityIsTrue
  OBVIOUS
<1>. DEFINE Runs(s, i) == \E w \in consolidating : w.scope = s /\ w.job = scopeQueue[s][i]
            A(s, i) == [scope |-> s, batch |-> scopeQueue[s][i].batch,
                        status |-> IF Runs(s, i) THEN "organizing" ELSE "queued"]
<1>1. ASSUME NEW s \in MemoryScopes, NEW i \in AutomaticOf(s) PROVE ShownOf(s, i) = A(s, i)
  <2>1. i \in DOMAIN scopeQueue[s] /\ scopeQueue[s][i].batch # {}
    BY Zenon DEF MemoryInv, BatchesAreApart, AutomaticOf
  <2>2. ASSUME Runs(s, i) PROVE i = 1
    <3>1. 1 \in DOMAIN scopeQueue[s] /\ scopeQueue[s][1] = scopeQueue[s][i]
      BY <2>2 DEF MemoryInv, RunningIsFirst
    <3>. QED BY <2>1, <3>1 DEF MemoryInv, BatchesAreApart
  <2>3. i = 1 /\ (\E w \in consolidating : w.scope = s) => Runs(s, i)
    BY DEF MemoryInv, RunningIsFirst
  <2>4. Runs(s, i) => \E w \in consolidating : w.scope = s
    OBVIOUS
  <2>. HIDE DEF Runs
  <2>. QED BY <2>2, <2>3, <2>4 DEF ShownOf
<1>2. \A a : a \in activities <=> \E s \in MemoryScopes : \E i \in AutomaticOf(s) : a = A(s, i)
  <2>. HIDE DEF A
  <2>. QED BY <1>1 DEF MemoryInv, ShownAsTheyAre
<1>3. activities = UNION {{A(s, i) : i \in AutomaticOf(s)} : s \in MemoryScopes}
  <2>. HIDE DEF A
  <2>. QED BY <1>2
<1>. QED BY <1>3, Zenon DEF ActivityIsTrue, AutomaticOf

\* What a consolidation has put in memory.md stays there, what is shown of the
\* schedulers is what is queued and runs, no automatic job outlives close(),
\* and no entry of a retained day is pruned.
THEOREM MemorySafe == MemorySpec => []MemoryIsSafe
<1>1. MemoryInv => MemoryIsSafe
  <2>. SUFFICES ASSUME MemoryInv PROVE MemoryIsSafe
    OBVIOUS
  <2>1. MemoryTypeOK /\ NothingIsOverwritten /\ ActivityIsTrue
    BY ShownIsTrue DEF MemoryInv, MemoryShape
  <2>2. ClosedIsQuiet
    BY Zenon DEF MemoryInv, ClosedHasNoJobs, ClosedIsQuiet, Automatic, AutomaticOf
  <2>3. RetentionIsKept
    BY DEF MemoryInv, EntriesAreKept, RetentionIsKept, ToSet
  <2>. QED BY <2>1, <2>2, <2>3 DEF MemoryIsSafe
<1>. QED BY <1>1, MemoryInvariance, PTL
=============================================================================
