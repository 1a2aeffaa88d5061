----------------------------- MODULE CodexAuth -----------------------------
(***************************************************************************)
(* OAuth credentials shared by the processes of one user: the token file   *)
(* of src/kana/auth/token-store.ts, under a file lock for every mutation,  *)
(* and the sign-in, refresh and sign-out of OpenAI Codex                   *)
(* (openai-codex.ts), under a lifecycle lock that spans their requests.    *)
(*                                                                         *)
(* A thread is one call in progress.  A process may die between any two    *)
(* steps; proper-lockfile then lets others take its locks over.  A refresh *)
(* token is a number, which the authorization server accepts once: it      *)
(* answers with the next of the same grant.  The MCP tokens of the file    *)
(* stand for everything in it that is not the Codex credential.            *)
(***************************************************************************)
EXTENDS Naturals, FiniteSets

CONSTANTS
  AuthThreads,  \* pairs of a process and the call it makes
  MaxTokens,    \* bound: refresh tokens the server issues
  MaxAuthOps    \* bound: calls made

\* Processes are numbered from 1; 0 is nobody.  The first token is issued.
ASSUME AuthAssumption ==
  /\ MaxTokens \in Nat \ {0} /\ MaxAuthOps \in Nat
  /\ AuthThreads \subseteq (Nat \ {0}) \X Nat

Tokens == 1..MaxTokens
AuthProcs == {t[1] : t \in AuthThreads}

VARIABLES
  tokenFile,   \* the Codex token, the registered client, and the MCP tokens
  fileLock,    \* the thread that holds the lock of the file, or none
  cycleLock,   \* the thread that holds the lifecycle lock, or none
  threads,     \* the call each thread is in
  auth,        \* KanaOpenAICodexAuth of each process
  granted,     \* the server: tokens it accepts, and the grant of each
  authOps,     \* calls made
  mcpSaved,    \* history: the MCP tokens saved last
  lost,        \* history: an answer of the server was not stored
  rejected     \* history: a token was presented that was used before

authVars == <<tokenFile, fileLock, cycleLock, threads, auth, granted, authOps,
              mcpSaved, lost, rejected>>

None == <<0, 0>>
Still == [op |-> "none", pc |-> "idle", rev |-> 0, stage |-> 0, ok |-> TRUE,
          before |-> 0, fresh |-> 0, copy |-> [token |-> 0, client |-> "none", mcp |-> 0]]
Files == [token : 0..MaxTokens, client : {"none", "pending", "registered"}, mcp : 0..1]

AuthTypeOK ==
  /\ tokenFile \in Files
  /\ fileLock \in AuthThreads \cup {None} /\ cycleLock \in AuthThreads \cup {None}
  /\ threads \in [AuthThreads ->
       [op : {"none", "refresh", "forced", "authorize", "signOut", "mcp"},
        pc : {"idle", "load", "lock", "section", "browser", "request", "exchange",
              "file", "read", "write", "release", "crashed"},
        rev : Nat, stage : 0..2, ok : BOOLEAN, before : 0..MaxTokens, fresh : 0..MaxTokens, copy : Files]]
  /\ auth \in [AuthProcs -> [revision : Nat, closed : BOOLEAN, signedOut : Nat]]
  /\ granted \in [valid : SUBSET Tokens, used : SUBSET Tokens, next : 1..(MaxTokens + 1),
                  of : [Tokens -> (AuthProcs \cup {0}) \X Nat]]
  /\ authOps \in 0..MaxAuthOps
  /\ mcpSaved \in 0..1 /\ lost \in BOOLEAN /\ rejected \in BOOLEAN

-----------------------------------------------------------------------------
Owner(t) == t[1]
Me(t) == auth[Owner(t)]
\* Its controller, or that of the whole process, was aborted.
IsCurrent(t) == threads[t].rev = Me(t).revision
\* loadToken(): a token of the registered client.
Loaded == IF tokenFile.client = "registered" THEN tokenFile.token ELSE 0

Goes(t, pc) == threads' = [threads EXCEPT ![t].pc = pc]
AuthEnds(t) == threads' = [threads EXCEPT ![t] = Still]

Refreshes(t) == threads[t].op \in {"refresh", "forced"}

\* A lock that is free, or whose holder died.
Takes(lock) == lock \in {None} \cup {t \in AuthThreads : threads[t].pc = "crashed"}

AuthInit ==
  /\ tokenFile \in {[token |-> 0, client |-> "none", mcp |-> 0],
                    [token |-> 1, client |-> "registered", mcp |-> 0]}
  /\ fileLock = None /\ cycleLock = None
  /\ threads = [t \in AuthThreads |-> Still]
  /\ auth = [p \in AuthProcs |-> [revision |-> 0, closed |-> FALSE, signedOut |-> 0]]
  /\ granted = [valid |-> {1}, used |-> {}, next |-> 2, of |-> [x \in Tokens |-> None]]
  /\ authOps = 0 /\ mcpSaved = 0 /\ lost = FALSE /\ rejected = FALSE

-----------------------------------------------------------------------------
\* A call of this process: its authorize() is shared, so there is one.
Begin(t, op) ==
  /\ threads[t].pc = "idle" /\ ~Me(t).closed /\ authOps < MaxAuthOps
  /\ op = "authorize" => \A u \in AuthThreads : Owner(u) = Owner(t) => threads[u].op # op
  /\ authOps' = authOps + 1
  /\ auth' = [auth EXCEPT ![Owner(t)].revision = IF op = "signOut" THEN @ + 1 ELSE @]
  /\ threads' = [threads EXCEPT ![t] =
       [Still EXCEPT !.op = op, !.rev = auth'[Owner(t)].revision,
                     !.pc = CASE op \in {"refresh", "forced"} -> "load"
                              [] op = "mcp" -> "file"
                              [] OTHER -> "lock"]]
  /\ UNCHANGED <<tokenFile, fileLock, cycleLock, granted, mcpSaved, lost, rejected>>

\* refreshToken() before the lock; a token that is usable is returned unless
\* the refresh is forced.
LoadBefore(t) ==
  /\ threads[t].pc = "load"
  /\ \/ Loaded = 0 /\ AuthEnds(t)
     \/ threads[t].op = "refresh" /\ AuthEnds(t)
     \/ /\ Loaded # 0
        /\ threads' = [threads EXCEPT ![t].before = Loaded, ![t].pc = "lock"]
  /\ UNCHANGED <<tokenFile, fileLock, cycleLock, auth, granted, authOps, mcpSaved,
                 lost, rejected>>

\* withOpenAICodexLock(): taken, or given up after the last retry.
LockLifecycle(t) ==
  /\ threads[t].pc = "lock"
  /\ \/ Takes(cycleLock) /\ cycleLock' = t /\ Goes(t, "section")
     \/ ~Takes(cycleLock) /\ AuthEnds(t) /\ UNCHANGED cycleLock
  /\ UNCHANGED <<tokenFile, fileLock, auth, granted, authOps, mcpSaved, lost, rejected>>

\* Mutant of TokenReloaded: the token read before the lock is rotated.
ReloadedNever(t) == threads[t].before

\* "Reload inside the host lock before rotating a token shared by processes."
TokenReloaded(t) == Loaded

\* The refresh under the lock: a token that is usable is returned, unless the
\* refresh is forced and nobody has rotated it since.
RefreshSection(t) ==
  /\ threads[t].pc = "section" /\ threads[t].op \in {"refresh", "forced"}
  /\ \/ /\ TokenReloaded(t) = 0 \/ threads[t].op = "refresh" \/ TokenReloaded(t) # threads[t].before
        /\ Goes(t, "release")
     \/ /\ TokenReloaded(t) # 0
        /\ threads' = [threads EXCEPT ![t].before = TokenReloaded(t), ![t].pc = "request"]
  /\ UNCHANGED <<tokenFile, fileLock, cycleLock, auth, granted, authOps, mcpSaved,
                 lost, rejected>>

\* The server rotates the token.  The answer is stored unless the refresh was
\* aborted meanwhile; it may also be lost on its way.
Rotated(t) ==
  LET old == threads[t].before
  IN  /\ threads[t].pc = "request" /\ old \in granted.valid
      /\ granted.next <= MaxTokens
      /\ granted' = [granted EXCEPT !.valid = (@ \ {old}) \cup {granted.next},
                                    !.used = @ \cup {old}, !.next = @ + 1, !.of[granted.next] = granted.of[old]]
      /\ \/ /\ IsCurrent(t)
            /\ threads' = [threads EXCEPT ![t].fresh = granted.next, ![t].pc = "file"]
            /\ UNCHANGED lost
         \/ Goes(t, "release") /\ lost' = TRUE
  /\ UNCHANGED <<tokenFile, fileLock, cycleLock, auth, authOps, mcpSaved, rejected>>

\* The request fails before the server has seen it.
RequestFails(t) ==
  /\ threads[t].pc = "request" /\ Goes(t, "release")
  /\ UNCHANGED <<tokenFile, fileLock, cycleLock, auth, granted, authOps, mcpSaved,
                 lost, rejected>>

\* The server rejects a token that was used or revoked: it is deleted.
Rejected(t) ==
  /\ threads[t].pc = "request" /\ threads[t].before \notin granted.valid
  /\ rejected' = (rejected \/ threads[t].before \in granted.used)
  /\ threads' = [threads EXCEPT ![t].fresh = 0, ![t].pc = "file"]
  /\ UNCHANGED <<tokenFile, fileLock, cycleLock, auth, granted, authOps, mcpSaved, lost>>

\* Mutant of MayAuthorize: the revision is not looked at inside the lock.
MayAuthorizeStill(t) == TRUE

\* assertCurrent(), inside the lock of each section but the first.
MayAuthorize(t) == IsCurrent(t)

\* The sections of runAuthorization(): the host's state, the client the
\* registration issued, and the verified registration with its token.
AuthorizeSection(t) ==
  /\ threads[t].pc = "section" /\ threads[t].op = "authorize"
  /\ IF threads[t].stage = 0 \/ MayAuthorize(t) THEN Goes(t, "file")
     ELSE threads' = [threads EXCEPT ![t].ok = FALSE, ![t].pc = "release"]
  /\ UNCHANGED <<tokenFile, fileLock, cycleLock, auth, granted, authOps, mcpSaved,
                 lost, rejected>>

\* Mutant of WaitEnds: the wait for the browser has no timeout.
WaitEndsByAbort(t) ==
  /\ threads[t].pc = "browser" /\ ~IsCurrent(t) /\ AuthEnds(t)
  /\ UNCHANGED <<tokenFile, fileLock, cycleLock, auth, granted, authOps, mcpSaved,
                 lost, rejected>>

\* waitForCallback(): timed out, aborted, or answered with an error.
WaitEnds(t) ==
  /\ threads[t].pc = "browser" /\ AuthEnds(t)
  /\ UNCHANGED <<tokenFile, fileLock, cycleLock, auth, granted, authOps, mcpSaved,
                 lost, rejected>>

\* The browser calls back with a code.  A client that is new is saved before
\* its code is exchanged.
CalledBack(t) ==
  /\ threads[t].pc = "browser" /\ IsCurrent(t)
  /\ threads' = [threads EXCEPT ![t].stage = 1,
       ![t].pc = IF threads[t].copy.client = "none" THEN "lock" ELSE "exchange"]
  /\ UNCHANGED <<tokenFile, fileLock, cycleLock, auth, granted, authOps, mcpSaved,
                 lost, rejected>>

\* The code is exchanged and the identity verified.
Exchanged(t) ==
  /\ threads[t].pc = "exchange" /\ IsCurrent(t) /\ granted.next <= MaxTokens
  /\ granted' = [granted EXCEPT !.valid = @ \cup {granted.next}, !.next = @ + 1,
                                !.of[granted.next] = <<Owner(t), threads[t].rev>>]
  /\ threads' = [threads EXCEPT ![t].fresh = granted.next, ![t].stage = 2, ![t].pc = "lock"]
  /\ UNCHANGED <<tokenFile, fileLock, cycleLock, auth, authOps, mcpSaved, lost, rejected>>

\* The exchange or the verification fails, or is aborted.
ExchangeFails(t) ==
  /\ threads[t].pc = "exchange" /\ AuthEnds(t)
  /\ UNCHANGED <<tokenFile, fileLock, cycleLock, auth, granted, authOps, mcpSaved,
                 lost, rejected>>

\* signOut(): the token is revoked, if the server answers, and deleted.
SignOutSection(t) ==
  /\ threads[t].pc = "section" /\ threads[t].op = "signOut"
  /\ Goes(t, "file")
  /\ \/ granted' = [granted EXCEPT !.valid = @ \ {Loaded}]
     \/ UNCHANGED granted
  /\ UNCHANGED <<tokenFile, fileLock, cycleLock, auth, authOps, mcpSaved, lost, rejected>>

-----------------------------------------------------------------------------
(* mutate(): read, update and write the file under its lock *)

\* The mutation fails, and with it the call: a rotated token is lost.
NotStored(t) ==
  /\ threads' = [threads EXCEPT ![t].ok = FALSE, ![t].pc = "release"]
  /\ lost' = (lost \/ (Refreshes(t) /\ threads[t].fresh # 0))

\* Mutant of LockFile: the lock is not waited for.
LockFileNever(t) ==
  /\ threads[t].pc = "file"
  /\ Goes(t, "read") /\ UNCHANGED <<fileLock, lost>>
  /\ UNCHANGED <<tokenFile, cycleLock, auth, granted, authOps, mcpSaved, rejected>>

\* Taken once the mutations of this process that came before are done, or
\* given up after the last retry.
LockFile(t) ==
  /\ threads[t].pc = "file"
  /\ \/ Takes(fileLock) /\ fileLock' = t /\ Goes(t, "read") /\ UNCHANGED lost
     \/ /\ ~Takes(fileLock) /\ fileLock[1] # Owner(t) /\ UNCHANGED fileLock
        /\ NotStored(t)
  /\ UNCHANGED <<tokenFile, cycleLock, auth, granted, authOps, mcpSaved, rejected>>

ReadFile(t) ==
  /\ threads[t].pc = "read"
  /\ threads' = [threads EXCEPT ![t].copy = tokenFile, ![t].pc = "write"]
  /\ UNCHANGED <<tokenFile, fileLock, cycleLock, auth, granted, authOps, mcpSaved,
                 lost, rejected>>

\* The update each call makes; a sign-in registers with its token.
Updated(t) ==
  LET c == threads[t].copy
  IN  CASE threads[t].op = "mcp" -> [c EXCEPT !.mcp = 1 - @]
        [] threads[t].op = "signOut" -> [c EXCEPT !.token = 0]
        [] Refreshes(t) -> [c EXCEPT !.token = threads[t].fresh]
        [] threads[t].op = "authorize" ->
             IF threads[t].stage = 0 THEN c
             ELSE IF threads[t].stage = 1
             THEN [c EXCEPT !.client = IF @ = "registered" THEN @ ELSE "pending"]
             ELSE [c EXCEPT !.token = threads[t].fresh, !.client = "registered"]

\* writeFileAtomic(), which may fail, and the lock is released.
WriteTokens(t) ==
  /\ threads[t].pc = "write"
  /\ fileLock' = IF fileLock = t THEN None ELSE fileLock
  /\ \/ /\ tokenFile' = Updated(t) /\ Goes(t, "release") /\ UNCHANGED lost
        /\ mcpSaved' = IF threads[t].op = "mcp" THEN 1 - mcpSaved ELSE mcpSaved
     \/ NotStored(t) /\ UNCHANGED <<tokenFile, mcpSaved>>
  /\ UNCHANGED <<cycleLock, auth, granted, authOps, rejected>>

\* The lifecycle lock is released.  A sign-in goes on to the browser, or to the
\* exchange, unless it failed; any other call returns.
ReleaseAuth(t) ==
  LET w == threads[t]
  IN  /\ w.pc = "release"
      /\ cycleLock' = IF cycleLock = t THEN None ELSE cycleLock
      /\ \/ AuthEnds(t)
         \/ /\ w.op = "authorize" /\ w.ok /\ w.stage < 2
            /\ Goes(t, IF w.stage = 0 THEN "browser" ELSE "exchange")
      /\ auth' = IF w.op = "signOut" /\ w.ok
                 THEN [auth EXCEPT ![Owner(t)].signedOut = w.rev] ELSE auth
      /\ UNCHANGED <<tokenFile, fileLock, granted, authOps, mcpSaved, lost, rejected>>

-----------------------------------------------------------------------------
\* A process that ends between its calls leaves nothing behind.
InCall(p) == \E t \in AuthThreads : Owner(t) = p /\ threads[t].op # "none"

\* close(): everything of the process is aborted.
CloseAuth(p) ==
  /\ ~auth[p].closed /\ InCall(p)
  /\ auth' = [auth EXCEPT ![p].closed = TRUE, ![p].revision = @ + 1]
  /\ UNCHANGED <<tokenFile, fileLock, cycleLock, threads, granted, authOps, mcpSaved,
                 lost, rejected>>

\* The process dies with its calls.
ProcessDies(p) ==
  /\ InCall(p)
  /\ threads' = [t \in AuthThreads |->
       IF Owner(t) = p THEN [Still EXCEPT !.pc = "crashed"] ELSE threads[t]]
  /\ lost' = (lost \/ \E t \in AuthThreads : Owner(t) = p /\ Refreshes(t) /\ threads[t].fresh # 0)
  /\ UNCHANGED <<tokenFile, fileLock, cycleLock, auth, granted, authOps, mcpSaved, rejected>>

Proceeds(t) ==
  \/ LoadBefore(t) \/ LockLifecycle(t) \/ RefreshSection(t) \/ Rotated(t)
  \/ RequestFails(t) \/ Rejected(t) \/ AuthorizeSection(t) \/ WaitEnds(t)
  \/ Exchanged(t) \/ ExchangeFails(t) \/ SignOutSection(t) \/ LockFile(t) \/ ReadFile(t)
  \/ WriteTokens(t) \/ ReleaseAuth(t)

AuthNext ==
  \/ \E t \in AuthThreads, op \in {"refresh", "forced", "authorize", "signOut", "mcp"} :
       Begin(t, op)
  \/ \E t \in AuthThreads : Proceeds(t)
  \/ \E t \in AuthThreads : CalledBack(t)
  \/ \E p \in AuthProcs : CloseAuth(p)
  \/ \E p \in AuthProcs : ProcessDies(p)

AuthSpec == AuthInit /\ [][AuthNext]_authVars

-----------------------------------------------------------------------------
\* Two calls never rotate at once, in one process or in several.
OneRefreshAtATime ==
  \A t, u \in AuthThreads :
    threads[t].pc = "request" /\ threads[u].pc = "request" => t = u

\* No process presents a refresh token another has already used, which would
\* sign the user out, unless the answer to that use was lost.
TokensAreUsedOnce == rejected => lost

\* A mutation of the file keeps what the others wrote ("rereads the latest
\* file, applies its update", docs/oauth.md).
NoMutationIsLost == tokenFile.mcp = mcpSaved

\* Once signOut() has returned, no sign-in of this process that began before
\* it leaves its token behind.
SignOutStands ==
  \A p \in AuthProcs : tokenFile.token # 0 /\ granted.of[tokenFile.token][1] = p
    => granted.of[tokenFile.token][2] >= auth[p].signedOut

\* A stored token belongs to a registered client.
TokensAreRegistered == tokenFile.token # 0 => tokenFile.client = "registered"

AuthIsSafe ==
  /\ AuthTypeOK
  /\ OneRefreshAtATime
  /\ TokensAreUsedOnce
  /\ NoMutationIsLost
  /\ SignOutStands
  /\ TokensAreRegistered

\* Every call ends: two locks and their retries leave nobody waiting, and the
\* locks of a dead process are taken over.
AuthCallsEnd ==
  \A t \in AuthThreads : threads[t].op # "none" ~> threads[t].op = "none"
=============================================================================
