------------------------- MODULE CredentialsProofs -------------------------
(***************************************************************************)
(* Proofs about the credentials of a Kana installation for any number of   *)
(* processes, calls, authorizers, operations and crashes: the token file   *)
(* that several processes refresh (CodexAuth), and the authorizers of MCP  *)
(* servers (McpOAuth).                                                     *)
(***************************************************************************)
EXTENDS MCServices, TLAPS

-----------------------------------------------------------------------------
(* CodexAuth: who holds which lock, and whose token is still unused *)


\* t holds the lifecycle lock.
InCycle(t) ==
  /\ threads[t].op \in {"refresh", "forced", "authorize", "signOut"}
  /\ threads[t].pc \in {"section", "request", "file", "read", "write", "release"}

\* t has a token that it may yet store.
HasFresh(t) == threads[t].fresh # 0 /\ threads[t].pc \in {"lock", "section", "file", "read", "write"}

\* Where each call can be.
CallIsSound(t) ==
  LET w == threads[t]
  IN  /\ w.op = "none" => w.pc \in {"idle", "crashed"}
      /\ w.pc \in {"idle", "crashed"} => w.op = "none"
      /\ w.op = "mcp" => w.pc \in {"file", "read", "write", "release"}
      /\ w.op = "signOut" => w.pc \in {"lock", "section", "file", "read", "write", "release"}
      /\ w.pc = "request" => Refreshes(t)
      /\ Refreshes(t) => w.pc \notin {"browser", "exchange"}
      /\ w.fresh # 0 => \/ Refreshes(t) /\ w.pc \in {"file", "read", "write", "release"}
                        \/ w.op = "authorize" /\ w.stage = 2
      /\ w.op = "authorize" /\ w.stage = 2 => w.fresh # 0 /\ w.pc \in {"lock", "section", "file", "read", "write", "release"}
      /\ w.rev <= Me(t).revision

\* The locks are held by whom they protect.
LocksAreHeld(t) ==
  /\ InCycle(t) => cycleLock = t
  /\ threads[t].pc \in {"read", "write"} => fileLock = t
  /\ threads[t].pc = "write" => threads[t].copy = tokenFile

\* A refresh presents the token of the file, and a new one is nobody else's.
FreshIsSound(t) ==
  LET w == threads[t]
  IN  /\ w.pc = "request" => w.before = tokenFile.token
      /\ Refreshes(t) /\ w.pc \in {"request", "file", "read", "write"} => tokenFile.client = "registered"
      /\ HasFresh(t) =>
           /\ w.fresh < granted.next /\ w.fresh \notin granted.used
           /\ w.fresh # tokenFile.token
           /\ \A u \in AuthThreads : HasFresh(u) /\ u # t => threads[u].fresh # w.fresh
           /\ w.op = "authorize" => granted.of[w.fresh] = <<Owner(t), w.rev>>
           /\ w.pc \notin {"lock", "section"} =>
                \A p \in AuthProcs : granted.of[w.fresh][1] = p => granted.of[w.fresh][2] >= auth[p].signedOut

\* A sign-out has deleted the token.
SignOutIsSound(t) ==
  threads[t].op = "signOut" /\ threads[t].ok /\ threads[t].pc = "release" => tokenFile.token = 0

\* The token of the file was not used, unless its successor is on its way.
UseIsKnown ==
  ~lost /\ tokenFile.token \in granted.used =>
    \E t \in AuthThreads : Refreshes(t) /\ HasFresh(t) /\ InCycle(t)

ServerIsSound ==
  /\ tokenFile.token < granted.next
  /\ granted.used \subseteq 1..(granted.next - 1)
  /\ \A p \in AuthProcs : auth[p].signedOut <= auth[p].revision

AuthInv ==
  /\ AuthTypeOK /\ UseIsKnown /\ ServerIsSound
  /\ TokensAreUsedOnce /\ NoMutationIsLost /\ SignOutStands /\ TokensAreRegistered
  /\ \A t \in AuthThreads : CallIsSound(t) /\ LocksAreHeld(t) /\ FreshIsSound(t) /\ SignOutIsSound(t)

Calls ==
  [op : {"none", "refresh", "forced", "authorize", "signOut", "mcp"},
   pc : {"idle", "load", "lock", "section", "browser", "request", "exchange",
         "file", "read", "write", "release", "crashed"},
   rev : Nat, stage : 0..2, ok : BOOLEAN, before : 0..MaxTokens, fresh : 0..MaxTokens, copy : Files]
Auths == [revision : Nat, closed : BOOLEAN, signedOut : Nat]
Grants == [valid : SUBSET Tokens, used : SUBSET Tokens, next : 1..(MaxTokens + 1),
           of : [Tokens -> (AuthProcs \cup {0}) \X Nat]]

LEMMA AuthTypes ==
  /\ AuthTypeOK <=>
       /\ tokenFile \in Files
       /\ fileLock \in AuthThreads \cup {None} /\ cycleLock \in AuthThreads \cup {None}
       /\ threads \in [AuthThreads -> Calls] /\ auth \in [AuthProcs -> Auths] /\ granted \in Grants
       /\ authOps \in 0..MaxAuthOps /\ mcpSaved \in 0..1 /\ lost \in BOOLEAN /\ rejected \in BOOLEAN
  /\ None \notin AuthThreads
  /\ \A t \in AuthThreads : Owner(t) \in AuthProcs /\ Owner(t) \in Nat \ {0}
  /\ Still \in Calls
<1>1. AuthTypeOK <=>
       /\ tokenFile \in Files
       /\ fileLock \in AuthThreads \cup {None} /\ cycleLock \in AuthThreads \cup {None}
       /\ threads \in [AuthThreads -> Calls] /\ auth \in [AuthProcs -> Auths] /\ granted \in Grants
       /\ authOps \in 0..MaxAuthOps /\ mcpSaved \in 0..1 /\ lost \in BOOLEAN /\ rejected \in BOOLEAN
  BY DEF AuthTypeOK, Calls, Auths, Grants
<1>2. None \notin AuthThreads /\ \A t \in AuthThreads : Owner(t) \in AuthProcs /\ Owner(t) \in Nat \ {0}
  BY AuthAssumption DEF None, Owner, AuthProcs
<1>3. Still \in Calls
  BY AuthAssumption DEF Still, Calls, Files
<1>. QED BY <1>1, <1>2, <1>3

Sound(t) == CallIsSound(t) /\ LocksAreHeld(t) /\ FreshIsSound(t) /\ SignOutIsSound(t)

\* A refresh that holds the token the file is to have.
Delivers(t) == Refreshes(t) /\ HasFresh(t) /\ InCycle(t)

LEMMA ServerFacts ==
  AuthInv => \A p \in AuthProcs : /\ auth[p] \in Auths /\ auth[p].signedOut <= auth[p].revision
                                  /\ auth[p].signedOut \in Nat /\ auth[p].revision \in Nat
  BY AuthTypes DEF AuthInv, ServerIsSound, Auths

\* A call goes on and does not touch the file: what the others rely on is as
\* it was.
LEMMA CallMoves ==
  ASSUME AuthInv, NEW t \in AuthThreads, NEW w \in Calls,
         threads' = [threads EXCEPT ![t] = w],
         UNCHANGED <<tokenFile, mcpSaved>>, authOps' \in 0..MaxAuthOps,
         fileLock' \in AuthThreads \cup {None}, cycleLock' \in AuthThreads \cup {None},
         lost' \in BOOLEAN, rejected' \in BOOLEAN, lost => lost', rejected' => lost',
         granted' \in Grants, granted'.used = granted.used, granted'.next = granted.next, granted'.of = granted.of,
         auth' \in [AuthProcs -> Auths],
         \A p \in AuthProcs : auth[p].revision <= auth'[p].revision /\ auth'[p].signedOut <= auth'[p].revision,
         \/ \A p \in AuthProcs : auth'[p].signedOut = auth[p].signedOut
         \/ tokenFile.token = 0 /\ \A u \in AuthThreads \ {t} : ~InCycle(u),
         \A u \in AuthThreads \ {t} : InCycle(u) => cycleLock' = u,
         \A u \in AuthThreads \ {t} : threads[u].pc \in {"read", "write"} => fileLock' = u,
         HasFresh(t)' => HasFresh(t) /\ w.fresh = threads[t].fresh,
         Delivers(t) => lost' \/ Delivers(t)',
         Sound(t)'
  PROVE  AuthInv'
<1>1. AuthTypeOK'
  BY DEF AuthInv, AuthTypeOK, Calls, Auths, Grants
<1>2. threads'[t] = w /\ \A u \in AuthThreads : u # t => threads'[u] = threads[u]
  BY AuthTypes DEF AuthInv
<1>3. ASSUME NEW u \in AuthThreads, u # t
      PROVE  Sound(u)'
  <2>1. Sound(u)
    BY DEF AuthInv, Sound
  <2>2. CallIsSound(u)'
    <3>1. threads[u].rev \in Nat /\ auth[Owner(u)] \in Auths /\ auth'[Owner(u)] \in Auths /\ Owner(u) \in AuthProcs
      BY AuthTypes DEF AuthInv, Calls
    <3>2. threads[u].rev <= auth'[Owner(u)].revision
      BY <2>1, <3>1 DEF Sound, CallIsSound, Me, Auths
    <3>. QED BY <1>2, <1>3, <2>1, <3>2 DEF Sound, CallIsSound, Refreshes, Me
  <2>3. LocksAreHeld(u)' /\ SignOutIsSound(u)'
    BY <1>2, <2>1 DEF Sound, LocksAreHeld, InCycle, SignOutIsSound
  <2>4. HasFresh(u)' <=> HasFresh(u)
    BY <1>3 DEF HasFresh
  <2>5. \A v \in AuthThreads : HasFresh(v)' => HasFresh(v) /\ threads'[v].fresh = threads[v].fresh
    BY <1>2 DEF HasFresh
  <2>6. HasFresh(u) /\ threads[u].pc \notin {"lock", "section"} => InCycle(u)
    BY <2>1 DEF Sound, CallIsSound, HasFresh, InCycle, Refreshes
  <2>7. FreshIsSound(u)'
    BY <1>2, <1>3, <2>1, <2>4, <2>5, <2>6 DEF Sound, FreshIsSound, Refreshes
  <2>. QED BY <2>2, <2>3, <2>7 DEF Sound
<1>4. UseIsKnown'
  <2>1. \A u \in AuthThreads : u # t => (Delivers(u) => Delivers(u)')
    BY DEF Delivers, Refreshes, HasFresh, InCycle
  <2>. QED BY <2>1 DEF AuthInv, UseIsKnown, Delivers
<1>5. ServerIsSound' /\ TokensAreUsedOnce' /\ NoMutationIsLost' /\ SignOutStands' /\ TokensAreRegistered'
  BY DEF AuthInv, ServerIsSound, TokensAreUsedOnce, NoMutationIsLost, SignOutStands, TokensAreRegistered
<1>. QED BY <1>1, <1>3, <1>4, <1>5 DEF AuthInv, Sound

\* The same, of a call that changes nothing but itself.
LEMMA CallMovesAlone ==
  ASSUME AuthInv, NEW t \in AuthThreads, NEW w \in Calls,
         threads' = [threads EXCEPT ![t] = w],
         UNCHANGED <<tokenFile, fileLock, cycleLock, auth, granted, authOps, mcpSaved, lost, rejected>>,
         HasFresh(t)' => HasFresh(t) /\ w.fresh = threads[t].fresh,
         Delivers(t) => Delivers(t)',
         Sound(t)'
  PROVE  AuthInv'
<1>1. \A u \in AuthThreads : (InCycle(u) => cycleLock = u) /\ (threads[u].pc \in {"read", "write"} => fileLock = u)
  BY DEF AuthInv, LocksAreHeld
<1>2. /\ AuthTypeOK'  <=> threads' \in [AuthThreads -> Calls]
      /\ rejected => lost
  BY DEF AuthInv, AuthTypeOK, Calls, TokensAreUsedOnce
<1>3. /\ authOps \in 0..MaxAuthOps /\ fileLock \in AuthThreads \cup {None} /\ cycleLock \in AuthThreads \cup {None}
      /\ lost \in BOOLEAN /\ rejected \in BOOLEAN /\ granted \in Grants /\ auth \in [AuthProcs -> Auths]
  BY AuthTypes DEF AuthInv
<1>4. \A p \in AuthProcs : auth[p].revision <= auth[p].revision /\ auth[p].signedOut <= auth[p].revision
  BY ServerFacts
<1>. QED BY <1>1, <1>2, <1>3, <1>4, CallMoves

\* The token is read before the lock.
LEMMA LoadBeforeKeeps ==
  ASSUME AuthInv, NEW t \in AuthThreads, LoadBefore(t)
  PROVE  AuthInv'
<1>1. threads[t] \in Calls /\ threads[t].pc = "load" /\ Sound(t)
  BY AuthTypes DEF AuthInv, LoadBefore, Sound
<1>2. PICK w \in Calls : threads' = [threads EXCEPT ![t] = w]
        /\ (w = Still \/ w = [threads[t] EXCEPT !.before = Loaded, !.pc = "lock"])
  <2>a. Loaded \in 0..MaxTokens
    BY AuthTypes, AuthAssumption DEF AuthInv, Loaded, Files
  <2>1. [threads[t] EXCEPT !.before = Loaded, !.pc = "lock"] \in Calls
    BY <1>1, <2>a DEF Calls
  <2>. QED BY <1>1, <2>1, AuthTypes DEF AuthInv, LoadBefore, AuthEnds, Goes
<1>3. threads'[t] = w /\ \A u \in AuthThreads : u # t => threads'[u] = threads[u]
  BY <1>2, AuthTypes DEF AuthInv
<1>0. \/ w.op = "none" /\ w.pc = "idle" /\ w.rev = 0
         /\ w.stage = 0 /\ w.fresh = 0
      \/ w.op = threads[t].op /\ w.pc = "lock" /\ w.rev = threads[t].rev
         /\ w.stage = threads[t].stage /\ w.ok = threads[t].ok
         /\ w.before = Loaded /\ w.fresh = threads[t].fresh /\ w.copy = threads[t].copy
  <2>1. CASE w = Still
    BY <2>1 DEF Still, Calls
  <2>2. CASE w = [threads[t] EXCEPT !.before = Loaded, !.pc = "lock"]
    BY <2>2 DEF Still, Calls
  <2>. QED BY <1>2, <2>1, <2>2
<1>4. HasFresh(t)' => HasFresh(t) /\ w.fresh = threads[t].fresh
  BY <1>0, <1>1, <1>3 DEF Sound, CallIsSound, HasFresh, Refreshes
<1>5. Delivers(t) => Delivers(t)'
  BY <1>0, <1>1 DEF Sound, CallIsSound, HasFresh, Refreshes, InCycle, Delivers
<1>6. UNCHANGED <<tokenFile, fileLock, cycleLock, auth, granted, authOps, mcpSaved, lost, rejected>>
  BY DEF LoadBefore
<1>7. CallIsSound(t)'
  BY <1>0, <1>1, <1>3, <1>6, ServerFacts, AuthTypes DEF Sound, CallIsSound, Refreshes, Me
<1>8. LocksAreHeld(t)'
  BY <1>0, <1>1, <1>3 DEF Sound, CallIsSound, LocksAreHeld, InCycle, Refreshes
<1>9. FreshIsSound(t)'
  BY <1>0, <1>1, <1>3 DEF Sound, CallIsSound, FreshIsSound, HasFresh, Refreshes
<1>10. SignOutIsSound(t)'
  BY <1>0, <1>1, <1>3 DEF Sound, CallIsSound, SignOutIsSound, Refreshes
<1>. QED BY <1>2, <1>4, <1>5, <1>6, <1>7, <1>8, <1>9, <1>10, CallMovesAlone DEF Sound

\* Under the lock it is read again.
LEMMA RefreshSectionKeeps ==
  ASSUME AuthInv, NEW t \in AuthThreads, RefreshSection(t)
  PROVE  AuthInv'
<1>1. threads[t] \in Calls /\ threads[t].pc = "section" /\ Refreshes(t) /\ Sound(t)
  BY AuthTypes DEF AuthInv, RefreshSection, Sound, Refreshes
<1>2. PICK w \in Calls : threads' = [threads EXCEPT ![t] = w]
        /\ (w = [threads[t] EXCEPT !.pc = "release"] \/ (Loaded # 0 /\ w = [threads[t] EXCEPT !.before = Loaded, !.pc = "request"]))
  <2>a. Loaded \in 0..MaxTokens
    BY AuthTypes, AuthAssumption DEF AuthInv, Loaded, Files
  <2>1. [threads[t] EXCEPT !.pc = "release"] \in Calls
    BY <1>1 DEF Calls
  <2>2. [threads[t] EXCEPT !.before = Loaded, !.pc = "request"] \in Calls
    BY <1>1, <2>a DEF Calls
  <2>. QED BY <1>1, <2>1, <2>2 DEF AuthInv, RefreshSection, AuthEnds, Goes, TokenReloaded, Loaded, Refreshes
<1>3. threads'[t] = w /\ \A u \in AuthThreads : u # t => threads'[u] = threads[u]
  BY <1>2, AuthTypes DEF AuthInv
<1>0. \/ w.op = threads[t].op /\ w.pc = "release" /\ w.rev = threads[t].rev
         /\ w.stage = threads[t].stage /\ w.ok = threads[t].ok
         /\ w.before = threads[t].before /\ w.fresh = threads[t].fresh /\ w.copy = threads[t].copy
      \/ Loaded # 0 /\ w.op = threads[t].op /\ w.pc = "request" /\ w.rev = threads[t].rev
         /\ w.stage = threads[t].stage /\ w.ok = threads[t].ok
         /\ w.before = Loaded /\ w.fresh = threads[t].fresh /\ w.copy = threads[t].copy
  <2>1. CASE w = [threads[t] EXCEPT !.pc = "release"]
    BY <2>1 DEF Still, Calls
  <2>2. CASE Loaded # 0 /\ w = [threads[t] EXCEPT !.before = Loaded, !.pc = "request"]
    BY <2>2 DEF Still, Calls
  <2>. QED BY <1>2, <2>1, <2>2
<1>4. HasFresh(t)' => HasFresh(t) /\ w.fresh = threads[t].fresh
  BY <1>0, <1>3 DEF Sound, CallIsSound, HasFresh, Refreshes
<1>5. Delivers(t) => Delivers(t)'
  BY <1>0, <1>1 DEF Sound, CallIsSound, HasFresh, Refreshes, InCycle, Delivers
<1>6. UNCHANGED <<tokenFile, fileLock, cycleLock, auth, granted, authOps, mcpSaved, lost, rejected>>
  BY DEF RefreshSection
<1>7. CallIsSound(t)'
  BY <1>0, <1>1, <1>3, <1>6 DEF Sound, CallIsSound, Refreshes, Me
<1>8. LocksAreHeld(t)'
  BY <1>0, <1>1, <1>3, <1>6 DEF Sound, CallIsSound, LocksAreHeld, InCycle, Refreshes
<1>9. FreshIsSound(t)'
  BY <1>0, <1>1, <1>3, <1>6 DEF Sound, CallIsSound, FreshIsSound, HasFresh, Refreshes, TokenReloaded,
     Loaded, Refreshes
<1>10. SignOutIsSound(t)'
  BY <1>0, <1>1, <1>3 DEF Sound, CallIsSound, SignOutIsSound, Refreshes
<1>. QED BY <1>2, <1>4, <1>5, <1>6, <1>7, <1>8, <1>9, <1>10, CallMovesAlone DEF Sound

\* The request fails.
LEMMA RequestFailsKeeps ==
  ASSUME AuthInv, NEW t \in AuthThreads, RequestFails(t)
  PROVE  AuthInv'
<1>1. threads[t] \in Calls /\ threads[t].pc = "request" /\ Sound(t)
  BY AuthTypes DEF AuthInv, RequestFails, Sound
<1>2. PICK w \in Calls : threads' = [threads EXCEPT ![t] = w] /\ (w = [threads[t] EXCEPT !.pc = "release"])
  <2>1. [threads[t] EXCEPT !.pc = "release"] \in Calls
    BY <1>1 DEF Calls
  <2>. QED BY <1>1, <2>1 DEF AuthInv, RequestFails, AuthEnds, Goes
<1>3. threads'[t] = w /\ \A u \in AuthThreads : u # t => threads'[u] = threads[u]
  BY <1>2, AuthTypes DEF AuthInv
<1>0. w.op = threads[t].op /\ w.pc = "release" /\ w.rev = threads[t].rev
         /\ w.stage = threads[t].stage /\ w.ok = threads[t].ok
         /\ w.before = threads[t].before /\ w.fresh = threads[t].fresh /\ w.copy = threads[t].copy
  BY <1>2 DEF Still, Calls
<1>4. HasFresh(t)' => HasFresh(t) /\ w.fresh = threads[t].fresh
  BY <1>0, <1>3 DEF Sound, CallIsSound, HasFresh, Refreshes
<1>5. Delivers(t) => Delivers(t)'
  BY <1>0, <1>1 DEF Sound, CallIsSound, HasFresh, Refreshes, InCycle, Delivers
<1>6. UNCHANGED <<tokenFile, fileLock, cycleLock, auth, granted, authOps, mcpSaved, lost, rejected>>
  BY DEF RequestFails
<1>7. CallIsSound(t)'
  BY <1>0, <1>1, <1>3, <1>6 DEF Sound, CallIsSound, Refreshes, Me
<1>8. LocksAreHeld(t)'
  BY <1>0, <1>1, <1>3, <1>6 DEF Sound, CallIsSound, LocksAreHeld, InCycle, Refreshes
<1>9. FreshIsSound(t)'
  BY <1>0, <1>1, <1>3 DEF Sound, CallIsSound, FreshIsSound, HasFresh, Refreshes
<1>10. SignOutIsSound(t)'
  BY <1>0, <1>1, <1>3 DEF Sound, CallIsSound, SignOutIsSound, Refreshes
<1>. QED BY <1>2, <1>4, <1>5, <1>6, <1>7, <1>8, <1>9, <1>10, CallMovesAlone DEF Sound

\* A section of a sign-in, which looks at the revision.
LEMMA AuthorizeSectionKeeps ==
  ASSUME AuthInv, NEW t \in AuthThreads, AuthorizeSection(t)
  PROVE  AuthInv'
<1>1. threads[t] \in Calls /\ threads[t].pc = "section" /\ threads[t].op = "authorize" /\ Sound(t)
  BY AuthTypes DEF AuthInv, AuthorizeSection, Sound
<1>2. PICK w \in Calls : threads' = [threads EXCEPT ![t] = w]
        /\ (((threads[t].stage = 0 \/ MayAuthorize(t)) /\ w = [threads[t] EXCEPT !.pc = "file"]) \/ w = [threads[t] EXCEPT !.ok = FALSE, !.pc = "release"])
  <2>1. [threads[t] EXCEPT !.pc = "file"] \in Calls
    BY <1>1 DEF Calls
  <2>2. [threads[t] EXCEPT !.ok = FALSE, !.pc = "release"] \in Calls
    BY <1>1 DEF Calls
  <2>. QED BY <1>1, <2>1, <2>2 DEF AuthInv, AuthorizeSection, AuthEnds, Goes, MayAuthorize, IsCurrent, Me
<1>3. threads'[t] = w /\ \A u \in AuthThreads : u # t => threads'[u] = threads[u]
  BY <1>2, AuthTypes DEF AuthInv
<1>0. \/ (threads[t].stage = 0 \/ MayAuthorize(t)) /\ w.op = threads[t].op /\ w.pc = "file" /\ w.rev = threads[t].rev
         /\ w.stage = threads[t].stage /\ w.ok = threads[t].ok
         /\ w.before = threads[t].before /\ w.fresh = threads[t].fresh /\ w.copy = threads[t].copy
      \/ w.op = threads[t].op /\ w.pc = "release" /\ w.rev = threads[t].rev
         /\ w.stage = threads[t].stage /\ w.ok = FALSE
         /\ w.before = threads[t].before /\ w.fresh = threads[t].fresh /\ w.copy = threads[t].copy
  <2>1. CASE (threads[t].stage = 0 \/ MayAuthorize(t)) /\ w = [threads[t] EXCEPT !.pc = "file"]
    BY <2>1 DEF Still, Calls
  <2>2. CASE w = [threads[t] EXCEPT !.ok = FALSE, !.pc = "release"]
    BY <2>2 DEF Still, Calls
  <2>. QED BY <1>2, <2>1, <2>2
<1>4. HasFresh(t)' => HasFresh(t) /\ w.fresh = threads[t].fresh
  BY <1>0, <1>1, <1>3 DEF Sound, CallIsSound, HasFresh, Refreshes
<1>5. Delivers(t) => Delivers(t)'
  BY <1>0, <1>1 DEF Sound, CallIsSound, HasFresh, Refreshes, InCycle, Delivers
<1>6. UNCHANGED <<tokenFile, fileLock, cycleLock, auth, granted, authOps, mcpSaved, lost, rejected>>
  BY DEF AuthorizeSection
<1>7. CallIsSound(t)'
  BY <1>0, <1>1, <1>3, <1>6 DEF Sound, CallIsSound, Refreshes, Me
<1>8. LocksAreHeld(t)'
  BY <1>0, <1>1, <1>3, <1>6 DEF Sound, CallIsSound, LocksAreHeld, InCycle, Refreshes
<1>9. FreshIsSound(t)'
  BY <1>0, <1>1, <1>3, <1>4, <1>6, ServerFacts DEF Sound, CallIsSound, FreshIsSound, HasFresh, Refreshes,
     MayAuthorize, IsCurrent, Me
<1>10. SignOutIsSound(t)'
  BY <1>0, <1>1, <1>3 DEF Sound, CallIsSound, SignOutIsSound, Refreshes
<1>. QED BY <1>2, <1>4, <1>5, <1>6, <1>7, <1>8, <1>9, <1>10, CallMovesAlone DEF Sound

\* The wait for the browser ends.
LEMMA WaitEndsKeeps ==
  ASSUME AuthInv, NEW t \in AuthThreads, WaitEnds(t)
  PROVE  AuthInv'
<1>1. threads[t] \in Calls /\ threads[t].pc = "browser" /\ Sound(t)
  BY AuthTypes DEF AuthInv, WaitEnds, Sound
<1>2. PICK w \in Calls : threads' = [threads EXCEPT ![t] = w] /\ (w = Still)
  BY AuthTypes DEF WaitEnds, AuthEnds
<1>3. threads'[t] = w /\ \A u \in AuthThreads : u # t => threads'[u] = threads[u]
  BY <1>2, AuthTypes DEF AuthInv
<1>0. w.op = "none" /\ w.pc = "idle" /\ w.rev = 0
         /\ w.stage = 0 /\ w.fresh = 0
  BY <1>2 DEF Still, Calls
<1>4. HasFresh(t)' => HasFresh(t) /\ w.fresh = threads[t].fresh
  BY <1>0, <1>3 DEF Sound, CallIsSound, HasFresh, Refreshes
<1>5. Delivers(t) => Delivers(t)'
  BY <1>0, <1>1 DEF Sound, CallIsSound, HasFresh, Refreshes, InCycle, Delivers
<1>6. UNCHANGED <<tokenFile, fileLock, cycleLock, auth, granted, authOps, mcpSaved, lost, rejected>>
  BY DEF WaitEnds
<1>7. CallIsSound(t)'
  BY <1>0, <1>1, <1>3, <1>6, ServerFacts, AuthTypes DEF Sound, CallIsSound, Refreshes, Me
<1>8. LocksAreHeld(t)'
  BY <1>0, <1>1, <1>3 DEF Sound, CallIsSound, LocksAreHeld, InCycle, Refreshes
<1>9. FreshIsSound(t)'
  BY <1>0, <1>1, <1>3 DEF Sound, CallIsSound, FreshIsSound, HasFresh, Refreshes
<1>10. SignOutIsSound(t)'
  BY <1>0, <1>1, <1>3 DEF Sound, CallIsSound, SignOutIsSound, Refreshes
<1>. QED BY <1>2, <1>4, <1>5, <1>6, <1>7, <1>8, <1>9, <1>10, CallMovesAlone DEF Sound

\* The browser calls back.
LEMMA CalledBackKeeps ==
  ASSUME AuthInv, NEW t \in AuthThreads, CalledBack(t)
  PROVE  AuthInv'
<1>1. threads[t] \in Calls /\ threads[t].pc = "browser" /\ Sound(t)
  BY AuthTypes DEF AuthInv, CalledBack, Sound
<1>2. PICK w \in Calls : threads' = [threads EXCEPT ![t] = w]
        /\ (w = [threads[t] EXCEPT !.stage = 1, !.pc = "lock"] \/ w = [threads[t] EXCEPT !.stage = 1, !.pc = "exchange"])
  <2>a. 1 \in 0..2
    OBVIOUS
  <2>1. [threads[t] EXCEPT !.stage = 1, !.pc = "lock"] \in Calls
    BY <1>1, <2>a DEF Calls
  <2>2. [threads[t] EXCEPT !.stage = 1, !.pc = "exchange"] \in Calls
    BY <1>1, <2>a DEF Calls
  <2>. QED BY <1>1, <2>1, <2>2 DEF AuthInv, CalledBack, AuthEnds, Goes
<1>3. threads'[t] = w /\ \A u \in AuthThreads : u # t => threads'[u] = threads[u]
  BY <1>2, AuthTypes DEF AuthInv
<1>0. \/ w.op = threads[t].op /\ w.pc = "lock" /\ w.rev = threads[t].rev
         /\ w.stage = 1 /\ w.ok = threads[t].ok
         /\ w.before = threads[t].before /\ w.fresh = threads[t].fresh /\ w.copy = threads[t].copy
      \/ w.op = threads[t].op /\ w.pc = "exchange" /\ w.rev = threads[t].rev
         /\ w.stage = 1 /\ w.ok = threads[t].ok
         /\ w.before = threads[t].before /\ w.fresh = threads[t].fresh /\ w.copy = threads[t].copy
  <2>1. CASE w = [threads[t] EXCEPT !.stage = 1, !.pc = "lock"]
    BY <2>1 DEF Still, Calls
  <2>2. CASE w = [threads[t] EXCEPT !.stage = 1, !.pc = "exchange"]
    BY <2>2 DEF Still, Calls
  <2>. QED BY <1>2, <2>1, <2>2
<1>4. HasFresh(t)' => HasFresh(t) /\ w.fresh = threads[t].fresh
  BY <1>0, <1>1, <1>3 DEF Sound, CallIsSound, HasFresh, Refreshes
<1>5. Delivers(t) => Delivers(t)'
  BY <1>0, <1>1 DEF Sound, CallIsSound, HasFresh, Refreshes, InCycle, Delivers
<1>6. UNCHANGED <<tokenFile, fileLock, cycleLock, auth, granted, authOps, mcpSaved, lost, rejected>>
  BY DEF CalledBack
<1>7. CallIsSound(t)'
  BY <1>0, <1>1, <1>3, <1>6 DEF Sound, CallIsSound, Refreshes, Me
<1>8. LocksAreHeld(t)'
  BY <1>0, <1>1, <1>3 DEF Sound, CallIsSound, LocksAreHeld, InCycle, Refreshes
<1>9. FreshIsSound(t)'
  BY <1>0, <1>1, <1>3 DEF Sound, CallIsSound, FreshIsSound, HasFresh, Refreshes
<1>10. SignOutIsSound(t)'
  BY <1>0, <1>1, <1>3 DEF Sound, CallIsSound, SignOutIsSound, Refreshes
<1>. QED BY <1>2, <1>4, <1>5, <1>6, <1>7, <1>8, <1>9, <1>10, CallMovesAlone DEF Sound

\* The exchange fails.
LEMMA ExchangeFailsKeeps ==
  ASSUME AuthInv, NEW t \in AuthThreads, ExchangeFails(t)
  PROVE  AuthInv'
<1>1. threads[t] \in Calls /\ threads[t].pc = "exchange" /\ Sound(t)
  BY AuthTypes DEF AuthInv, ExchangeFails, Sound
<1>2. PICK w \in Calls : threads' = [threads EXCEPT ![t] = w] /\ (w = Still)
  BY AuthTypes DEF ExchangeFails, AuthEnds
<1>3. threads'[t] = w /\ \A u \in AuthThreads : u # t => threads'[u] = threads[u]
  BY <1>2, AuthTypes DEF AuthInv
<1>0. w.op = "none" /\ w.pc = "idle" /\ w.rev = 0
         /\ w.stage = 0 /\ w.fresh = 0
  BY <1>2 DEF Still, Calls
<1>4. HasFresh(t)' => HasFresh(t) /\ w.fresh = threads[t].fresh
  BY <1>0, <1>3 DEF Sound, CallIsSound, HasFresh, Refreshes
<1>5. Delivers(t) => Delivers(t)'
  BY <1>0, <1>1 DEF Sound, CallIsSound, HasFresh, Refreshes, InCycle, Delivers
<1>6. UNCHANGED <<tokenFile, fileLock, cycleLock, auth, granted, authOps, mcpSaved, lost, rejected>>
  BY DEF ExchangeFails
<1>7. CallIsSound(t)'
  BY <1>0, <1>1, <1>3, <1>6, ServerFacts, AuthTypes DEF Sound, CallIsSound, Refreshes, Me
<1>8. LocksAreHeld(t)'
  BY <1>0, <1>1, <1>3 DEF Sound, CallIsSound, LocksAreHeld, InCycle, Refreshes
<1>9. FreshIsSound(t)'
  BY <1>0, <1>1, <1>3 DEF Sound, CallIsSound, FreshIsSound, HasFresh, Refreshes
<1>10. SignOutIsSound(t)'
  BY <1>0, <1>1, <1>3 DEF Sound, CallIsSound, SignOutIsSound, Refreshes
<1>. QED BY <1>2, <1>4, <1>5, <1>6, <1>7, <1>8, <1>9, <1>10, CallMovesAlone DEF Sound

\* The file is read under its lock.
LEMMA ReadFileKeeps ==
  ASSUME AuthInv, NEW t \in AuthThreads, ReadFile(t)
  PROVE  AuthInv'
<1>1. threads[t] \in Calls /\ threads[t].pc = "read" /\ Sound(t)
  BY AuthTypes DEF AuthInv, ReadFile, Sound
<1>2. PICK w \in Calls : threads' = [threads EXCEPT ![t] = w]
        /\ (w = [threads[t] EXCEPT !.copy = tokenFile, !.pc = "write"])
  <2>1. [threads[t] EXCEPT !.copy = tokenFile, !.pc = "write"] \in Calls
    BY AuthTypes DEF Calls, AuthInv
  <2>. QED BY <1>1, <2>1 DEF AuthInv, ReadFile, AuthEnds, Goes
<1>3. threads'[t] = w /\ \A u \in AuthThreads : u # t => threads'[u] = threads[u]
  BY <1>2, AuthTypes DEF AuthInv
<1>0. w.op = threads[t].op /\ w.pc = "write" /\ w.rev = threads[t].rev
         /\ w.stage = threads[t].stage /\ w.ok = threads[t].ok
         /\ w.before = threads[t].before /\ w.fresh = threads[t].fresh /\ w.copy = tokenFile
  BY <1>2 DEF Still, Calls
<1>4. HasFresh(t)' => HasFresh(t) /\ w.fresh = threads[t].fresh
  BY <1>0, <1>1, <1>3 DEF Sound, CallIsSound, HasFresh, Refreshes
<1>5. Delivers(t) => Delivers(t)'
  BY <1>0, <1>3 DEF Sound, CallIsSound, HasFresh, Refreshes, InCycle, Delivers
<1>6. UNCHANGED <<tokenFile, fileLock, cycleLock, auth, granted, authOps, mcpSaved, lost, rejected>>
  BY DEF ReadFile
<1>7. CallIsSound(t)'
  BY <1>0, <1>1, <1>3, <1>6 DEF Sound, CallIsSound, Refreshes, Me
<1>8. LocksAreHeld(t)'
  BY <1>0, <1>1, <1>3, <1>6 DEF Sound, CallIsSound, LocksAreHeld, InCycle, Refreshes
<1>9. FreshIsSound(t)'
  BY <1>0, <1>1, <1>3, <1>6 DEF Sound, CallIsSound, FreshIsSound, HasFresh, Refreshes
<1>10. SignOutIsSound(t)'
  BY <1>0, <1>1, <1>3 DEF Sound, CallIsSound, SignOutIsSound, Refreshes
<1>. QED BY <1>2, <1>4, <1>5, <1>6, <1>7, <1>8, <1>9, <1>10, CallMovesAlone DEF Sound

LEMMA BeginKeeps ==
  ASSUME AuthInv, NEW t \in AuthThreads, NEW op \in {"refresh", "forced", "authorize", "signOut", "mcp"}, Begin(t, op)
  PROVE  AuthInv'
<1>. DEFINE n == IF op = "signOut" THEN Me(t).revision + 1 ELSE Me(t).revision
            pc == CASE op \in {"refresh", "forced"} -> "load" [] op = "mcp" -> "file" [] OTHER -> "lock"
            w == [Still EXCEPT !.op = op, !.rev = n, !.pc = pc]
<1>1. /\ Owner(t) \in AuthProcs /\ Me(t) \in Auths /\ threads[t].pc = "idle" /\ threads[t].op = "none"
      /\ Me(t).revision \in Nat /\ Me(t) = auth[Owner(t)]
  BY AuthTypes DEF AuthInv, Begin, Me, Auths, CallIsSound
<1>2. auth' = [auth EXCEPT ![Owner(t)].revision = n]
  BY DEF AuthInv, Begin, Me, Auths
<1>3. /\ auth' \in [AuthProcs -> Auths] /\ n \in Nat /\ Me(t)'.revision = n
      /\ \A p \in AuthProcs : auth'[p].signedOut = auth[p].signedOut /\ auth[p].revision <= auth'[p].revision
      /\ \A p \in AuthProcs : auth'[p].signedOut <= auth'[p].revision
  BY <1>1, <1>2, AuthTypes, ServerFacts DEF AuthInv, Me, Auths, Owner
<1>4. threads' = [threads EXCEPT ![t] = w]
  <2>1. auth'[Owner(t)].revision = n
    BY <1>1, <1>2, AuthTypes DEF AuthInv, Auths
  <2>. QED BY <2>1 DEF Begin
<1>5. /\ w \in Calls /\ w.op = op /\ w.rev = n /\ w.pc = pc /\ w.fresh = 0 /\ w.stage = 0
      /\ \/ op \in {"refresh", "forced"} /\ pc = "load"
         \/ op = "mcp" /\ pc = "file"
         \/ op \in {"authorize", "signOut"} /\ pc = "lock"
  BY <1>3, AuthTypes DEF Calls, Still
<1>6. threads'[t] = w
  BY <1>4, AuthTypes DEF AuthInv
<1>. HIDE DEF w, n, pc
<1>7. UNCHANGED <<tokenFile, fileLock, cycleLock, granted, mcpSaved, lost, rejected>> /\ authOps' \in 0..MaxAuthOps
  BY AuthTypes, AuthAssumption DEF Begin, AuthInv
<1>8. Sound(t)'
  BY <1>3, <1>5, <1>6 DEF Sound, CallIsSound, LocksAreHeld, InCycle, FreshIsSound, HasFresh,
     SignOutIsSound, Refreshes
<1>9. \A u \in AuthThreads : LocksAreHeld(u)
  BY DEF AuthInv
<1>10. ~HasFresh(t)' /\ ~Delivers(t)
  BY <1>1, <1>5, <1>6 DEF HasFresh, Delivers, Refreshes
<1>. QED BY <1>3, <1>4, <1>5, <1>7, <1>8, <1>9, <1>10, AuthTypes, CallMoves DEF AuthInv, TokensAreUsedOnce,
            LocksAreHeld

\* What each call relies on of the others.
LEMMA Rely ==
  ASSUME AuthInv
  PROVE  /\ \A u \in AuthThreads : /\ (InCycle(u) => cycleLock = u)
                                   /\ (threads[u].pc \in {"read", "write"} => fileLock = u)
                                   /\ Sound(u) /\ threads[u] \in Calls
         /\ authOps \in 0..MaxAuthOps /\ fileLock \in AuthThreads \cup {None} /\ cycleLock \in AuthThreads \cup {None}
         /\ lost \in BOOLEAN /\ rejected \in BOOLEAN /\ granted \in Grants /\ auth \in [AuthProcs -> Auths]
         /\ mcpSaved \in 0..1 /\ tokenFile \in Files /\ threads \in [AuthThreads -> Calls]
         /\ rejected => lost
  BY AuthTypes DEF AuthInv, Sound, LocksAreHeld, TokensAreUsedOnce

\* A call goes on, which its process does not notice.
LEMMA CallGoes ==
  ASSUME AuthInv, NEW t \in AuthThreads, NEW w \in Calls,
         threads' = [threads EXCEPT ![t] = w],
         UNCHANGED <<tokenFile, mcpSaved, auth, authOps>>,
         fileLock' \in AuthThreads \cup {None}, cycleLock' \in AuthThreads \cup {None},
         lost' \in BOOLEAN, rejected' \in BOOLEAN, lost => lost', rejected' => lost',
         granted' \in Grants, granted'.used = granted.used, granted'.next = granted.next, granted'.of = granted.of,
         \A u \in AuthThreads \ {t} : InCycle(u) => cycleLock' = u,
         \A u \in AuthThreads \ {t} : threads[u].pc \in {"read", "write"} => fileLock' = u,
         HasFresh(t)' => HasFresh(t) /\ w.fresh = threads[t].fresh,
         Delivers(t) => lost' \/ Delivers(t)',
         Sound(t)'
  PROVE  AuthInv'
<1>1. \A p \in AuthProcs : auth[p].revision <= auth[p].revision /\ auth[p].signedOut <= auth[p].revision
  BY ServerFacts
<1>2. authOps \in 0..MaxAuthOps /\ auth \in [AuthProcs -> Auths]
  BY Rely
<1>. QED BY <1>1, <1>2, CallMoves

\* The lifecycle lock is taken, or given up.
LEMMA LockLifecycleKeeps ==
  ASSUME AuthInv, NEW t \in AuthThreads, LockLifecycle(t)
  PROVE  AuthInv'
<1>1. threads[t] \in Calls /\ threads[t].pc = "lock" /\ Sound(t)
  BY Rely DEF LockLifecycle
<1>2. UNCHANGED <<tokenFile, fileLock, auth, granted, authOps, mcpSaved, lost, rejected>>
  BY DEF LockLifecycle
<1>3. ~InCycle(t) /\ ~Delivers(t)
  BY <1>1 DEF InCycle, Delivers
<1>4. CASE ~Takes(cycleLock) /\ AuthEnds(t) /\ UNCHANGED cycleLock
  <2>1. threads' = [threads EXCEPT ![t] = Still] /\ threads'[t] = Still /\ Still \in Calls
    BY <1>4, AuthTypes, Rely DEF AuthEnds
  <2>2. Sound(t)' /\ ~HasFresh(t)'
    BY <1>2, <2>1, ServerFacts, AuthTypes DEF Sound, CallIsSound, LocksAreHeld, InCycle, FreshIsSound,
       HasFresh, SignOutIsSound, Refreshes, Still, Me
  <2>. QED BY <1>2, <1>3, <1>4, <2>1, <2>2, CallMovesAlone
<1>5. CASE Takes(cycleLock) /\ cycleLock' = t /\ Goes(t, "section")
  <2>. DEFINE w == [threads[t] EXCEPT !.pc = "section"]
  <2>1. w \in Calls /\ threads' = [threads EXCEPT ![t] = w] /\ threads'[t] = w
    BY <1>1, <1>5, Rely DEF Goes, Calls
  <2>2. \A u \in AuthThreads : ~InCycle(u)
    BY <1>5, Rely, AuthTypes DEF Takes, InCycle
  <2>3. Sound(t)' /\ (HasFresh(t)' => HasFresh(t) /\ w.fresh = threads[t].fresh)
    BY <1>1, <1>2, <1>5, <2>1 DEF Sound, CallIsSound, LocksAreHeld, InCycle, FreshIsSound, HasFresh,
       SignOutIsSound, Refreshes, Me, Calls
  <2>. HIDE DEF w
  <2>. QED BY <1>2, <1>3, <1>5, <2>1, <2>2, <2>3, CallGoes, Rely
<1>. QED BY <1>4, <1>5 DEF LockLifecycle

\* The server rejects a token.
LEMMA RejectedKeeps ==
  ASSUME AuthInv, NEW t \in AuthThreads, Rejected(t)
  PROVE  AuthInv'
<1>1. threads[t] \in Calls /\ threads[t].pc = "request" /\ Sound(t)
  BY Rely DEF Rejected
<1>2. UNCHANGED <<tokenFile, fileLock, cycleLock, auth, granted, authOps, mcpSaved, lost>>
  BY DEF Rejected
<1>3. InCycle(t) /\ ~HasFresh(t) /\ ~Delivers(t)
  BY <1>1 DEF Sound, CallIsSound, InCycle, Refreshes, HasFresh, Delivers
<1>4. \A u \in AuthThreads : ~Delivers(u)
  BY <1>3, Rely DEF Delivers
<1>5. rejected' => lost'
  BY <1>1, <1>2, <1>4, Rely DEF Rejected, Sound, FreshIsSound, AuthInv, UseIsKnown, Delivers
<1>6. rejected' \in BOOLEAN
  BY Rely DEF Rejected
<1>. DEFINE w == [threads[t] EXCEPT !.fresh = 0, !.pc = "file"]
<1>7. w \in Calls /\ threads' = [threads EXCEPT ![t] = w] /\ threads'[t] = w
  BY <1>1, Rely DEF Rejected, Calls
<1>8. Sound(t)' /\ ~HasFresh(t)'
  BY <1>1, <1>2, <1>7 DEF Sound, CallIsSound, LocksAreHeld, InCycle, FreshIsSound, HasFresh,
     SignOutIsSound, Refreshes, Me, Calls
<1>. HIDE DEF w
<1>. QED BY <1>2, <1>3, <1>5, <1>6, <1>7, <1>8, CallGoes, Rely

\* A sign-out revokes the token.
LEMMA SignOutSectionKeeps ==
  ASSUME AuthInv, NEW t \in AuthThreads, SignOutSection(t)
  PROVE  AuthInv'
<1>1. threads[t] \in Calls /\ threads[t].pc = "section" /\ threads[t].op = "signOut" /\ Sound(t)
  BY Rely DEF SignOutSection
<1>2. UNCHANGED <<tokenFile, fileLock, cycleLock, auth, authOps, mcpSaved, lost, rejected>>
  BY DEF SignOutSection
<1>3. granted' \in Grants /\ granted'.used = granted.used /\ granted'.next = granted.next /\ granted'.of = granted.of
  BY Rely DEF SignOutSection, Grants
<1>4. InCycle(t) /\ ~HasFresh(t) /\ ~Delivers(t)
  BY <1>1 DEF Sound, CallIsSound, InCycle, Refreshes, HasFresh, Delivers
<1>. DEFINE w == [threads[t] EXCEPT !.pc = "file"]
<1>5. w \in Calls /\ threads' = [threads EXCEPT ![t] = w] /\ threads'[t] = w
  BY Rely DEF SignOutSection, Goes, Calls
<1>6. Sound(t)' /\ ~HasFresh(t)'
  BY <1>1, <1>2, <1>5 DEF Sound, CallIsSound, LocksAreHeld, InCycle, FreshIsSound, HasFresh,
     SignOutIsSound, Refreshes, Me, Calls
<1>. HIDE DEF w
<1>. QED BY <1>2, <1>3, <1>4, <1>5, <1>6, CallGoes, Rely

\* A mutation of the file that fails, before or after its lock was taken.
LEMMA NotStoredKeeps ==
  ASSUME AuthInv, NEW t \in AuthThreads, NotStored(t), threads[t].pc \in {"file", "write"},
         fileLock' \in AuthThreads \cup {None},
         \A u \in AuthThreads \ {t} : threads[u].pc \in {"read", "write"} => fileLock' = u,
         UNCHANGED <<tokenFile, cycleLock, auth, granted, authOps, mcpSaved, rejected>>
  PROVE  AuthInv'
<1>1. threads[t] \in Calls /\ Sound(t)
  BY Rely
<1>. DEFINE w == [threads[t] EXCEPT !.ok = FALSE, !.pc = "release"]
<1>2. w \in Calls /\ threads' = [threads EXCEPT ![t] = w] /\ threads'[t] = w
  BY Rely DEF NotStored, Calls
<1>3. lost' \in BOOLEAN /\ (lost => lost') /\ (Delivers(t) => lost')
  BY DEF NotStored, Delivers, HasFresh
<1>4. /\ w.op = threads[t].op /\ w.pc = "release" /\ w.rev = threads[t].rev /\ w.stage = threads[t].stage
      /\ w.fresh = threads[t].fresh /\ ~w.ok
  BY <1>1 DEF Calls
<1>. HIDE DEF w
<1>5. ~HasFresh(t)' /\ CallIsSound(t)'
  BY <1>1, <1>2, <1>4 DEF Sound, CallIsSound, HasFresh, Refreshes, Me, Owner
<1>6. LocksAreHeld(t)' /\ FreshIsSound(t)' /\ SignOutIsSound(t)'
  BY <1>1, <1>2, <1>4, <1>5 DEF Sound, CallIsSound, LocksAreHeld, InCycle, FreshIsSound, SignOutIsSound
<1>. QED BY <1>2, <1>3, <1>5, <1>6, CallGoes, Rely DEF Sound

\* The lock of the file is taken, or given up.
LEMMA LockFileKeeps ==
  ASSUME AuthInv, NEW t \in AuthThreads, LockFile(t)
  PROVE  AuthInv'
<1>1. threads[t] \in Calls /\ threads[t].pc = "file" /\ Sound(t)
  BY Rely DEF LockFile
<1>2. UNCHANGED <<tokenFile, cycleLock, auth, granted, authOps, mcpSaved, rejected>>
  BY DEF LockFile
<1>3. CASE UNCHANGED fileLock /\ NotStored(t)
  BY <1>1, <1>2, <1>3, NotStoredKeeps, Rely
<1>4. CASE Takes(fileLock) /\ fileLock' = t /\ Goes(t, "read") /\ UNCHANGED lost
  <2>. DEFINE w == [threads[t] EXCEPT !.pc = "read"]
  <2>1. w \in Calls /\ threads' = [threads EXCEPT ![t] = w] /\ threads'[t] = w
    BY <1>1, <1>4, Rely DEF Goes, Calls
  <2>2. \A u \in AuthThreads : threads[u].pc \notin {"read", "write"}
    BY <1>4, Rely, AuthTypes DEF Takes
  <2>3. (HasFresh(t)' => HasFresh(t) /\ w.fresh = threads[t].fresh) /\ (Delivers(t) => Delivers(t)')
    BY <1>1, <2>1 DEF HasFresh, Delivers, InCycle, Refreshes, Calls
  <2>4. Sound(t)'
    BY <1>1, <1>2, <1>4, <2>1 DEF Sound, CallIsSound, LocksAreHeld, InCycle, FreshIsSound, HasFresh,
       SignOutIsSound, Refreshes, Me, Calls
  <2>. HIDE DEF w
  <2>. QED BY <1>2, <1>4, <2>1, <2>2, <2>3, <2>4, CallGoes, Rely
<1>. QED BY <1>3, <1>4 DEF LockFile

\* The lifecycle lock is released.
LEMMA ReleaseAuthKeeps ==
  ASSUME AuthInv, NEW t \in AuthThreads, ReleaseAuth(t)
  PROVE  AuthInv'
<1>1. threads[t] \in Calls /\ threads[t].pc = "release" /\ Sound(t)
  BY Rely DEF ReleaseAuth
<1>2. UNCHANGED <<tokenFile, fileLock, granted, authOps, mcpSaved, lost, rejected>>
  BY DEF ReleaseAuth
<1>3. PICK w \in Calls : /\ threads' = [threads EXCEPT ![t] = w]
                         /\ \/ w = Still
                            \/ /\ threads[t].op = "authorize" /\ threads[t].ok /\ threads[t].stage < 2
                               /\ \/ threads[t].stage = 0 /\ w = [threads[t] EXCEPT !.pc = "browser"]
                                  \/ w = [threads[t] EXCEPT !.pc = "exchange"]
  <2>1. [threads[t] EXCEPT !.pc = "browser"] \in Calls /\ [threads[t] EXCEPT !.pc = "exchange"] \in Calls
    BY <1>1 DEF Calls
  <2>. QED BY <2>1, AuthTypes DEF ReleaseAuth, AuthEnds, Goes
<1>4. threads'[t] = w
  BY <1>3, Rely
<1>5. cycleLock' \in AuthThreads \cup {None} /\ \A u \in AuthThreads \ {t} : InCycle(u) => cycleLock' = u
  BY Rely DEF ReleaseAuth
<1>6. /\ auth' \in [AuthProcs -> Auths]
      /\ \A p \in AuthProcs : auth'[p].revision = auth[p].revision /\ auth'[p].signedOut <= auth'[p].revision
      /\ \/ \A p \in AuthProcs : auth'[p].signedOut = auth[p].signedOut
         \/ tokenFile.token = 0 /\ \A u \in AuthThreads \ {t} : ~InCycle(u)
  <2>1. CASE auth' = auth
    BY <2>1, Rely, ServerFacts
  <2>2. CASE threads[t].op = "signOut" /\ threads[t].ok /\ auth' = [auth EXCEPT ![Owner(t)].signedOut = threads[t].rev]
    <3>1. /\ Owner(t) \in AuthProcs /\ threads[t].rev \in Nat /\ threads[t].rev <= auth[Owner(t)].revision
          /\ tokenFile.token = 0 /\ InCycle(t)
      BY <1>1, <2>2, AuthTypes DEF Calls, Sound, CallIsSound, SignOutIsSound, Me, InCycle
    <3>2. /\ auth' \in [AuthProcs -> Auths]
          /\ \A p \in AuthProcs : auth'[p].revision = auth[p].revision /\ auth'[p].signedOut <= auth'[p].revision
      BY <2>2, <3>1, Rely, ServerFacts DEF Auths
    <3>3. \A u \in AuthThreads \ {t} : ~InCycle(u)
      BY <3>1, Rely
    <3>. QED BY <3>1, <3>2, <3>3
  <2>. QED BY <2>1, <2>2 DEF ReleaseAuth
<1>7. \/ w.op = "none" /\ w.pc = "idle" /\ w.rev = 0 /\ w.fresh = 0 /\ w.stage = 0
      \/ /\ w.op = "authorize" /\ w.stage < 2 /\ w.pc \in {"browser", "exchange"} /\ w.rev = threads[t].rev
         /\ w.fresh = threads[t].fresh

  BY <1>3 DEF Still, Calls
<1>8. ~HasFresh(t)' /\ ~Delivers(t)
  BY <1>1, <1>4, <1>7 DEF HasFresh, Delivers
<1>9. CallIsSound(t)'
  <2>1. w.rev \in Nat /\ w.rev <= auth'[Owner(t)].revision
    BY <1>1, <1>6, <1>7, ServerFacts, AuthTypes DEF Sound, CallIsSound, Calls, Me
  <2>2. Me(t)' = auth'[Owner(t)]
    BY DEF Me, Owner
  <2>3. threads[t].op = "authorize" /\ threads[t].stage < 2 => threads[t].fresh = 0
    BY <1>1 DEF Sound, CallIsSound, Refreshes
  <2>. QED BY <1>3, <1>4, <1>7, <2>1, <2>2, <2>3 DEF CallIsSound, Refreshes, Calls, Still
<1>10. LocksAreHeld(t)' /\ FreshIsSound(t)' /\ SignOutIsSound(t)'
  BY <1>4, <1>7, <1>8 DEF LocksAreHeld, InCycle, FreshIsSound, SignOutIsSound, Refreshes
<1>11. \A p \in AuthProcs : auth[p].revision <= auth'[p].revision
  BY <1>6, ServerFacts
<1>. QED BY <1>2, <1>3, <1>5, <1>6, <1>8, <1>9, <1>10, <1>11, CallMoves, Rely DEF Sound

\* A process closes its authorization: every call of it is out of date.
LEMMA CloseAuthKeeps ==
  ASSUME AuthInv, NEW p \in AuthProcs, CloseAuth(p)
  PROVE  AuthInv'
<1>1. PICK t \in AuthThreads : Owner(t) = p
  BY DEF CloseAuth, InCall
<1>2. UNCHANGED <<tokenFile, fileLock, cycleLock, threads, granted, authOps, mcpSaved, lost, rejected>>
  BY DEF CloseAuth
<1>. DEFINE w == threads[t]
<1>3. w \in Calls /\ threads' = [threads EXCEPT ![t] = w] /\ Sound(t)
  BY <1>2, Rely
<1>4. /\ auth' \in [AuthProcs -> Auths]
      /\ \A q \in AuthProcs : auth'[q].signedOut = auth[q].signedOut /\ auth[q].revision <= auth'[q].revision /\ auth'[q].signedOut <= auth'[q].revision
  BY Rely DEF CloseAuth, Auths
<1>5. Sound(t)'
  <2>1. w.rev <= auth'[Owner(t)].revision
    <3>1. Owner(t) = p /\ w.rev \in Nat /\ auth[p].revision \in Nat /\ auth'[p].revision \in Nat /\ auth[p].revision <= auth'[p].revision
      BY <1>1, <1>3, <1>4, ServerFacts DEF Calls, Auths
    <3>2. w.rev <= auth[p].revision
      BY <1>1, <1>3 DEF Sound, CallIsSound, Me
    <3>. QED BY <3>1, <3>2
  <2>. QED BY <1>2, <1>3, <1>4, <2>1 DEF Sound, CallIsSound, LocksAreHeld, InCycle, FreshIsSound, HasFresh,
              SignOutIsSound, Refreshes, Me
<1>6. (HasFresh(t)' => HasFresh(t)) /\ (Delivers(t) => Delivers(t)')
  BY <1>2 DEF HasFresh, Delivers, InCycle, Refreshes
<1>. QED BY <1>2, <1>3, <1>4, <1>5, <1>6, CallMoves, Rely

\* What the server's tokens are.
LEMMA ServerTypes ==
  ASSUME AuthInv
  PROVE  /\ granted.next \in Nat \ {0} /\ MaxTokens \in Nat /\ granted.used \subseteq Tokens
         /\ tokenFile.token \in 0..MaxTokens /\ tokenFile.token < granted.next
         /\ granted.used \subseteq 1..(granted.next - 1) /\ granted.valid \subseteq Tokens
         /\ granted.of \in [Tokens -> (AuthProcs \cup {0}) \X Nat]
         /\ (granted.next <= MaxTokens => /\ granted.next \in Tokens /\ granted.next \in 0..MaxTokens
                                          /\ granted.next + 1 \in 1..(MaxTokens + 1))
<1>1. MaxTokens \in Nat /\ granted \in Grants /\ tokenFile \in Files
  BY Rely, AuthAssumption
<1>2. /\ granted.next \in 1..(MaxTokens + 1) /\ granted.used \subseteq Tokens /\ granted.valid \subseteq Tokens
      /\ granted.of \in [Tokens -> (AuthProcs \cup {0}) \X Nat] /\ tokenFile.token \in 0..MaxTokens
  BY <1>1 DEF Grants, Files
<1>3. tokenFile.token < granted.next /\ granted.used \subseteq 1..(granted.next - 1)
  BY DEF AuthInv, ServerIsSound
<1>. QED BY <1>1, <1>2, <1>3 DEF Tokens

\* The server issues a token, which is nobody else's.
LEMMA ServerIssues ==
  ASSUME AuthInv, NEW t \in AuthThreads, NEW w \in Calls, NEW v \in (AuthProcs \cup {0}) \X Nat,
         threads' = [threads EXCEPT ![t] = w],
         UNCHANGED <<tokenFile, fileLock, cycleLock, auth, authOps, mcpSaved, rejected>>,
         granted.next <= MaxTokens, granted' \in Grants, granted'.next = granted.next + 1,
         granted'.of = [granted.of EXCEPT ![granted.next] = v],
         granted'.used \subseteq granted.used \cup {tokenFile.token},
         lost' \in BOOLEAN, lost => lost',
         HasFresh(t)' => /\ w.fresh = granted.next
                         /\ (w.op = "authorize" => v = <<Owner(t), w.rev>>)
                         /\ \/ w.pc = "lock"
                            \/ v = granted.of[tokenFile.token] /\ tokenFile.token # 0,
         \/ granted'.used = granted.used
         \/ lost' \/ Delivers(t)',
         ~Delivers(t), w.pc # "request", Refreshes(t)' => tokenFile.client = "registered",
         CallIsSound(t)', LocksAreHeld(t)', SignOutIsSound(t)'
  PROVE  AuthInv'
<1>. DEFINE n == granted.next
<1>1. /\ n \in Nat \ {0} /\ n \in Tokens /\ granted.used \subseteq Tokens
      /\ tokenFile.token \in 0..MaxTokens /\ tokenFile.token < n /\ granted.used \subseteq 1..(n - 1)
      /\ granted'.next = n + 1 /\ granted.of \in [Tokens -> (AuthProcs \cup {0}) \X Nat]
      /\ granted'.used \subseteq Tokens
  <2>1. granted'.next = n + 1 /\ granted'.used \subseteq Tokens
    BY DEF Grants
  <2>. QED BY ServerTypes, <2>1
<1>2. granted'.of[n] = v /\ \A x \in Tokens : x # n => granted'.of[x] = granted.of[x]
  BY <1>1
<1>3. threads'[t] = w /\ \A u \in AuthThreads : u # t => threads'[u] = threads[u]
  BY Rely
<1>4. \A u \in AuthThreads : /\ Sound(u) /\ threads[u] \in Calls
                             /\ (HasFresh(u) => threads[u].fresh \in Tokens /\ threads[u].fresh < n)
  BY Rely DEF Sound, FreshIsSound, HasFresh, Calls, Tokens
<1>5. AuthTypeOK'
  BY Rely DEF AuthTypeOK, Calls, Auths, Grants
<1>6. \A u \in AuthThreads : u # t => (HasFresh(u)' <=> HasFresh(u)) /\ (Delivers(u)' <=> Delivers(u)) /\ (InCycle(u)' <=> InCycle(u))
  BY DEF HasFresh, Delivers, InCycle, Refreshes
<1>7. SignOutStands'
  <2>1. tokenFile.token # 0 => tokenFile.token \in Tokens /\ tokenFile.token # n
    BY <1>1 DEF Tokens
  <2>. QED BY <2>1 DEF AuthInv, SignOutStands
<1>8. ASSUME NEW u \in AuthThreads, u # t
      PROVE  Sound(u)'
  <2>1. CallIsSound(u)' /\ LocksAreHeld(u)' /\ SignOutIsSound(u)'
    BY <1>3, <1>4, <1>6 DEF Sound, CallIsSound, LocksAreHeld, SignOutIsSound, Refreshes, Me
  <2>2. ASSUME HasFresh(u)
        PROVE  /\ threads[u].fresh < n + 1 /\ threads[u].fresh \notin granted'.used /\ threads[u].fresh # tokenFile.token
               /\ granted'.of[threads[u].fresh] = granted.of[threads[u].fresh]
               /\ \A x \in AuthThreads : HasFresh(x)' /\ x # u => threads'[x].fresh # threads[u].fresh
    <3>1. /\ threads[u].fresh \in Tokens /\ threads[u].fresh < n /\ threads[u].fresh \notin granted.used
          /\ threads[u].fresh # tokenFile.token
          /\ \A x \in AuthThreads : HasFresh(x) /\ x # u => threads[x].fresh # threads[u].fresh
      BY <1>4, <2>2 DEF Sound, FreshIsSound
    <3>2. threads[u].fresh < n + 1 /\ threads[u].fresh # n
      BY <3>1, <1>1 DEF Tokens
    <3>. QED BY <1>2, <1>3, <1>6, <3>1, <3>2
  <2>3. FreshIsSound(u)'
    BY <1>1, <1>3, <1>4, <1>6, <1>8, <2>2 DEF Sound, FreshIsSound, Refreshes, Owner
  <2>. QED BY <2>1, <2>3 DEF Sound
<1>9. FreshIsSound(t)'
  <2>1. ASSUME HasFresh(t)'
        PROVE  /\ n < n + 1 /\ n \notin granted'.used /\ n # tokenFile.token
               /\ \A u \in AuthThreads : HasFresh(u)' /\ u # t => threads'[u].fresh # n
    BY <1>1, <1>3, <1>4, <1>6
  <2>2. ASSUME HasFresh(t)', w.pc # "lock", NEW p \in AuthProcs, v[1] = p
        PROVE  v[2] >= auth[p].signedOut
    BY <2>2 DEF AuthInv, SignOutStands
  <2>3. HasFresh(t)' => w.fresh = n /\ (w.op = "authorize" => v = <<Owner(t), w.rev>>)
    OBVIOUS
  <2>. HIDE DEF n
  <2>. QED BY <1>1, <1>2, <1>3, <2>1, <2>2, <2>3 DEF FreshIsSound, Refreshes, Owner
<1>10. UseIsKnown'
  <2>1. ASSUME ~lost', tokenFile.token \in granted'.used
        PROVE  \E u \in AuthThreads : Delivers(u)'
    <3>1. CASE tokenFile.token \in granted.used
      <4>1. PICK u \in AuthThreads : Delivers(u)
        BY <2>1, <3>1 DEF AuthInv, UseIsKnown, Delivers
      <4>. QED BY <4>1, <1>6
    <3>. QED BY <2>1, <3>1
  <2>. QED BY <2>1 DEF UseIsKnown, Delivers
<1>11. ServerIsSound' /\ TokensAreUsedOnce' /\ NoMutationIsLost' /\ TokensAreRegistered'
  <2>1. tokenFile.token < n + 1 /\ granted'.used \subseteq 1..n
    BY <1>1 DEF Tokens
  <2>2. (n + 1) - 1 = n
    BY <1>1
  <2>. QED BY <1>1, <2>1 DEF AuthInv, ServerIsSound, TokensAreUsedOnce, NoMutationIsLost, TokensAreRegistered
<1>. QED BY <1>5, <1>7, <1>8, <1>9, <1>10, <1>11 DEF AuthInv, Sound

\* The server rotates the token of the file.
LEMMA RotatedKeeps ==
  ASSUME AuthInv, NEW t \in AuthThreads, Rotated(t)
  PROVE  AuthInv'
<1>. DEFINE n == granted.next
            old == threads[t].before
            kept == [threads[t] EXCEPT !.fresh = n, !.pc = "file"]
            missed == [threads[t] EXCEPT !.pc = "release"]
<1>1. /\ threads[t] \in Calls /\ threads[t].pc = "request" /\ Sound(t) /\ Refreshes(t) /\ InCycle(t) /\ ~Delivers(t)
      /\ old = tokenFile.token /\ tokenFile.client = "registered" /\ old \in granted.valid /\ n <= MaxTokens
  BY Rely DEF Rotated, Sound, CallIsSound, FreshIsSound, InCycle, Refreshes, Delivers, HasFresh
<1>2. /\ n \in 0..MaxTokens /\ n \in Tokens /\ old \in Tokens /\ old # 0 /\ n + 1 \in 1..(MaxTokens + 1)
      /\ granted \in Grants /\ granted.of[old] \in (AuthProcs \cup {0}) \X Nat
  <2>1. old \in Tokens /\ old # 0
    BY <1>1, ServerTypes DEF Tokens
  <2>2. granted \in Grants /\ n \in Tokens /\ n \in 0..MaxTokens /\ n + 1 \in 1..(MaxTokens + 1)
    BY <1>1, ServerTypes, Rely
  <2>. QED BY <2>1, <2>2, ServerTypes
<1>3. /\ granted'.next = n + 1 /\ granted'.of = [granted.of EXCEPT ![n] = granted.of[old]]
      /\ granted'.used = granted.used \cup {old} /\ granted'.valid = (granted.valid \ {old}) \cup {n}
      /\ granted' = [valid |-> granted'.valid, used |-> granted'.used, next |-> granted'.next, of |-> granted'.of]
  BY <1>2 DEF Rotated, Grants
<1>4. granted' \in Grants
  BY <1>2, <1>3 DEF Grants
<1>5. UNCHANGED <<tokenFile, fileLock, cycleLock, auth, authOps, mcpSaved, rejected>>
  BY DEF Rotated
<1>6. PICK w \in Calls : /\ threads' = [threads EXCEPT ![t] = w]
                         /\ \/ w = kept /\ UNCHANGED lost
                            \/ w = missed /\ lost' = TRUE
  <2>1. kept \in Calls /\ missed \in Calls
    BY <1>1, <1>2 DEF Calls
  <2>. QED BY <2>1 DEF Rotated, Goes
<1>7. /\ threads'[t] = w /\ w.op = threads[t].op /\ w.rev = threads[t].rev /\ w.stage = threads[t].stage
      /\ \/ w.pc = "file" /\ w.fresh = n /\ UNCHANGED lost
         \/ w.pc = "release" /\ w.fresh = threads[t].fresh /\ lost' = TRUE
  BY <1>1, <1>6, Rely DEF Calls
<1>8. (HasFresh(t)' => w.pc = "file" /\ w.fresh = n) /\ (lost' \/ Delivers(t)') /\ w.pc # "request"
      /\ w.op # "authorize" /\ lost' \in BOOLEAN /\ (lost => lost')
  <2>1. n # 0 /\ lost \in BOOLEAN /\ threads[t].op \in {"refresh", "forced"}
    BY <1>1, ServerTypes, Rely DEF Refreshes
  <2>2. CASE w.pc = "file" /\ w.fresh = n /\ UNCHANGED lost
    BY <1>7, <2>1 DEF HasFresh, Delivers, Refreshes, InCycle
  <2>3. CASE w.pc = "release" /\ w.fresh = threads[t].fresh /\ lost' = TRUE
    BY <1>7, <2>1, <2>3 DEF HasFresh
  <2>. QED BY <1>7, <2>2, <2>3
<1>. HIDE DEF kept, missed
<1>9. CallIsSound(t)' /\ LocksAreHeld(t)' /\ SignOutIsSound(t)'
  BY <1>1, <1>5, <1>7 DEF Sound, CallIsSound, LocksAreHeld, InCycle, SignOutIsSound, Refreshes, Me, Owner
<1>. QED BY <1>1, <1>2, <1>3, <1>4, <1>5, <1>6, <1>8, <1>9, ServerIssues

\* A code is exchanged for a token.
LEMMA ExchangedKeeps ==
  ASSUME AuthInv, NEW t \in AuthThreads, Exchanged(t)
  PROVE  AuthInv'
<1>. DEFINE n == granted.next
            v == <<Owner(t), threads[t].rev>>
            w == [threads[t] EXCEPT !.fresh = n, !.stage = 2, !.pc = "lock"]
<1>1. /\ threads[t] \in Calls /\ threads[t].pc = "exchange" /\ Sound(t) /\ threads[t].op = "authorize"
      /\ ~Delivers(t) /\ n <= MaxTokens
  BY Rely DEF Exchanged, Sound, CallIsSound, Refreshes, Delivers, InCycle, Calls
<1>2. /\ n \in 0..MaxTokens /\ n \in Tokens /\ n + 1 \in 1..(MaxTokens + 1)
      /\ granted \in Grants /\ v \in (AuthProcs \cup {0}) \X Nat
  <2>1. granted \in Grants /\ n \in Tokens /\ n \in 0..MaxTokens /\ n + 1 \in 1..(MaxTokens + 1)
    BY <1>1, ServerTypes, Rely
  <2>. QED BY <1>1, <2>1, AuthTypes DEF Calls
<1>3. /\ granted'.next = n + 1 /\ granted'.of = [granted.of EXCEPT ![n] = v]
      /\ granted'.used = granted.used /\ granted'.valid = granted.valid \cup {n}
      /\ granted' = [valid |-> granted'.valid, used |-> granted'.used, next |-> granted'.next, of |-> granted'.of]
  BY <1>2 DEF Exchanged, Grants
<1>4. granted' \in Grants
  BY <1>2, <1>3 DEF Grants
<1>5. UNCHANGED <<tokenFile, fileLock, cycleLock, auth, authOps, mcpSaved, lost, rejected>>
  BY DEF Exchanged
<1>6. w \in Calls /\ threads' = [threads EXCEPT ![t] = w] /\ threads'[t] = w
  BY <1>1, Rely DEF Exchanged, Calls
<1>7. w.op = "authorize" /\ w.pc = "lock" /\ w.rev = threads[t].rev /\ w.stage = 2 /\ w.fresh = n /\ n # 0
  BY <1>1, ServerTypes DEF Calls
<1>. HIDE DEF w
<1>8. CallIsSound(t)' /\ LocksAreHeld(t)' /\ SignOutIsSound(t)' /\ ~Refreshes(t)'
  BY <1>1, <1>2, <1>5, <1>6, <1>7 DEF Sound, CallIsSound, LocksAreHeld, InCycle, SignOutIsSound, Refreshes,
     Me, Owner
<1>. QED BY <1>1, <1>2, <1>3, <1>4, <1>5, <1>6, <1>7, <1>8, ServerIssues, Rely

\* The file is written.
LEMMA StoredKeeps ==
  ASSUME AuthInv, NEW t \in AuthThreads, threads[t].pc = "write", UNCHANGED <<cycleLock, auth, granted, authOps, rejected, lost>>,
         fileLock' = IF fileLock = t THEN None ELSE fileLock,
         tokenFile' = Updated(t), Goes(t, "release"),
         mcpSaved' = IF threads[t].op = "mcp" THEN 1 - mcpSaved ELSE mcpSaved
  PROVE  AuthInv'
<1>. DEFINE f == Updated(t)
            w == [threads[t] EXCEPT !.pc = "release"]
<1>1. /\ threads[t] \in Calls /\ Sound(t) /\ threads[t].copy = tokenFile /\ tokenFile \in Files /\ fileLock = t
      /\ threads[t].op \in {"refresh", "forced", "authorize", "signOut", "mcp"}
  BY Rely DEF Sound, CallIsSound, LocksAreHeld, Calls
<1>2. /\ f \in Files /\ f.mcp = mcpSaved' /\ mcpSaved' \in 0..1
      /\ \/ f.token = tokenFile.token \/ f.token = 0
         \/ HasFresh(t) /\ f.token = threads[t].fresh
      /\ (tokenFile.client = "registered" => f.client = "registered")
      /\ (threads[t].op = "mcp" => f.token = tokenFile.token)
      /\ (threads[t].op = "signOut" => f.token = 0)
      /\ (Refreshes(t) => f.token = threads[t].fresh)
      /\ (f.token # 0 => f.client = "registered")
  <2>1. /\ mcpSaved \in 0..1 /\ tokenFile.mcp = mcpSaved /\ (tokenFile.token # 0 => tokenFile.client = "registered")
        /\ (Refreshes(t) => tokenFile.client = "registered") /\ (threads[t].fresh # 0 => HasFresh(t))
    BY Rely DEF AuthInv, NoMutationIsLost, TokensAreRegistered, Sound, FreshIsSound, HasFresh
  <2>2. CASE threads[t].op = "mcp"
    BY <1>1, <2>1, <2>2 DEF Updated, Files, Refreshes
  <2>3. CASE threads[t].op = "signOut"
    BY <1>1, <2>1, <2>3, AuthAssumption DEF Updated, Files, Refreshes
  <2>4. CASE Refreshes(t)
    BY <1>1, <2>1, <2>4 DEF Updated, Files, Refreshes, Calls
  <2>5. CASE threads[t].op = "authorize"
    BY <1>1, <2>1, <2>5 DEF Updated, Files, Refreshes, Calls
  <2>. QED BY <1>1, <2>2, <2>3, <2>4, <2>5 DEF Refreshes
<1>3. /\ w \in Calls /\ threads'[t] = w /\ (\A u \in AuthThreads : u # t => threads'[u] = threads[u])
      /\ threads' \in [AuthThreads -> Calls] /\ tokenFile' = f
      /\ w.op = threads[t].op /\ w.pc = "release" /\ w.rev = threads[t].rev /\ w.stage = threads[t].stage
      /\ w.fresh = threads[t].fresh
  BY Rely DEF Goes, Calls
<1>. HIDE DEF f, w
<1>4. fileLock' = None /\ \A u \in AuthThreads : u # t => threads[u].pc \notin {"read", "write"}
  BY <1>1, Rely
<1>5. AuthTypeOK'
  BY <1>2, <1>3, <1>4, Rely DEF AuthTypeOK, Calls, Auths, Grants
<1>6. \A u \in AuthThreads : u # t => (HasFresh(u)' <=> HasFresh(u)) /\ (Delivers(u)' <=> Delivers(u)) /\ (InCycle(u)' <=> InCycle(u))
  BY <1>3 DEF HasFresh, Delivers, InCycle, Refreshes
<1>7. ~HasFresh(t)'
  BY <1>3 DEF HasFresh
<1>8. \A u \in AuthThreads : u # t /\ InCycle(u) => f.token = tokenFile.token
  BY <1>1, <1>2, Rely DEF InCycle
<1>9. ASSUME NEW u \in AuthThreads, u # t
      PROVE  Sound(u)'
  <2>1. Sound(u) /\ threads'[u] = threads[u]
    BY <1>3, <1>9, Rely
  <2>2. CallIsSound(u)' /\ LocksAreHeld(u)'
    BY <1>4, <1>6, <1>9, <2>1 DEF Sound, CallIsSound, LocksAreHeld, Refreshes, Me
  <2>3. SignOutIsSound(u)'
    BY <1>3, <1>8, <2>1 DEF Sound, SignOutIsSound, InCycle
  <2>4. threads[u].pc = "request" => f.token = tokenFile.token
    BY <1>8, <2>1 DEF Sound, CallIsSound, InCycle, Refreshes
  <2>5. ASSUME HasFresh(u)
        PROVE  threads[u].fresh # f.token
    BY <1>2, <1>9, <2>1, <2>5 DEF Sound, FreshIsSound, HasFresh
  <2>6. \A x \in AuthThreads : HasFresh(x)' => HasFresh(x) /\ threads'[x].fresh = threads[x].fresh
    BY <1>3, <1>6, <1>7
  <2>7. FreshIsSound(u)'
    BY <1>2, <1>3, <1>6, <1>9, <2>1, <2>4, <2>5, <2>6 DEF Sound, FreshIsSound, Refreshes, Owner
  <2>. QED BY <2>2, <2>3, <2>7 DEF Sound
<1>10. Sound(t)'
  <2>1. CallIsSound(t)'
    BY <1>1, <1>3 DEF Sound, CallIsSound, Refreshes, Me, Owner
  <2>2. LocksAreHeld(t)' /\ FreshIsSound(t)' /\ SignOutIsSound(t)'
    BY <1>1, <1>2, <1>3, <1>7 DEF Sound, LocksAreHeld, InCycle, FreshIsSound, SignOutIsSound
  <2>. QED BY <2>1, <2>2 DEF Sound
<1>11. UseIsKnown'
  <2>1. ASSUME ~lost, f.token \in granted.used
        PROVE  \E u \in AuthThreads : Delivers(u)'
    <3>1. f.token = tokenFile.token /\ f.token # 0
      BY <1>1, <1>2, <2>1, Rely DEF Sound, FreshIsSound, Grants, Tokens
    <3>2. PICK u \in AuthThreads : Delivers(u)
      BY <2>1, <3>1 DEF AuthInv, UseIsKnown, Delivers
    <3>3. u # t
      BY <1>1, <1>2, <2>1, <3>2 DEF Delivers, Sound, FreshIsSound
    <3>. QED BY <1>6, <3>2, <3>3
  <2>. QED BY <1>3, <2>1 DEF UseIsKnown, Delivers
<1>12. ServerIsSound' /\ TokensAreUsedOnce' /\ NoMutationIsLost' /\ TokensAreRegistered'
  <2>1. f.token < granted.next
    BY <1>1, <1>2, Rely DEF AuthInv, ServerIsSound, Sound, FreshIsSound, Grants
  <2>. QED BY <1>2, <1>3, <2>1 DEF AuthInv, ServerIsSound, TokensAreUsedOnce, NoMutationIsLost,
              TokensAreRegistered
<1>13. SignOutStands'
  BY <1>1, <1>2, <1>3 DEF AuthInv, SignOutStands, Sound, FreshIsSound
<1>. QED BY <1>5, <1>9, <1>10, <1>11, <1>12, <1>13 DEF AuthInv, Sound

LEMMA WriteTokensKeeps ==
  ASSUME AuthInv, NEW t \in AuthThreads, WriteTokens(t)
  PROVE  AuthInv'
<1>1. threads[t].pc = "write" /\ fileLock' = (IF fileLock = t THEN None ELSE fileLock)
  BY DEF WriteTokens
<1>2. CASE tokenFile' = Updated(t) /\ Goes(t, "release") /\ UNCHANGED lost
            /\ mcpSaved' = IF threads[t].op = "mcp" THEN 1 - mcpSaved ELSE mcpSaved
  BY <1>1, <1>2, StoredKeeps DEF WriteTokens
<1>3. CASE NotStored(t) /\ UNCHANGED <<tokenFile, mcpSaved>>
  <2>1. /\ fileLock' \in AuthThreads \cup {None} /\ fileLock = t
        /\ \A u \in AuthThreads \ {t} : threads[u].pc \in {"read", "write"} => fileLock' = u
    BY <1>1, Rely
  <2>. QED BY <1>1, <1>3, <2>1, NotStoredKeeps DEF WriteTokens
<1>. QED BY <1>2, <1>3 DEF WriteTokens

\* A process dies with its calls: an answer it held is lost.
LEMMA ProcessDiesKeeps ==
  ASSUME AuthInv, NEW p \in AuthProcs, ProcessDies(p)
  PROVE  AuthInv'
<1>. DEFINE c == [Still EXCEPT !.pc = "crashed"]
<1>1. c \in Calls /\ c.op = "none" /\ c.pc = "crashed" /\ c.fresh = 0 /\ c.rev = 0 /\ c.stage = 0
  BY AuthTypes DEF Calls, Still
<1>2. \A u \in AuthThreads : threads'[u] = IF Owner(u) = p THEN c ELSE threads[u]
  BY DEF ProcessDies
<1>3. threads' \in [AuthThreads -> Calls]
  BY <1>1, Rely DEF ProcessDies
<1>. HIDE DEF c
<1>4. /\ UNCHANGED <<tokenFile, fileLock, cycleLock, auth, granted, authOps, mcpSaved, rejected>>
      /\ lost' \in BOOLEAN /\ (lost => lost')
      /\ \A u \in AuthThreads : Delivers(u) /\ Owner(u) = p => lost'
  BY DEF ProcessDies, Delivers, HasFresh
<1>5. AuthTypeOK'
  BY <1>3, <1>4, Rely DEF AuthTypeOK, Calls, Auths, Grants
<1>6. \A u \in AuthThreads : HasFresh(u)' => HasFresh(u) /\ threads'[u] = threads[u]
  BY <1>1, <1>2 DEF HasFresh
<1>7. ASSUME NEW u \in AuthThreads
      PROVE  Sound(u)'
  <2>1. CASE Owner(u) = p
    <3>1. threads'[u] = c /\ Me(u)'.revision \in Nat
      BY <1>2, <1>4, <2>1, ServerFacts DEF Me, Owner
    <3>. QED BY <1>1, <3>1 DEF Sound, CallIsSound, LocksAreHeld, InCycle, FreshIsSound, HasFresh,
                SignOutIsSound, Refreshes
  <2>2. CASE Owner(u) # p
    <3>1. threads'[u] = threads[u] /\ Sound(u)
      BY <1>2, <2>2, Rely
    <3>. QED BY <1>4, <1>6, <3>1 DEF Sound, CallIsSound, LocksAreHeld, InCycle, FreshIsSound, HasFresh,
                SignOutIsSound, Refreshes, Me, Owner
  <2>. QED BY <2>1, <2>2
<1>8. UseIsKnown'
  <2>1. \A u \in AuthThreads : Delivers(u) => lost' \/ Delivers(u)'
    BY <1>2, <1>4 DEF Delivers, HasFresh, InCycle, Refreshes
  <2>. QED BY <1>4, <2>1 DEF AuthInv, UseIsKnown, Delivers
<1>9. ServerIsSound' /\ TokensAreUsedOnce' /\ NoMutationIsLost' /\ SignOutStands' /\ TokensAreRegistered'
  BY <1>4 DEF AuthInv, ServerIsSound, TokensAreUsedOnce, NoMutationIsLost, SignOutStands, TokensAreRegistered
<1>. QED BY <1>5, <1>7, <1>8, <1>9 DEF AuthInv, Sound

LEMMA AuthStarts == AuthInit => AuthInv
<1>. SUFFICES ASSUME AuthInit PROVE AuthInv
  OBVIOUS
<1>1. MaxTokens \in Nat \ {0} /\ MaxAuthOps \in Nat /\ None = <<0, 0>>
  BY AuthAssumption DEF None
<1>2. /\ threads = [t \in AuthThreads |-> Still] /\ Still \in Calls
      /\ Still.op = "none" /\ Still.pc = "idle" /\ Still.fresh = 0 /\ Still.rev = 0 /\ Still.stage = 0
  BY AuthTypes DEF AuthInit, Still
<1>3. /\ tokenFile \in Files /\ tokenFile.token \in {0, 1} /\ tokenFile.mcp = 0
      /\ (tokenFile.token # 0 => tokenFile.client = "registered")
  BY <1>1 DEF AuthInit, Files
<1>4. /\ granted \in Grants /\ granted.used = {} /\ granted.next = 2 /\ \A x \in Tokens : granted.of[x] = None
      /\ 1 \in Tokens
  <2>1. 1 \in Tokens /\ None \in (AuthProcs \cup {0}) \X Nat /\ 2 \in 1..(MaxTokens + 1)
    BY <1>1 DEF Tokens
  <2>. QED BY <2>1 DEF AuthInit, Grants
<1>5. /\ auth \in [AuthProcs -> Auths]
      /\ \A p \in AuthProcs : auth[p].revision = 0 /\ auth[p].signedOut = 0 /\ p # 0
  BY AuthAssumption DEF AuthInit, Auths, AuthProcs
<1>6. AuthTypeOK
  <2>1. threads \in [AuthThreads -> Calls]
    BY <1>2
  <2>2. fileLock = None /\ cycleLock = None /\ authOps \in 0..MaxAuthOps /\ mcpSaved \in 0..1
    BY <1>1 DEF AuthInit
  <2>3. lost \in BOOLEAN /\ rejected \in BOOLEAN
    BY DEF AuthInit
  <2>. QED BY <1>3, <1>4, <1>5, <2>1, <2>2, <2>3, AuthTypes
<1>7. \A t \in AuthThreads : Sound(t)
  <2>1. \A t \in AuthThreads : threads[t] = Still /\ Me(t).revision = 0
    BY <1>2, <1>5, AuthTypes DEF Me
  <2>. QED BY <1>2, <2>1 DEF Sound, CallIsSound, LocksAreHeld, InCycle, FreshIsSound, HasFresh,
              SignOutIsSound, Refreshes
<1>8. SignOutStands
  BY <1>1, <1>3, <1>4, <1>5 DEF SignOutStands
<1>9. UseIsKnown /\ ServerIsSound /\ TokensAreUsedOnce /\ NoMutationIsLost /\ TokensAreRegistered
  BY <1>3 DEF AuthInit, UseIsKnown, ServerIsSound, TokensAreUsedOnce, NoMutationIsLost, TokensAreRegistered
<1>. QED BY <1>6, <1>7, <1>8, <1>9 DEF AuthInv, Sound

LEMMA AuthInvStutters ==
  ASSUME AuthInv, UNCHANGED authVars
  PROVE  AuthInv'
<1>. USE DEF authVars
<1>1. \A t \in AuthThreads : Sound(t)'
  <2>1. \A t \in AuthThreads : (HasFresh(t)' <=> HasFresh(t)) /\ Sound(t)
    BY DEF HasFresh, AuthInv, Sound
  <2>. QED BY <2>1 DEF Sound, CallIsSound, LocksAreHeld, InCycle, FreshIsSound, SignOutIsSound, Refreshes, Me
<1>2. AuthTypeOK'
  BY DEF AuthInv, AuthTypeOK
<1>3. UseIsKnown' /\ ServerIsSound' /\ TokensAreUsedOnce' /\ NoMutationIsLost' /\ SignOutStands' /\ TokensAreRegistered'
  BY DEF AuthInv, UseIsKnown, ServerIsSound, TokensAreUsedOnce, NoMutationIsLost, SignOutStands,
     TokensAreRegistered, HasFresh, InCycle, Refreshes
<1>. QED BY <1>1, <1>2, <1>3 DEF AuthInv, Sound

LEMMA AuthInvSuffices == AuthInv => AuthIsSafe
<1>1. AuthInv => OneRefreshAtATime
  <2>1. ASSUME AuthInv, NEW t \in AuthThreads, threads[t].pc = "request"
        PROVE  cycleLock = t
    BY <2>1, Rely DEF Sound, CallIsSound, InCycle, Refreshes
  <2>. QED BY <2>1 DEF OneRefreshAtATime
<1>. QED BY <1>1 DEF AuthInv, AuthIsSafe

LEMMA AuthSteps == AuthInv /\ [AuthNext]_authVars => AuthInv'
<1>. SUFFICES ASSUME AuthInv, [AuthNext]_authVars PROVE AuthInv'
  OBVIOUS
<1>1. ASSUME NEW t \in AuthThreads, Proceeds(t)
      PROVE  AuthInv'
  BY <1>1, LoadBeforeKeeps, LockLifecycleKeeps, RefreshSectionKeeps, RotatedKeeps, RequestFailsKeeps,
     RejectedKeeps, AuthorizeSectionKeeps, WaitEndsKeeps, ExchangedKeeps, ExchangeFailsKeeps,
     SignOutSectionKeeps, LockFileKeeps, ReadFileKeeps, WriteTokensKeeps, ReleaseAuthKeeps DEF Proceeds
<1>. QED BY <1>1, BeginKeeps, CalledBackKeeps, CloseAuthKeeps, ProcessDiesKeeps, AuthInvStutters DEF AuthNext

\* Refresh tokens are used once, mutations of the file are kept, and a sign-out
\* stands, in any number of processes that crash and take each other's locks.
THEOREM CodexAuthIsAlwaysSafe == AuthSpec => []AuthIsSafe
  BY AuthStarts, AuthSteps, AuthInvSuffices, PTL DEF AuthSpec

-----------------------------------------------------------------------------
(* McpOAuth: what an authorizer holds, what an operation waits for, and what *)
(* the server knows of its tokens *)

AuthorizerRecords ==
  [discovery : {"none", "running", "unregister", "loading", "dropping", "known"},
   run : {"none", "discover", "register", "refresh", "invalidate", "redirect", "browser", "exchange", "saving"},
   forced : BOOLEAN, scopes : SUBSET Scopes, callback : {"none", "bound", "waiting"},
   interactive : BOOLEAN, client : Nat, token : OAuthTokens, granted : OAuthTokens, last : Nat,
   closing : BOOLEAN, closed : BOOLEAN]
OperationRecords ==
  [phase : {"never", "idle", "token", "refreshing", "authorizing", "granted", "sent", "done",
            "refused", "failed"},
   with : Nat, tries : Nat, bound : BOOLEAN]
CredentialFiles == [token : OAuthTokens, registration : Registrations]
Issuers ==
  [next : Nat \ {0}, valid : SUBSET Nat, expired : SUBSET Nat, refreshes : SUBSET (Nat \ {0}),
   presented : SUBSET (Authorizers \X (Nat \ {0})), lost : SUBSET (Authorizers \X Nat), clients : Nat,
   scopesOf : [0..MaxOAuthTokens -> SUBSET Scopes]]

\* The refresh tokens whose replacement an authorizer has, or is saving.
Replaced == issuer.presented \ issuer.lost

\* What an authorizer holds fits the client it is, and its runs.
AuthorizerIsSound(a) ==
  LET h == authorizer[a]
  IN  /\ h.run \notin {"none", "discover"} => h.discovery = "known"
      /\ h.run = "discover" => h.discovery # "none"
      /\ h.run = "register" => h.client = 0
      /\ h.run \in {"discover", "refresh"} => ~h.interactive
      /\ h.discovery # "known" => h.token.id = 0
      /\ h.run \in {"refresh", "invalidate", "redirect", "browser", "exchange", "saving"} /\ ~h.closed => h.client # 0
      /\ h.closed => h.closing
      /\ ~h.closed /\ h.token.id # 0 =>
           h.token.resource = "this" /\ h.token.client = h.client /\ h.client # 0
      /\ h.run = "saving" =>
           h.granted.resource = "this" /\ h.granted.client # 0 /\ (~h.closed => h.granted.client = h.client)

\* A refresh token it holds is not one that it has replaced: while it saves a
\* replacement, that holds of the new one, and an exchange replaces none.
RefreshIsUnused(a) ==
  LET h == authorizer[a]
  IN  /\ h.discovery # "known" => \A x \in Replaced : x[1] # a
      /\ Rotates /\ h.run # "saving" => <<a, h.token.refresh>> \notin Replaced
      /\ Rotates /\ h.run = "saving" => <<a, h.granted.refresh>> \notin Replaced
      /\ Rotates /\ h.run = "saving" /\ h.interactive => <<a, h.token.refresh>> \notin Replaced

\* What an operation waits for is under way, and what it sent was its own.
OperationIsSound(o) ==
  LET w == operation[o]
      h == authorizer[OwnerOf[o]]
  IN  /\ w.bound
      /\ w.phase = "token" => KindOf[o] \in {"prepare", "request"}
      /\ w.phase \in {"idle", "token", "refreshing"} => w.tries = 0
      /\ w.phase \in {"authorizing", "granted"} => w.tries \in {0, 1}
      /\ w.phase = "sent" => w.tries \in {1, 2}
      /\ w.phase \in {"refreshing", "authorizing"} => h.run # "none"
      /\ w.phase = "token" => h.discovery # "none"
      /\ w.phase = "sent" /\ h.closing => KindOf[o] = "delete"
      /\ KindOf[o] = "request" /\ w.phase = "authorizing" =>
           Configured = NotConfigured \/ NeedOf[o] \subseteq Configured

OAuthTyped ==
  /\ authorizer \in [Authorizers -> AuthorizerRecords]
  /\ operation \in [Operations -> OperationRecords]
  /\ stored \in CredentialFiles
  /\ issuer \in Issuers
FileNamesClients == stored.token.id # 0 => stored.token.client # 0
IssuerIsSound ==
  /\ \A r \in issuer.refreshes : r < issuer.next
  /\ \A x \in Replaced : x[2] < issuer.next

OAuthInv ==
  /\ OAuthTyped /\ FileNamesClients /\ IssuerIsSound
  /\ \A a \in Authorizers : AuthorizerIsSound(a) /\ RefreshIsUnused(a)
  /\ \A o \in Operations : OperationIsSound(o)

USE DEF Replaced

LEMMA OAuthTypes ==
  /\ NoToken \in OAuthTokens /\ NoToken.id = 0 /\ NoToken.refresh = 0
  /\ NoRegistration \in Registrations /\ NoRegistration.client = 0
  /\ \A o \in Operations : OwnerOf[o] \in Authorizers /\ NeedOf[o] \in SUBSET Scopes
                              /\ KindOf[o] \in {"prepare", "request", "authorize", "delete"}
  /\ \A offered \in SUBSET Scopes : ScopesFor(offered) \in SUBSET Scopes
  /\ Supported \in SUBSET Scopes
<1>1. NoToken \in OAuthTokens /\ NoToken.id = 0 /\ NoToken.refresh = 0 /\ NoRegistration \in Registrations /\ NoRegistration.client = 0
  BY DEF NoToken, NoRegistration, OAuthTokens, Registrations
<1>2. \A offered \in SUBSET Scopes : ScopesFor(offered) \in SUBSET Scopes
  BY OAuthAssumption DEF ScopesFor
<1>. QED BY <1>1, <1>2, OAuthAssumption

LEMMA OAuthParts ==
  ASSUME OAuthInv
  PROVE  /\ \A b \in Authorizers : authorizer[b] \in AuthorizerRecords /\ AuthorizerIsSound(b) /\ RefreshIsUnused(b)
         /\ authorizer \in [Authorizers -> AuthorizerRecords]
         /\ \A o \in Operations : operation[o] \in OperationRecords /\ OperationIsSound(o)
         /\ operation \in [Operations -> OperationRecords]
         /\ stored \in CredentialFiles /\ issuer \in Issuers /\ FileNamesClients /\ IssuerIsSound
  BY DEF OAuthInv, OAuthTyped

\* An authorizer goes on: what the others hold is as it was.
LEMMA AuthorizerMoves ==
  ASSUME OAuthInv, NEW a \in Authorizers, NEW f \in AuthorizerRecords,
         authorizer' = [authorizer EXCEPT ![a] = f],
         operation' \in [Operations -> OperationRecords], stored' \in CredentialFiles, FileNamesClients',
         issuer' \in Issuers, IssuerIsSound',
         \A x \in Replaced' : x \in Replaced \/ x[1] = a,
         AuthorizerIsSound(a)', RefreshIsUnused(a)',
         \A o \in Operations : OperationIsSound(o)'
  PROVE  OAuthInv'
<1>1. authorizer' \in [Authorizers -> AuthorizerRecords] /\ \A b \in Authorizers : b # a => authorizer'[b] = authorizer[b]
  BY OAuthParts
<1>2. ASSUME NEW b \in Authorizers, b # a
      PROVE  AuthorizerIsSound(b)' /\ RefreshIsUnused(b)'
  <2>1. \A r \in Nat : <<b, r>> \in Replaced' => <<b, r>> \in Replaced
    BY <1>2
  <2>2. authorizer[b].token.refresh \in Nat /\ authorizer[b].granted.refresh \in Nat
    BY OAuthParts DEF AuthorizerRecords, OAuthTokens
  <2>3. AuthorizerIsSound(b) /\ RefreshIsUnused(b)
    BY OAuthParts
  <2>4. (authorizer[b].discovery # "known" => \A x \in Replaced' : x[1] # b)
    BY <1>2, <2>3 DEF RefreshIsUnused
  <2>. QED BY <1>1, <1>2, <2>1, <2>2, <2>3 DEF AuthorizerIsSound, RefreshIsUnused
<1>. QED BY <1>2 DEF OAuthInv, OAuthTyped

\* It goes on with nobody's operation changed.
LEMMA AuthorizerGoes ==
  ASSUME OAuthInv, NEW a \in Authorizers, NEW f \in AuthorizerRecords,
         authorizer' = [authorizer EXCEPT ![a] = f], UNCHANGED operation,
         f.run # "none" \/ authorizer[a].run = "none", f.discovery # "none" \/ authorizer[a].discovery = "none",
         f.closing = authorizer[a].closing,
         stored' \in CredentialFiles, FileNamesClients', issuer' \in Issuers, IssuerIsSound',
         \A x \in Replaced' : x \in Replaced \/ x[1] = a,
         AuthorizerIsSound(a)', RefreshIsUnused(a)'
  PROVE  OAuthInv'
<1>1. authorizer'[a] = f /\ \A b \in Authorizers : b # a => authorizer'[b] = authorizer[b]
  BY OAuthParts
<1>2. \A o \in Operations : OperationIsSound(o)'
  BY <1>1, OAuthParts DEF OperationIsSound
<1>. QED BY <1>2, OAuthParts, AuthorizerMoves

\* The operations that await a promise are settled together.
LEMMA Settled ==
  ASSUME OAuthInv, NEW a \in Authorizers, NEW phases, NEW to \in {"failed", "granted"}, Settle(a, phases, to)
  PROVE  /\ operation' \in [Operations -> OperationRecords]
         /\ \A o \in Operations :
              /\ operation'[o].bound = operation[o].bound /\ operation'[o].tries = operation[o].tries
              /\ \/ operation'[o].phase = to /\ operation[o].phase \in phases
                 \/ /\ operation'[o].phase = operation[o].phase
                    /\ OwnerOf[o] # a \/ operation[o].phase \notin phases
<1>1. \A o \in Operations : [operation[o] EXCEPT !.phase = to] \in OperationRecords
  BY OAuthParts DEF OperationRecords
<1>2. \A o \in Operations : operation'[o] = IF o \in Waiting(a, phases) THEN [operation[o] EXCEPT !.phase = to] ELSE operation[o]
  BY DEF Settle
<1>3. operation' \in [Operations -> OperationRecords]
  BY <1>1, OAuthParts DEF Settle
<1>4. \A o \in Operations : [operation[o] EXCEPT !.phase = to].phase = to /\ [operation[o] EXCEPT !.phase = to].bound = operation[o].bound
                               /\ [operation[o] EXCEPT !.phase = to].tries = operation[o].tries
  BY OAuthParts DEF OperationRecords
<1>. QED BY <1>2, <1>3, <1>4 DEF Waiting

\* An operation goes on, and may ask its authorizer for a discovery or a run.
LEMMA OperationMoves ==
  ASSUME OAuthInv, NEW o \in Operations, NEW w \in OperationRecords, NEW f \in AuthorizerRecords,
         operation' = [operation EXCEPT ![o] = w], authorizer' = [authorizer EXCEPT ![OwnerOf[o]] = f],
         UNCHANGED <<stored, issuer>>,
         \A field \in {"client", "token", "granted", "closing", "closed"} : f[field] = authorizer[OwnerOf[o]][field],
         \/ f.run = authorizer[OwnerOf[o]].run /\ f.interactive = authorizer[OwnerOf[o]].interactive
         \/ authorizer[OwnerOf[o]].run = "none" /\ f.run = "discover" /\ ~f.interactive /\ f.discovery # "none",
         \/ f.discovery = authorizer[OwnerOf[o]].discovery
         \/ authorizer[OwnerOf[o]].discovery = "none" /\ f.discovery = "running",
         OperationIsSound(o)'
  PROVE  OAuthInv'
<1>. DEFINE a == OwnerOf[o]
            h == authorizer[a]
<1>1. /\ a \in Authorizers /\ authorizer'[a] = f /\ operation'[o] = w
      /\ (\A b \in Authorizers : b # a => authorizer'[b] = authorizer[b])
      /\ (\A p \in Operations : p # o => operation'[p] = operation[p])
      /\ operation' \in [Operations -> OperationRecords]
  BY OAuthParts, OAuthTypes
<1>2. f.client = h.client /\ f.token = h.token /\ f.granted = h.granted /\ f.closing = h.closing /\ f.closed = h.closed
  OBVIOUS
<1>3. AuthorizerIsSound(a) /\ RefreshIsUnused(a) /\ h \in AuthorizerRecords
  BY <1>1, OAuthParts
<1>. HIDE DEF a
<1>4. AuthorizerIsSound(a)' /\ RefreshIsUnused(a)'
  BY <1>1, <1>3 DEF AuthorizerIsSound, RefreshIsUnused, a
<1>5. ASSUME NEW p \in Operations, p # o
      PROVE  OperationIsSound(p)'
  BY <1>1, <1>2, <1>5, OAuthParts DEF OperationIsSound, a
<1>. QED BY <1>1, <1>4, <1>5, OAuthParts, AuthorizerMoves DEF IssuerIsSound, FileNamesClients, a

\* Discovery goes on, and has a token only at its end.
LEMMA DiscoveryGoes ==
  ASSUME OAuthInv, NEW a \in Authorizers, NEW f \in AuthorizerRecords,
         authorizer' = [authorizer EXCEPT ![a] = f], UNCHANGED <<operation, issuer>>,
         stored' \in CredentialFiles, FileNamesClients',
         authorizer[a].discovery \notin {"none", "known"}, f.discovery # "none",
         f.run = authorizer[a].run, f.interactive = authorizer[a].interactive,
         f.closing = authorizer[a].closing, f.closed = authorizer[a].closed,
         f.discovery # "known" => f.token.id = 0,
         f.token.id # 0 => f.token.resource = "this" /\ f.token.client = f.client /\ f.client # 0
  PROVE  OAuthInv'
<1>1. authorizer'[a] = f /\ AuthorizerIsSound(a) /\ RefreshIsUnused(a) /\ f.token.refresh \in Nat
  BY OAuthParts DEF AuthorizerRecords, OAuthTokens
<1>2. AuthorizerIsSound(a)'
  BY <1>1 DEF AuthorizerIsSound
<1>3. \A r \in Nat : <<a, r>> \notin Replaced
  BY <1>1 DEF RefreshIsUnused
<1>4. RefreshIsUnused(a)'
  BY <1>1 DEF RefreshIsUnused, AuthorizerIsSound
<1>. QED BY <1>1, <1>2, <1>4, AuthorizerGoes, OAuthParts DEF IssuerIsSound, AuthorizerIsSound

LEMMA ClientKnown ==
  ASSUME OAuthInv, NEW a \in Authorizers, authorizer[a].discovery \in {"running", "unregister"},
         NEW registration \in Registrations, Set(a, WithClient(a, registration)),
         UNCHANGED <<operation, issuer>>, stored' \in CredentialFiles, FileNamesClients'
  PROVE  OAuthInv'
<1>. DEFINE h == authorizer[a]
            f == WithClient(a, registration)
<1>1. h \in AuthorizerRecords /\ h.token.id = 0
  BY OAuthParts DEF AuthorizerIsSound
<1>2. /\ f \in AuthorizerRecords /\ f.discovery = "loading" /\ f.run = h.run /\ f.interactive = h.interactive
      /\ f.closing = h.closing /\ f.closed = h.closed /\ f.token = h.token
  BY <1>1 DEF WithClient, AuthorizerRecords, Registrations, SetClient
<1>3. authorizer' = [authorizer EXCEPT ![a] = f]
  BY DEF Set
<1>. HIDE DEF f
<1>. QED BY <1>1, <1>2, <1>3, DiscoveryGoes

LEMMA FileParts ==
  ASSUME OAuthInv
  PROVE  /\ stored.token \in OAuthTokens /\ stored.registration \in Registrations
         /\ \A file \in {stored, Dropped, Unregistered} :
              file \in CredentialFiles /\ (file.token.id # 0 => file.token.client # 0)
  BY OAuthParts, OAuthTypes DEF CredentialFiles, FileNamesClients, Dropped, Unregistered

LEMMA RegistrationKeeps ==
  ASSUME OAuthInv, NEW a \in Authorizers, RegistrationLoaded(a) \/ Unregisters(a)
  PROVE  OAuthInv'
<1>1. CASE RegistrationLoaded(a) /\ stored.registration.client # 0 /\ stored.registration.resource # "this"
  <2>. DEFINE h == authorizer[a]
              f == [h EXCEPT !.discovery = "unregister"]
  <2>1. h \in AuthorizerRecords /\ h.token.id = 0 /\ h.discovery = "running"
    BY <1>1, OAuthParts DEF AuthorizerIsSound, RegistrationLoaded
  <2>2. /\ f \in AuthorizerRecords /\ f.discovery = "unregister" /\ f.run = h.run /\ f.interactive = h.interactive
        /\ f.closing = h.closing /\ f.closed = h.closed /\ f.token = h.token
    BY <2>1 DEF AuthorizerRecords
  <2>3. authorizer' = [authorizer EXCEPT ![a] = f] /\ UNCHANGED <<operation, stored, issuer>>
    BY <1>1 DEF RegistrationLoaded, Set
  <2>. HIDE DEF f
  <2>. QED BY <2>1, <2>2, <2>3, DiscoveryGoes, OAuthParts DEF FileNamesClients
<1>2. CASE RegistrationLoaded(a) /\ ~(stored.registration.client # 0 /\ stored.registration.resource # "this")
  BY <1>2, FileParts, ClientKnown DEF RegistrationLoaded, FileNamesClients
<1>3. CASE Unregisters(a)
  BY <1>3, FileParts, ClientKnown, OAuthTypes DEF Unregisters, FileNamesClients
<1>. QED BY <1>1, <1>2, <1>3

LEMMA TokenLoadedKeeps ==
  ASSUME OAuthInv, NEW a \in Authorizers, TokenLoaded(a) \/ DropsForeignToken(a)
  PROVE  OAuthInv'
<1>. DEFINE h == authorizer[a]
<1>1. h \in AuthorizerRecords /\ AuthorizerIsSound(a) /\ h.discovery \in {"loading", "dropping"} /\ h.token.id = 0
  BY OAuthParts DEF TokenLoaded, DropsForeignToken, AuthorizerIsSound
<1>2. CASE TokenLoaded(a) /\ UsableToken(h.client)
  <2>. DEFINE f == [h EXCEPT !.discovery = "known", !.token = stored.token]
  <2>1. /\ f \in AuthorizerRecords /\ f.discovery = "known" /\ f.run = h.run /\ f.interactive = h.interactive
        /\ f.closing = h.closing /\ f.closed = h.closed /\ f.token = stored.token /\ f.client = h.client
    BY <1>1, FileParts DEF AuthorizerRecords
  <2>2. stored.token.resource = "this" /\ stored.token.client = h.client /\ h.client # 0
    BY <1>2, OAuthParts DEF UsableToken, FileNamesClients
  <2>3. authorizer' = [authorizer EXCEPT ![a] = f] /\ UNCHANGED <<operation, stored, issuer>>
    BY <1>2 DEF TokenLoaded, Set
  <2>. HIDE DEF f
  <2>. QED BY <1>1, <2>1, <2>2, <2>3, DiscoveryGoes, OAuthParts DEF FileNamesClients
<1>3. CASE TokenLoaded(a) /\ ~UsableToken(h.client)
  <2>. DEFINE to == IF stored.token.id = 0 THEN "known" ELSE "dropping"
              f == [h EXCEPT !.discovery = to, !.token = NoToken]
  <2>1. /\ f \in AuthorizerRecords /\ f.discovery # "none" /\ f.run = h.run /\ f.interactive = h.interactive
        /\ f.closing = h.closing /\ f.closed = h.closed /\ f.token = NoToken
    BY <1>1, OAuthTypes DEF AuthorizerRecords
  <2>2. authorizer' = [authorizer EXCEPT ![a] = f] /\ UNCHANGED <<operation, stored, issuer>>
    BY <1>3 DEF TokenLoaded, Set
  <2>. HIDE DEF f
  <2>. QED BY <1>1, <2>1, <2>2, DiscoveryGoes, OAuthParts, OAuthTypes DEF FileNamesClients
<1>4. CASE DropsForeignToken(a)
  <2>. DEFINE f == [h EXCEPT !.discovery = "known"]
  <2>1. /\ f \in AuthorizerRecords /\ f.discovery = "known" /\ f.run = h.run /\ f.interactive = h.interactive
        /\ f.closing = h.closing /\ f.closed = h.closed /\ f.token = h.token
    BY <1>1 DEF AuthorizerRecords
  <2>2. authorizer' = [authorizer EXCEPT ![a] = f] /\ UNCHANGED <<operation, issuer>> /\ stored' = Dropped
    BY <1>4 DEF DropsForeignToken, Set
  <2>. HIDE DEF f
  <2>. QED BY <1>1, <2>1, <2>2, DiscoveryGoes, FileParts DEF FileNamesClients
<1>. QED BY <1>2, <1>3, <1>4

\* A run goes from one step to the next, with the token it had or none.
LEMMA RunGoes ==
  ASSUME OAuthInv, NEW a \in Authorizers, NEW f \in AuthorizerRecords,
         authorizer' = [authorizer EXCEPT ![a] = f], UNCHANGED <<operation, issuer>>,
         stored' \in CredentialFiles, FileNamesClients',
         authorizer[a].run \notin {"none", "saving"}, f.run \notin {"none", "saving"},
         f.discovery = "known", authorizer[a].discovery = "known",
         f.run = "register" => f.client = 0, f.run \notin {"discover"}, f.run = "refresh" => ~f.interactive,
         f.run \in {"refresh", "invalidate", "redirect", "browser", "exchange"} => f.closed \/ f.client # 0,
         \/ f.token = authorizer[a].token /\ f.client = authorizer[a].client
         \/ f.token = NoToken,
         f.closing = authorizer[a].closing, f.closed = authorizer[a].closed
  PROVE  OAuthInv'
<1>1. authorizer'[a] = f /\ AuthorizerIsSound(a) /\ RefreshIsUnused(a) /\ f.discovery # "none"
  BY OAuthParts
<1>2. AuthorizerIsSound(a)'
  BY <1>1, OAuthTypes DEF AuthorizerIsSound
<1>3. RefreshIsUnused(a)'
  <2>1. <<a, 0>> \notin Replaced
    BY OAuthParts DEF Issuers
  <2>. QED BY <1>1, <2>1, OAuthTypes DEF RefreshIsUnused
<1>. QED BY <1>1, <1>2, <1>3, AuthorizerGoes, OAuthParts DEF IssuerIsSound

\* auth() begins, the server refuses a refresh or fails, the browser opens, and
\* the user approves.
LEMMA RunStepKeeps ==
  ASSUME OAuthInv, NEW a \in Authorizers,
         \/ AuthBegins(a) \/ RefreshDenied(a) \/ Invalidates(a) \/ RefreshErs(a) \/ Redirects(a) \/ CallbackArrives(a)
  PROVE  OAuthInv'
<1>. DEFINE h == authorizer[a]
            F(run, token, callback, interactive) ==
              [h EXCEPT !.run = run, !.token = token, !.callback = callback, !.interactive = interactive]
<1>1. h \in AuthorizerRecords /\ AuthorizerIsSound(a)
  BY OAuthParts
<1>2. h = F(h.run, h.token, h.callback, h.interactive)
  BY <1>1 DEF AuthorizerRecords
<1>3. \E run \in {"register", "refresh", "invalidate", "redirect", "browser", "exchange"}, token \in {h.token, NoToken},
         callback \in {"none", "bound", "waiting"}, interactive \in BOOLEAN :
        /\ authorizer' = [authorizer EXCEPT ![a] = F(run, token, callback, interactive)]
        /\ run = "register" => h.client = 0
        /\ run # "register" => h.closed \/ h.client # 0
        /\ run = "refresh" => ~interactive
  <2>1. CASE AuthBegins(a)
    <3>1. \/ NextOfAuth(a) = "register" /\ h.client = 0
          \/ NextOfAuth(a) \in {"refresh", "redirect"} /\ h.client # 0
      BY DEF NextOfAuth
    <3>. DEFINE to == NextOfAuth(a)
                bound == IF h.client = 0 THEN "bound" ELSE h.callback
    <3>2. authorizer' = [authorizer EXCEPT ![a] = F(to, h.token, bound, FALSE)]
      BY <1>1, <2>1 DEF AuthBegins, Set, AuthorizerRecords, AuthorizerIsSound
    <3>3. bound \in {"none", "bound", "waiting"}
      BY <1>1 DEF AuthorizerRecords
    <3>. HIDE DEF F, to, bound
    <3>. QED BY <3>1, <3>2, <3>3 DEF to
  <2>2. CASE RefreshDenied(a)
    <3>1. authorizer' = [authorizer EXCEPT ![a] = F("invalidate", NoToken, h.callback, h.interactive)]
      BY <2>2 DEF RefreshDenied, Set, AuthorizerRecords
    <3>. HIDE DEF F
    <3>. QED BY <1>1, <2>2, <3>1 DEF RefreshDenied, AuthorizerIsSound, AuthorizerRecords
  <2>3. CASE Invalidates(a) \/ RefreshErs(a)
    <3>1. authorizer' = [authorizer EXCEPT ![a] = F("redirect", h.token, h.callback, h.interactive)]
      BY <2>3 DEF Invalidates, RefreshErs, Set, AuthorizerRecords
    <3>. HIDE DEF F
    <3>. QED BY <1>1, <2>3, <3>1 DEF Invalidates, RefreshErs, AuthorizerIsSound, AuthorizerRecords
  <2>4. CASE Redirects(a)
    <3>1. authorizer' = [authorizer EXCEPT ![a] = F("browser", h.token, "waiting", TRUE)]
      BY <2>4 DEF Redirects, Set, AuthorizerRecords
    <3>. HIDE DEF F
    <3>. QED BY <1>1, <2>4, <3>1 DEF Redirects, AuthorizerIsSound
  <2>5. CASE CallbackArrives(a)
    <3>1. authorizer' = [authorizer EXCEPT ![a] = F("exchange", h.token, "bound", h.interactive)]
      BY <2>5 DEF CallbackArrives, Set, AuthorizerRecords
    <3>. HIDE DEF F
    <3>. QED BY <1>1, <2>5, <3>1 DEF CallbackArrives, AuthorizerIsSound, AuthorizerRecords
  <2>. HIDE DEF F
  <2>. QED BY <2>1, <2>2, <2>3, <2>4, <2>5
<1>4. PICK run \in {"register", "refresh", "invalidate", "redirect", "browser", "exchange"}, token \in {h.token, NoToken},
           callback \in {"none", "bound", "waiting"}, interactive \in BOOLEAN :
        /\ authorizer' = [authorizer EXCEPT ![a] = F(run, token, callback, interactive)]
        /\ run = "register" => h.client = 0
        /\ run # "register" => h.closed \/ h.client # 0
        /\ run = "refresh" => ~interactive
  BY <1>3
<1>. DEFINE f == F(run, token, callback, interactive)
<1>5. token \in OAuthTokens
  BY <1>1, OAuthTypes DEF AuthorizerRecords
<1>6. /\ f \in AuthorizerRecords /\ f.run = run /\ f.token = token /\ f.interactive = interactive
      /\ f.discovery = h.discovery /\ f.client = h.client /\ f.closing = h.closing /\ f.closed = h.closed
  BY <1>1, <1>5 DEF AuthorizerRecords
<1>. HIDE DEF f, F
<1>7. UNCHANGED <<operation, issuer>> /\ stored' \in {stored, Dropped} /\ h.run \notin {"none", "saving"}
      /\ h.discovery = "known"
  BY <1>1 DEF AuthBegins, RefreshDenied, Invalidates, RefreshErs, Redirects, CallbackArrives,
     AuthorizerIsSound
<1>8. authorizer' = [authorizer EXCEPT ![a] = f]
  BY <1>4 DEF f
<1>9. stored' \in CredentialFiles /\ FileNamesClients'
  BY <1>7, FileParts DEF FileNamesClients
<1>10. f.run = "refresh" => ~f.interactive
  BY <1>4, <1>6
<1>11. /\ f.run = "register" => f.client = 0
       /\ f.run # "register" => f.closed \/ f.client # 0
       /\ f.run \in {"register", "refresh", "invalidate", "redirect", "browser", "exchange"}
       /\ (f.token = h.token /\ f.client = h.client) \/ f.token = NoToken
  BY <1>4, <1>6
<1>. QED BY <1>6, <1>7, <1>8, <1>9, <1>10, <1>11, RunGoes

\* A run ends with all who wait for it, or a discovery does with it.
LEMMA OAuthRunEndsMoves ==
  ASSUME OAuthInv, NEW a \in Authorizers, NEW f \in AuthorizerRecords, NEW phases, NEW to \in {"failed", "granted"},
         authorizer' = [authorizer EXCEPT ![a] = f], Settle(a, phases, to), issuer' \in Issuers, IssuerIsSound',
         Replaced' = Replaced,
         stored' \in CredentialFiles, FileNamesClients',
         f.run = "none", phases = {"refreshing", "authorizing"} \/ (phases = {"token", "refreshing", "authorizing"} /\ to = "failed"),
         f.discovery = "none" => "token" \in phases, f.closing = authorizer[a].closing,
         AuthorizerIsSound(a)', RefreshIsUnused(a)'
  PROVE  OAuthInv'
<1>1. authorizer'[a] = f /\ \A b \in Authorizers : b # a => authorizer'[b] = authorizer[b]
  BY OAuthParts
<1>2. ASSUME NEW o \in Operations
      PROVE  OperationIsSound(o)'
  <2>1. OperationIsSound(o) /\ OwnerOf[o] \in Authorizers
    BY OAuthParts, OAuthTypes
  <2>2. /\ operation'[o].bound = operation[o].bound /\ operation'[o].tries = operation[o].tries
        /\ \/ operation'[o].phase = "failed" \/ (operation'[o].phase = "granted" /\ operation[o].phase \in {"refreshing", "authorizing"})
           \/ /\ operation'[o].phase = operation[o].phase
              /\ OwnerOf[o] # a \/ operation[o].phase \notin phases
    BY Settled
  <2>3. CASE OwnerOf[o] = a
    BY <1>1, <2>1, <2>2 DEF OperationIsSound
  <2>4. CASE OwnerOf[o] # a
    BY <1>1, <2>1, <2>2 DEF OperationIsSound
  <2>. QED BY <2>3, <2>4
<1>. QED BY <1>2, Settled, AuthorizerMoves

LEMMA RunEndsKeeps ==
  ASSUME OAuthInv, NEW a \in Authorizers, authorizer[a].run # "none", authorizer[a].discovery = "known",
         authorizer[a].run = "saving" => authorizer[a].interactive,
         OAuthRunEnds(a, authorizer[a], "failed"), issuer' \in Issuers, IssuerIsSound', Replaced' = Replaced,
         stored' \in CredentialFiles, FileNamesClients'
  PROVE  OAuthInv'
<1>. DEFINE h == authorizer[a]
            f == [h EXCEPT !.run = "none", !.callback = "none"]
<1>1. h \in AuthorizerRecords /\ AuthorizerIsSound(a) /\ RefreshIsUnused(a)
  BY OAuthParts
<1>2. /\ f \in AuthorizerRecords /\ f.run = "none" /\ f.discovery = h.discovery /\ f.client = h.client
      /\ f.token = h.token /\ f.closing = h.closing /\ f.closed = h.closed
  BY <1>1 DEF AuthorizerRecords
<1>3. authorizer' = [authorizer EXCEPT ![a] = f] /\ Settle(a, {"refreshing", "authorizing"}, "failed")
  BY DEF OAuthRunEnds, Set
<1>. HIDE DEF f
<1>4. authorizer'[a] = f
  BY <1>3, OAuthParts
<1>5. AuthorizerIsSound(a)' /\ RefreshIsUnused(a)'
  BY <1>1, <1>2, <1>4 DEF AuthorizerIsSound, RefreshIsUnused
<1>. QED BY <1>2, <1>3, <1>5, OAuthRunEndsMoves

LEMMA RegistersKeeps ==
  ASSUME OAuthInv, NEW a \in Authorizers, Registers(a)
  PROVE  OAuthInv'
<1>. DEFINE h == authorizer[a]
            client == issuer.clients + 2
            f == [h EXCEPT !.client = client, !.run = "redirect"]
<1>1. /\ h \in AuthorizerRecords /\ h.run = "register" /\ ~h.closing /\ AuthorizerIsSound(a) /\ RefreshIsUnused(a)
      /\ issuer \in Issuers
  BY OAuthParts DEF Registers, Open
<1>2. h.discovery = "known" /\ h.client = 0 /\ ~h.closed /\ h.token.id = 0 /\ client \in Nat /\ client # 0
  BY <1>1 DEF AuthorizerIsSound, Issuers
<1>3. /\ f \in AuthorizerRecords /\ f.run = "redirect" /\ f.discovery = "known" /\ f.client = client
      /\ f.token = h.token /\ f.closing = h.closing /\ f.closed = h.closed
  BY <1>1, <1>2 DEF AuthorizerRecords
<1>4. /\ \/ authorizer' = [authorizer EXCEPT ![a] = f] /\ UNCHANGED operation
         \/ OAuthRunEnds(a, h, "failed")
      /\ stored' = [stored EXCEPT !.registration = [client |-> client, resource |-> "this"]]
      /\ issuer' = [issuer EXCEPT !.clients = @ + 1]
  BY DEF Registers, Set
<1>. HIDE DEF f
<1>5. /\ issuer' \in Issuers /\ Replaced' = Replaced /\ issuer'.refreshes = issuer.refreshes
      /\ issuer'.next = issuer.next
  BY <1>1, <1>4 DEF Issuers
<1>6. stored' \in CredentialFiles /\ FileNamesClients'
  BY <1>2, <1>4, OAuthParts DEF CredentialFiles, Registrations, FileNamesClients
<1>7. IssuerIsSound'
  BY <1>5, OAuthParts DEF IssuerIsSound
<1>8. CASE OAuthRunEnds(a, h, "failed")
  BY <1>1, <1>2, <1>5, <1>6, <1>7, <1>8, RunEndsKeeps
<1>9. CASE authorizer' = [authorizer EXCEPT ![a] = f] /\ UNCHANGED operation
  <2>1. authorizer'[a] = f
    BY <1>9, OAuthParts
  <2>2. AuthorizerIsSound(a)' /\ RefreshIsUnused(a)'
    BY <1>1, <1>2, <1>3, <1>5, <2>1 DEF AuthorizerIsSound, RefreshIsUnused
  <2>. QED BY <1>1, <1>2, <1>3, <1>5, <1>6, <1>7, <1>9, <2>2, AuthorizerGoes
<1>. QED BY <1>4, <1>8, <1>9

\* The server issues the token that a run is to save.
LEMMA TokenIssued ==
  ASSUME OAuthInv, NEW a \in Authorizers, NEW refresh \in Nat, NEW scopes \in SUBSET Scopes,
         authorizer[a].run \in {"refresh", "exchange"}, Open(a),
         authorizer' = [authorizer EXCEPT ![a] = [authorizer[a] EXCEPT !.run = "saving", !.granted = NewToken(a, scopes, refresh)]],
         UNCHANGED <<operation, stored>>, issuer' \in Issuers, issuer'.next = issuer.next + 1,
         issuer'.refreshes \subseteq issuer.refreshes \cup {issuer.next},
         \A x \in Replaced' : x \in Replaced \/ (x = <<a, authorizer[a].token.refresh>> /\ x[2] \in issuer.refreshes),
         Rotates => \/ refresh = issuer.next
                    \/ refresh = authorizer[a].token.refresh /\ Replaced' = Replaced,
         authorizer[a].interactive => Replaced' = Replaced
  PROVE  OAuthInv'
<1>. DEFINE h == authorizer[a]
            n == issuer.next
            g == NewToken(a, scopes, refresh)
            f == [h EXCEPT !.run = "saving", !.granted = g]
<1>1. /\ h \in AuthorizerRecords /\ ~h.closing /\ AuthorizerIsSound(a) /\ RefreshIsUnused(a) /\ issuer \in Issuers
      /\ n \in Nat \ {0} /\ h.client \in Nat /\ h.token.refresh \in Nat
  BY OAuthParts DEF Open, Issuers, AuthorizerRecords, OAuthTokens
<1>2. h.discovery = "known" /\ ~h.closed /\ h.client # 0
  BY <1>1 DEF AuthorizerIsSound
<1>3. g \in OAuthTokens /\ g.client = h.client /\ g.resource = "this" /\ g.refresh = refresh
  BY <1>1 DEF NewToken, OAuthTokens
<1>. HIDE DEF g
<1>4. /\ f \in AuthorizerRecords /\ f.run = "saving" /\ f.discovery = "known" /\ f.client = h.client
      /\ f.token = h.token /\ f.closing = h.closing /\ f.closed = h.closed /\ f.granted = g
      /\ f.interactive = h.interactive
  BY <1>1, <1>2, <1>3 DEF AuthorizerRecords
<1>5. authorizer' = [authorizer EXCEPT ![a] = f]
  BY DEF g
<1>. HIDE DEF f
<1>6. /\ \A x \in Replaced : x[2] < n /\ x \in Authorizers \X (Nat \ {0})
      /\ \A r \in issuer.refreshes : r < n
  BY OAuthParts DEF IssuerIsSound, Issuers
<1>7. \A x \in Replaced' : x[2] < n
  BY <1>6
<1>8. IssuerIsSound'
  <2>1. \A r \in issuer'.refreshes : r \in Nat /\ r < n + 1
    BY <1>1, <1>6 DEF Issuers
  <2>2. \A x \in Replaced' : x[2] \in Nat
    BY DEF Issuers
  <2>. QED BY <1>1, <1>7, <2>1, <2>2 DEF IssuerIsSound
<1>9. authorizer'[a] = f
  BY <1>5, OAuthParts
<1>10. AuthorizerIsSound(a)'
  BY <1>1, <1>2, <1>3, <1>4, <1>9 DEF AuthorizerIsSound
<1>11. RefreshIsUnused(a)'
  <2>1. <<a, n>> \notin Replaced'
    BY <1>1, <1>7
  <2>2. Rotates => <<a, h.token.refresh>> \notin Replaced
    BY <1>1 DEF RefreshIsUnused
  <2>. QED BY <1>3, <1>4, <1>9, <2>1, <2>2 DEF RefreshIsUnused
<1>12. \A x \in Replaced' : x \in Replaced \/ x[1] = a
  OBVIOUS
<1>13. stored' \in CredentialFiles /\ FileNamesClients' /\ h.run # "none" /\ f.run # "none" /\ f.discovery # "none"
  BY <1>4, OAuthParts DEF FileNamesClients
<1>. QED BY <1>4, <1>5, <1>8, <1>10, <1>11, <1>12, <1>13, AuthorizerGoes

\* The server accepts a refresh, whether its answer arrives or not.
LEMMA RefreshedTypes ==
  ASSUME OAuthInv, NEW a \in Authorizers, authorizer[a].run = "refresh", issuer.next <= MaxOAuthTokens,
         Accepts(authorizer[a].token.refresh), NEW missed \in SUBSET (Authorizers \X Nat), issuer' = Refreshed(a, missed)
  PROVE  /\ issuer' \in Issuers /\ issuer'.next = issuer.next + 1
         /\ issuer'.refreshes \subseteq issuer.refreshes \union {issuer.next}
         /\ issuer'.presented = issuer.presented \union {<<a, authorizer[a].token.refresh>>}
         /\ issuer'.lost = issuer.lost \union missed
<1>. DEFINE held == authorizer[a].token
            n == issuer.next
<1>1. /\ issuer \in Issuers /\ held \in OAuthTokens /\ n \in Nat \ {0} /\ held.refresh \in issuer.refreshes
      /\ held.scopes \in SUBSET Scopes /\ held.refresh \in Nat \ {0}
  BY OAuthParts DEF Accepts, Issuers, AuthorizerRecords, OAuthTokens
<1>2. n \in 0..MaxOAuthTokens /\ n + 1 \in Nat \ {0}
  BY <1>1, OAuthAssumption
<1>3. [issuer.scopesOf EXCEPT ![n] = held.scopes] \in [0..MaxOAuthTokens -> SUBSET Scopes]
  BY <1>1 DEF Issuers
<1>4. issuer' = [issuer EXCEPT !.next = @ + 1, !.valid = @ \union {n},
                   !.refreshes = IF Rotates THEN (@ \ {held.refresh}) \union {n} ELSE @,
                   !.presented = @ \union {<<a, held.refresh>>}, !.lost = @ \union missed,
                   !.scopesOf = [issuer.scopesOf EXCEPT ![n] = held.scopes]]
  BY DEF Refreshed
<1>5. /\ issuer'.next = n + 1 /\ issuer'.valid = issuer.valid \union {n} /\ issuer'.expired = issuer.expired
      /\ issuer'.refreshes = (IF Rotates THEN (issuer.refreshes \ {held.refresh}) \union {n} ELSE issuer.refreshes)
      /\ issuer'.presented = issuer.presented \union {<<a, held.refresh>>} /\ issuer'.clients = issuer.clients
      /\ issuer'.lost = issuer.lost \union missed /\ issuer'.scopesOf \in [0..MaxOAuthTokens -> SUBSET Scopes]
      /\ issuer' = [next |-> issuer'.next, valid |-> issuer'.valid, expired |-> issuer'.expired, refreshes |-> issuer'.refreshes,
                    presented |-> issuer'.presented, lost |-> issuer'.lost, clients |-> issuer'.clients, scopesOf |-> issuer'.scopesOf]
  BY <1>1, <1>3, <1>4 DEF Issuers
<1>. HIDE DEF held, n
<1>6. /\ issuer'.valid \in SUBSET Nat /\ issuer'.refreshes \in SUBSET (Nat \ {0})
      /\ issuer'.presented \in SUBSET (Authorizers \X (Nat \ {0})) /\ issuer'.lost \in SUBSET (Authorizers \X Nat)
  BY <1>1, <1>5 DEF Issuers
<1>. QED BY <1>1, <1>2, <1>5 DEF Issuers, held, n

LEMMA RefreshesOAuthKeeps ==
  ASSUME OAuthInv, NEW a \in Authorizers, RefreshesOAuth(a)
  PROVE  OAuthInv'
<1>. DEFINE held == authorizer[a].token
            n == issuer.next
            refresh == IF Rotates THEN n ELSE held.refresh
<1>1. /\ issuer \in Issuers /\ held \in OAuthTokens /\ n \in Nat \ {0} /\ held.refresh \in issuer.refreshes
      /\ held.scopes \in SUBSET Scopes /\ held.refresh \in Nat \ {0} /\ ~authorizer[a].interactive
  BY OAuthParts DEF RefreshesOAuth, Accepts, Issuers, AuthorizerRecords, OAuthTokens, AuthorizerIsSound
<1>2. /\ issuer' \in Issuers /\ issuer'.next = n + 1 /\ issuer'.refreshes \subseteq issuer.refreshes \union {n}
      /\ issuer'.presented = issuer.presented \union {<<a, held.refresh>>} /\ issuer'.lost = issuer.lost \union {}
  BY RefreshedTypes DEF RefreshesOAuth
<1>3. refresh \in Nat /\ authorizer[a].run = "refresh" /\ Open(a) /\ UNCHANGED <<operation, stored>>
      /\ authorizer' = [authorizer EXCEPT ![a] =
           [authorizer[a] EXCEPT !.run = "saving", !.granted = NewToken(a, held.scopes, refresh)]]
  BY <1>1 DEF RefreshesOAuth, Set
<1>4. \A x \in Replaced' : x \in Replaced \/ (x = <<a, held.refresh>> /\ x[2] \in issuer.refreshes)
  BY <1>1, <1>2
<1>5. Rotates => refresh = n
  OBVIOUS
<1>. HIDE DEF refresh
<1>. QED BY <1>1, <1>2, <1>3, <1>4, TokenIssued

\* An answer is lost or cannot be saved: the browser is next, and the refresh
\* token held is among those whose replacement is lost.
LEMMA FallsBack ==
  ASSUME OAuthInv, NEW a \in Authorizers, authorizer[a].run \in {"refresh", "saving"},
         Set(a, [authorizer[a] EXCEPT !.run = "redirect"]), UNCHANGED operation,
         stored' \in CredentialFiles, FileNamesClients', issuer' \in Issuers, IssuerIsSound',
         Replaced' \subseteq Replaced, <<a, authorizer[a].token.refresh>> \notin Replaced'
  PROVE  OAuthInv'
<1>. DEFINE h == authorizer[a]
            f == [h EXCEPT !.run = "redirect"]
<1>1. h \in AuthorizerRecords /\ AuthorizerIsSound(a)
  BY OAuthParts
<1>2. /\ f \in AuthorizerRecords /\ f.run = "redirect" /\ f.discovery = h.discovery /\ f.client = h.client
      /\ f.token = h.token /\ f.closing = h.closing /\ f.closed = h.closed
  BY <1>1 DEF AuthorizerRecords
<1>3. authorizer' = [authorizer EXCEPT ![a] = f]
  BY DEF Set
<1>. HIDE DEF f
<1>4. authorizer'[a] = f /\ h.discovery = "known"
  BY <1>1, <1>3, OAuthParts DEF AuthorizerIsSound
<1>5. AuthorizerIsSound(a)' /\ RefreshIsUnused(a)'
  BY <1>1, <1>2, <1>4 DEF AuthorizerIsSound, RefreshIsUnused
<1>. QED BY <1>1, <1>2, <1>3, <1>4, <1>5, AuthorizerGoes

LEMMA RefreshAnswerLostKeeps ==
  ASSUME OAuthInv, NEW a \in Authorizers, RefreshAnswerLost(a)
  PROVE  OAuthInv'
<1>. DEFINE r == authorizer[a].token.refresh
<1>1. r \in Nat /\ {<<a, r>>} \in SUBSET (Authorizers \X Nat)
  BY OAuthParts DEF AuthorizerRecords, OAuthTokens
<1>2. /\ issuer' \in Issuers /\ issuer'.next = issuer.next + 1
      /\ issuer'.refreshes \subseteq issuer.refreshes \union {issuer.next}
      /\ issuer'.presented = issuer.presented \union {<<a, r>>} /\ issuer'.lost = issuer.lost \union {<<a, r>>}
  BY <1>1, RefreshedTypes DEF RefreshAnswerLost
<1>3. Replaced' \subseteq Replaced /\ <<a, r>> \notin Replaced'
  BY <1>2
<1>4. IssuerIsSound'
  <2>1. issuer.next \in Nat /\ issuer'.refreshes \subseteq Nat /\ \A x \in Replaced : x[2] \in Nat /\ x[2] < issuer.next
    BY <1>2, OAuthParts DEF Issuers, IssuerIsSound
  <2>2. \A i \in issuer.refreshes : i \in Nat /\ i < issuer.next
    BY OAuthParts DEF Issuers, IssuerIsSound
  <2>. HIDE DEF Replaced
  <2>. QED BY <1>2, <1>3, <2>1, <2>2 DEF IssuerIsSound
<1>. QED BY <1>2, <1>3, <1>4, FallsBack, OAuthParts DEF RefreshAnswerLost, FileNamesClients

LEMMA ExchangesKeeps ==
  ASSUME OAuthInv, NEW a \in Authorizers, Exchanges(a)
  PROVE  OAuthInv'
<1>. DEFINE held == authorizer[a].token
            n == issuer.next
<1>1. /\ issuer \in Issuers /\ held \in OAuthTokens /\ n \in Nat \ {0} /\ n <= MaxOAuthTokens
      /\ authorizer[a].scopes \in SUBSET Scopes /\ held.refresh \in Nat
  BY OAuthParts DEF Exchanges, Issuers, AuthorizerRecords, OAuthTokens
<1>2. PICK withRefresh \in BOOLEAN :
        LET refresh == IF withRefresh THEN n ELSE held.refresh
        IN /\ issuer' = [issuer EXCEPT !.next = @ + 1, !.valid = @ \union {n},
                           !.refreshes = IF withRefresh THEN @ \union {n} ELSE @,
                           !.scopesOf[n] = authorizer[a].scopes]
           /\ Set(a, [authorizer[a] EXCEPT !.run = "saving",
                                           !.granted = NewToken(a, authorizer[a].scopes, refresh)])
  BY DEF Exchanges
<1>3. issuer' \in Issuers /\ issuer'.next = n + 1 /\ Replaced' = Replaced
      /\ issuer'.refreshes \subseteq issuer.refreshes \union {n}
  <2>1. n \in 0..MaxOAuthTokens /\ n + 1 \in Nat \ {0}
    BY <1>1, OAuthAssumption
  <2>2. [issuer.scopesOf EXCEPT ![n] = authorizer[a].scopes] \in [0..MaxOAuthTokens -> SUBSET Scopes]
    BY <1>1 DEF Issuers
  <2>3. issuer' = [issuer EXCEPT !.next = @ + 1, !.valid = @ \union {n},
                     !.refreshes = IF withRefresh THEN @ \union {n} ELSE @,
                     !.scopesOf = [issuer.scopesOf EXCEPT ![n] = authorizer[a].scopes]]
    BY <1>2
  <2>4. /\ issuer'.next = n + 1 /\ issuer'.valid = issuer.valid \union {n} /\ issuer'.expired = issuer.expired
        /\ issuer'.refreshes = (IF withRefresh THEN issuer.refreshes \union {n} ELSE issuer.refreshes)
        /\ issuer'.presented = issuer.presented /\ issuer'.lost = issuer.lost /\ issuer'.clients = issuer.clients
        /\ issuer'.scopesOf \in [0..MaxOAuthTokens -> SUBSET Scopes]
        /\ issuer' = [next |-> issuer'.next, valid |-> issuer'.valid, expired |-> issuer'.expired, refreshes |-> issuer'.refreshes,
                      presented |-> issuer'.presented, lost |-> issuer'.lost, clients |-> issuer'.clients, scopesOf |-> issuer'.scopesOf]
    BY <1>1, <2>3 DEF Issuers
  <2>. HIDE DEF held, n
  <2>5. issuer'.valid \in SUBSET Nat /\ issuer'.refreshes \in SUBSET (Nat \ {0})
    BY <1>1, <2>4 DEF Issuers
  <2>. QED BY <1>1, <2>1, <2>4 DEF Issuers
<1>. DEFINE refresh == IF withRefresh THEN n ELSE held.refresh
<1>4. refresh \in Nat
  BY <1>1
<1>. QED BY <1>1, <1>2, <1>3, TokenIssued DEF Exchanges, Set

LEMMA closeKeeps ==
  ASSUME OAuthInv, NEW a \in Authorizers, close(a)
  PROVE  OAuthInv'
<1>. DEFINE h == authorizer[a]
            f == [h EXCEPT !.closed = TRUE, !.token = NoToken, !.last = 0, !.client = 0]
<1>1. h \in AuthorizerRecords /\ h.closing /\ AuthorizerIsSound(a) /\ RefreshIsUnused(a)
  BY OAuthParts DEF close
<1>2. /\ f \in AuthorizerRecords /\ f.run = h.run /\ f.discovery = h.discovery /\ f.client = 0
      /\ f.token = NoToken /\ f.closing = h.closing /\ f.closed /\ f.granted = h.granted /\ f.interactive = h.interactive
  BY <1>1, OAuthTypes DEF AuthorizerRecords
<1>3. authorizer' = [authorizer EXCEPT ![a] = f] /\ UNCHANGED <<operation, stored, issuer>>
  BY DEF close, Set
<1>. HIDE DEF f
<1>4. authorizer'[a] = f /\ <<a, 0>> \notin Replaced
  BY <1>3, OAuthParts DEF Issuers
<1>5. AuthorizerIsSound(a)' /\ RefreshIsUnused(a)'
  BY <1>1, <1>2, <1>3, <1>4, OAuthTypes DEF AuthorizerIsSound, RefreshIsUnused
<1>. QED BY <1>2, <1>3, <1>5, AuthorizerGoes, OAuthParts DEF FileNamesClients, IssuerIsSound

LEMMA DiscoveryFailsKeeps ==
  ASSUME OAuthInv, NEW a \in Authorizers, DiscoveryFails(a)
  PROVE  OAuthInv'
<1>. DEFINE h == authorizer[a]
            to == IF h.discovery \in {"loading", "dropping"} THEN "known" ELSE "none"
            f == [h EXCEPT !.run = "none", !.callback = "none", !.discovery = to]
<1>1. h \in AuthorizerRecords /\ h.discovery \notin {"none", "known"} /\ AuthorizerIsSound(a) /\ RefreshIsUnused(a)
  BY OAuthParts DEF DiscoveryFails, Discovering
<1>2. /\ f \in AuthorizerRecords /\ f.run = "none" /\ f.discovery \in {"none", "known"}
      /\ f.client = h.client /\ f.token = h.token /\ f.granted = h.granted /\ f.closing = h.closing /\ f.closed = h.closed
  BY <1>1 DEF AuthorizerRecords
<1>3. /\ authorizer' = [authorizer EXCEPT ![a] = f] /\ UNCHANGED issuer /\ stored' \in {stored, Dropped, Unregistered}
      /\ Settle(a, {"token", "refreshing", "authorizing"}, "failed")
  BY DEF DiscoveryFails, Set
<1>. HIDE DEF f
<1>4. authorizer'[a] = f /\ h.run # "saving" /\ h.token.id = 0 /\ h.token.refresh \in Nat
  BY <1>1, <1>3, OAuthParts DEF AuthorizerIsSound, AuthorizerRecords, OAuthTokens
<1>5. AuthorizerIsSound(a)' /\ RefreshIsUnused(a)'
  BY <1>1, <1>2, <1>3 DEF AuthorizerIsSound, RefreshIsUnused
<1>. QED BY <1>2, <1>3, <1>5, FileParts, OAuthRunEndsMoves, OAuthParts DEF FileNamesClients, IssuerIsSound

LEMMA RunFailsKeeps ==
  ASSUME OAuthInv, NEW a \in Authorizers, RunFails(a)
  PROVE  OAuthInv'
<1>1. authorizer[a].run \notin {"none", "saving"} /\ authorizer[a].discovery = "known"
  BY OAuthParts DEF RunFails, Discovering, AuthorizerIsSound
<1>2. OAuthRunEnds(a, authorizer[a], "failed") /\ UNCHANGED issuer /\ stored' \in {stored, Dropped}
  BY DEF RunFails
<1>. QED BY <1>1, <1>2, FileParts, RunEndsKeeps, OAuthParts DEF FileNamesClients, IssuerIsSound

LEMMA SaveFailsKeeps ==
  ASSUME OAuthInv, NEW a \in Authorizers, SaveFails(a)
  PROVE  OAuthInv'
<1>. DEFINE h == authorizer[a]
<1>1. h.run = "saving" /\ h.discovery = "known" /\ h.granted \in OAuthTokens /\ h.granted.client # 0
  BY OAuthParts DEF SaveFails, AuthorizerIsSound, AuthorizerRecords
<1>2. stored' \in CredentialFiles /\ FileNamesClients'
  <2>1. CASE stored' = stored
    BY <2>1, OAuthParts DEF FileNamesClients
  <2>2. CASE stored' = [stored EXCEPT !.token = h.granted]
    BY <1>1, <2>2, OAuthParts DEF CredentialFiles, FileNamesClients
  <2>. QED BY <2>1, <2>2 DEF SaveFails
<1>3. CASE ~h.interactive /\ issuer' = [issuer EXCEPT !.lost = @ \union {<<a, h.token.refresh>>}]
           /\ Set(a, [h EXCEPT !.run = "redirect"]) /\ UNCHANGED operation
  <2>1. h.token.refresh \in Nat /\ issuer \in Issuers
    BY OAuthParts DEF AuthorizerRecords, OAuthTokens
  <2>2. /\ issuer' \in Issuers /\ issuer'.presented = issuer.presented /\ issuer'.next = issuer.next
        /\ issuer'.lost = issuer.lost \union {<<a, h.token.refresh>>} /\ issuer'.refreshes = issuer.refreshes
    BY <1>3, <2>1 DEF Issuers
  <2>3. Replaced' \subseteq Replaced /\ <<a, h.token.refresh>> \notin Replaced'
    BY <2>2
  <2>4. IssuerIsSound'
    BY <2>2, OAuthParts DEF IssuerIsSound
  <2>. QED BY <1>1, <1>2, <1>3, <2>2, <2>3, <2>4, FallsBack
<1>4. CASE h.interactive /\ OAuthRunEnds(a, h, "failed") /\ UNCHANGED issuer
  BY <1>1, <1>2, <1>4, RunEndsKeeps, OAuthParts DEF IssuerIsSound
<1>. QED BY <1>3, <1>4 DEF SaveFails

LEMMA SavesKeeps ==
  ASSUME OAuthInv, NEW a \in Authorizers, Saves(a)
  PROVE  OAuthInv'
<1>. DEFINE h == authorizer[a]
            f == [[h EXCEPT !.token = h.granted, !.last = h.granted.id] EXCEPT !.run = "none", !.callback = "none"]
<1>1. /\ h \in AuthorizerRecords /\ h.run = "saving" /\ AuthorizerIsSound(a) /\ RefreshIsUnused(a)
      /\ h.granted \in OAuthTokens
  BY OAuthParts DEF Saves, AuthorizerRecords
<1>2. /\ f \in AuthorizerRecords /\ f.run = "none" /\ f.discovery = h.discovery /\ f.client = h.client
      /\ f.token = h.granted /\ f.closing = h.closing /\ f.closed = h.closed
  BY <1>1 DEF AuthorizerRecords, OAuthTokens
<1>3. /\ authorizer' = [authorizer EXCEPT ![a] = f] /\ UNCHANGED issuer
      /\ stored' = [stored EXCEPT !.token = h.granted]
      /\ Settle(a, {"refreshing", "authorizing"}, "granted")
  BY DEF Saves, OAuthRunEnds, Set
<1>. HIDE DEF f
<1>4. authorizer'[a] = f /\ h.discovery = "known" /\ h.granted.client # 0
  BY <1>1, <1>3, OAuthParts DEF AuthorizerIsSound
<1>5. stored' \in CredentialFiles /\ FileNamesClients'
  BY <1>1, <1>3, <1>4, OAuthParts DEF CredentialFiles, FileNamesClients
<1>6. AuthorizerIsSound(a)' /\ RefreshIsUnused(a)'
  BY <1>1, <1>2, <1>3 DEF AuthorizerIsSound, RefreshIsUnused
<1>. QED BY <1>2, <1>3, <1>4, <1>5, <1>6, OAuthRunEndsMoves, OAuthParts DEF IssuerIsSound

LEMMA beginCloseKeeps ==
  ASSUME OAuthInv, NEW a \in Authorizers, beginClose(a)
  PROVE  OAuthInv'
<1>. DEFINE h == authorizer[a]
            f == [h EXCEPT !.closing = TRUE]
<1>1. h \in AuthorizerRecords /\ AuthorizerIsSound(a) /\ RefreshIsUnused(a)
  BY OAuthParts
<1>2. /\ f \in AuthorizerRecords /\ f.run = h.run /\ f.discovery = h.discovery /\ f.client = h.client
      /\ f.token = h.token /\ f.granted = h.granted /\ f.closing /\ f.closed = h.closed
      /\ f.interactive = h.interactive
  BY <1>1 DEF AuthorizerRecords
<1>3. authorizer' = [authorizer EXCEPT ![a] = f] /\ UNCHANGED <<stored, issuer>> /\ Settle(a, {"sent"}, "failed")
  BY DEF beginClose, Set
<1>. HIDE DEF f
<1>4. authorizer'[a] = f /\ \A b \in Authorizers : b # a => authorizer'[b] = authorizer[b]
  BY <1>3, OAuthParts
<1>5. AuthorizerIsSound(a)' /\ RefreshIsUnused(a)'
  BY <1>1, <1>2, <1>3 DEF AuthorizerIsSound, RefreshIsUnused
<1>6. ASSUME NEW o \in Operations
      PROVE  OperationIsSound(o)'
  <2>1. OperationIsSound(o) /\ OwnerOf[o] \in Authorizers
    BY OAuthParts, OAuthTypes
  <2>2. /\ operation'[o].bound = operation[o].bound /\ operation'[o].tries = operation[o].tries
        /\ \/ operation'[o].phase = "failed"
           \/ /\ operation'[o].phase = operation[o].phase
              /\ OwnerOf[o] # a \/ operation[o].phase # "sent"
    BY <1>3, Settled
  <2>3. CASE OwnerOf[o] = a
    BY <1>2, <1>4, <2>1, <2>2 DEF OperationIsSound
  <2>4. CASE OwnerOf[o] # a
    BY <1>4, <2>1, <2>2, <2>4 DEF OperationIsSound
  <2>. QED BY <2>3, <2>4
<1>. QED BY <1>2, <1>3, <1>5, <1>6, Settled, AuthorizerMoves, OAuthParts DEF FileNamesClients, IssuerIsSound

\* An operation asks its authorizer to authenticate, or fails with it.
LEMMA Authenticates ==
  ASSUME OAuthInv, NEW o \in Operations, NEW forced \in BOOLEAN, NEW scopes \in SUBSET Scopes,
         NEW phase \in {"refreshing", "authorizing"}, authenticate(o, forced, scopes, phase), UNCHANGED <<stored, issuer>>,
         operation[o].tries = 0 \/ (operation[o].tries = 1 /\ phase = "authorizing"),
         KindOf[o] = "request" /\ phase = "authorizing" => Configured = NotConfigured \/ NeedOf[o] \subseteq Configured
  PROVE  OAuthInv'
<1>. DEFINE a == OwnerOf[o]
            h == authorizer[a]
            f == IF Open(a) THEN Asked(a, forced, scopes) ELSE h
            to == IF Open(a) THEN phase ELSE "failed"
            w == [operation[o] EXCEPT !.phase = to]
<1>1. /\ a \in Authorizers /\ h \in AuthorizerRecords /\ AuthorizerIsSound(a) /\ operation[o] \in OperationRecords
      /\ OperationIsSound(o)
  BY OAuthParts, OAuthTypes
<1>2. /\ f \in AuthorizerRecords
      /\ \A field \in {"client", "token", "granted", "closing", "closed"} : f[field] = h[field]
      /\ \/ f.run = h.run /\ f.interactive = h.interactive /\ f.discovery = h.discovery
         \/ h.run = "none" /\ f.run = "discover" /\ ~f.interactive /\ f.discovery = Discovery(a) /\ f.discovery # "none"
      /\ Open(a) => f.run # "none"
  <2>1. CASE Open(a) /\ h.run = "none"
    BY <1>1, <2>1 DEF Asked, AuthorizerRecords, Discovery
  <2>2. CASE ~(Open(a) /\ h.run = "none")
    BY <1>1, <2>2 DEF Asked
  <2>. QED BY <2>1, <2>2
<1>3. w \in OperationRecords /\ w.bound = operation[o].bound /\ w.phase = to /\ w.tries = operation[o].tries
  BY <1>1 DEF OperationRecords
<1>4. authorizer' = [authorizer EXCEPT ![a] = f] /\ operation' = [operation EXCEPT ![o] = w]
  BY OAuthParts DEF authenticate, Set, Reach
<1>. HIDE DEF f, w
<1>5. authorizer'[a] = f /\ operation'[o] = w
  BY <1>1, <1>4, OAuthParts
<1>6. OperationIsSound(o)'
  BY <1>1, <1>2, <1>3, <1>5 DEF OperationIsSound, Open
<1>7. f.discovery = h.discovery \/ (h.discovery = "none" /\ f.discovery = "running")
  BY <1>2 DEF Discovery, AuthorizerRecords
<1>. QED BY <1>2, <1>3, <1>4, <1>6, <1>7, OperationMoves

\* An operation goes on and its authorizer keeps what matters.
LEMMA OperationGoes ==
  ASSUME OAuthInv, NEW o \in Operations, NEW w \in OperationRecords, NEW last \in Nat,
         operation' = [operation EXCEPT ![o] = w],
         authorizer' = [authorizer EXCEPT ![OwnerOf[o]] = [authorizer[OwnerOf[o]] EXCEPT !.last = last]],
         UNCHANGED <<stored, issuer>>,
         w.bound, w.phase \in {"sent", "done", "failed", "refused"},
         w.phase = "sent" => w.tries \in {1, 2} /\ (Open(OwnerOf[o]) \/ KindOf[o] = "delete")
  PROVE  OAuthInv'
<1>. DEFINE a == OwnerOf[o]
            h == authorizer[a]
            f == [h EXCEPT !.last = last]
<1>1. a \in Authorizers /\ h \in AuthorizerRecords
  BY OAuthParts, OAuthTypes
<1>2. /\ f \in AuthorizerRecords /\ f.run = h.run /\ f.interactive = h.interactive /\ f.discovery = h.discovery
      /\ f.closing = h.closing
      /\ \A field \in {"client", "token", "granted", "closing", "closed"} : f[field] = h[field]
  BY <1>1 DEF AuthorizerRecords
<1>. HIDE DEF f
<1>3. authorizer'[a] = f /\ operation'[o] = w
  BY <1>1, OAuthParts DEF f
<1>4. OperationIsSound(o)'
  BY <1>3 DEF OperationIsSound, Open
<1>. QED BY <1>2, <1>4, OperationMoves DEF f

\* The same, of an authorizer that is not asked anything.
LEMMA OperationGoesAlone ==
  ASSUME OAuthInv, NEW o \in Operations, NEW w \in OperationRecords,
         operation' = [operation EXCEPT ![o] = w], UNCHANGED <<authorizer, stored, issuer>>,
         w.bound, w.phase \in {"sent", "done", "failed", "refused"},
         w.phase = "sent" => w.tries \in {1, 2} /\ (Open(OwnerOf[o]) \/ KindOf[o] = "delete")
  PROVE  OAuthInv'
<1>. DEFINE h == authorizer[OwnerOf[o]]
<1>1. h \in AuthorizerRecords
  BY OAuthParts, OAuthTypes
<1>2. h.last \in Nat /\ h = [h EXCEPT !.last = h.last]
  BY <1>1 DEF AuthorizerRecords
<1>3. authorizer' = [authorizer EXCEPT ![OwnerOf[o]] = [h EXCEPT !.last = h.last]]
  BY <1>2, OAuthParts
<1>. QED BY <1>2, <1>3, OperationGoes

LEMMA Reached ==
  ASSUME OAuthInv, NEW o \in Operations, NEW phase \in {"done", "failed", "refused"}, Reach(o, phase)
  PROVE  /\ operation' = [operation EXCEPT ![o] = [operation[o] EXCEPT !.phase = phase]]
         /\ [operation[o] EXCEPT !.phase = phase] \in OperationRecords
         /\ [operation[o] EXCEPT !.phase = phase].phase = phase /\ [operation[o] EXCEPT !.phase = phase].bound
<1>1. operation[o] \in OperationRecords /\ operation[o].bound
  BY OAuthParts DEF OperationIsSound
<1>. QED BY <1>1 DEF OperationRecords, Reach

LEMMA OperationStops ==
  ASSUME OAuthInv, NEW o \in Operations, NEW phase \in {"done", "failed", "refused"}, Reach(o, phase),
         UNCHANGED <<authorizer, stored, issuer>>
  PROVE  OAuthInv'
  BY Reached, OperationGoesAlone

\* A token that goes out is bound, if its authorizer is open.
LEMMA Sent ==
  ASSUME OAuthInv, NEW o \in Operations, NEW token, token \in {NoToken, authorizer[OwnerOf[o]].token},
         Open(OwnerOf[o]), Send(o, token), operation[o].tries \in {0, 1}
  PROVE  \E w \in OperationRecords :
           operation' = [operation EXCEPT ![o] = w] /\ w.bound /\ w.phase = "sent" /\ w.tries \in {1, 2}
<1>. DEFINE h == authorizer[OwnerOf[o]]
            w == [operation[o] EXCEPT !.phase = "sent", !.with = token.id, !.tries = operation[o].tries + 1, !.bound = IsBound(o, token)]
<1>1. h \in AuthorizerRecords /\ AuthorizerIsSound(OwnerOf[o]) /\ operation[o] \in OperationRecords
  BY OAuthParts, OAuthTypes
<1>2. IsBound(o, token) = TRUE
  BY <1>1, OAuthTypes DEF IsBound, AuthorizerIsSound, Open
<1>3. token.id \in Nat
  BY <1>1, OAuthTypes DEF AuthorizerRecords, OAuthTokens
<1>4. w \in OperationRecords /\ w.bound /\ w.phase = "sent" /\ w.tries \in {1, 2}
  <2>1. operation[o].tries + 1 \in {1, 2} /\ operation[o].tries + 1 \in Nat
    OBVIOUS
  <2>. QED BY <1>1, <1>2, <1>3, <2>1 DEF OperationRecords
<1>5. operation' = [operation EXCEPT ![o] = w]
  BY DEF Send
<1>. QED BY <1>4, <1>5

LEMMA BeginsKeeps ==
  ASSUME OAuthInv, NEW o \in Operations, Begins(o)
  PROVE  OAuthInv'
<1>. DEFINE a == OwnerOf[o]
            h == authorizer[a]
<1>1. /\ a \in Authorizers /\ h \in AuthorizerRecords /\ AuthorizerIsSound(a) /\ operation[o] \in OperationRecords
      /\ operation[o].bound /\ operation[o].tries = 0 /\ KindOf[o] # "delete"
  BY OAuthParts, OAuthTypes DEF OperationIsSound, Begins
<1>2. CASE ~Open(a)
  BY <1>2, OperationStops DEF Begins
<1>3. CASE Open(a) /\ KindOf[o] = "authorize"
  BY <1>1, <1>3, Authenticates, OAuthTypes DEF Begins
<1>4. CASE Open(a) /\ KindOf[o] # "authorize"
  <2>. DEFINE f == [h EXCEPT !.discovery = Discovery(a)]
              w == [operation[o] EXCEPT !.phase = "token"]
  <2>1. authorizer' = [authorizer EXCEPT ![a] = f] /\ operation' = [operation EXCEPT ![o] = w] /\ UNCHANGED <<stored, issuer>>
    BY <1>4 DEF Begins, Reach, Set
  <2>2. w \in OperationRecords /\ w.bound /\ w.phase = "token" /\ w.tries = 0 /\ KindOf[o] \in {"prepare", "request"}
    BY <1>1, <1>4, OAuthTypes DEF OperationRecords
  <2>3. /\ f \in AuthorizerRecords /\ f.run = h.run /\ f.interactive = h.interactive /\ f.closing = h.closing /\ f.discovery # "none"
        /\ f.discovery = h.discovery \/ (h.discovery = "none" /\ f.discovery = "running")
        /\ \A field \in {"client", "token", "granted", "closing", "closed"} : f[field] = h[field]
    BY <1>1 DEF AuthorizerRecords, Discovery
  <2>. HIDE DEF f, w
  <2>4. authorizer'[a] = f /\ operation'[o] = w
    BY <1>1, <2>1, OAuthParts
  <2>5. OperationIsSound(o)'
    BY <2>2, <2>3, <2>4 DEF OperationIsSound
  <2>. QED BY <2>1, <2>2, <2>3, <2>5, OperationMoves
<1>. QED BY <1>2, <1>3, <1>4

LEMMA getAccessTokenKeeps ==
  ASSUME OAuthInv, NEW o \in Operations, getAccessToken(o)
  PROVE  OAuthInv'
<1>. DEFINE a == OwnerOf[o]
            token == authorizer[a].token
            missing == token.id = 0 \/ (Expired(token) /\ token.refresh = 0)
            noted == [authorizer EXCEPT ![a] = [authorizer[a] EXCEPT !.last = token.id]]
<1>1. /\ UNCHANGED <<stored, issuer>> /\ operation[o].phase = "token" /\ token.id \in Nat
      /\ operation[o].tries = 0 /\ KindOf[o] \in {"prepare", "request"}
  BY OAuthParts, OAuthTypes DEF getAccessToken, AuthorizerRecords, OAuthTokens, OperationIsSound
<1>2. \/ authenticate(o, FALSE, ScopesFor(Supported), "refreshing")
      \/ KindOf[o] = "prepare" /\ authenticate(o, FALSE, ScopesFor(Supported), "authorizing")
      \/ Reach(o, "failed") /\ UNCHANGED authorizer
      \/ Open(a) /\ Send(o, NoToken) /\ UNCHANGED authorizer
      \/ Reach(o, "done") /\ authorizer' = noted
      \/ Reach(o, "failed") /\ authorizer' = noted
      \/ Open(a) /\ Send(o, token) /\ authorizer' = noted
  <2>1. CASE KindOf[o] = "prepare"
    BY <2>1 DEF getAccessToken, Set
  <2>2. CASE KindOf[o] = "request"
    BY <2>2 DEF getAccessToken, Set
  <2>. QED BY <1>1, <2>1, <2>2
<1>3. CASE authenticate(o, FALSE, ScopesFor(Supported), "refreshing")
  <2>1. ScopesFor(Supported) \in SUBSET Scopes
    BY OAuthTypes
  <2>2. "refreshing" \in {"refreshing", "authorizing"} /\ "refreshing" # "authorizing" /\ FALSE \in BOOLEAN
    OBVIOUS
  <2>. HIDE DEF token, missing, noted
  <2>. QED BY <1>1, <1>3, <2>1, Authenticates
<1>4. CASE KindOf[o] = "prepare" /\ authenticate(o, FALSE, ScopesFor(Supported), "authorizing")
  BY <1>1, <1>4, Authenticates, OAuthTypes
<1>5. CASE Reach(o, "failed") /\ UNCHANGED authorizer
  BY <1>1, <1>5, OperationStops
<1>6. CASE Open(a) /\ Send(o, NoToken) /\ UNCHANGED authorizer
  BY <1>1, <1>6, Sent, OperationGoesAlone
<1>7. CASE (Reach(o, "done") \/ Reach(o, "failed")) /\ authorizer' = noted
  BY <1>1, <1>7, Reached, OperationGoes
<1>8. CASE Open(a) /\ Send(o, token) /\ authorizer' = noted
  BY <1>1, <1>8, Sent, OperationGoes
<1>. QED BY <1>2, <1>3, <1>4, <1>5, <1>6, <1>7, <1>8

LEMMA ContinuesRequestKeeps ==
  ASSUME OAuthInv, NEW o \in Operations, ContinuesRequest(o)
  PROVE  OAuthInv'
<1>. DEFINE a == OwnerOf[o]
            token == authorizer[a].token
<1>1. UNCHANGED <<stored, issuer>> /\ operation[o].tries \in {0, 1} /\ token.id \in Nat
  BY OAuthParts, OAuthTypes DEF ContinuesRequest, AuthorizerRecords, OAuthTokens, OperationIsSound
<1>2. \/ Reach(o, "done") /\ UNCHANGED authorizer
      \/ Reach(o, "failed") /\ UNCHANGED authorizer
      \/ /\ Open(a) /\ Send(o, token)
         /\ authorizer' = [authorizer EXCEPT ![a] = [authorizer[a] EXCEPT !.last = token.id]]
  BY DEF ContinuesRequest, Set
<1>. QED BY <1>1, <1>2, OperationStops, Sent, OperationGoes

LEMMA RequestAnsweredKeeps ==
  ASSUME OAuthInv, NEW o \in Operations, RequestAnswered(o)
  PROVE  OAuthInv'
<1>1. /\ UNCHANGED <<stored, issuer>> /\ NeedOf[o] \in SUBSET Scopes /\ ScopesFor(NeedOf[o]) \in SUBSET Scopes
      /\ operation[o].tries \in {1, 2}
  BY OAuthTypes, OAuthParts DEF RequestAnswered, OperationIsSound
<1>2. \/ \E phase \in {"done", "failed", "refused"} : Reach(o, phase) /\ UNCHANGED authorizer
      \/ /\ assertScopes(NeedOf[o]) /\ operation[o].tries = 1
         /\ authenticate(o, Challenge(o) = "insufficient_scope", ScopesFor(NeedOf[o]), "authorizing")
  BY <1>1 DEF RequestAnswered
<1>3. CASE \E phase \in {"done", "failed", "refused"} : Reach(o, phase) /\ UNCHANGED authorizer
  BY <1>1, <1>3, OperationStops
<1>4. CASE /\ assertScopes(NeedOf[o]) /\ operation[o].tries = 1
           /\ authenticate(o, Challenge(o) = "insufficient_scope", ScopesFor(NeedOf[o]), "authorizing")
  <2>. DEFINE forced == Challenge(o) = "insufficient_scope"
  <2>1. forced \in BOOLEAN /\ authenticate(o, forced, ScopesFor(NeedOf[o]), "authorizing")
    BY <1>4
  <2>. HIDE DEF forced
  <2>. QED BY <1>1, <1>4, Authenticates DEF assertScopes
<1>. QED BY <1>2, <1>3, <1>4

LEMMA DeleteBeginsKeeps ==
  ASSUME OAuthInv, NEW o \in Operations, DeleteBegins(o)
  PROVE  OAuthInv'
<1>. DEFINE w == IF authorizer[OwnerOf[o]].closed THEN [operation[o] EXCEPT !.phase = "failed"]
                 ELSE [operation[o] EXCEPT !.phase = "sent", !.with = authorizer[OwnerOf[o]].last, !.tries = 1]
<1>1. operation[o] \in OperationRecords /\ operation[o].bound /\ authorizer[OwnerOf[o]].last \in Nat
  BY OAuthParts, OAuthTypes DEF OperationIsSound, AuthorizerRecords
<1>2. w \in OperationRecords /\ w.bound /\ w.phase \in {"sent", "failed"} /\ (w.phase = "sent" => w.tries = 1)
  BY <1>1 DEF OperationRecords
<1>3. operation' = [operation EXCEPT ![o] = w] /\ UNCHANGED <<authorizer, stored, issuer>> /\ KindOf[o] = "delete"
  BY DEF DeleteBegins
<1>. HIDE DEF w
<1>. QED BY <1>2, <1>3, OperationGoesAlone

\* Neither a sign-out nor a token that lapses touches an authorizer.
LEMMA OthersKeep ==
  ASSUME OAuthInv, UNCHANGED <<authorizer, operation>>, stored' \in CredentialFiles, FileNamesClients',
         issuer' \in Issuers, issuer'.next = issuer.next, Replaced' = Replaced,
         issuer'.refreshes \subseteq issuer.refreshes
  PROVE  OAuthInv'
<1>1. IssuerIsSound'
  BY OAuthParts DEF IssuerIsSound
<1>2. \A a \in Authorizers : AuthorizerIsSound(a)' /\ RefreshIsUnused(a)'
  BY OAuthParts DEF AuthorizerIsSound, RefreshIsUnused
<1>3. \A o \in Operations : OperationIsSound(o)'
  BY OAuthParts DEF OperationIsSound
<1>. QED BY <1>1, <1>2, <1>3 DEF OAuthInv, OAuthTyped

LEMMA SignOutKeeps ==
  ASSUME OAuthInv, SignOut \/ TokenLapses \/ UNCHANGED oauthVars
  PROVE  OAuthInv'
<1>1. issuer \in Issuers /\ stored \in CredentialFiles /\ FileNamesClients
  BY OAuthParts
<1>2. CASE SignOut
  BY <1>1, <1>2, OthersKeep, OAuthTypes DEF SignOut, CredentialFiles, FileNamesClients
<1>3. CASE TokenLapses
  <2>1. PICK id \in issuer.valid \ issuer.expired :
          \/ issuer' = [issuer EXCEPT !.expired = @ \union {id}]
          \/ issuer' = [issuer EXCEPT !.valid = @ \ {id}, !.refreshes = @ \ {id}]
    BY <1>3 DEF TokenLapses
  <2>2. issuer' \in Issuers /\ issuer'.next = issuer.next /\ Replaced' = Replaced
        /\ issuer'.refreshes \subseteq issuer.refreshes
    <3>1. CASE issuer' = [issuer EXCEPT !.expired = @ \union {id}]
      BY <1>1, <3>1 DEF Issuers
    <3>2. CASE issuer' = [issuer EXCEPT !.valid = @ \ {id}, !.refreshes = @ \ {id}]
      BY <1>1, <3>2 DEF Issuers
    <3>. QED BY <2>1, <3>1, <3>2
  <2>. QED BY <1>1, <1>3, <2>2, OthersKeep DEF TokenLapses, FileNamesClients
<1>4. CASE UNCHANGED oauthVars
  BY <1>1, <1>4, OthersKeep DEF oauthVars, FileNamesClients
<1>. QED BY <1>2, <1>3, <1>4

LEMMA OAuthStarts == OAuthInit => OAuthInv
<1>. SUFFICES ASSUME OAuthInit PROVE OAuthInv
  OBVIOUS
<1>1. stored \in CredentialFiles /\ FileNamesClients
  BY OAuthAssumption DEF OAuthInit, CredentialFiles, FileNamesClients
<1>2. /\ issuer \in Issuers /\ Replaced = {} /\ IssuerIsSound
  BY OAuthAssumption DEF OAuthInit, Issuers, IssuerIsSound
<1>3. /\ authorizer \in [Authorizers -> AuthorizerRecords]
      /\ \A a \in Authorizers : /\ authorizer[a].run = "none" /\ authorizer[a].discovery = "none"
                                /\ authorizer[a].token = NoToken /\ ~authorizer[a].closing /\ ~authorizer[a].closed
  BY OAuthTypes DEF OAuthInit, AuthorizerRecords
<1>4. /\ operation \in [Operations -> OperationRecords]
      /\ \A o \in Operations : operation[o].bound /\ operation[o].phase \in {"idle", "never"} /\ operation[o].tries = 0
  BY DEF OAuthInit, OperationRecords
<1>5. \A a \in Authorizers : AuthorizerIsSound(a) /\ RefreshIsUnused(a)
  BY <1>2, <1>3, OAuthTypes DEF AuthorizerIsSound, RefreshIsUnused
<1>6. \A o \in Operations : OperationIsSound(o)
  BY <1>4 DEF OperationIsSound
<1>. QED BY <1>1, <1>2, <1>3, <1>4, <1>5, <1>6 DEF OAuthInv, OAuthTyped

LEMMA OAuthSteps == OAuthInv /\ [OAuthNext]_oauthVars => OAuthInv'
<1>. SUFFICES ASSUME OAuthInv, OAuthNext PROVE OAuthInv'
  BY SignOutKeeps
<1>1. ASSUME NEW a \in Authorizers,
             \/ RegistrationLoaded(a) \/ Unregisters(a) \/ TokenLoaded(a) \/ DropsForeignToken(a)
             \/ DiscoveryFails(a) \/ AuthBegins(a) \/ Registers(a) \/ RefreshesOAuth(a)
             \/ RefreshAnswerLost(a) \/ RefreshDenied(a) \/ Invalidates(a) \/ RefreshErs(a)
             \/ Redirects(a) \/ CallbackArrives(a) \/ Exchanges(a) \/ Saves(a) \/ SaveFails(a) \/ RunFails(a)
             \/ beginClose(a) \/ close(a)
      PROVE  OAuthInv'
  BY <1>1, RegistrationKeeps, TokenLoadedKeeps, DiscoveryFailsKeeps, RunStepKeeps, RegistersKeeps,
     RefreshesOAuthKeeps, RefreshAnswerLostKeeps, ExchangesKeeps, SavesKeeps, SaveFailsKeeps,
     RunFailsKeeps, beginCloseKeeps, closeKeeps
<1>2. ASSUME NEW o \in Operations,
             Begins(o) \/ getAccessToken(o) \/ ContinuesRequest(o) \/ RequestAnswered(o) \/ DeleteBegins(o)
      PROVE  OAuthInv'
  BY <1>2, BeginsKeeps, getAccessTokenKeeps, ContinuesRequestKeeps, RequestAnsweredKeeps, DeleteBeginsKeeps
<1>. QED BY <1>1, <1>2, SignOutKeeps DEF OAuthNext

LEMMA OAuthInvSuffices == OAuthInv => McpOAuthIsSafe
<1>. SUFFICES ASSUME OAuthInv PROVE McpOAuthIsSafe
  OBVIOUS
<1>1. \A o \in Operations : OperationIsSound(o)
  BY OAuthParts
<1>2. \A a \in Authorizers : RefreshIsUnused(a)
  BY OAuthParts
<1>3. RefreshesGoOnce
  BY <1>2 DEF RefreshesGoOnce, RefreshIsUnused
<1>. QED BY <1>1, <1>3 DEF McpOAuthIsSafe, SentTokensAreBound, NobodyWaitsInVain, OnlyDeletesAfterClose,
            BrowserIsOfUse, Open, OperationIsSound

\* Tokens stay with whom they were issued to, a refresh token that was replaced
\* goes again only if its replacement was lost, and nobody waits in vain.
THEOREM McpOAuthIsAlwaysSafe == OAuthSpec => []McpOAuthIsSafe
  BY OAuthStarts, OAuthSteps, OAuthInvSuffices, PTL DEF OAuthSpec

-----------------------------------------------------------------------------
LEMMA CredentialSteps ==
  ASSUME [ServicesNext]_servicesVars
  PROVE  [AuthNext]_authVars /\ [OAuthNext]_oauthVars
<1>1. CASE ServicesNext
  BY <1>1 DEF ServicesNext
<1>2. CASE UNCHANGED servicesVars
  BY <1>2 DEF servicesVars
<1>. QED BY <1>1, <1>2

\* Whatever services run, the tokens of the file and those of the authorizers
\* are safe.
THEOREM CredentialsAreAlwaysSafe == ServicesSpec => []CredentialsAreSafe
<1>1. ServicesInit => AuthInv /\ OAuthInv
  BY AuthStarts, OAuthStarts DEF ServicesInit
<1>2. AuthInv /\ OAuthInv /\ [ServicesNext]_servicesVars => (AuthInv /\ OAuthInv)'
  BY CredentialSteps, AuthSteps, OAuthSteps
<1>3. AuthInv /\ OAuthInv => CredentialsAreSafe
  BY AuthInvSuffices, OAuthInvSuffices DEF CredentialsAreSafe
<1>. QED BY <1>1, <1>2, <1>3, PTL DEF ServicesSpec
=============================================================================
