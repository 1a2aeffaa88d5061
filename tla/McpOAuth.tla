------------------------------ MODULE McpOAuth ------------------------------
(***************************************************************************)
(* OAuth of an MCP server over HTTP (src/mcp/oauth-http-authorizer.ts):    *)
(* discovery, dynamic registration, refresh, interactive authorization     *)
(* through the loopback callback server, the requests that carry the       *)
(* token and recover once from a challenge, closing, and the sign-out and  *)
(* the separate authorization a user asks for in /mcp                      *)
(* (src/kana/mcp/oauth.ts).  All authorizers of a server share the stored  *)
(* credentials of its key.                                                 *)
(*                                                                         *)
(* The authorization server, the user's browser and the OAuth steps of the *)
(* MCP SDK are external.  A token is a number; time is the set of tokens   *)
(* that have expired.                                                      *)
(***************************************************************************)
EXTENDS Naturals, FiniteSets

CONSTANTS
  Authorizers,  \* the client's, and those of authorizations asked for in /mcp
  Operations,   \* what is asked of them
  OwnerOf,      \* of each operation, its authorizer
  KindOf,       \* of each: "prepare", "request", "authorize" or "delete"
  Scopes,       \* the scopes the resource knows
  NeedOf,       \* of each operation, the scopes the resource asks of it
  Supported,    \* those the metadata of the resource offers
  Configured,   \* the scopes of the configuration, or NotConfigured
  ClientIsSet,  \* the configuration names a client
  Rotates,      \* the authorization server replaces a refresh token it accepts
  StoredAtStart,\* what the credential file may hold at the start
  Plans,        \* the sets of operations that are asked for together
  MaxOAuthTokens \* how many tokens are issued

NotConfigured == {"unset"}
OAuthTokens == [id : Nat, refresh : Nat, client : Nat, resource : {"this", "another"}, scopes : SUBSET Scopes]
Registrations == [client : Nat, resource : {"this", "another"}]
\* A token in the file names the client it was issued to.
ASSUME OAuthAssumption ==
  /\ OwnerOf \in [Operations -> Authorizers] /\ Configured \in (SUBSET Scopes) \union {NotConfigured}
  /\ NeedOf \in [Operations -> SUBSET Scopes] /\ Supported \subseteq Scopes /\ MaxOAuthTokens \in Nat
  /\ KindOf \in [Operations -> {"prepare", "request", "authorize", "delete"}]
  /\ Rotates \in BOOLEAN /\ ClientIsSet \in BOOLEAN
  /\ StoredAtStart \subseteq [token : OAuthTokens, registration : Registrations]
  /\ \A file \in StoredAtStart : file.token.id # 0 => file.token.client # 0

VARIABLES
  authorizer,  \* the fields of each McpOAuthHttpAuthorizer
  operation,   \* how far each operation is, and the token it was sent with
  stored,      \* the token and the registration in the credential file
  issuer       \* the authorization server: tokens valid, expired, accepted

oauthVars == <<authorizer, operation, stored, issuer>>

NoToken == [id |-> 0, refresh |-> 0, client |-> 0, resource |-> "this", scopes |-> {}]
NoRegistration == [client |-> 0, resource |-> "this"]
SetClient == 1
Open(a) == ~authorizer[a].closing
Set(a, fields) == authorizer' = [authorizer EXCEPT ![a] = fields]
Reach(o, phase) == operation' = [operation EXCEPT ![o].phase = phase]
Expired(token) == token.id \in issuer.expired
Waiting(a, phases) == {o \in Operations : OwnerOf[o] = a /\ operation[o].phase \in phases}
\* Every operation that awaits the promise of a goes on, or fails with it.
Settle(a, phases, to) ==
  operation' = [o \in Operations |->
    IF o \in Waiting(a, phases) THEN [operation[o] EXCEPT !.phase = to] ELSE operation[o]]

(* Discovery: shared by all who need it.  It loads the registration and
   the token, each behind an await, and drops those of another issuer,
   resource or client.  Once the metadata is kept it is not run again,
   though what follows it should fail. *)
Discovering(a) == authorizer[a].discovery \notin {"none", "known"}
Discovery(a) == IF authorizer[a].discovery = "none" THEN "running" ELSE authorizer[a].discovery
\* Deletes are by key: they drop what another authorizer saved meanwhile.
Unregistered == [stored EXCEPT !.registration = NoRegistration]
Dropped == [stored EXCEPT !.token = NoToken]
WithClient(a, registration) ==
  [authorizer[a] EXCEPT !.discovery = "loading",
                        !.client = IF ClientIsSet THEN SetClient ELSE registration.client]
RegistrationLoaded(a) ==
  /\ authorizer[a].discovery = "running" /\ Open(a)
  /\ IF stored.registration.client # 0 /\ stored.registration.resource # "this"
     THEN Set(a, [authorizer[a] EXCEPT !.discovery = "unregister"])
     ELSE Set(a, WithClient(a, stored.registration))
  /\ UNCHANGED <<operation, stored, issuer>>
Unregisters(a) ==
  /\ authorizer[a].discovery = "unregister"
  /\ stored' = Unregistered
  /\ Set(a, WithClient(a, NoRegistration))
  /\ UNCHANGED <<operation, issuer>>
AnyToken(client) == stored.token.id # 0
UsableToken(client) ==
  stored.token.id # 0 /\ stored.token.resource = "this" /\ stored.token.client = client
TokenLoaded(a) ==
  /\ authorizer[a].discovery = "loading"
  /\ \/ /\ UsableToken(authorizer[a].client)
        /\ Set(a, [authorizer[a] EXCEPT !.discovery = "known", !.token = stored.token])
     \/ /\ ~UsableToken(authorizer[a].client)
        /\ Set(a, [authorizer[a] EXCEPT !.discovery = IF stored.token.id = 0 THEN "known" ELSE "dropping",
                                        !.token = NoToken])
  /\ UNCHANGED <<operation, stored, issuer>>
DropsForeignToken(a) ==
  /\ authorizer[a].discovery = "dropping"
  /\ stored' = Dropped
  /\ Set(a, [authorizer[a] EXCEPT !.discovery = "known"])
  /\ UNCHANGED <<operation, issuer>>
\* A mutation of the file that fails may have written it: the lock is released
\* last.
DiscoveryFails(a) ==
  /\ Discovering(a)
  /\ Set(a, [authorizer[a] EXCEPT !.run = "none", !.callback = "none",
       !.discovery = IF @ \in {"loading", "dropping"} THEN "known" ELSE "none"])
  /\ Settle(a, {"token", "refreshing", "authorizing"}, "failed")
  /\ \/ UNCHANGED stored
     \/ authorizer[a].discovery = "unregister" /\ stored' = Unregistered
     \/ authorizer[a].discovery = "dropping" /\ stored' = Dropped
  /\ UNCHANGED issuer

(* authenticate: one authorization at a time; who asks meanwhile joins it. *)
AskedEach(a, forced, scopes) ==
  [authorizer[a] EXCEPT !.run = "discover", !.forced = forced, !.scopes = scopes,
                        !.discovery = Discovery(a), !.interactive = FALSE]
Asked(a, forced, scopes) ==
  IF authorizer[a].run # "none" THEN authorizer[a]
  ELSE [authorizer[a] EXCEPT !.run = "discover", !.forced = forced, !.scopes = scopes,
                             !.discovery = Discovery(a), !.interactive = FALSE]
authenticate(o, forced, scopes, phase) ==
  LET a == OwnerOf[o]
  IN IF Open(a) THEN Set(a, Asked(a, forced, scopes)) /\ Reach(o, phase)
     ELSE Reach(o, "failed") /\ UNCHANGED authorizer
\* The scopes of a run: those of the configuration, or those offered, or those
\* a challenge names.
ScopesFor(offered) == IF Configured # NotConfigured THEN Configured ELSE offered

\* What the SDK's auth() does next: register, refresh, or send to the browser.
NextOfAuth(a) ==
  IF authorizer[a].client = 0 THEN "register"
  ELSE IF authorizer[a].token.refresh # 0 /\ ~authorizer[a].forced THEN "refresh" ELSE "redirect"
AuthBegins(a) ==
  /\ authorizer[a].run = "discover" /\ authorizer[a].discovery = "known"
  /\ Set(a, [authorizer[a] EXCEPT !.run = NextOfAuth(a),
                                  !.callback = IF authorizer[a].client = 0 THEN "bound" ELSE @])
  /\ UNCHANGED <<operation, stored, issuer>>
\* The end of a run closes the callback server and wakes all who wait.
OAuthRunEnds(a, fields, to) ==
  /\ Set(a, [fields EXCEPT !.run = "none", !.callback = "none"])
  /\ Settle(a, {"refreshing", "authorizing"}, to)
\* saveClientInformation; it fails if the lock of the file cannot be released.
Registers(a) ==
  /\ authorizer[a].run = "register" /\ Open(a) /\ issuer.clients < MaxOAuthTokens
  /\ LET client == issuer.clients + 2
     IN /\ issuer' = [issuer EXCEPT !.clients = @ + 1]
        /\ stored' = [stored EXCEPT !.registration = [client |-> client, resource |-> "this"]]
        /\ \/ Set(a, [authorizer[a] EXCEPT !.client = client, !.run = "redirect"]) /\ UNCHANGED operation
           \/ OAuthRunEnds(a, authorizer[a], "failed")

NewToken(a, scopes, refresh) ==
  [id |-> issuer.next, refresh |-> refresh, client |-> authorizer[a].client,
   resource |-> "this", scopes |-> scopes]
Accepts(refresh) == refresh \in issuer.refreshes
\* The server accepts a refresh and issues a token, with or without a new
\* refresh token.
Refreshed(a, missed) ==
  LET held == authorizer[a].token
  IN [issuer EXCEPT !.next = @ + 1, !.valid = @ \union {issuer.next},
        !.refreshes = IF Rotates THEN (@ \ {held.refresh}) \union {issuer.next} ELSE @,
        !.presented = @ \union {<<a, held.refresh>>}, !.lost = @ \union missed,
        !.scopesOf[issuer.next] = held.scopes]
RefreshesOAuth(a) ==
  LET held == authorizer[a].token
  IN /\ authorizer[a].run = "refresh" /\ Open(a) /\ issuer.next <= MaxOAuthTokens
     /\ Accepts(held.refresh)
     /\ issuer' = Refreshed(a, {})
     /\ Set(a, [authorizer[a] EXCEPT !.run = "saving",
          !.granted = NewToken(a, held.scopes, IF Rotates THEN issuer.next ELSE held.refresh)])
     /\ UNCHANGED <<operation, stored>>
\* Its answer does not arrive, or after beginClose: the replaced token is held.
\* To the SDK the refresh failed, and it goes on in the browser.
RefreshAnswerLost(a) ==
  LET held == authorizer[a].token
  IN /\ authorizer[a].run = "refresh" /\ issuer.next <= MaxOAuthTokens /\ Accepts(held.refresh)
     /\ issuer' = Refreshed(a, {<<a, held.refresh>>})
     /\ Set(a, [authorizer[a] EXCEPT !.run = "redirect"])
     /\ UNCHANGED <<operation, stored>>
\* The server answers invalid_grant: invalidateCredentials("tokens") drops the
\* token, then deletes it, and the SDK tries again: in the browser.
RefreshDenied(a) ==
  /\ authorizer[a].run = "refresh" /\ Open(a) /\ ~Accepts(authorizer[a].token.refresh)
  /\ Set(a, [authorizer[a] EXCEPT !.run = "invalidate", !.token = NoToken])
  /\ UNCHANGED <<operation, stored, issuer>>
Invalidates(a) ==
  /\ authorizer[a].run = "invalidate"
  /\ Set(a, [authorizer[a] EXCEPT !.run = "redirect"])
  /\ stored' = Dropped
  /\ UNCHANGED <<operation, issuer>>
\* The server is not reached, or answers with an error of its own.
RefreshErs(a) ==
  /\ authorizer[a].run = "refresh" /\ Open(a)
  /\ Set(a, [authorizer[a] EXCEPT !.run = "redirect"])
  /\ UNCHANGED <<operation, stored, issuer>>
\* state(), then redirectToAuthorization: the callback is awaited before the
\* browser opens, and the scopes asked for stay within the configured ones.
Redirects(a) ==
  /\ authorizer[a].run = "redirect" /\ Open(a)
  /\ Configured # NotConfigured => authorizer[a].scopes \subseteq Configured
  /\ Set(a, [authorizer[a] EXCEPT !.run = "browser", !.callback = "waiting", !.interactive = TRUE])
  /\ UNCHANGED <<operation, stored, issuer>>
\* The user approves; a callback with the state of another is refused.
CallbackArrives(a) ==
  /\ authorizer[a].run = "browser" /\ authorizer[a].callback = "waiting" /\ Open(a)
  /\ Set(a, [authorizer[a] EXCEPT !.run = "exchange", !.callback = "bound"])
  /\ UNCHANGED <<operation, stored, issuer>>
Exchanges(a) ==
  /\ authorizer[a].run = "exchange" /\ Open(a) /\ issuer.next <= MaxOAuthTokens
  /\ \E withRefresh \in BOOLEAN :
       LET refresh == IF withRefresh THEN issuer.next ELSE authorizer[a].token.refresh
       IN /\ issuer' = [issuer EXCEPT !.next = @ + 1, !.valid = @ \union {issuer.next},
                          !.refreshes = IF withRefresh THEN @ \union {issuer.next} ELSE @,
                          !.scopesOf[issuer.next] = authorizer[a].scopes]
          /\ Set(a, [authorizer[a] EXCEPT !.run = "saving",
                                          !.granted = NewToken(a, authorizer[a].scopes, refresh)])
  /\ UNCHANGED <<operation, stored>>

SavesFileOnly(a) ==
  /\ authorizer[a].run = "saving"
  /\ stored' = [stored EXCEPT !.token = authorizer[a].granted]
  /\ OAuthRunEnds(a, [authorizer[a] EXCEPT !.last = authorizer[a].granted.id], "granted")
  /\ UNCHANGED issuer
\* saveTokens ends when the credential file is written, even if the authorizer
\* is closed meanwhile: only then does the authorizer hold the new token.
Saves(a) ==
  /\ authorizer[a].run = "saving"
  /\ stored' = [stored EXCEPT !.token = authorizer[a].granted]
  /\ OAuthRunEnds(a, [authorizer[a] EXCEPT !.token = authorizer[a].granted, !.last = authorizer[a].granted.id],
             "granted")
  /\ UNCHANGED issuer
\* The file cannot be locked, written or unlocked: the token held is the old
\* one.  After a refresh the SDK goes on in the browser, after an exchange the
\* run fails.
SaveFails(a) ==
  /\ authorizer[a].run = "saving"
  /\ stored' \in {stored, [stored EXCEPT !.token = authorizer[a].granted]}
  /\ \/ /\ ~authorizer[a].interactive
        /\ issuer' = [issuer EXCEPT !.lost = @ \union {<<a, authorizer[a].token.refresh>>}]
        /\ Set(a, [authorizer[a] EXCEPT !.run = "redirect"]) /\ UNCHANGED operation
     \/ /\ authorizer[a].interactive
        /\ OAuthRunEnds(a, authorizer[a], "failed") /\ UNCHANGED issuer
\* Denied, timed out, aborted, or refused by the server, the scopes or the file.
RunFails(a) ==
  /\ authorizer[a].run \notin {"none", "saving"} /\ ~Discovering(a)
  /\ OAuthRunEnds(a, authorizer[a], "failed")
  /\ \/ UNCHANGED stored
     \/ authorizer[a].run = "invalidate" /\ stored' = Dropped
  /\ UNCHANGED issuer

(* fetch, prepare and authorize. *)
Begins(o) ==
  LET a == OwnerOf[o]
  IN /\ operation[o].phase = "idle" /\ KindOf[o] # "delete"
     /\ KindOf[o] = "request" =>
          \E p \in Operations : OwnerOf[p] = a /\ KindOf[p] = "prepare" /\ operation[p].phase = "done"
     /\ IF ~Open(a) THEN Reach(o, "failed") /\ UNCHANGED authorizer
        ELSE IF KindOf[o] = "authorize" THEN authenticate(o, TRUE, ScopesFor(Supported), "authorizing")
        ELSE /\ Reach(o, "token")
             /\ Set(a, [authorizer[a] EXCEPT !.discovery = Discovery(a)])
     /\ UNCHANGED <<stored, issuer>>
IsBound(o, token) ==
  token.id = 0 \/ (token.resource = "this" /\ token.client = authorizer[OwnerOf[o]].client)
Send(o, token) ==
  operation' = [operation EXCEPT ![o].phase = "sent", ![o].with = token.id, ![o].tries = @ + 1,
                                 ![o].bound = IsBound(o, token)]
getAccessToken(o) ==
  LET a == OwnerOf[o]  token == authorizer[a].token
      missing == token.id = 0 \/ (Expired(token) /\ token.refresh = 0)
  IN /\ operation[o].phase = "token" /\ authorizer[a].discovery = "known"
     /\ CASE ~missing /\ Expired(token) -> authenticate(o, FALSE, ScopesFor(Supported), "refreshing")
          [] missing /\ KindOf[o] = "prepare" -> authenticate(o, FALSE, ScopesFor(Supported), "authorizing")
          [] missing /\ KindOf[o] = "request" /\ ~Open(a) -> Reach(o, "failed") /\ UNCHANGED authorizer
          [] missing /\ KindOf[o] = "request" /\ Open(a) -> Send(o, NoToken) /\ UNCHANGED authorizer
          [] ~missing /\ ~Expired(token) /\ KindOf[o] = "prepare" ->
               Reach(o, "done") /\ Set(a, [authorizer[a] EXCEPT !.last = token.id])
          [] ~missing /\ ~Expired(token) /\ KindOf[o] = "request" ->
               /\ Set(a, [authorizer[a] EXCEPT !.last = token.id])
               /\ IF Open(a) THEN Send(o, token) ELSE Reach(o, "failed")
     /\ UNCHANGED <<stored, issuer>>
\* A request whose authorizer began to close is aborted before it is sent.
ContinuesAnyway(o) ==
  LET a == OwnerOf[o]
  IN /\ operation[o].phase = "granted"
     /\ IF KindOf[o] = "request"
        THEN Send(o, authorizer[a].token) /\ Set(a, [authorizer[a] EXCEPT !.last = authorizer[a].token.id])
        ELSE Reach(o, "done") /\ UNCHANGED authorizer
     /\ UNCHANGED <<stored, issuer>>
ContinuesRequest(o) ==
  LET a == OwnerOf[o]
  IN /\ operation[o].phase = "granted"
     /\ CASE KindOf[o] # "request" -> Reach(o, "done") /\ UNCHANGED authorizer
          [] KindOf[o] = "request" /\ ~Open(a) -> Reach(o, "failed") /\ UNCHANGED authorizer
          [] OTHER -> /\ Send(o, authorizer[a].token)
                      /\ Set(a, [authorizer[a] EXCEPT !.last = authorizer[a].token.id])
     /\ UNCHANGED <<stored, issuer>>

\* The resource answers.  The first challenge is met by an authorization,
\* unless it asks for scopes the configuration leaves out; the second is final.
Challenge(o) ==
  IF operation[o].with \notin issuer.valid \ issuer.expired THEN "authorization_required"
  ELSE IF ~(NeedOf[o] \subseteq issuer.scopesOf[operation[o].with]) THEN "insufficient_scope"
  ELSE "none"
assertNoScopes(scopes) == TRUE
assertScopes(scopes) == Configured = NotConfigured \/ scopes \subseteq Configured
RequestAnswered(o) ==
  LET challenge == Challenge(o)
  IN /\ operation[o].phase = "sent"
     /\ CASE challenge = "none" -> Reach(o, "done") /\ UNCHANGED authorizer
          [] challenge # "none" /\ (operation[o].tries = 2 \/ KindOf[o] = "delete") ->
               Reach(o, "refused") /\ UNCHANGED authorizer
          [] challenge # "none" /\ operation[o].tries = 1 /\ KindOf[o] # "delete" ->
               IF ~assertScopes(NeedOf[o]) THEN Reach(o, "failed") /\ UNCHANGED authorizer
               ELSE authenticate(o, challenge = "insufficient_scope", ScopesFor(NeedOf[o]), "authorizing")
     /\ UNCHANGED <<stored, issuer>>

(* Closing.  beginClose aborts all that waits but a token being saved; the
   DELETE of the MCP session may still be sent, with the last token. *)
beginClose(a) ==
  /\ Open(a) /\ \E o \in Operations : OwnerOf[o] = a /\ operation[o].phase \notin {"idle", "never"}
  /\ Set(a, [authorizer[a] EXCEPT !.closing = TRUE])
  /\ Settle(a, {"sent"}, "failed")
  /\ UNCHANGED <<stored, issuer>>
DeleteBegins(o) ==
  LET a == OwnerOf[o]
  IN /\ KindOf[o] = "delete" /\ operation[o].phase = "idle" /\ authorizer[a].closing
     /\ operation' = [operation EXCEPT ![o] =
          IF authorizer[a].closed THEN [@ EXCEPT !.phase = "failed"]
          ELSE [@ EXCEPT !.phase = "sent", !.with = authorizer[a].last, !.tries = 1]]
     /\ UNCHANGED <<authorizer, stored, issuer>>
\* close: it happens when the client has closed, its DELETE answered or not.
close(a) ==
  /\ authorizer[a].closing /\ ~authorizer[a].closed
  /\ Set(a, [authorizer[a] EXCEPT !.closed = TRUE, !.token = NoToken, !.last = 0, !.client = 0])
  /\ UNCHANGED <<operation, stored, issuer>>
\* signOutKanaMcpServer.
SignOut ==
  /\ stored.token.id # 0
  /\ stored' = [token |-> NoToken, registration |-> NoRegistration]
  /\ UNCHANGED <<authorizer, operation, issuer>>
\* A token expires, or the authorization server revokes it.
TokenLapses ==
  /\ \E id \in issuer.valid \ issuer.expired :
       \/ issuer' = [issuer EXCEPT !.expired = @ \union {id}]
       \/ issuer' = [issuer EXCEPT !.valid = @ \ {id}, !.refreshes = @ \ {id}]
  /\ UNCHANGED <<authorizer, operation, stored>>

OAuthInit ==
  /\ authorizer = [a \in Authorizers |->
       [discovery |-> "none", run |-> "none", forced |-> FALSE, scopes |-> {}, callback |-> "none",
        interactive |-> FALSE, client |-> 0, token |-> NoToken, granted |-> NoToken, last |-> 0,
        closing |-> FALSE, closed |-> FALSE]]
  /\ \E plan \in Plans :
       operation = [o \in Operations |->
         [phase |-> IF o \in plan THEN "idle" ELSE "never", with |-> 0, tries |-> 0, bound |-> TRUE]]
  /\ stored \in StoredAtStart
  /\ issuer = [next |-> 2, valid |-> {1}, expired |-> {}, refreshes |-> {1}, presented |-> {}, lost |-> {},
               clients |-> 0, scopesOf |-> [id \in 0..MaxOAuthTokens |-> IF id = 1 THEN Supported ELSE {}]]
OAuthNext ==
  \/ \E a \in Authorizers :
       \/ RegistrationLoaded(a) \/ Unregisters(a) \/ TokenLoaded(a) \/ DropsForeignToken(a)
       \/ DiscoveryFails(a) \/ AuthBegins(a) \/ Registers(a) \/ RefreshesOAuth(a)
       \/ RefreshAnswerLost(a) \/ RefreshDenied(a) \/ Invalidates(a) \/ RefreshErs(a)
       \/ Redirects(a) \/ CallbackArrives(a) \/ Exchanges(a) \/ Saves(a) \/ SaveFails(a) \/ RunFails(a)
       \/ beginClose(a) \/ close(a)
  \/ \E o \in Operations :
       Begins(o) \/ getAccessToken(o) \/ ContinuesRequest(o) \/ RequestAnswered(o) \/ DeleteBegins(o)
  \/ SignOut \/ TokenLapses
OAuthSpec == OAuthInit /\ [][OAuthNext]_oauthVars

(* What is required. *)
\* A token goes only to the resource and from the client it was issued for,
\* whatever the credential file held when the authorizer read it.
SentTokensAreBound == \A o \in Operations : operation[o].bound
\* A refresh token the server has replaced is not presented again by the
\* authorizer that replaced it, however many requests found the token expired,
\* unless the server's answer was lost or could not be saved: then the replaced
\* token is still held (saveTokens assigns it last) and the next refresh
\* presents it again.
RefreshesGoOnce ==
  Rotates => \A a \in Authorizers :
    LET shown == <<a, authorizer[a].token.refresh>>
    IN authorizer[a].run = "refresh" /\ shown \in issuer.presented => shown \in issuer.lost
\* Nobody waits for an authorization or a discovery that is not under way.
NobodyWaitsInVain ==
  \A o \in Operations :
    /\ operation[o].phase \in {"refreshing", "authorizing"} => authorizer[OwnerOf[o]].run # "none"
    /\ operation[o].phase = "token" => authorizer[OwnerOf[o]].discovery # "none"
\* A closing authorizer sends nothing but the DELETE of its session.
OnlyDeletesAfterClose ==
  \A o \in Operations :
    operation[o].phase = "sent" /\ ~Open(OwnerOf[o]) => KindOf[o] = "delete"
\* No browser opens for a challenge that the configured scopes cannot meet.
BrowserIsOfUse ==
  \A o \in Operations :
    KindOf[o] = "request" /\ operation[o].phase = "authorizing" =>
      Configured = NotConfigured \/ NeedOf[o] \subseteq Configured
\* OAuth of MCP servers, as a whole: tokens stay with the resource and client
\* they are bound to, one authorization serves all who need it and wakes them
\* all, and closing stops everything but the farewell.
McpOAuthIsSafe ==
  /\ SentTokensAreBound /\ RefreshesGoOnce /\ NobodyWaitsInVain
  /\ OnlyDeletesAfterClose /\ BrowserIsOfUse
=============================================================================
