----------------------------- MODULE MCServices -----------------------------
(***************************************************************************)
(* One instance of the services around the Agent: which of them a          *)
(* behaviour exercises is chosen at the start, the others stay where they  *)
(* begin, so that TLC's states are the sum of theirs and not the product.  *)
(***************************************************************************)
EXTENDS HostedSessions, WakeScheduler, Subagents, HeadlessRun,
        McpServers, CodexAuth, MemoryConsolidation,
        ProviderStream, ChatStream, ContextWindow, McpOAuth

VARIABLE service

Services == {"host", "wakes", "children", "headless", "mcp", "auth", "memory", "provider", "chat", "context",
             "oauth"}
servicesVars == <<service, hostVars, wakeVars, childVars, headlessVars, mcpVars, authVars,
                  memoryVars, providerVars, chatVars, contextVars, oauthVars>>

\* A service that is not exercised begins in one of its initial states.
ServicesInit ==
  /\ service \in Services
  /\ HostInit
  /\ service # "host" => sessionMap[CHOOSE s \in Sessions : TRUE] = 1 /\ saved = {}
  /\ WakeInit
  /\ service # "wakes" => wakeRuntime.session = (CHOOSE s \in WakeSessions : TRUE)
  /\ SubagentsInit
  /\ HeadlessInit
  /\ service # "headless" => ~exec.goal
  /\ McpInit
  /\ AuthInit
  /\ service # "auth" => tokenFile.token = 0
  /\ MemoryInit
  /\ ProviderInit
  /\ service # "provider" => server.dialect = (CHOOSE d \in Dialects : TRUE) /\ server.kind = (CHOOSE r \in Responses : TRUE)
  /\ ChatInit
  /\ ContextInit
  /\ OAuthInit
  /\ service # "oauth" =>
       /\ stored = (CHOOSE s \in StoredAtStart : TRUE)
       /\ {o \in Operations : operation[o].phase = "idle"} = (CHOOSE plan \in Plans : TRUE)

ServicesNext ==
  /\ UNCHANGED service
  /\ \/ /\ service = "host" /\ HostNext
        /\ UNCHANGED <<wakeVars, childVars, headlessVars, mcpVars, authVars, memoryVars, providerVars, chatVars, contextVars, oauthVars>>
     \/ /\ service = "wakes" /\ WakeNext
        /\ UNCHANGED <<hostVars, childVars, headlessVars, mcpVars, authVars, memoryVars, providerVars, chatVars, contextVars, oauthVars>>
     \/ /\ service = "children" /\ SubagentsNext
        /\ UNCHANGED <<hostVars, wakeVars, headlessVars, mcpVars, authVars, memoryVars, providerVars, chatVars, contextVars, oauthVars>>
     \/ /\ service = "headless" /\ HeadlessNext
        /\ UNCHANGED <<hostVars, wakeVars, childVars, mcpVars, authVars, memoryVars, providerVars, chatVars, contextVars, oauthVars>>
     \/ /\ service = "mcp" /\ McpNext
        /\ UNCHANGED <<hostVars, wakeVars, childVars, headlessVars, authVars, memoryVars, providerVars, chatVars, contextVars, oauthVars>>
     \/ /\ service = "auth" /\ AuthNext
        /\ UNCHANGED <<hostVars, wakeVars, childVars, headlessVars, mcpVars, memoryVars, providerVars, chatVars, contextVars, oauthVars>>
     \/ /\ service = "memory" /\ MemoryNext
        /\ UNCHANGED <<hostVars, wakeVars, childVars, headlessVars, mcpVars, authVars, providerVars, chatVars, contextVars, oauthVars>>
     \/ /\ service = "provider" /\ ProviderNext
        /\ UNCHANGED <<hostVars, wakeVars, childVars, headlessVars, mcpVars, authVars, memoryVars, chatVars, contextVars, oauthVars>>
     \/ /\ service = "chat" /\ ChatNext
        /\ UNCHANGED <<hostVars, wakeVars, childVars, headlessVars, mcpVars, authVars, memoryVars, providerVars, contextVars, oauthVars>>
     \/ /\ service = "context" /\ ContextNext
        /\ UNCHANGED <<hostVars, wakeVars, childVars, headlessVars, mcpVars, authVars, memoryVars, providerVars, chatVars, oauthVars>>
     \/ /\ service = "oauth" /\ OAuthNext
        /\ UNCHANGED <<hostVars, wakeVars, childVars, headlessVars, mcpVars, authVars, memoryVars, providerVars, chatVars, contextVars>>

ServicesSpec == ServicesInit /\ [][ServicesNext]_servicesVars

\* Settled promises are delivered and an aborted run ends.
HostFairness ==
  /\ WF_hostVars(service = "host" /\ HostSettles)
  /\ WF_hostVars(service = "host" /\ Stopping /\ HostedRunSettles)

\* Timers expire, idle runtimes take their inputs, and disposals return.
WakeFairness ==
  /\ WF_wakeVars(service = "wakes" /\ \E t \in timers : Fire(t))
  /\ WF_wakeVars(service = "wakes" /\ TakeInput)
  /\ WF_wakeVars(service = "wakes" /\ \E s \in WakeSessions : WakesChangedSession(s))
  /\ WF_wakeVars(service = "wakes" /\ FinishShutdown)

\* Microtasks and timers run, and an Agent whose run was aborted ends.  A run
\* that nobody stops may last.
SubagentsFairness ==
  /\ \A i \in Children :
       /\ WF_childVars(service = "children" /\ (RunBegins(i) \/ AgentIsIdle(i) \/ FinalizeChild(i)))
       /\ WF_childVars(service = "children" /\ child[i].stopped
                       /\ \E reason \in {"stop", "aborted", "error", "throws"} :
                            PromptSettles(i, reason))
       /\ WF_childVars(service = "children" /\ AnnounceEnd(i))
  /\ \A c \in ChildTools :
       /\ WF_childVars(service = "children" /\ (WaitResumes(c) \/ WaitFindsNothing(c) \/ CancelReturns(c)))
       /\ WF_childVars(service = "children" /\ WaitExpires(c))
  /\ WF_childVars(service = "children" /\ ChildrenClosed)

\* Promises settle, MCP startup and cleanup end, runs end (their turns are
\* limited), and an active goal has its next round.
HeadlessFairness ==
  /\ WF_headlessVars(service = "headless" /\ (StartupFails \/ Submitted(FALSE)))
  /\ WF_headlessVars(service = "headless" /\ SubmissionSettles(FALSE))
  /\ WF_headlessVars(service = "headless" /\ GoalAwaited(FALSE))
  /\ WF_headlessVars(service = "headless" /\ ResourcesClose)
  /\ WF_headlessVars(service = "headless" /\ RunContinues)
  /\ WF_headlessVars(service = "headless" /\ (HeadlessRunFails(FALSE) \/ \E reason \in HeadlessReasons : HeadlessRunEnds(reason, FALSE)))

\* Awaits settle: requests have timeouts (client.ts), and a client that does
\* not close reports an error.
McpFairness ==
  /\ WF_mcpVars(service = "mcp" /\ (BeginOperation \/ ManagerCloses \/ ServersStarted
                       \/ StartedOperation \/ EndOperation))
  /\ WF_mcpVars(service = "mcp" /\ ClientCloses)
  /\ WF_mcpVars(service = "mcp" /\ \E enabled \in SUBSET McpServer : CreateManager(enabled))
  /\ \A s \in McpServer :
       WF_mcpVars(service = "mcp" /\ (CreateClient(s) \/ ServerAnswers(s) \/ ServerGivesUp(s)))

\* Requests, the wait for the browser and the retries of a lock end by
\* themselves; the browser owes nothing.
AuthFairness == \A t \in AuthThreads : WF_authVars(service = "auth" /\ Proceeds(t))

\* Agents end: their turns are limited and their requests time out.  close()
\* aborts only the automatic ones.
MemoryFairness ==
  /\ \A s \in MemoryScopes : WF_memoryVars(service = "memory" /\ QueueProceeds(s))
  /\ WF_memoryVars(service = "memory" /\ MemoryCloses)

\* The timer runs, an aborted await ends, and the token store answers.
ProviderFairness ==
  /\ WF_providerVars(service = "provider" /\ (CredentialsReturn \/ RefreshReturns \/ BodyRead))
  /\ WF_providerVars(service = "provider" /\ SignalEnds)
  /\ WF_providerVars(service = "provider" /\ InactivityElapses)

\* Each service's own fairness, and nothing else.
FairServicesSpec ==
  /\ ServicesSpec
  /\ HostFairness
  /\ WakeFairness
  /\ SubagentsFairness
  /\ HeadlessFairness
  /\ McpFairness
  /\ AuthFairness
  /\ MemoryFairness
  /\ ProviderFairness

-----------------------------------------------------------------------------
\* Two calls of one process and one of another; or one of each.
MCThreads == {<<1, 1>>, <<1, 2>>, <<2, 1>>}
FewThreads == {<<1, 1>>, <<2, 1>>}

\* Responses of two items, of servers that name their items, number their
\* output and list it at the end, or not.
MCDialects == {[ids |-> TRUE, indexes |-> x, lists |-> TRUE] : x \in BOOLEAN}
              \cup {[ids |-> FALSE, indexes |-> TRUE, lists |-> FALSE]}
MCResponses == {<<"reasoning", "function_call">>, <<"message", "web_search_call">>}

\* One response of a text and a call.
FewResponses == {<<"message", "function_call">>}

\* The MCP client's operations and an authorization asked for in /mcp; what the
\* file holds at the start may be of another client or resource.
MCOwnerOf == [p |-> "client", r1 |-> "client", r2 |-> "client", d |-> "client", z |-> "menu"]
MCKindOf == [p |-> "prepare", r1 |-> "request", r2 |-> "request", d |-> "delete", z |-> "authorize"]
MCNeedOf == [p |-> {}, r1 |-> {"write"}, r2 |-> {"admin"}, d |-> {}, z |-> {}]
MCConfigured == {"read", "write"}
MCToken(client) == [id |-> 1, refresh |-> 1, client |-> client, resource |-> "this", scopes |-> {"read"}]
MCStored == {[token |-> t, registration |-> [client |-> 1, resource |-> "this"]] :
               t \in {MCToken(1), MCToken(9)}}
            \cup {[token |-> NoToken, registration |-> [client |-> 1, resource |-> "another"]]}

\* Providers speak the dialects they are given.
ProvidersAreSafe == ProviderIsSafe /\ ChatIsSafe

\* What an Agent works with stays whole: its children and its context.
AgentsAreSafe == SubagentsAreSafe /\ ContextIsSafe

\* Tokens of the model's provider and of MCP servers are used by whom they
\* were issued to, and a refresh token again only if its replacement was lost.
CredentialsAreSafe == AuthIsSafe /\ McpOAuthIsSafe

\* What a client of a service waits for comes, and what must not happen on the
\* way does not: a parked session is disposed and the host stops, a due wake is
\* delivered and a repeating one keeps its beat, a cancelled subagent ends, a
\* headless run exits, MCP and token operations return, memory is consolidated
\* before its host closes, a request settles.
ServicesSettle ==
  /\ HostSettlesDown
  /\ WakesBehave
  /\ SubagentsBehave
  /\ HeadlessEnds
  /\ McpBehaves
  /\ AuthCallsEnd
  /\ MemorySettles
  /\ RequestsAreLive
  /\ service = "provider" ~> request.phase = "settled"
=============================================================================
