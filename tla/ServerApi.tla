----------------------------- MODULE ServerApi -----------------------------
(***************************************************************************)
(* The HTTP server of one conversation: its requests and its event stream  *)
(* (src/server/api.ts), the approvals it asks its users for                *)
(* (approvals.ts), and the state it projects from the runtime's events     *)
(* (projection.ts).                                                        *)
(*                                                                         *)
(* A client's view is what docs/server.md tells it to keep: the snapshot   *)
(* that opens its stream with the later events applied to it.  A frame is  *)
(* one unit of the stream's buffer.  The conversation behind the server,   *)
(* with its queues and its session changes, is that of Conversation and    *)
(* HostedSessions; here it is idle, running or changing session.           *)
(***************************************************************************)
EXTENDS Naturals, Sequences, FiniteSets

CONSTANTS
  ApiSessions,  \* session ids
  ApiCalls,     \* tool calls of the conversation's Agents
  ApiTools,     \* outer tool executions of a run
  ApiClients,   \* clients of GET /v1/events
  ApiKinds,     \* kinds of tool calls: a shell command, one that is always asked, other
  ApiModes,     \* approval modes of the configuration
  HighWater,    \* bound: frames the buffer of a stream takes
  MaxRuns       \* bound: runs of a behaviour

ASSUME ServerAssumption ==
  /\ HighWater \in Nat \ {0} /\ MaxRuns \in Nat
  /\ ApiKinds \subseteq {"shell", "sensitive", "other"}
  /\ "no" \notin ApiSessions
  /\ ApiModes \subseteq {"always", "never", "unless_trusted"}

VARIABLES
  api,         \* closed, and the transition in progress
  runtime,     \* the conversation: its session, and whether a run is active
  calls,       \* each tool call and the answer it got
  policy,      \* approval mode, trust in the command of the shell calls, and
               \* temporaryNever, as the session whose user said so
  projection,  \* ServerProjection
  clients,     \* the event streams: buffered frames, and the client's view
  requests,    \* requests whose body is being read
  apiRuns         \* runs started so far

serverVars == <<api, runtime, calls, policy, projection, clients, requests, apiRuns>>

Decisions == {"allow", "reject", "always", "never"}
ApiNoRun == [id |-> 0, status |-> "none"]
Views == [session : ApiSessions, run : [id : 0..MaxRuns,
            status : {"none", "running", "completed", "failed"}],
          assistant : BOOLEAN, tools : [ApiTools -> {"none", "running", "completed"}],
          approvals : SUBSET ApiCalls]

ServerTypeOK ==
  /\ api \in [closed : BOOLEAN, transition : {"none", "change", "delete"}]
  /\ runtime \in [session : ApiSessions, running : BOOLEAN]
  /\ calls \in [ApiCalls -> [kind : ApiKinds, aborted : BOOLEAN,
                             answer : {"none", "pending", "continue", "cancel"}]]
  /\ policy \in [mode : ApiModes, trusted : BOOLEAN,
                 never : ApiSessions \cup {"no"}]
  /\ projection \in [run : [id : 0..MaxRuns,
                            status : {"none", "running", "completed", "failed"}],
                     assistant : BOOLEAN,
                     tools : [ApiTools -> {"none", "running", "completed"}]]
  /\ \A c \in ApiClients :
       /\ clients[c].open \in BOOLEAN
       /\ Len(clients[c].frames) <= HighWater
       /\ clients[c].open => clients[c].view \in Views
  /\ requests \subseteq [kind : {"message", "fork", "decision"}, session : ApiSessions]
  /\ apiRuns \in 0..MaxRuns

-----------------------------------------------------------------------------
PendingApprovals == {c \in ApiCalls : calls[c].answer = "pending"}
NoTools == [t \in ApiTools |-> "none"]

\* snapshot(): the projection with the approvals.
ApiSnapshot ==
  [session |-> runtime.session, run |-> projection.run,
   assistant |-> projection.assistant, tools |-> projection.tools,
   approvals |-> PendingApprovals]

\* What an event tells its reader.
ApiApply(view, e) ==
  CASE e.type = "run" ->
         [view EXCEPT !.run = e.data, !.assistant = IF e.data.status = "running" THEN FALSE ELSE @,
                      !.tools = IF e.data.status = "running" THEN NoTools ELSE @]
    [] e.type = "assistant" -> [view EXCEPT !.assistant = e.data]
    [] e.type = "tool" -> [view EXCEPT !.tools[e.data[1]] = e.data[2]]
    [] e.type = "required" -> [view EXCEPT !.approvals = @ \cup {e.data}]
    [] e.type = "resolved" -> [view EXCEPT !.approvals = @ \ e.data]
    [] e.type = "session" ->
         [view EXCEPT !.session = e.data, !.run = ApiNoRun, !.assistant = FALSE, !.tools = NoTools]

\* The view of a reader once it has read these frames.
CaughtUp(view, frames) ==
  LET seen[n \in 0..Len(frames)] ==
        IF n = 0 THEN view ELSE ApiApply(seen[n - 1], frames[n])
  IN  seen[Len(frames)]

\* A stream that ended; its reader has to connect again.
Gone == [open |-> FALSE, frames |-> <<>>, view |-> <<>>]

Event(type, data) == <<[type |-> type, data |-> data]>>
\* The approvals a segment resolves, as one frame.
Resolved(set) == IF set = {} THEN <<>> ELSE Event("resolved", set)

\* Mutant of Emit: a slow client misses what its buffer has no room for.
EmitLossy(events) ==
  clients' = [c \in ApiClients |->
    IF clients[c].open
    THEN [clients[c] EXCEPT !.frames =
            SubSeq(@ \o events, 1, IF Len(@ \o events) > HighWater THEN HighWater
                                   ELSE Len(@ \o events))]
    ELSE clients[c]]

\* broadcast(): a client whose buffer is full is disconnected.
Emit(events) ==
  clients' = [c \in ApiClients |->
    IF ~clients[c].open THEN clients[c]
    ELSE IF Len(clients[c].frames) + Len(events) > HighWater
    THEN Gone
    ELSE [clients[c] EXCEPT !.frames = @ \o events]]

\* shouldRequestToolApproval(), under the mode "never" a user asked for.
Requires(kind, trusted, never) ==
  \/ kind = "sensitive"
  \/ /\ ~never /\ policy.mode # "never"
     /\ policy.mode = "always" \/ kind = "other" \/ ~trusted

Answered(set, answer) ==
  [c \in ApiCalls |-> IF c \in set THEN [calls[c] EXCEPT !.answer = answer] ELSE calls[c]]

ServerInit ==
  /\ api = [closed |-> FALSE, transition |-> "none"]
  /\ \E s \in ApiSessions : runtime = [session |-> s, running |-> FALSE]
  /\ \E kind \in [ApiCalls -> ApiKinds] :
       calls = [c \in ApiCalls |-> [kind |-> kind[c], aborted |-> FALSE, answer |-> "none"]]
  /\ \E mode \in ApiModes :
       policy = [mode |-> mode, trusted |-> FALSE, never |-> "no"]
  /\ projection = [run |-> ApiNoRun, assistant |-> FALSE, tools |-> NoTools]
  /\ clients = [c \in ApiClients |-> Gone]
  /\ requests = {} /\ apiRuns = 0

-----------------------------------------------------------------------------
(* Approvals *)

\* request(): the hook before every tool execution.
RequestApproval(c) ==
  /\ calls[c].answer = "none"
  /\ IF api.closed \/ calls[c].aborted
     THEN calls' = Answered({c}, "cancel") /\ UNCHANGED clients
     ELSE IF Requires(calls[c].kind, policy.trusted, (policy.never # "no"))
     THEN calls' = Answered({c}, "pending") /\ Emit(Event("required", c))
     ELSE calls' = Answered({c}, "continue") /\ UNCHANGED clients
  /\ UNCHANGED <<api, runtime, policy, projection, requests, apiRuns>>

\* Mutant of AbortCall: the pending approval is left to its user.
AbortCallOnly(c) ==
  /\ ~calls[c].aborted /\ calls[c].answer \in {"none", "pending"}
  /\ calls' = [calls EXCEPT ![c].aborted = TRUE]
  /\ UNCHANGED clients
  /\ UNCHANGED <<api, runtime, policy, projection, requests, apiRuns>>

\* The signal of a call is aborted: onAbort() finishes its approval.
AbortCall(c) ==
  /\ ~calls[c].aborted /\ calls[c].answer \in {"none", "pending"}
  /\ IF c \in PendingApprovals
     THEN /\ calls' = [calls EXCEPT ![c].aborted = TRUE, ![c].answer = "cancel"]
          /\ Emit(Resolved({c}))
     ELSE calls' = [calls EXCEPT ![c].aborted = TRUE] /\ UNCHANGED clients
  /\ UNCHANGED <<api, runtime, policy, projection, requests, apiRuns>>

\* Mutant of Freed: the other approvals stay.
FreedNone(c, decision) == {}

\* decide(): the other pending calls a permanent answer frees as well.
Freed(c, decision) ==
  {d \in PendingApprovals \ {c} :
     /\ decision \in {"always", "never"}
     /\ ~Requires(calls[d].kind, policy.trusted \/ decision = "always",
                  (policy.never # "no") \/ decision = "never")}

\* decide(): "not_found", "invalid", a trust that cannot be stored, or the
\* answer.
Decide(c, decision) ==
  LET freed == Freed(c, decision)
  IN  IF c \notin PendingApprovals \/ (decision = "always" /\ calls[c].kind # "shell")
      THEN UNCHANGED <<calls, policy, clients>>
      ELSE \/ decision = "always" /\ UNCHANGED <<calls, policy, clients>>
           \/ /\ policy' = [policy EXCEPT
                   !.trusted = @ \/ decision = "always",
                   !.never = IF decision = "never" THEN runtime.session ELSE @]
              /\ calls' = [d \in ApiCalls |->
                   IF d \in freed \/ (d = c /\ decision # "reject")
                   THEN [calls[d] EXCEPT !.answer = "continue"]
                   ELSE IF d = c THEN [calls[d] EXCEPT !.answer = "cancel"]
                   ELSE calls[d]]
              /\ Emit(Resolved(freed \cup {c}))

\* Mutant of AfterReset: "never" outlives its session.
AfterResetKept == policy

\* resetSession(): the policy it leaves.
AfterReset == [policy EXCEPT !.never = "no"]

-----------------------------------------------------------------------------
(* Requests *)

\* A request with a body reaches the server.
ReceiveRequest(r) ==
  /\ ~api.closed /\ requests = {}
  /\ requests' = {r}
  /\ UNCHANGED <<api, runtime, calls, policy, projection, clients, apiRuns>>

\* Mutant of MayAct: the session is not compared.
MayActAnywhere(r) == ~api.closed /\ api.transition = "none"

\* requireSession(), once the body is there.
MayAct(r) ==
  /\ ~api.closed
  /\ r.session = runtime.session
  /\ api.transition = "none"

\* POST /v1/approvals/:id
HandleDecision(r, c, decision) ==
  /\ r \in requests /\ r.kind = "decision"
  /\ requests' = requests \ {r}
  /\ IF MayAct(r) THEN Decide(c, decision) ELSE UNCHANGED <<calls, policy, clients>>
  /\ UNCHANGED <<api, runtime, projection, apiRuns>>

\* executeRun() emits run_start before its first await.
Started ==
  /\ apiRuns < MaxRuns
  /\ apiRuns' = apiRuns + 1
  /\ runtime' = [runtime EXCEPT !.running = TRUE]
  /\ projection' = [run |-> [id |-> apiRuns + 1, status |-> "running"],
                    assistant |-> FALSE, tools |-> NoTools]
  /\ Emit(Event("run", projection'.run))

\* POST /v1/messages: submitted at once, or steered or queued behind the run.
HandleMessage(r) ==
  /\ r \in requests /\ r.kind = "message"
  /\ requests' = requests \ {r}
  /\ IF MayAct(r) /\ ~runtime.running
     THEN Started
     ELSE UNCHANGED <<runtime, projection, clients, apiRuns>>
  /\ UNCHANGED <<api, calls, policy>>

\* transition(): one at a time, and never under a run.
BeginTransition(kind) ==
  /\ ~api.closed /\ api.transition = "none" /\ ~runtime.running
  /\ api' = [api EXCEPT !.transition = kind]
  /\ UNCHANGED <<runtime, calls, policy, projection, clients, requests, apiRuns>>

\* POST /v1/sessions/fork has a body; new, resume and delete have none.
HandleFork(r) ==
  /\ r \in requests /\ r.kind = "fork"
  /\ requests' = requests \ {r}
  /\ api' = IF MayAct(r) /\ ~runtime.running THEN [api EXCEPT !.transition = "change"] ELSE api
  /\ UNCHANGED <<runtime, calls, policy, projection, clients, apiRuns>>

\* The session change succeeds: the approvals are reset, then projected.
SessionChanges(s) ==
  /\ api.transition = "change" /\ s # runtime.session
  /\ api' = [api EXCEPT !.transition = "none"]
  /\ runtime' = [runtime EXCEPT !.session = s]
  /\ IF api.closed
     THEN UNCHANGED <<calls, policy, projection, clients>>
     ELSE /\ calls' = Answered(PendingApprovals, "cancel")
          /\ policy' = AfterReset
          /\ projection' = [run |-> ApiNoRun, assistant |-> FALSE, tools |-> NoTools]
          /\ Emit(Resolved(PendingApprovals) \o Event("session", s))
  /\ UNCHANGED <<requests, apiRuns>>

\* A deletion returns, or a change fails.
TransitionReturns ==
  /\ api.transition # "none"
  /\ api' = [api EXCEPT !.transition = "none"]
  /\ UNCHANGED <<runtime, calls, policy, projection, clients, requests, apiRuns>>

-----------------------------------------------------------------------------
(* The runtime's events *)

\* A queued input, a wake or a goal starts a run.
RunStarts ==
  /\ ~api.closed /\ ~runtime.running /\ api.transition # "change"
  /\ Started
  /\ UNCHANGED <<api, calls, policy, requests>>

AssistantEvent ==
  /\ ~api.closed /\ runtime.running
  /\ projection' = [projection EXCEPT !.assistant = ~@]
  /\ Emit(Event("assistant", ~projection.assistant))
  /\ UNCHANGED <<api, runtime, calls, policy, requests, apiRuns>>

ToolEvent(t) ==
  LET next == IF projection.tools[t] = "none" THEN "running" ELSE "completed"
  IN  /\ ~api.closed /\ runtime.running /\ projection.tools[t] # "completed"
      /\ projection' = [projection EXCEPT !.tools[t] = next]
      /\ Emit(Event("tool", <<t, next>>))
      /\ UNCHANGED <<api, runtime, calls, policy, requests, apiRuns>>

\* run_end or run_error; what the Agent left open stays in the projection.
ApiRunEnds(status) ==
  /\ runtime.running
  /\ runtime' = [runtime EXCEPT !.running = FALSE]
  /\ IF api.closed
     THEN UNCHANGED <<projection, clients>>
     ELSE /\ projection' = [projection EXCEPT !.run.status = status]
          /\ Emit(Event("run", projection'.run))
  /\ UNCHANGED <<api, calls, policy, requests, apiRuns>>

-----------------------------------------------------------------------------
(* Event streams *)

\* GET /v1/events: the client is added and its snapshot framed at once.
Connect(c) ==
  /\ ~api.closed /\ ~clients[c].open
  /\ clients' = [clients EXCEPT ![c] =
       [open |-> TRUE, frames |-> <<>>, view |-> ApiSnapshot]]
  /\ UNCHANGED <<api, runtime, calls, policy, projection, requests, apiRuns>>

\* The client reads a frame.
ReadFrame(c) ==
  /\ clients[c].frames # <<>>
  /\ clients' = [clients EXCEPT ![c].view = ApiApply(@, Head(clients[c].frames)),
                                ![c].frames = Tail(@)]
  /\ UNCHANGED <<api, runtime, calls, policy, projection, requests, apiRuns>>

\* The request's signal is aborted, or its stream cancelled.
Disconnect(c) ==
  /\ clients[c].open
  /\ clients' = [clients EXCEPT ![c] = Gone]
  /\ UNCHANGED <<api, runtime, calls, policy, projection, requests, apiRuns>>

\* Mutant of ApiClose: the approvals are not closed.
CloseStreams ==
  /\ ~api.closed
  /\ api' = [api EXCEPT !.closed = TRUE]
  /\ UNCHANGED <<calls, policy>>
  /\ clients' = [c \in ApiClients |-> Gone]
  /\ UNCHANGED <<runtime, projection, requests, apiRuns>>

\* close(): pending calls are rejected, and every stream ends.
ApiClose ==
  /\ ~api.closed
  /\ api' = [api EXCEPT !.closed = TRUE]
  /\ calls' = Answered(PendingApprovals, "cancel")
  /\ policy' = AfterReset
  /\ clients' = [c \in ApiClients |-> Gone]
  /\ UNCHANGED <<runtime, projection, requests, apiRuns>>

ServerNext ==
  \/ \E c \in ApiCalls : RequestApproval(c)
  \/ \E c \in ApiCalls : AbortCall(c)
  \/ \E k \in {"message", "fork", "decision"}, s \in ApiSessions :
       ReceiveRequest([kind |-> k, session |-> s])
  \/ \E r \in requests, c \in ApiCalls, d \in Decisions : HandleDecision(r, c, d)
  \/ \E r \in requests : HandleMessage(r)
  \/ \E r \in requests : HandleFork(r)
  \/ \E kind \in {"change", "delete"} : BeginTransition(kind)
  \/ \E s \in ApiSessions : SessionChanges(s)
  \/ TransitionReturns
  \/ RunStarts
  \/ AssistantEvent
  \/ \E t \in ApiTools : ToolEvent(t)
  \/ \E status \in {"completed", "failed"} : ApiRunEnds(status)
  \/ \E c \in ApiClients : Connect(c)
  \/ \E c \in ApiClients : ReadFrame(c)
  \/ \E c \in ApiClients : Disconnect(c)
  \/ ApiClose

ServerSpec == ServerInit /\ [][ServerNext]_serverVars

-----------------------------------------------------------------------------
\* A connected client that has read its buffer knows the current state: the
\* events lead from its snapshot to the server's, without a gap, whatever it
\* was slow about ("Subsequent events follow without a subscription gap",
\* docs/server.md).
ViewsAreCurrent ==
  \A c \in ApiClients : clients[c].open =>
    CaughtUp(clients[c].view, clients[c].frames) = ApiSnapshot

\* Nobody is asked for what is already granted or over: a pending call is not
\* aborted, still requires an approval, and the server is not closed.
PendingIsAsked ==
  \A c \in PendingApprovals :
    /\ ~calls[c].aborted /\ ~api.closed
    /\ Requires(calls[c].kind, policy.trusted, (policy.never # "no"))

\* "never" holds in the session whose user said it.
NeverEndsWithItsSession ==
  policy.never # "no" => policy.never = runtime.session /\ ~api.closed

ServerIsSafe == ServerTypeOK /\ ViewsAreCurrent /\ PendingIsAsked /\ NeverEndsWithItsSession

\* A call is answered once; none that was aborted, or that asks a closed
\* server, is let through, and a decision frees no call that needs one of its
\* own.
AnswersStand ==
  [][\A c \in ApiCalls :
       /\ calls[c].answer \in {"continue", "cancel"} => calls'[c].answer = calls[c].answer
       /\ calls[c].answer # "continue" /\ calls'[c].answer = "continue" =>
            /\ ~calls[c].aborted /\ ~api.closed
            /\ calls[c].kind = "sensitive" =>
                 [kind |-> "decision", session |-> runtime.session] \in requests]_serverVars

ServerBehaves == AnswersStand
=============================================================================
