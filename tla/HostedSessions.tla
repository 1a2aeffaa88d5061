--------------------------- MODULE HostedSessions ---------------------------
(***************************************************************************)
(* The sessions one conversation host serves                               *)
(* (src/kana/conversation/hosted-session-registry.ts and host.ts) with the *)
(* operations of ConversationRuntime that change session: new, fork,       *)
(* resume, delete, reconfigure and close.                                  *)
(*                                                                         *)
(* A session is hosted by a record, which holds the lock of its journal    *)
(* from registration until its disposal: a resumed session gets a new      *)
(* record.  Each step is a synchronous segment; a call of                  *)
(* disposeHostedRecord() is a member of `disposers` until it returns.      *)
(* Sessions are persistent (clean mode writes nothing and locks nothing),  *)
(* and the frontends run one transition at a time (transition() in         *)
(* src/server/api.ts, the modal picker in the terminal UI).                *)
(***************************************************************************)
EXTENDS Naturals, Sequences, FiniteSets, SequencesExt

CONSTANTS
  Sessions,    \* session ids
  MaxHostRecords,  \* bound: records registered in a behaviour
  NoRecord,    \* undefined
  Elsewhere    \* another process, as the owner of a session's lock

ASSUME HostedAssumption ==
  /\ MaxHostRecords \in Nat \ {0}
  /\ NoRecord \notin Nat /\ Elsewhere \notin Nat /\ NoRecord # Elsewhere

Records == 1..MaxHostRecords

VARIABLES
  hosted,        \* hostedSessions: the records registered so far
  sessionMap,    \* sessions: the newest record of each id
  parked,        \* pendingDisposals
  activeRecord,  \* activeSession
  journalLock,   \* who holds the lock of each session
  saved,         \* sessions whose journal is on disk
  conversation,  \* ConversationRuntime: its record, run, and shutdown
  transition,    \* the session change or deletion in progress
  disposers,     \* calls of disposeHostedRecord() in progress
  deleted        \* history: sessions deleteSession() reported as deleted

hostVars == <<hosted, sessionMap, parked, activeRecord, journalLock, saved,
              conversation, transition, disposers, deleted>>

Callers == {"change", "rollback", "stopped", "delete", "close"}
NoTransition == [kind |-> "none", next |-> NoRecord, session |-> NoRecord]

HostTypeOK ==
  /\ hosted \in Seq([session : Sessions, owns : BOOLEAN, fork : BOOLEAN,
                     disposal : {"none", "waiting", "pending", "done", "failed"},
                     artifacts : {"open", "closed"}])
  /\ Len(hosted) <= MaxHostRecords
  /\ sessionMap \in [Sessions -> Records \cup {NoRecord}]
  /\ parked \in [Sessions -> Seq(Records)]
  /\ activeRecord \in Records \cup {NoRecord}
  /\ journalLock \in [Sessions -> Records \cup {NoRecord, Elsewhere}]
  /\ saved \subseteq Sessions /\ deleted \subseteq Sessions
  /\ conversation \in [record : Records, running : BOOLEAN, mcp : BOOLEAN,
                       closing : {"no", "runtime", "host", "registry", "done"}]
  /\ transition \in [kind : {"none", "change", "rollback", "delete"},
                     next : Records \cup {NoRecord},
                     session : Sessions \cup {NoRecord}]
  /\ disposers \subseteq [by : Callers, record : Records, idle : BOOLEAN]

-----------------------------------------------------------------------------
Changing == transition.kind = "change"
Stopping == conversation.closing # "no"
Current == hosted[conversation.record].session
\* ConversationRuntime.isRunning
Busy == Changing \/ conversation.running
\* A frontend starts a transition.
MayTransition == transition.kind = "none" /\ ~Busy /\ ~Stopping

HostedRecord(s, forked) ==
  [session |-> s, owns |-> TRUE, fork |-> forked, disposal |-> "none",
   artifacts |-> "open"]

\* registerSession(): the new record and the lock it acquired.
Registered(s, forked) ==
  /\ journalLock[s] = NoRecord
  /\ Len(hosted) < MaxHostRecords
  /\ journalLock' = [journalLock EXCEPT ![s] = Len(hosted) + 1]
  /\ sessionMap' = [sessionMap EXCEPT ![s] = Len(hosted) + 1]

\* The first call of disposeHostedRecord() starts the disposal that all share;
\* `idle` says that it waits for the run to settle.
Disposed(records, r, idle) ==
  IF records[r].disposal = "none"
  THEN [records EXCEPT ![r].disposal = IF idle THEN "waiting" ELSE "pending"]
  ELSE records

\* disposeSession(): the oldest parked record of s, or the mapped one.
ToDispose(queue, map, s) == IF queue # <<>> THEN Head(queue) ELSE map[s]

\* activate(): the record it replaces is parked.
Parked(next) ==
  IF activeRecord = next THEN parked
  ELSE [parked EXCEPT ![hosted[activeRecord].session] = Append(@, activeRecord)]

Disposer(by, r, idle) == [by |-> by, record |-> r, idle |-> idle]

-----------------------------------------------------------------------------
\* The host registers a new session and the runtime's Agent is bound to it.
HostInit ==
  \E s \in Sessions, old \in SUBSET Sessions :
    /\ s \notin old
    /\ hosted = <<HostedRecord(s, FALSE)>>
    /\ sessionMap = [x \in Sessions |-> IF x = s THEN 1 ELSE NoRecord]
    /\ parked = [x \in Sessions |-> <<>>]
    /\ activeRecord = 1
    /\ journalLock = [x \in Sessions |-> IF x = s THEN 1 ELSE NoRecord]
    /\ saved = old
    /\ conversation = [record |-> 1, running |-> FALSE, mcp |-> TRUE, closing |-> "no"]
    /\ transition = NoTransition
    /\ disposers = {} /\ deleted = {}

\* replaceSession() once the candidate's Agent is built: activate() parks the
\* active record, and the disposal of the previous session takes it.
BeginChange(s, forked) ==
  LET next  == Len(hosted) + 1
      queue == Parked(next)
      gone  == ToDispose(queue[Current], sessionMap', Current)
  IN  /\ activeRecord' = next
      /\ parked' = [queue EXCEPT ![Current] = IF @ = <<>> THEN @ ELSE Tail(@)]
      /\ hosted' = Disposed(Append(hosted, HostedRecord(s, forked)), gone, TRUE)
      /\ disposers' = disposers \cup {Disposer("change", gone, TRUE)}
      /\ transition' = [kind |-> "change", next |-> next, session |-> s]

\* Mutant of CandidateFails: the candidate is left to the shutdown.
CandidateAbandoned(s, forked) ==
  /\ hosted' = Append(hosted, HostedRecord(s, forked))
  /\ UNCHANGED <<disposers, transition, parked, activeRecord>>

\* buildAgent() throws: the candidate was registered and is disposed again.
CandidateFails(s, forked) ==
  LET next == Len(hosted) + 1
      gone == ToDispose(parked[s], sessionMap', s)
  IN  /\ hosted' = Disposed(Append(hosted, HostedRecord(s, forked)), gone, FALSE)
      /\ disposers' = disposers \cup {Disposer("rollback", gone, FALSE)}
      /\ parked' = [parked EXCEPT ![s] = IF @ = <<>> THEN @ ELSE Tail(@)]
      /\ transition' = [kind |-> "rollback", next |-> next, session |-> s]
      /\ UNCHANGED activeRecord

\* startNewSession() and forkSession() use an id nobody has.
NewSession(s, forked) ==
  /\ MayTransition
  /\ sessionMap[s] = NoRecord /\ s \notin saved \cup deleted
  /\ Registered(s, forked)
  /\ BeginChange(s, forked) \/ CandidateFails(s, forked)
  /\ UNCHANGED <<saved, conversation, deleted>>

\* resumeSession() opens a saved session nobody holds.
Resume(s) ==
  /\ MayTransition
  /\ s # Current /\ s \in saved
  /\ Registered(s, FALSE)
  /\ BeginChange(s, FALSE) \/ CandidateFails(s, FALSE)
  /\ UNCHANGED <<saved, conversation, deleted>>

\* reconfigure(): a new Agent is bound to the record of the current session.
HostReconfigure ==
  /\ ~Busy
  /\ conversation' = [conversation EXCEPT !.record = sessionMap[Current]]
  /\ activeRecord' = sessionMap[Current]
  /\ parked' = Parked(sessionMap[Current])
  /\ UNCHANGED <<hosted, sessionMap, journalLock, saved, transition, disposers,
                 deleted>>

\* Mutant of DeleteHosted: the current session is not refused.
DeleteAnySession(s) ==
  /\ MayTransition
  /\ LET mine == {r \in DOMAIN hosted : hosted[r].session = s}
     IN  /\ hosted' = [r \in DOMAIN hosted |->
                         IF r \in mine THEN Disposed(hosted, r, FALSE)[r] ELSE hosted[r]]
         /\ disposers' = disposers \cup {Disposer("delete", r, FALSE) : r \in mine}
  /\ transition' = [kind |-> "delete", next |-> NoRecord, session |-> s]
  /\ UNCHANGED <<sessionMap, parked, activeRecord, journalLock, saved,
                 conversation, deleted>>

\* deleteSession() of another session disposes every record of it.
DeleteHosted(s) ==
  /\ MayTransition
  /\ s # Current
  /\ LET mine == {r \in DOMAIN hosted : hosted[r].session = s}
     IN  /\ hosted' = [r \in DOMAIN hosted |->
                         IF r \in mine THEN Disposed(hosted, r, FALSE)[r] ELSE hosted[r]]
         /\ disposers' = disposers \cup {Disposer("delete", r, FALSE) : r \in mine}
  /\ transition' = [kind |-> "delete", next |-> NoRecord, session |-> s]
  /\ UNCHANGED <<sessionMap, parked, activeRecord, journalLock, saved,
                 conversation, deleted>>

\* disposeHostedSession(): Jobs and subagents are closed and the foreground of
\* the call that started the disposal has settled; closing them may fail.
DisposalSettles(r) ==
  /\ r \in DOMAIN hosted
  /\ \/ hosted[r].disposal = "pending"
     \/ hosted[r].disposal = "waiting" /\ ~conversation.running
  /\ \E end \in {"done", "failed"} : hosted' = [hosted EXCEPT ![r].disposal = end]
  /\ UNCHANGED <<sessionMap, parked, activeRecord, journalLock, saved,
                 conversation, transition, disposers, deleted>>

\* releaseOwnership() of the records in R, cleanupArtifactStore() of those in C.
ReleaseHosted(R, C) ==
  /\ hosted' = [r \in DOMAIN hosted |->
                  [hosted[r] EXCEPT !.owns = @ /\ r \notin R,
                                    !.artifacts = IF r \in C THEN "closed" ELSE @]]
  /\ journalLock' = [s \in Sessions |->
                       IF journalLock[s] \in {r \in R : hosted[r].owns} THEN NoRecord
                       ELSE journalLock[s]]

\* Mutant of DisposerReturns: a failed disposal keeps the ownership.
DisposerKeepsFailed(d) ==
  /\ hosted[d.record].disposal \in {"done", "failed"}
  /\ d.idle => ~conversation.running
  /\ disposers' = disposers \ {d}
  /\ ReleaseHosted(IF hosted[d.record].disposal = "done" THEN {d.record} ELSE {},
             IF d.by \in {"stopped", "close"} THEN {} ELSE {d.record})
  /\ UNCHANGED <<sessionMap, parked, activeRecord, saved, conversation,
                 transition, deleted>>

\* A call of disposeHostedRecord() saw the shared disposal settle: whether it
\* failed or not, ownership is released, and unless this is a shutdown the
\* artifacts are cleaned up.
DisposerReturns(d) ==
  /\ hosted[d.record].disposal \in {"done", "failed"}
  /\ d.idle => ~conversation.running
  /\ disposers' = disposers \ {d}
  /\ ReleaseHosted({d.record}, IF d.by \in {"stopped", "close"} THEN {} ELSE {d.record})
  /\ UNCHANGED <<sessionMap, parked, activeRecord, saved, conversation,
                 transition, deleted>>

Returned(by) == \A d \in disposers : d.by # by

\* replaceSession() after the disposal of the previous session: the candidate
\* is adopted, whatever became of that disposal.
AdoptSession ==
  /\ Changing /\ Returned("change") /\ ~Stopping
  /\ conversation' = [conversation EXCEPT !.record = transition.next]
  /\ transition' = NoTransition
  /\ UNCHANGED <<hosted, sessionMap, parked, activeRecord, journalLock, saved,
                 disposers, deleted>>

\* Mutant of ChangeIsStopped: the change stays marked as in progress.
ChangeStaysStopped ==
  /\ Changing /\ Returned("change") /\ Stopping
  /\ hosted' = Disposed(hosted, sessionMap[transition.session], FALSE)
  /\ disposers' = disposers \cup {Disposer("stopped", sessionMap[transition.session], FALSE)}
  /\ UNCHANGED <<sessionMap, activeRecord, journalLock, saved, conversation,
                 deleted, parked, transition>>

\* The runtime stopped meanwhile: the candidate is disposed as well.
ChangeIsStopped ==
  /\ Changing /\ Returned("change") /\ Stopping
  /\ LET gone == ToDispose(parked[transition.session], sessionMap, transition.session)
     IN  /\ hosted' = Disposed(hosted, gone, FALSE)
         /\ disposers' = disposers \cup {Disposer("stopped", gone, FALSE)}
  /\ parked' = [parked EXCEPT ![transition.session] = IF @ = <<>> THEN @ ELSE Tail(@)]
  /\ transition' = NoTransition
  /\ UNCHANGED <<sessionMap, activeRecord, journalLock, saved, conversation, deleted>>

\* The failed candidate is disposed; the error is thrown.
RollbackEnds ==
  /\ transition.kind = "rollback" /\ Returned("rollback")
  /\ transition' = NoTransition
  /\ UNCHANGED <<hosted, sessionMap, parked, activeRecord, journalLock, saved,
                 conversation, disposers, deleted>>

\* deleteSession() once the records have settled.  An unknown session and one
\* that another process holds stay as they are.
DeleteEnds ==
  LET s == transition.session IN
  /\ transition.kind = "delete" /\ Returned("delete")
  /\ transition' = NoTransition
  /\ IF s \in saved /\ journalLock[s] = NoRecord
     THEN /\ saved' = saved \ {s}
          /\ deleted' = deleted \cup {s}
          /\ sessionMap' = [sessionMap EXCEPT ![s] = NoRecord]
          /\ parked' = [parked EXCEPT ![s] = <<>>]
          /\ activeRecord' = IF activeRecord # NoRecord /\ hosted[activeRecord].session = s
                             THEN NoRecord ELSE activeRecord
     ELSE UNCHANGED <<saved, deleted, sessionMap, parked, activeRecord>>
  /\ UNCHANGED <<hosted, journalLock, conversation, disposers>>

-----------------------------------------------------------------------------
\* A run starts, of a user, a wake or a completion: startRun() writes the
\* snapshot of a fork and the prompt.
StartHostedRun ==
  /\ ~Busy /\ ~Stopping
  /\ conversation' = [conversation EXCEPT !.running = TRUE]
  /\ IF hosted[conversation.record].owns
     THEN /\ saved' = saved \cup {Current}
          /\ hosted' = [hosted EXCEPT ![conversation.record].fork = FALSE]
     ELSE UNCHANGED <<saved, hosted>>
  /\ UNCHANGED <<sessionMap, parked, activeRecord, journalLock, transition,
                 disposers, deleted>>

\* The run has written its last record and the Agent is idle.
HostedRunSettles ==
  /\ conversation.running
  /\ conversation' = [conversation EXCEPT !.running = FALSE]
  /\ UNCHANGED <<hosted, sessionMap, parked, activeRecord, journalLock, saved,
                 transition, disposers, deleted>>

\* Mutant of CloseRuntime: the disposal does not wait for the Agent.
CloseRuntimeAtOnce ==
  /\ ~Stopping
  /\ LET gone == ToDispose(parked[Current], sessionMap, Current)
     IN  /\ hosted' = Disposed(hosted, gone, FALSE)
         /\ disposers' = disposers \cup {Disposer("close", gone, FALSE)}
  /\ conversation' = [conversation EXCEPT !.closing = "runtime"]
  /\ UNCHANGED <<sessionMap, parked, activeRecord, journalLock, saved,
                 transition, deleted>>

\* ConversationRuntime.close(): the run is aborted and the current session is
\* disposed once it has settled.
CloseRuntime ==
  /\ ~Stopping
  /\ LET gone == ToDispose(parked[Current], sessionMap, Current)
     IN  /\ hosted' = Disposed(hosted, gone, TRUE)
         /\ disposers' = disposers \cup {Disposer("close", gone, TRUE)}
  /\ parked' = [parked EXCEPT ![Current] = IF @ = <<>> THEN @ ELSE Tail(@)]
  /\ conversation' = [conversation EXCEPT !.closing = "runtime"]
  /\ UNCHANGED <<sessionMap, activeRecord, journalLock, saved, transition, deleted>>

\* The frontend goes on to host.close(): the memory schedulers, all Jobs and all
\* subagents close.
CloseHost ==
  /\ conversation.closing = "runtime" /\ Returned("close")
  /\ conversation' = [conversation EXCEPT !.closing = "host"]
  /\ UNCHANGED <<hosted, sessionMap, parked, activeRecord, journalLock, saved,
                 transition, disposers, deleted>>

\* HostedSessionRegistry.close(), its finally: every record is released.
RegistryReleases ==
  /\ conversation.closing = "host"
  /\ ReleaseHosted(DOMAIN hosted, DOMAIN hosted)
  /\ conversation' = [conversation EXCEPT !.closing = "registry"]
  /\ UNCHANGED <<sessionMap, parked, activeRecord, saved, transition, disposers,
                 deleted>>

\* KanaConversationHost.close(), its finally: the MCP runtime closes.
HostCloses ==
  /\ conversation.closing = "registry"
  /\ conversation' = [conversation EXCEPT !.closing = "done", !.mcp = FALSE]
  /\ UNCHANGED <<hosted, sessionMap, parked, activeRecord, journalLock, saved,
                 transition, disposers, deleted>>

\* Another process opens a saved session, and closes it.
OpenedElsewhere(s) ==
  /\ s \in saved
  /\ \/ journalLock[s] = NoRecord /\ journalLock' = [journalLock EXCEPT ![s] = Elsewhere]
     \/ journalLock[s] = Elsewhere /\ journalLock' = [journalLock EXCEPT ![s] = NoRecord]
  /\ UNCHANGED <<hosted, sessionMap, parked, activeRecord, saved, conversation,
                 transition, disposers, deleted>>

HostSettles ==
  \/ \E r \in Records : DisposalSettles(r)
  \/ \E d \in disposers : DisposerReturns(d)
  \/ AdoptSession \/ ChangeIsStopped \/ RollbackEnds \/ DeleteEnds
  \/ CloseHost \/ RegistryReleases \/ HostCloses

HostNext ==
  \/ \E s \in Sessions : \/ \E forked \in BOOLEAN : NewSession(s, forked)
                         \/ Resume(s) \/ DeleteHosted(s) \/ OpenedElsewhere(s)
  \/ HostReconfigure \/ StartHostedRun \/ HostedRunSettles \/ CloseRuntime
  \/ HostSettles

HostSpec == HostInit /\ [][HostNext]_hostVars

-----------------------------------------------------------------------------
(* The journal of a session is held by the one record that says so, and    *)
(* what was deleted has no writer and does not come back.                  *)
OneOwnerEach ==
  /\ \A r \in DOMAIN hosted : hosted[r].owns <=> journalLock[hosted[r].session] = r
  /\ deleted \cap saved = {}

(* A run writes through a record that owns its journal and whose artifacts *)
(* are there, until it has settled, whoever disposes what meanwhile; the   *)
(* MCP transports outlive it.                                              *)
RunKeepsItsSession ==
  conversation.running =>
    /\ hosted[conversation.record].owns
    /\ hosted[conversation.record].artifacts = "open"
    /\ conversation.mcp

(* Between transitions the current session is usable: its record is the    *)
(* active and the mapped one, owns the journal and has not been disposed,  *)
(* also when a candidate's Agent could not be built or a disposal failed.  *)
CurrentIsUsable ==
  (transition.kind # "change" /\ ~Stopping) =>
    LET r == conversation.record
    IN  /\ activeRecord = r /\ sessionMap[hosted[r].session] = r
        /\ hosted[r].owns /\ hosted[r].disposal = "none"

(* No other session stays locked by this process: what was left, or could  *)
(* not be adopted, can be opened elsewhere once the transition is over;    *)
(* after close() nothing is locked and nothing is parked.                  *)
NothingStaysLocked ==
  /\ (transition.kind = "none" /\ ~Stopping) =>
       /\ \A r \in DOMAIN hosted : hosted[r].owns => r = conversation.record
       /\ \A s \in Sessions : parked[s] = <<>>
  /\ conversation.closing = "done" =>
       \A r \in DOMAIN hosted : ~hosted[r].owns /\ hosted[r].artifacts = "closed"

HostIsSafe == /\ HostTypeOK /\ OneOwnerEach /\ RunKeepsItsSession
              /\ CurrentIsUsable /\ NothingStaysLocked

(* Every transition and every shutdown comes to an end, although disposals *)
(* fail and a shutdown may meet a change or a deletion on its way.         *)
HostSettlesDown ==
  /\ []<>(transition.kind = "none")
  /\ Stopping ~> (conversation.closing = "done")
=============================================================================
