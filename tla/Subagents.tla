------------------------------ MODULE Subagents ------------------------------
(***************************************************************************)
(* The subagents of one session (src/kana/subagents, kana/tools/subagents, *)
(* host.ts: runSubagent): a child's own Agent, the record the parent knows *)
(* it by, and the tools that wait for it and cancel it.  The records live  *)
(* in a registry of owned tasks, whose limits OwnedTasks checks; here the  *)
(* question is whether a record tells the truth about the Agent behind it. *)
(***************************************************************************)
EXTENDS Naturals, FiniteSets

CONSTANTS
  Children,  \* bound: the ids of subagents, in order of their start
  MaxLive,   \* subagents.max_live
  ChildTools \* bound: calls of wait_subagent, cancel_subagent and the panel

ASSUME SubagentAssumption == MaxLive \in Nat \ {0}

VARIABLES
  child,      \* per id: its record and its Agent; history early: cancelled in the queue
  childCall,  \* per tool call: the await it is suspended at, or its answer
  childOwner, \* "open", "closing" (the owner is closed to starts), "closed"
  childNews   \* per id: what the session's listeners were told last

childVars == <<child, childCall, childOwner, childNews>>

NoChild ==
  [status |-> "none", phase |-> "none", aborted |-> FALSE, early |-> FALSE,
   stopped |-> FALSE, result |-> "none", live |-> FALSE, observed |-> FALSE, announcing |-> FALSE]

NoChildCall == [at |-> "none", child |-> 0, source |-> "none", status |-> "none",
           timedOut |-> FALSE]

SubagentsInit ==
  /\ child = [i \in Children |-> NoChild]
  /\ childCall = [c \in ChildTools |-> NoChildCall]
  /\ childOwner = "open"
  /\ childNews = [i \in Children |-> "none"]

Live == {i \in Children : child[i].status = "running"}
KnownChild(i) == child[i].status # "none"
TerminalStatus == {"completed", "errored", "cancelled"}

(* A child's life: the record, then in a microtask its Agent's only run. *)

\* Mutant of SpawnSubagent: the limit counts what runs, not what was started.
SpawnUncounted(i) ==
  /\ childOwner = "open" /\ child[i] = NoChild /\ childNews[i] = "none"
  /\ Cardinality({j \in Live : child[j].phase = "prompt"}) < MaxLive
  /\ child' = [child EXCEPT ![i].status = "running", ![i].phase = "queued"]
  /\ childNews' = [childNews EXCEPT ![i] = "started"]
  /\ UNCHANGED <<childCall, childOwner>>

SpawnSubagent(i) ==
  /\ childOwner = "open" /\ child[i] = NoChild /\ childNews[i] = "none"
  /\ Cardinality(Live) < MaxLive
  /\ child' = [child EXCEPT ![i].status = "running", ![i].phase = "queued"]
  /\ childNews' = [childNews EXCEPT ![i] = "started"]
  /\ UNCHANGED <<childCall, childOwner>>

\* The Agent is built and prompted; building it may fail.  A signal that was
\* aborted before finds no run to abort.
RunBegins(i) ==
  /\ child[i].phase = "queued"
  /\ \/ child' = [child EXCEPT ![i].phase = "prompt", ![i].live = TRUE]
     \/ child' = [child EXCEPT ![i].phase = "ended", ![i].result = "errored"]
  /\ UNCHANGED <<childCall, childOwner, childNews>>

ResultStatus(i, reason) ==
  IF child[i].aborted \/ reason = "aborted" THEN "cancelled"
  ELSE IF reason \in {"error", "throws"} THEN "errored" ELSE "completed"

\* The prompt settles; the Agent is told to stop and awaited.
PromptSettles(i, reason) ==
  /\ child[i].phase = "prompt"
  /\ reason = "aborted" => child[i].stopped
  /\ child' = [child EXCEPT ![i].phase = "draining", ![i].result = ResultStatus(i, reason)]
  /\ UNCHANGED <<childCall, childOwner, childNews>>

AgentIsIdle(i) ==
  /\ child[i].phase = "draining"
  /\ child' = [child EXCEPT ![i].phase = "ended"]
  /\ UNCHANGED <<childCall, childOwner, childNews>>

\* Calls that wait for i to settle go on.
ChildWoken(i) ==
  [c \in ChildTools |->
     IF childCall[c].child = i /\ childCall[c].at \in {"waiting", "cancelling"}
     THEN [childCall[c] EXCEPT !.at = IF @ = "waiting" THEN "waited" ELSE "cancelled"]
     ELSE childCall[c]]

\* Mutant of FinalStatus: what the run says counts.
FinalStatusOfRun(i) == child[i].result

\* A child that was told to stop is cancelled, however its run ended.
FinalStatus(i) == IF child[i].aborted THEN "cancelled" ELSE child[i].result

FinalizeChild(i) ==
  /\ child[i].phase = "ended" /\ child[i].status = "running"
  /\ child' = [child EXCEPT ![i].status = FinalStatus(i), ![i].live = FALSE,
                            ![i].announcing = TRUE]
  /\ childCall' = ChildWoken(i)
  /\ UNCHANGED <<childOwner, childNews>>

\* The microtask behind an end: it is announced unless somebody has seen it.
AnnounceEnd(i) ==
  /\ child[i].announcing
  /\ child' = [child EXCEPT ![i].announcing = FALSE]
  /\ childNews' = [childNews EXCEPT ![i] = IF child[i].observed THEN @ ELSE "settled"]
  /\ UNCHANGED <<childCall, childOwner>>

(* Waiting and cancelling. *)

\* observe(): only an end can be acknowledged, and once.
ChildObserved(k, i) ==
  IF k[i].status \in TerminalStatus THEN [k EXCEPT ![i].observed = TRUE] ELSE k

ToldNews(i) ==
  childNews' = [childNews EXCEPT ![i] =
    IF child[i].status \in TerminalStatus /\ ~child[i].observed THEN "observed" ELSE @]

\* The snapshot a wait_subagent call returns; an end it shows is acknowledged.
SnapshotTaken(c, i, timedOut) ==
  /\ childCall' = [childCall EXCEPT ![c] =
       [NoChildCall EXCEPT !.at = "answered", !.child = i, !.source = "wait",
                      !.status = child[i].status, !.timedOut = timedOut]]
  /\ child' = ChildObserved(child, i)
  /\ ToldNews(i)
  /\ UNCHANGED childOwner

\* A call without a wait, or for an end, answers at once; an unknown id too.
WaitSubagent(c, i, patient) ==
  /\ childCall[c].at = "none"
  /\ \/ (~patient \/ child[i].status # "running") /\ KnownChild(i) /\ SnapshotTaken(c, i, FALSE)
     \/ /\ patient /\ child[i].status = "running"
        /\ childCall' = [childCall EXCEPT ![c] =
             [NoChildCall EXCEPT !.at = "waiting", !.child = i, !.source = "wait"]]
        /\ UNCHANGED <<child, childOwner, childNews>>

WaitResumes(c) ==
  /\ childCall[c].at \in {"waited", "expired"}
  /\ KnownChild(childCall[c].child)
  /\ SnapshotTaken(c, childCall[c].child, childCall[c].at = "expired")

\* The record may have gone with its owner: the call still holds it.
WaitFindsNothing(c) ==
  /\ childCall[c].at \in {"waited", "expired"} /\ ~KnownChild(childCall[c].child)
  /\ childCall' = [childCall EXCEPT ![c].at = "answered", ![c].status = "gone"]
  /\ UNCHANGED <<child, childOwner, childNews>>

WaitExpires(c) ==
  /\ childCall[c].at = "waiting"
  /\ childCall' = [childCall EXCEPT ![c].at = "expired"]
  /\ UNCHANGED <<child, childOwner, childNews>>

\* A call's signal aborts its wait, not the child.
WaitAborts(c) ==
  /\ childCall[c].at = "waiting"
  /\ childCall' = [childCall EXCEPT ![c] = NoChildCall]
  /\ UNCHANGED <<child, childOwner, childNews>>

\* Mutant of ChildAborted: the Agent of a child is not reached.
AbortedQuietly(k, ids) == [i \in Children |->
  IF i \in ids /\ k[i].status = "running" THEN [k[i] EXCEPT !.aborted = TRUE, !.early = @ \/ k[i].phase = "queued"]
  ELSE k[i]]

\* stop(): the signal, and through it the run if there is one.
ChildAborted(k, ids) == [i \in Children |->
  IF i \in ids /\ k[i].status = "running"
  THEN [k[i] EXCEPT !.aborted = TRUE, !.early = @ \/ k[i].phase = "queued",
                    !.stopped = @ \/ k[i].phase = "prompt"]
  ELSE k[i]]

CancelSubagent(c, i, source) ==
  /\ childCall[c].at = "none" /\ KnownChild(i)
  /\ child' = ChildAborted(child, {i})
  /\ childCall' = [childCall EXCEPT ![c] =
       [NoChildCall EXCEPT !.child = i, !.source = source,
          !.at = IF child[i].status = "running" THEN "cancelling" ELSE "cancelled"]]
  /\ UNCHANGED <<childOwner, childNews>>

\* Mutant of CancelAcknowledges: a cancel from the panel acknowledges too.
CancelAcknowledgesAll(source) == source \in {"tool", "tui"}

\* Only the model's own cancel counts as having seen the end.
CancelAcknowledges(source) == source = "tool"

CancelReturns(c) ==
  LET i == childCall[c].child IN
  /\ childCall[c].at = "cancelled"
  /\ childCall' = [childCall EXCEPT ![c].at = "answered", ![c].status = child[i].status]
  /\ IF CancelAcknowledges(childCall[c].source) /\ KnownChild(i)
     THEN child' = ChildObserved(child, i) /\ ToldNews(i)
     ELSE UNCHANGED <<child, childNews>>
  /\ UNCHANGED childOwner

(* The session ends: every child is stopped and awaited, then forgotten. *)

CloseChildren ==
  /\ childOwner = "open"
  /\ childOwner' = "closing"
  /\ child' = ChildAborted(child, Children)
  /\ UNCHANGED <<childCall, childNews>>

ChildrenClosed ==
  /\ childOwner = "closing" /\ Live = {}
  /\ childOwner' = "closed"
  /\ child' = [i \in Children |-> NoChild]
  /\ UNCHANGED <<childCall, childNews>>

SubagentsNext ==
  \/ \E i \in Children :
       \/ SpawnSubagent(i) \/ RunBegins(i) \/ AgentIsIdle(i) \/ FinalizeChild(i)
       \/ AnnounceEnd(i)
       \/ \E reason \in {"stop", "aborted", "error", "throws"} : PromptSettles(i, reason)
       \/ \E c \in ChildTools :
            \/ \E patient \in BOOLEAN : WaitSubagent(c, i, patient)
            \/ \E source \in {"tool", "tui"} : CancelSubagent(c, i, source)
  \/ \E c \in ChildTools :
       \/ WaitResumes(c) \/ WaitFindsNothing(c) \/ WaitExpires(c) \/ WaitAborts(c)
       \/ CancelReturns(c)
  \/ CloseChildren \/ ChildrenClosed

SubagentsSpec == SubagentsInit /\ [][SubagentsNext]_childVars

(* Properties. *)

SubagentTypeOK ==
  /\ \A i \in Children :
       /\ child[i].status \in TerminalStatus \cup {"none", "running"}
       /\ child[i].phase \in {"none", "queued", "prompt", "draining", "ended"}
  /\ \A c \in ChildTools :
       childCall[c].at \in {"none", "waiting", "waited", "expired", "cancelling",
                            "cancelled", "answered"}
  /\ childOwner \in {"open", "closing", "closed"}
  /\ Cardinality(Live) <= MaxLive

(* A record is running just while its Agent may still act, so a child that  *)
(* is over, and a session that is closed, has no Agent at work.  A child    *)
(* somebody cancelled ends as cancelled, and only such a one or one whose   *)
(* run was aborted does.                                                    *)
RecordsAreTrue ==
  /\ \A i \in Children :
       /\ child[i].status \in TerminalStatus => child[i].phase = "ended"
       /\ child[i].live => child[i].status = "running"
       /\ child[i].status \in TerminalStatus =>
            (child[i].status = "cancelled") = child[i].aborted
  /\ childOwner = "closed" => \A i \in Children : child[i] = NoChild

(* The session hears of an end it was not shown: once a record's microtask  *)
(* has run it was announced or acknowledged, and only an answer to the      *)
(* model acknowledges it, never a cancel of the user's.                     *)
EndsReachTheModel ==
  /\ \A i \in Children :
       child[i].status \in TerminalStatus /\ ~child[i].announcing =>
         childNews[i] \in {"settled", "observed"}
  /\ \A i \in Children : childNews[i] = "observed" => child[i].observed \/ ~KnownChild(i)
  /\ \A c \in ChildTools :
       childCall[c].at = "answered" /\ childCall[c].status \in TerminalStatus
         /\ childCall[c].source # "tui" /\ KnownChild(childCall[c].child)
       => child[childCall[c].child].observed

SubagentsAreSafe == SubagentTypeOK /\ RecordsAreTrue /\ EndsReachTheModel

(* An end is acknowledged only by a wait or a cancel of the model's.  A call *)
(* that waits is answered, a child that is cancelled once its run has begun *)
(* ends, and so does the closing of the session, unless a child was         *)
(* cancelled before.                                                        *)
SubagentsBehave ==
  /\ [][\A i \in Children :
          (~child[i].observed /\ child'[i].observed) =>
            \E c \in ChildTools : /\ childCall'[c].at = "answered"
                                  /\ childCall'[c].child = i
                                  /\ childCall'[c].source # "tui"
                                  /\ childCall'[c] # childCall[c]]_childVars
  /\ \A c \in ChildTools : (childCall[c].at = "waiting") ~> (childCall[c].at # "waiting")
  /\ \A i \in Children :
       (child[i].aborted /\ ~child[i].early) ~> (child[i].status # "running")
  /\ (childOwner = "closing") ~> \/ childOwner = "closed"
                                 \/ \E i \in Live : child[i].early
=============================================================================
