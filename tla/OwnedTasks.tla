----------------------------- MODULE OwnedTasks -----------------------------
(***************************************************************************)
(* The registry of tasks that outlive the tool call which started them     *)
(* (src/jobs/owned-tasks.ts), with the background jobs kept in it          *)
(* (src/jobs/manager.ts): admission, output and completion, waiting        *)
(* readers, kills, the "settled" event published in a microtask,           *)
(* acknowledgement, pruning, and the closing of an owner and of the        *)
(* registry.                                                               *)
(*                                                                         *)
(* Each step is a synchronous segment of the event loop.  heard[t] is what *)
(* the listeners of t's owner, the conversation above all, were told.      *)
(* Output is abstracted to whether some of it is unread (module JobOutput  *)
(* has the ring buffer); once a task has settled it no longer matters.     *)
(***************************************************************************)
EXTENDS Naturals, Sequences, FiniteSets, SequencesExt

CONSTANTS
  Tasks,               \* the ids tasks are given, one each
  Owners,              \* the owners that are bound
  NoOwner,             \* the owner of a task not yet started
  MaxConcurrent,       \* active tasks an owner may have
  MaxRetainedTerminal, \* terminal tasks an owner keeps
  MaxWaiting           \* bound: reads and kills that wait at the same time

ASSUME OwnedTasksAssumption ==
  /\ MaxConcurrent \in Nat \ {0} /\ MaxRetainedTerminal \in Nat \ {0}
  /\ NoOwner \notin Owners /\ IsFiniteSet(Tasks) /\ MaxWaiting \in Nat

VARIABLES
  task,          \* the records: owner, status, finishedAt, flags, unread output
  order,         \* insertion order of the map `tasks`
  settling,      \* tasks whose settle() has its microtask queued
  reader,        \* the model's read() of each task
  killer,        \* a kill() of each task
  closedOwners,  \* owners whose closing began
  closed,        \* owners whose closing is complete
  closing,       \* the registry's own closing began
  heard,         \* history: events the owner's listeners heard, per task
  told           \* history: tasks whose end the model was told by a tool or
                 \* by a committed notification

taskVars == <<task, order, settling, reader, killer, closedOwners, closed,
          closing, heard, told>>

Active == {"running", "stopping"}
TaskStatuses == Active \cup {"new", "done", "gone"}
Events == {"started", "stopping", "settled", "observed"}

TasksTypeOK ==
  /\ task \in [Tasks -> [owner : Owners \cup {NoOwner}, status : TaskStatuses,
                         at : Nat, observed : BOOLEAN, published : BOOLEAN,
                         unread : BOOLEAN]]
  /\ order \in Seq(Tasks)
  /\ settling \subseteq Tasks
  /\ reader \in [Tasks -> {"none", "waiting"}]
  /\ killer \in [Tasks -> {"none", "tool", "tui"}]
  /\ closedOwners \subseteq Owners /\ closed \subseteq closedOwners
  /\ closing \in BOOLEAN
  /\ heard \in [Tasks -> Seq(Events)]
  /\ told \subseteq Tasks

-----------------------------------------------------------------------------
IsActive(t) == task[t].status \in Active
IsDone(t) == task[t].status = "done"
\* find(): the task is in the map.
Known(t) == task[t].status \in Active \cup {"done"}
OwnedBy(o) == {t \in Tasks : Known(t) /\ task[t].owner = o}

Now == CHOOSE n \in {0} \cup {task[t].at : t \in Tasks} :
         \A t \in Tasks : task[t].at <= n

MayWait == Cardinality({t \in Tasks : reader[t] = "waiting"})
             + Cardinality({t \in Tasks : killer[t] # "none"}) < MaxWaiting

\* Mutant of Pruned: the newest tasks are dropped.
PrunedNewest(tasks, o) ==
  LET terminal == {t \in Tasks : tasks[t].owner = o /\ tasks[t].status = "done"}
      Newer(t) == {u \in terminal : tasks[u].at < tasks[t].at}
  IN  {t \in terminal : Cardinality(Newer(t)) >= MaxRetainedTerminal}

\* The terminal tasks of o beyond the newest ones; equal times keep the order
\* of insertion (prune).
Pruned(tasks, o) ==
  LET terminal == {t \in Tasks : tasks[t].owner = o /\ tasks[t].status = "done"}
      Position(t) == CHOOSE k \in DOMAIN order : order[k] = t
      Newer(t) == {u \in terminal \ {t} :
                     \/ tasks[u].at > tasks[t].at
                     \/ tasks[u].at = tasks[t].at /\ Position(u) > Position(t)}
  IN  {t \in terminal : Cardinality(Newer(t)) >= MaxRetainedTerminal}

\* The listeners of the owners that are not yet forgotten hear an event of
\* every task of S.
Hear(h, S, event) ==
  [t \in Tasks |-> IF t \in S /\ task[t].owner \notin closed
                   THEN Append(h[t], event) ELSE h[t]]

\* The records become `tasks` and the listeners heard h; then o is pruned, and
\* what it has not observed is reported as observed.
Prune(tasks, h, o) ==
  LET pruned == Pruned(tasks, o)
  IN  /\ task' = [t \in Tasks |-> IF t \in pruned
                                  THEN [tasks[t] EXCEPT !.status = "gone",
                                                        !.observed = TRUE]
                                  ELSE tasks[t]]
      /\ heard' = Hear(h, {t \in pruned : ~tasks[t].observed}, "observed")

\* observe(): of a task that is still known, terminal and not yet observed.
Observe(t) ==
  IF IsDone(t) /\ ~task[t].observed
  THEN Prune([task EXCEPT ![t].observed = TRUE],
             Hear(heard, {t}, "observed"), task[t].owner)
  ELSE UNCHANGED <<task, heard>>

-----------------------------------------------------------------------------
NewTask == [owner |-> NoOwner, status |-> "new", at |-> 0, observed |-> FALSE,
            published |-> FALSE, unread |-> FALSE]

TasksInit ==
  /\ task = [t \in Tasks |-> NewTask]
  /\ order = <<>>
  /\ settling = {}
  /\ reader = [t \in Tasks |-> "none"]
  /\ killer = [t \in Tasks |-> "none"]
  /\ closedOwners = {}
  /\ closed = {}
  /\ closing = FALSE
  /\ heard = [t \in Tasks |-> <<>>]
  /\ told = {}

\* Mutant of StartTask: a closing owner is still admitted.
StartUnguarded(t, o) ==
  /\ task[t].status = "new"
  /\ ~closing
  /\ Cardinality({u \in OwnedBy(o) : IsActive(u)}) < MaxConcurrent
  /\ task' = [task EXCEPT ![t].owner = o, ![t].status = "running"]
  /\ heard' = [heard EXCEPT ![t] = <<"started">>]
  /\ order' = Append(order, t)
  /\ UNCHANGED <<settling, reader, killer, closedOwners, closed, closing, told>>

\* start(): the task is admitted and added.
StartTask(t, o) ==
  /\ task[t].status = "new"
  /\ ~closing /\ o \notin closedOwners
  /\ Cardinality({u \in OwnedBy(o) : IsActive(u)}) < MaxConcurrent
  /\ task' = [task EXCEPT ![t].owner = o, ![t].status = "running"]
  /\ heard' = [heard EXCEPT ![t] = <<"started">>]
  /\ order' = Append(order, t)
  /\ UNCHANGED <<settling, reader, killer, closedOwners, closed, closing, told>>

\* The producer writes output.
WriteTask(t) ==
  /\ IsActive(t) /\ ~task[t].unread
  /\ task' = [task EXCEPT ![t].unread = TRUE]
  /\ UNCHANGED <<order, settling, reader, killer, closedOwners, closed, closing,
                 heard, told>>

\* The producer fulfils or rejects, in the same millisecond as the last one or
\* later: finalize and settle.
SettleTask(t) ==
  /\ IsActive(t)
  /\ \E at \in {Now, Now + 1} :
       task' = [task EXCEPT ![t].status = "done", ![t].at = at,
                            ![t].unread = FALSE]
  /\ settling' = settling \cup {t}
  /\ UNCHANGED <<order, reader, killer, closedOwners, closed, closing,
                 heard, told>>

\* Mutant of PublishSettled: an earlier observation is not looked at.
PublishSettledAlways(t) ==
  /\ t \in settling
  /\ settling' = settling \ {t}
  /\ Prune([task EXCEPT ![t].published = TRUE], Hear(heard, {t}, "settled"),
           task[t].owner)
  /\ UNCHANGED <<order, reader, killer, closedOwners, closed, closing, told>>

\* The microtask of settle().
PublishSettled(t) ==
  /\ t \in settling
  /\ settling' = settling \ {t}
  /\ IF task[t].observed \/ task[t].published
     THEN UNCHANGED <<task, heard>>
     ELSE Prune([task EXCEPT ![t].published = TRUE],
                Hear(heard, {t}, "settled"), task[t].owner)
  /\ UNCHANGED <<order, reader, killer, closedOwners, closed, closing, told>>

(* Reading. *)
Ready(t) == task[t].unread \/ ~IsActive(t)

\* consumeOutput, and the end is observed when it is read.  The cursor of a
\* task that is no longer in the map does not matter.
Consume(t) ==
  IF IsActive(t)
  THEN /\ task' = [task EXCEPT ![t].unread = FALSE]
       /\ UNCHANGED <<heard, told>>
  ELSE /\ Observe(t)
       /\ told' = told \cup {t}

\* read() with waitMs = 0, or with something to return.
Read(t) ==
  /\ Known(t) /\ reader[t] = "none"
  /\ Consume(t)
  /\ UNCHANGED <<order, settling, reader, killer, closedOwners, closed,
                 closing>>

\* read() with waitMs > 0 and nothing to return.
ReadWait(t) ==
  /\ Known(t) /\ reader[t] = "none" /\ ~Ready(t) /\ MayWait
  /\ reader' = [reader EXCEPT ![t] = "waiting"]
  /\ UNCHANGED <<task, order, settling, killer, closedOwners, closed, closing,
                 heard, told>>

\* The waiter was notified, or its time is over.
ReadReturns(t) ==
  /\ reader[t] = "waiting"
  /\ reader' = [reader EXCEPT ![t] = "none"]
  /\ Consume(t)
  /\ UNCHANGED <<order, settling, killer, closedOwners, closed, closing>>

\* The reader's run is aborted.
ReadAborted(t) ==
  /\ reader[t] = "waiting"
  /\ reader' = [reader EXCEPT ![t] = "none"]
  /\ UNCHANGED <<task, order, settling, killer, closedOwners, closed, closing,
                 heard, told>>

\* job_list, or the conversation once the notification of a published end is
\* committed.
Acknowledge(t) ==
  /\ Known(t) /\ ~IsActive(t) /\ ~task[t].observed
  /\ Observe(t)
  /\ told' = told \cup {t}
  /\ UNCHANGED <<order, settling, reader, killer, closedOwners, closed,
                 closing>>

(* Stopping. *)
\* Mutant of Stop: the tasks are taken to be cancelled at once.
StopAtOnce(S) ==
  LET stopped == {t \in S : task[t].status = "running"}
  IN  /\ task' = [t \in Tasks |-> IF t \in stopped
                                  THEN [task[t] EXCEPT !.status = "cancelled"]
                                  ELSE task[t]]
      /\ heard' = Hear(heard, stopped, "stopping")

\* stop() of every task of S: a running one is aborted and reported.
Stop(S) ==
  LET stopped == {t \in S : task[t].status = "running"}
  IN  /\ task' = [t \in Tasks |-> IF t \in stopped
                                  THEN [task[t] EXCEPT !.status = "stopping"]
                                  ELSE task[t]]
      /\ heard' = Hear(heard, stopped, "stopping")

Kill(t, source) ==
  /\ Known(t) /\ killer[t] = "none" /\ MayWait
  /\ Stop({t})
  /\ killer' = [killer EXCEPT ![t] = source]
  /\ UNCHANGED <<order, settling, reader, closedOwners, closed, closing, told>>

\* Mutant of KillReturns: the task is looked up again.
KillReturnsIfKnown(t) ==
  /\ killer[t] # "none" /\ IsDone(t)
  /\ killer' = [killer EXCEPT ![t] = "none"]
  /\ IF killer[t] = "tool"
     THEN Observe(t) /\ told' = told \cup {t}
     ELSE UNCHANGED <<task, heard, told>>
  /\ UNCHANGED <<order, settling, reader, closedOwners, closed, closing>>

\* The killed task has settled; the model's own kill observes it.
KillReturns(t) ==
  /\ killer[t] # "none" /\ ~IsActive(t)
  /\ killer' = [killer EXCEPT ![t] = "none"]
  /\ IF killer[t] = "tool"
     THEN Observe(t) /\ told' = told \cup {t}
     ELSE UNCHANGED <<task, heard, told>>
  /\ UNCHANGED <<order, settling, reader, closedOwners, closed, closing>>

\* closeOwner() begins: a client is closed.
CloseOwner(o) ==
  /\ o \notin closedOwners
  /\ closedOwners' = closedOwners \cup {o}
  /\ Stop(OwnedBy(o))
  /\ UNCHANGED <<order, settling, reader, killer, closed, closing, told>>

\* All its tasks have settled (and the microtasks queued before are done): the
\* owner's tasks and listeners are forgotten.
OwnerClosed(o) ==
  /\ o \in closedOwners \ closed
  /\ \A t \in OwnedBy(o) : ~IsActive(t) /\ t \notin settling
  /\ closed' = closed \cup {o}
  /\ task' = [t \in Tasks |-> IF t \in OwnedBy(o)
                              THEN [task[t] EXCEPT !.status = "gone"]
                              ELSE task[t]]
  /\ UNCHANGED <<order, settling, reader, killer, closedOwners, closing, heard,
                 told>>

\* close(): every owner that has tasks is closed, and none is admitted any more.
CloseTasks ==
  /\ ~closing
  /\ closing' = TRUE
  /\ LET owners == {o \in Owners : OwnedBy(o) # {}}
     IN  /\ closedOwners' = closedOwners \cup owners
         /\ Stop(UNION {OwnedBy(o) : o \in owners})
  /\ UNCHANGED <<order, settling, reader, killer, closed, told>>

-----------------------------------------------------------------------------
RegistryStep ==
  \/ \E t \in Tasks : PublishSettled(t) \/ ReadReturns(t) \/ KillReturns(t)
  \/ \E o \in Owners : OwnerClosed(o)

ClientStep ==
  \/ \E t \in Tasks : \/ WriteTask(t) \/ SettleTask(t)
                      \/ Read(t) \/ ReadWait(t) \/ ReadAborted(t)
                      \/ Acknowledge(t)
                      \/ \E o \in Owners : StartTask(t, o)
                      \/ \E source \in {"tool", "tui"} : Kill(t, source)
  \/ \E o \in Owners : CloseOwner(o)
  \/ CloseTasks

TasksNext == RegistryStep \/ ClientStep

TasksSpec == TasksInit /\ [][TasksNext]_taskVars

-----------------------------------------------------------------------------
(* Properties. *)

\* An owner never has more than MaxConcurrent active tasks, those being stopped
\* included (docs/configuration.md:276).
ConcurrencyIsLimited ==
  \A o \in Owners :
    Cardinality({t \in OwnedBy(o) : IsActive(t)}) <= MaxConcurrent

\* However many tasks end, an owner keeps at most MaxRetainedTerminal of them
\* besides those whose end is about to be published.
RetentionIsLimited ==
  \A o \in Owners :
    Cardinality({t \in OwnedBy(o) : IsDone(t) /\ t \notin settling}) <=
      MaxRetainedTerminal

Rank(event) == CHOOSE k \in 1..4 :
                 event = <<"started", "stopping", "settled", "observed">>[k]

\* Listeners hear each event of a task at most once and in the order of its
\* life; above all they never hear of an end that was already acknowledged,
\* which would be announced to the model again.
EventsInOrder ==
  \A t \in Tasks : \A j, k \in DOMAIN heard[t] :
    j < k => Rank(heard[t][j]) < Rank(heard[t][k])

\* No end goes unnoticed: once the microtask has run, the listeners of a live
\* owner have heard that the task settled or that it was observed.
EndsAreHeard ==
  \A t \in Tasks :
    IsDone(t) /\ t \notin settling =>
      "settled" \in ToSet(heard[t]) \/ "observed" \in ToSet(heard[t])

\* A closed owner has no tasks, running or retained, and gets none
\* (owned-tasks.ts:205-206).
ClosedOwnersAreEmpty ==
  \A o \in closed : OwnedBy(o) = {}

\* A task is taken to be observed only when the model was told of its end, or
\* when its owner has as many newer terminal tasks as it may keep.
ObservedForAReason ==
  \A t \in Tasks :
    task[t].observed /\ t \notin told =>
      Cardinality({u \in Tasks \ {t} : /\ task[u].owner = task[t].owner
                                       /\ task[u].status \in {"done", "gone"}
                                       /\ task[u].at >= task[t].at})
        >= MaxRetainedTerminal

\* Owners stay within their limits of active and of retained tasks, and a closed
\* owner has none.
OwnersAreBounded == ConcurrencyIsLimited /\ RetentionIsLimited /\ ClosedOwnersAreEmpty

\* The end of every task is announced or acknowledged, and never announced
\* after it was acknowledged.
EndsAreHeardOnce == EventsInOrder /\ EndsAreHeard

\* The invariant of the registry.
TasksAreSafe ==
  TasksTypeOK /\ OwnersAreBounded /\ EndsAreHeardOnce /\ ObservedForAReason

\* A kill of a task returns, and a reader is not left waiting.
WaitersReturn ==
  \A t \in Tasks : /\ killer[t] # "none" ~> killer[t] = "none"
                   /\ reader[t] = "waiting" ~> reader[t] = "none"

\* An owner whose closing began is closed in the end.
ClosingEnds == \A o \in Owners : o \in closedOwners ~> o \in closed

\* Kills, reads and closings end, even if their task is pruned or its owner
\* closed meanwhile.
NothingWaitsForever == WaitersReturn /\ ClosingEnds

-----------------------------------------------------------------------------
\* Stated by the comment at owned-tasks.ts:49-51: a completed task stays in
\* context() until its owner observes it.  prune() drops unobserved tasks too
\* and reports them as observed, which withdraws their notification.
StaysUntilObserved ==
  \A t \in Tasks : task[t].observed => t \in told
=============================================================================
