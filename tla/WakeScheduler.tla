--------------------------- MODULE WakeScheduler ---------------------------
(***************************************************************************)
(* Scheduled messages: the timers of                                       *)
(* src/kana/conversation/wake-scheduler.ts, the schedule_wake tool and the *)
(* scheduled inputs of ConversationInputCoordinator.  A one-shot wake is   *)
(* delivered under the id it was scheduled with; a repeating one keeps its *)
(* id for the schedule and gives each delivery a fresh one.                *)
(*                                                                         *)
(* Time is counted in ticks, and a tick may skip several: the host slept.  *)
(* A timer fires at any moment from its due time on.  Inputs of other      *)
(* kinds, and how the inbox turns into runs, are those of Conversation.    *)
(***************************************************************************)
EXTENDS Integers, Sequences, FiniteSets, SequencesExt

CONSTANTS
  WakeSessions,  \* session ids
  WakeKeys,      \* replacement keys of schedule_wake
  NoWakeKey,     \* a wake without a key
  MaxClock,      \* bound: the last tick
  MaxDelay,      \* bound: the longest delay, and interval of a repeating wake
  MaxWakes,      \* bound: schedules made
  MaxDeliveries  \* bound: inputs a repeating wake delivered

ASSUME WakeAssumption ==
  /\ MaxClock \in Nat /\ MaxDelay \in Nat /\ MaxWakes \in Nat /\ MaxDeliveries \in Nat
  /\ NoWakeKey \notin WakeKeys

Schedules == 1..MaxWakes
\* A delivery of a repeating schedule: its id, and the occurrence it is for.
Deliveries == [schedule : Schedules, due : 1..(MaxClock + MaxDelay), fresh : BOOLEAN]

VARIABLES
  timers,        \* events: the armed wakes
  wakeKeys,      \* keys: the id that holds each key of a session
  clock,         \* now()
  wakeInbox,     \* the scheduled inputs of inbox.nextTurn
  lastDelivery,  \* repeatingDeliveries: the last delivery of each schedule
  wakeRuntime,   \* ConversationRuntime: its session, and what it is doing
  scheduled,     \* how many schedules were made
  wakesHeard,    \* history: occurrences put into the inbox
  gone           \* history: what became of an id

wakeVars == <<timers, wakeKeys, clock, wakeInbox, lastDelivery, wakeRuntime,
              scheduled, wakesHeard, gone>>

NoDelivery == [schedule |-> 0, due |-> 0, fresh |-> FALSE]

WakeTypeOK ==
  /\ timers \subseteq [id : Schedules, session : WakeSessions,
                       key : WakeKeys \cup {NoWakeKey}, every : 0..MaxDelay,
                       due : 1..(MaxClock + MaxDelay)]
  /\ wakeKeys \in [WakeSessions \X WakeKeys -> 0..MaxWakes]
  /\ clock \in 0..MaxClock
  /\ wakeInbox \in Seq(Deliveries)
  /\ lastDelivery \in [Schedules -> Deliveries \cup {NoDelivery}]
  /\ wakeRuntime \in [session : WakeSessions, changing : BOOLEAN,
                      state : {"open", "stopping", "closed"}]
  /\ scheduled \in 0..MaxWakes
  /\ wakesHeard \subseteq Deliveries
  /\ gone \in [Schedules -> {"no", "cancelled", "withdrawn", "replaced",
                             "taken", "severed", "unheard"}]

-----------------------------------------------------------------------------
TimerIds == {t.id : t \in timers}
IsPending(d) == d \in Range(wakeInbox)
\* The id of an input: the schedule's own for a one-shot wake.
Identified(id) == {d \in Range(wakeInbox) : d.schedule = id /\ ~d.fresh}

\* remove() gives up the key only where it still names the wake.
KeysWithout(ids) ==
  [k \in DOMAIN wakeKeys |-> IF wakeKeys[k] \in ids THEN 0 ELSE wakeKeys[k]]

GoneAs(ids, what) == [i \in Schedules |-> IF i \in ids THEN what ELSE gone[i]]

\* The inputs of the current session that clearInbox() drops.
Inboxed == {d.schedule : d \in {x \in Range(wakeInbox) : ~x.fresh}}

WakeInit ==
  /\ timers = {} /\ wakeKeys = [k \in WakeSessions \X WakeKeys |-> 0]
  /\ clock = 0 /\ wakeInbox = <<>>
  /\ lastDelivery = [i \in Schedules |-> NoDelivery]
  /\ \E s \in WakeSessions : wakeRuntime = [session |-> s, changing |-> FALSE, state |-> "open"]
  /\ scheduled = 0 /\ wakesHeard = {}
  /\ gone = [i \in Schedules |-> "no"]

-----------------------------------------------------------------------------
\* schedule(): a wake with the same key of the same session is replaced.
Schedule(key, delay, every) ==
  LET s    == wakeRuntime.session
      id   == scheduled + 1
      slot == <<s, key>>
      old  == IF key = NoWakeKey THEN {} ELSE {wakeKeys[slot]} \ {0}
  IN  /\ scheduled < MaxWakes
      /\ scheduled' = id
      /\ timers' = {t \in timers : t.id \notin old}
                     \cup {[id |-> id, session |-> s, key |-> key, every |-> every,
                            due |-> clock + delay]}
      /\ wakeKeys' = IF key = NoWakeKey THEN wakeKeys ELSE [wakeKeys EXCEPT ![slot] = id]
      /\ gone' = GoneAs(old, "replaced")
      /\ UNCHANGED <<clock, wakeInbox, lastDelivery, wakeRuntime, wakesHeard>>

\* scheduleInput(): the user's message, possibly repeating, without a key.
ScheduleInput(delay, repeats) ==
  /\ wakeRuntime.state = "open" /\ ~wakeRuntime.changing
  /\ Schedule(NoWakeKey, delay, IF repeats THEN delay ELSE 0)

\* The schedule_wake tool, which a run may still call while close() waits.
ScheduleWakeTool(key, delay) ==
  /\ wakeRuntime.state # "closed" /\ ~wakeRuntime.changing
  /\ Schedule(key, delay, 0)

Tick(t) ==
  /\ t \in (clock + 1)..MaxClock
  /\ clock' = t
  /\ UNCHANGED <<timers, wakeKeys, wakeInbox, lastDelivery, wakeRuntime,
                 scheduled, wakesHeard, gone>>

\* Mutant of NextDue: an interval from now.
NextDueFromNow(t) == clock + t.every

\* fire(): the first occurrence after now, counted from the one that fired.
NextDue(t) ==
  LET missed == (clock - t.due) \div t.every IN t.due + (missed + 1) * t.every

\* fire(): a repeating wake is armed again before its listeners run.
Rearmed(t) ==
  (timers \ {t}) \cup (IF t.every = 0 THEN {} ELSE {[t EXCEPT !.due = NextDue(t)]})

\* queueWakeEvent(): the delivery before this one still waits in the inbox.
Skipped(t) == t.every # 0 /\ IsPending(lastDelivery[t.id])

\* queueWakeEvent() ignores the wakes of other sessions, and shutdown
\* unsubscribes it.
Listening(t) == wakeRuntime.state = "open" /\ t.session = wakeRuntime.session

\* Mutant of Remembered: the last delivery of a schedule is not kept.
RememberedNever(t, delivery) == lastDelivery

Remembered(t, delivery) ==
  IF t.every = 0 THEN lastDelivery ELSE [lastDelivery EXCEPT ![t.id] = delivery]

\* The timer of t expires.
Fire(t) ==
  LET delivery == [schedule |-> t.id, due |-> t.due, fresh |-> t.every # 0]
  IN  /\ t \in timers /\ t.due <= clock /\ wakeRuntime.state # "closed"
      /\ timers' = Rearmed(t)
      /\ wakeKeys' = IF t.every = 0 THEN KeysWithout({t.id}) ELSE wakeKeys
      /\ IF Listening(t) /\ ~Skipped(t)
         THEN /\ (t.every # 0 => Cardinality({d \in wakesHeard : d.fresh}) < MaxDeliveries)
              /\ wakeInbox' = Append(wakeInbox, delivery)
              /\ lastDelivery' = Remembered(t, delivery)
              /\ wakesHeard' = wakesHeard \cup {delivery}
              /\ UNCHANGED gone
         ELSE /\ UNCHANGED <<wakeInbox, lastDelivery, wakesHeard>>
              /\ gone' = IF t.every = 0 THEN GoneAs({t.id}, "unheard") ELSE gone
      /\ UNCHANGED <<clock, wakeRuntime, scheduled>>

\* Mutant of CancelFuture: the key is kept.
CancelFutureKeepsKey(id) ==
  /\ \E t \in timers : t.id = id /\ t.session = wakeRuntime.session
  /\ timers' = {t \in timers : t.id # id}
  /\ UNCHANGED wakeKeys
  /\ lastDelivery' = [lastDelivery EXCEPT ![id] = NoDelivery]
  /\ gone' = GoneAs({id}, "cancelled")
  /\ UNCHANGED <<clock, wakeInbox, wakeRuntime, scheduled, wakesHeard>>

\* cancelScheduledInput() of a wake that is still armed.  What a repeating
\* one has delivered stays in the inbox.
CancelFuture(id) ==
  /\ \E t \in timers : t.id = id /\ t.session = wakeRuntime.session
  /\ timers' = {t \in timers : t.id # id}
  /\ wakeKeys' = KeysWithout({id})
  /\ lastDelivery' = [lastDelivery EXCEPT ![id] = NoDelivery]
  /\ gone' = GoneAs({id}, "cancelled")
  /\ UNCHANGED <<clock, wakeInbox, wakeRuntime, scheduled, wakesHeard>>

\* cancelScheduledInput() of an input that waits in the inbox.
CancelPending(i) ==
  LET d == wakeInbox[i]
  IN  /\ d.fresh \/ d.schedule \notin TimerIds
      /\ wakeInbox' = RemoveAt(wakeInbox, i)
      /\ gone' = IF d.fresh THEN gone ELSE GoneAs({d.schedule}, "withdrawn")
      /\ UNCHANGED <<timers, wakeKeys, clock, lastDelivery, wakeRuntime, scheduled,
                     wakesHeard>>

\* shiftNextTurnInput(): the head becomes the prompt of a run.
TakeInput ==
  /\ wakeRuntime.state = "open" /\ ~wakeRuntime.changing
  /\ wakeInbox # <<>>
  /\ wakeInbox' = Tail(wakeInbox)
  /\ gone' = IF Head(wakeInbox).fresh THEN gone
             ELSE GoneAs({Head(wakeInbox).schedule}, "taken")
  /\ UNCHANGED <<timers, wakeKeys, clock, lastDelivery, wakeRuntime, scheduled,
                 wakesHeard>>

\* replaceSession() until the previous session is disposed; wakes still fire.
WakesChangeSession ==
  /\ wakeRuntime.state = "open" /\ ~wakeRuntime.changing
  /\ wakeRuntime' = [wakeRuntime EXCEPT !.changing = TRUE]
  /\ UNCHANGED <<timers, wakeKeys, clock, wakeInbox, lastDelivery, scheduled,
                 wakesHeard, gone>>

\* Mutant of CancelledSession: only the wakes without a key.
CancelledWithoutKey(s) == {t.id : t \in {x \in timers : x.session = s /\ x.key = NoWakeKey}}

\* cancelSession()
CancelledSession(s) == {t.id : t \in {x \in timers : x.session = s}}

\* cancelCurrentSessionInputs() and adoptSession(), one segment.
WakesChangedSession(s) ==
  LET out == CancelledSession(wakeRuntime.session)
  IN  /\ wakeRuntime.state = "open" /\ wakeRuntime.changing
      /\ s # wakeRuntime.session
      /\ timers' = {t \in timers : t.id \notin out}
      /\ wakeKeys' = KeysWithout(out)
      /\ gone' = GoneAs(out \cup Inboxed, "severed")
      /\ wakeInbox' = <<>>
      /\ lastDelivery' = [i \in Schedules |-> NoDelivery]
      /\ wakeRuntime' = [wakeRuntime EXCEPT !.session = s, !.changing = FALSE]
      /\ UNCHANGED <<clock, scheduled, wakesHeard>>

\* prepareForShutdown(): nobody listens any more; the timers run on.
PrepareForShutdown ==
  /\ wakeRuntime.state = "open"
  /\ wakeRuntime' = [wakeRuntime EXCEPT !.state = "stopping"]
  /\ gone' = GoneAs(Inboxed, "severed")
  /\ wakeInbox' = <<>>
  /\ UNCHANGED <<timers, wakeKeys, clock, lastDelivery, scheduled, wakesHeard>>

\* Mutant of FinishShutdown: the timers are left to the process.
FinishShutdownOnly ==
  /\ wakeRuntime.state = "stopping"
  /\ wakeRuntime' = [wakeRuntime EXCEPT !.state = "closed", !.changing = FALSE]
  /\ UNCHANGED <<timers, wakeKeys, clock, wakeInbox, lastDelivery, scheduled,
                 wakesHeard, gone>>

\* finishShutdown(): dispose().
FinishShutdown ==
  /\ wakeRuntime.state = "stopping"
  /\ timers' = {} /\ wakeKeys' = KeysWithout(TimerIds)
  /\ gone' = GoneAs(TimerIds, "severed")
  /\ wakeRuntime' = [wakeRuntime EXCEPT !.state = "closed", !.changing = FALSE]
  /\ UNCHANGED <<clock, wakeInbox, lastDelivery, scheduled, wakesHeard>>

WakeNext ==
  \/ \E d \in 1..MaxDelay, r \in BOOLEAN : ScheduleInput(d, r)
  \/ \E k \in WakeKeys, d \in 1..MaxDelay : ScheduleWakeTool(k, d)
  \/ \E t \in 1..MaxClock : Tick(t)
  \/ \E t \in timers : Fire(t)
  \/ \E id \in Schedules : CancelFuture(id)
  \/ \E i \in DOMAIN wakeInbox : CancelPending(i)
  \/ TakeInput
  \/ WakesChangeSession
  \/ \E s \in WakeSessions : WakesChangedSession(s)
  \/ PrepareForShutdown
  \/ FinishShutdown

WakeSpec == WakeInit /\ [][WakeNext]_wakeVars

-----------------------------------------------------------------------------
\* A one-shot wake nobody cancelled, replaced, took or severed is in exactly
\* one place: cancelScheduledInput() finds it among the timers or in the
\* inbox, whenever it is called ("the stable ID is synchronously present in
\* either the timer map or the pending FIFO", input-coordinator.ts).
EachWakeIsSomewhere ==
  \A i \in 1..scheduled :
    LET places == (IF i \in TimerIds THEN 1 ELSE 0) + Cardinality(Identified(i))
    IN  /\ gone[i] = "no" => places = 1
        /\ gone[i] # "no" => places = 0

\* A repeating schedule never fills the queue: at most one of its deliveries
\* waits.  An occurrence is delivered once.
OnePendingPerSchedule ==
  \A i, j \in DOMAIN wakeInbox :
    wakeInbox[i].schedule = wakeInbox[j].schedule =>
      \/ i = j
      \/ wakeInbox[i].schedule \notin TimerIds

\* A key names the armed wake that was scheduled with it last, so that the
\* next use of the key replaces that wake and no other.
KeysNameLiveWakes ==
  /\ \A k \in DOMAIN wakeKeys :
       wakeKeys[k] # 0 => \E t \in timers : t.id = wakeKeys[k] /\ <<t.session, t.key>> = k
  /\ \A t \in timers : t.key # NoWakeKey => wakeKeys[<<t.session, t.key>>] = t.id

\* Nothing scheduled in a session is armed or queued once the conversation has
\* left it, no wake of the current session fires unheard while the runtime is
\* open, and after close() no timer keeps the process alive.
WakesStayInTheirSession ==
  /\ wakeRuntime.state # "closed" =>
       \A t \in timers : t.session = wakeRuntime.session
  /\ wakeRuntime.state = "open" => \A i \in Schedules : gone[i] # "unheard"
  /\ wakeRuntime.state = "closed" => timers = {} /\ wakeInbox = <<>>

\* What must always hold of scheduled messages.
WakesAreSafe ==
  /\ WakeTypeOK
  /\ EachWakeIsSomewhere
  /\ OnePendingPerSchedule
  /\ KeysNameLiveWakes
  /\ WakesStayInTheirSession

\* A repeating wake advances from its previous due time, without drift, to a
\* time that has not passed: after a sleep the occurrences missed are skipped
\* and none fires twice ("Repeating wakes advance from their previous due time
\* to avoid drift, and skip occurrences missed entirely", wake-scheduler.ts).
RepeatsKeepTheirBeat ==
  [][\A t \in timers, u \in timers' :
       t.id = u.id /\ t # u =>
         /\ u.due > clock /\ (u.due - t.due) % t.every = 0
         /\ u.due - t.every <= clock]_wakeVars

\* Every time a timer is armed for is reached or given up, and a due wake
\* reaches the inbox unless a delivery of its schedule waits there already:
\* one delivery that was taken does not silence the next.
DueWakesAreDelivered ==
  \A i \in Schedules, d \in 1..MaxClock :
    (\E t \in timers : t.id = i /\ t.due = d /\ clock >= d)
      ~> \/ \E x \in wakesHeard : x.schedule = i /\ x.due >= d
         \/ \E x \in Range(wakeInbox) : x.schedule = i
         \/ i \notin TimerIds
         \/ Cardinality({x \in wakesHeard : x.fresh}) >= MaxDeliveries

WakesBehave == RepeatsKeepTheirBeat /\ DueWakesAreDelivered
=============================================================================
