-------------------------- MODULE ConversationProofs --------------------------
(***************************************************************************)
(* Proofs about Conversation for any inputs, tasks, rounds and sessions:   *)
(* runs start one at a time and in order, the end of a task reaches the    *)
(* model once, drain() never stops short of work it should start, nothing  *)
(* crosses sessions, and close() is final.  Then about ServerApi, for any  *)
(* clients, calls, tools and buffers: what a client is shown, and what     *)
(* becomes of the calls its users are asked for.                           *)
(***************************************************************************)
EXTENDS Conversation, SteeringQueueProofs, ServerApi

-----------------------------------------------------------------------------
(* The inductive invariant, stated of a conversation c, fates f, stamps st
   and statuses sa, so that it can be stated of what a handler hands to
   drain() as well as of a state. *)

\* What waits is in exactly one lane, once.
Lined(step, turn, f) ==
  /\ IsInjective(step) /\ IsInjective(turn)
  /\ ToSet(step) \cap ToSet(turn) = {}
  /\ \A i \in Items : f[i] = "waiting" <=> i \in ToSet(step) \cup ToSet(turn)

\* Next-turn is in the order of arrival, and what arrived first started first.
InOrder(arrival, f) ==
  \A a, b \in DOMAIN arrival :
    a < b /\ f[arrival[a]] = "waiting" => f[arrival[b]] \in {"waiting", "withdrawn"}
Arrived(arrival, step, turn, f) ==
  /\ IsInjective(arrival)
  /\ ToSet(turn) \subseteq ToSet(arrival)
  /\ ToSet(step) \cap ToSet(arrival) = {}
  /\ \A i \in ToSet(arrival) : f[i] \notin {"new", "timer"}
  /\ \A a, b \in DOMAIN arrival, m, n \in DOMAIN turn :
       a < b /\ turn[m] = arrival[a] /\ turn[n] = arrival[b] => m < n
Lanes(step, turn, arrival, f) ==
  /\ Lined(step, turn, f)
  /\ Arrived(arrival, step, turn, f)
  /\ InOrder(arrival, f)

\* The frames of runs, the Agent's phase and what blocks a run agree.
PhasesAgree(c) ==
  /\ "running" \in {c.drain, c.caller} => c.source \notin {"none", "compaction"}
  /\ ~(c.drain = "running" /\ c.caller = "running")
  /\ AgentRuns(c) => "running" \in {c.drain, c.caller}
  /\ c.agent = "compacting" => c.source = "compaction"
  /\ c.agent = "consuming" => c.nextStep # <<>>
  /\ c.agent = "announcing" => c.consumed # <<>>
  /\ c.agent \notin {"consuming", "announcing"} => c.consumed = <<>>
  /\ c.changing => c.source = "none" /\ c.agent = "idle"
  /\ c.closed => c.stopping /\ c.agent = "idle"
  /\ c.settlingRun => c.drain \in {"running", "settled"} \/ c.caller # "none"
  /\ c.refused = {}

\* What a run took is its own, and no caller passes a notification.
Owned(c, f) ==
  /\ \A i \in ToSet(c.consumed) : f[i] = "committed"
  /\ \A i \in ToSet(c.prompt) \ {GoalInput} : f[i] = "prompt"
  /\ c.caller = "running" => ToSet(c.prompt) \cap Completions = {}

\* What is live belongs to the current session.
OfThisSession(c, f, st, sa) ==
  /\ \A i \in Items : f[i] = "waiting" => st[i] = c.session
  /\ \A i \in ToSet(c.consumed) : st[i] = c.session
  /\ \A w \in Wakes : f[w] = "timer" /\ ~c.closed => st[w] = c.session
  /\ c.goal.status = "active" => c.goal.session = c.session
  /\ \A j \in Completions : sa[j] \in {"active", "settled"} => st[j] = c.session

\* What became of the notification of a task tells how far the task is.
Reported(c, f, sa) ==
  \A j \in Completions :
    /\ sa[j] \in {"none", "active"} => f[j] = "new"
    /\ sa[j] = "settled" /\ ~c.stopping /\ ~c.changing
         => f[j] \in {"waiting", "prompt", "committed", "unannounced", "lost"}
    /\ sa[j] = "observed" /\ ~c.stopping => f[j] # "waiting"
    /\ f[j] = "committed" /\ j \notin ToSet(c.consumed) => sa[j] # "settled"

\* The host holds what it must, and no more.
Held(c, op, b) ==
  /\ c.session <= b.sessions
  /\ c.changing => c.session < b.sessions
  /\ op \subseteq {c.session} \cup (IF c.changing THEN {b.sessions} ELSE {})
  /\ ~c.stopping => c.session \in op /\ (c.changing => b.sessions \in op)
  /\ c.closed => c.session \notin op

Typed(c, f, st, sa, op, b) ==
  /\ c \in Conversations
  /\ f \in [Items -> InputFates]
  /\ st \in [Items -> 0..MaxSessions]
  /\ sa \in [Completions -> {"none", "active", "settled", "observed", "gone"}]
  /\ op \subseteq 1..MaxSessions
  /\ b \in [goals : 0..MaxGoals, sessions : 1..MaxSessions, aside : 0..MaxAside]

Sound(c, f, st, sa, op, b) ==
  /\ Typed(c, f, st, sa, op, b)
  /\ PhasesAgree(c)
  /\ Lanes(c.nextStep, c.nextTurn, c.arrival, f)
  /\ Owned(c, f)
  /\ OfThisSession(c, f, st, sa)
  /\ Reported(c, f, sa)
  /\ Held(c, op, b)
  /\ c.goalFailed => c.goal.status # "active"

ConversationInv == Sound(conv, inputFate, stamp, status, open, bounds) /\ NoStall

\* The fates of inputs f, but for those a run of c took (Becomes).
After(c, f) ==
  [i \in Items |-> IF i \in c.refused THEN "refused"
                   ELSE IF f[i] = "waiting" /\ i \in ToSet(c.prompt) THEN "prompt"
                   ELSE f[i]]

\* NoStall, of any conversation.
Rests(c) ==
  (c.drain = "none" /\ c.caller = "none" /\ ~IsRunning(c) /\ ~c.stopping /\ c.gate)
    => ~Startable(c)
-----------------------------------------------------------------------------
(* What the handlers do to the lanes. *)

\* Leave is the removal of SteeringQueue.
LEMMA LeaveIsWithout ==
  ASSUME NEW s, NEW e
  PROVE  Leave(s, e) = Without(s, e)
BY DEF Leave, Without, ToSet

\* Fates change and lanes do not: nothing starts or stops to wait.
LEMMA FatesChange ==
  ASSUME NEW step \in Seq(Items), NEW turn \in Seq(Items), NEW arrival \in Seq(Items),
         NEW f, NEW g, Lanes(step, turn, arrival, f),
         \A i \in Items :
           \/ g[i] = f[i]
           \/ /\ f[i] \notin {"waiting", "withdrawn"} /\ g[i] # "waiting"
              /\ g[i] \in {"new", "timer"} => f[i] \in {"new", "timer"}
  PROVE  Lanes(step, turn, arrival, g)
<1>1. \A i \in Items : g[i] = "waiting" <=> f[i] = "waiting"
  OBVIOUS
<1>2. Lined(step, turn, g)
  BY <1>1 DEF Lanes, Lined
<1>3. ToSet(arrival) \subseteq Items
  BY LaneMembers
<1>4. Arrived(arrival, step, turn, g)
  BY <1>3 DEF Lanes, Arrived
<1>5. \A a \in DOMAIN arrival : arrival[a] \in Items
  BY ElementOfSeq, LenProperties
<1>6. InOrder(arrival, g)
  BY <1>5 DEF Lanes, InOrder
<1> QED BY <1>2, <1>4, <1>6 DEF Lanes

\* Inputs that wait in no lane join next-turn, in the order given.
LEMMA JoinTurn ==
  ASSUME NEW step \in Seq(Items), NEW turn \in Seq(Items), NEW arrival \in Seq(Items),
         NEW rest \in Seq(Items), NEW is \in Seq(Items), NEW f, NEW g,
         Arrived(arrival, step, turn, f), InOrder(arrival, f),
         IsInjective(is), ToSet(is) \cap ToSet(arrival) = {},
         ToSet(rest) \cap (ToSet(arrival) \cup ToSet(is)) = {},
         \A i \in ToSet(is) : g[i] = "waiting",
         \A i \in ToSet(arrival) : g[i] = f[i]
  PROVE  /\ Arrived(arrival \o is, rest, turn \o is, g)
         /\ InOrder(arrival \o is, g)
<1> DEFINE A == arrival \o is
           T == turn \o is
<1>1. /\ A \in Seq(Items) /\ ToSet(A) = ToSet(arrival) \cup ToSet(is) /\ IsInjective(A)
      /\ T \in Seq(Items) /\ ToSet(T) = ToSet(turn) \cup ToSet(is)
  BY ConcatLane DEF Arrived
<1>2. /\ DOMAIN A = 1..(Len(arrival) + Len(is))
      /\ \A k \in 1..(Len(arrival) + Len(is)) :
           A[k] = IF k <= Len(arrival) THEN arrival[k] ELSE is[k - Len(arrival)]
      /\ DOMAIN T = 1..(Len(turn) + Len(is))
      /\ \A k \in 1..(Len(turn) + Len(is)) :
           T[k] = IF k <= Len(turn) THEN turn[k] ELSE is[k - Len(turn)]
  BY ConcatProperties, LenProperties
<1>3. /\ Len(arrival) \in Nat /\ Len(turn) \in Nat /\ Len(is) \in Nat
      /\ DOMAIN arrival = 1..Len(arrival) /\ DOMAIN turn = 1..Len(turn)
      /\ DOMAIN is = 1..Len(is)
  BY LenProperties
<1> HIDE DEF A, T
<1>4. ToSet(T) \subseteq ToSet(A) /\ ToSet(rest) \cap ToSet(A) = {}
  BY <1>1 DEF Arrived
<1>5. \A i \in ToSet(A) : g[i] \notin {"new", "timer"}
  BY <1>1 DEF Arrived
<1>6. \A k \in 1..Len(is) : is[k] \in ToSet(is) /\ is[k] \notin ToSet(arrival)
  BY InLane
<1>7. /\ \A k \in 1..Len(arrival) : arrival[k] \in ToSet(arrival) /\ arrival[k] \notin ToSet(is)
      /\ \A k \in 1..Len(turn) : turn[k] \in ToSet(arrival) /\ turn[k] \notin ToSet(is)
  BY InLane DEF Arrived
<1>8. \A a, b \in 1..Len(is) : is[a] = is[b] => a = b
  BY NoDuplicates
<1>9. ASSUME NEW a \in DOMAIN A, NEW b \in DOMAIN A, NEW m \in DOMAIN T, NEW n \in DOMAIN T,
             a < b, T[m] = A[a], T[n] = A[b]
      PROVE  m < n
  <2>0. /\ a \in 1..(Len(arrival) + Len(is)) /\ b \in 1..(Len(arrival) + Len(is))
        /\ m \in 1..(Len(turn) + Len(is)) /\ n \in 1..(Len(turn) + Len(is))
    BY <1>2
  <2>1. CASE b <= Len(arrival)
    <3>1. a \in DOMAIN arrival /\ b \in DOMAIN arrival /\ A[a] = arrival[a] /\ A[b] = arrival[b]
      BY <1>2, <1>3, <1>9, <2>0, <2>1
    <3>2. m <= Len(turn) /\ n <= Len(turn)
      <4>1. ASSUME NEW k \in 1..(Len(turn) + Len(is)), ~(k <= Len(turn))
            PROVE  T[k] \in ToSet(is)
        <5>1. T[k] = is[k - Len(turn)] /\ k - Len(turn) \in 1..Len(is)
          BY <1>2, <1>3, <4>1
        <5> QED BY <1>6, <5>1
      <4>2. A[a] \notin ToSet(is) /\ A[b] \notin ToSet(is)
        BY <1>3, <1>7, <3>1
      <4> QED BY <1>9, <2>0, <4>1, <4>2
    <3>3. m \in DOMAIN turn /\ n \in DOMAIN turn /\ turn[m] = arrival[a] /\ turn[n] = arrival[b]
      BY <1>2, <1>3, <1>9, <2>0, <3>1, <3>2
    <3> QED BY <1>9, <3>1, <3>3 DEF Arrived
  <2>2. CASE ~(b <= Len(arrival))
    <3>1. A[b] = is[b - Len(arrival)] /\ b - Len(arrival) \in 1..Len(is)
      BY <1>2, <1>3, <2>0, <2>2
    <3>2. ~(n <= Len(turn))
      BY <1>2, <1>3, <1>6, <1>7, <1>9, <2>0, <3>1
    <3>3. T[n] = is[n - Len(turn)] /\ n - Len(turn) \in 1..Len(is)
      BY <1>2, <1>3, <2>0, <3>2
    <3>4. n - Len(turn) = b - Len(arrival)
      BY <1>8, <1>9, <3>1, <3>3
    <3>5. CASE m <= Len(turn)
      BY <1>3, <2>0, <3>2, <3>5
    <3>6. CASE ~(m <= Len(turn))
      <4>1. T[m] = is[m - Len(turn)] /\ m - Len(turn) \in 1..Len(is)
        BY <1>2, <1>3, <2>0, <3>6
      <4>2. ~(a <= Len(arrival))
        <5>1. A[a] \in ToSet(is)
          BY <1>6, <1>9, <4>1
        <5> QED BY <1>2, <1>3, <1>7, <2>0, <5>1
      <4>3. A[a] = is[a - Len(arrival)] /\ a - Len(arrival) \in 1..Len(is)
        BY <1>2, <1>3, <2>0, <4>2
      <4>4. m - Len(turn) = a - Len(arrival)
        BY <1>8, <1>9, <4>1, <4>3
      <4> QED BY <1>3, <1>9, <2>0, <3>4, <4>4
    <3> QED BY <3>5, <3>6
  <2> QED BY <2>1, <2>2
<1>10. Arrived(A, rest, T, g)
  BY <1>1, <1>4, <1>5, <1>9 DEF Arrived
<1>11. ASSUME NEW a \in DOMAIN A, NEW b \in DOMAIN A, a < b, g[A[a]] = "waiting"
       PROVE  g[A[b]] \in {"waiting", "withdrawn"}
  <2>0. a \in 1..(Len(arrival) + Len(is)) /\ b \in 1..(Len(arrival) + Len(is))
    BY <1>2
  <2>1. CASE b <= Len(arrival)
    <3>1. a \in DOMAIN arrival /\ b \in DOMAIN arrival /\ A[a] = arrival[a] /\ A[b] = arrival[b]
      BY <1>2, <1>3, <1>11, <2>0, <2>1
    <3>2. g[A[a]] = f[arrival[a]] /\ g[A[b]] = f[arrival[b]]
      BY <1>3, <1>7, <3>1
    <3> QED BY <1>11, <3>1, <3>2 DEF InOrder
  <2>2. CASE ~(b <= Len(arrival))
    <3>1. A[b] = is[b - Len(arrival)] /\ b - Len(arrival) \in 1..Len(is)
      BY <1>2, <1>3, <2>0, <2>2
    <3> QED BY <1>6, <3>1
  <2> QED BY <2>1, <2>2
<1> QED BY <1>10, <1>11 DEF A, T, InOrder

\* What is left of the lanes is in the order in which it was.
Remain(step, turn, step2, turn2) ==
  /\ IsInjective(step2) /\ IsInjective(turn2)
  /\ ToSet(step2) \subseteq ToSet(step) /\ ToSet(turn2) \subseteq ToSet(turn)
  /\ \A j, k \in DOMAIN turn2 : j < k =>
       \E m, n \in DOMAIN turn : m < n /\ turn[m] = turn2[j] /\ turn[n] = turn2[k]

\* Of what waits still, nothing arrived before an input that was taken.
NoneIsPassed(arrival, f, g) ==
  \A a, b \in DOMAIN arrival :
    /\ a < b /\ g[arrival[a]] = "waiting"
    /\ f[arrival[b]] \in {"waiting", "withdrawn"}
    => g[arrival[b]] \in {"waiting", "withdrawn"}

\* Inputs leave the lanes.
LEMMA LeaveLanes ==
  ASSUME NEW step \in Seq(Items), NEW turn \in Seq(Items), NEW arrival \in Seq(Items),
         NEW step2 \in Seq(Items), NEW turn2 \in Seq(Items), NEW f, NEW g,
         Lanes(step, turn, arrival, f), Remain(step, turn, step2, turn2),
         \A i \in Items : g[i] = "waiting" <=> i \in ToSet(step2) \cup ToSet(turn2),
         \A i \in Items : f[i] \notin {"new", "timer"} => g[i] \notin {"new", "timer"},
         NoneIsPassed(arrival, f, g)
  PROVE  Lanes(step2, turn2, arrival, g)
<1>1. Lined(step2, turn2, g)
  BY DEF Lanes, Lined, Remain
<1>2. /\ DOMAIN arrival = 1..Len(arrival) /\ Len(arrival) \in Nat
      /\ DOMAIN turn2 = 1..Len(turn2) /\ Len(turn2) \in Nat
      /\ DOMAIN turn = 1..Len(turn) /\ Len(turn) \in Nat
  BY LenProperties
<1>3. \A a \in DOMAIN arrival : arrival[a] \in Items /\ arrival[a] \in ToSet(arrival)
  BY ElementOfSeq, InLane, <1>2
<1>4. \A a, b \in DOMAIN arrival : arrival[a] = arrival[b] => a = b
  BY NoDuplicates, <1>2 DEF Lanes, Arrived
<1>5. ASSUME NEW a \in DOMAIN arrival, NEW b \in DOMAIN arrival,
             NEW m \in DOMAIN turn2, NEW n \in DOMAIN turn2,
             a < b, turn2[m] = arrival[a], turn2[n] = arrival[b]
      PROVE  m < n
  <2>1. CASE m = n
    <3>1. a = b
      BY <1>4, <1>5, <2>1
    <3> QED BY <1>2, <1>5, <3>1
  <2>2. CASE n < m
    <3>1. PICK p, q \in DOMAIN turn :
            p < q /\ turn[p] = turn2[n] /\ turn[q] = turn2[m]
      BY <2>2 DEF Remain
    <3>2. q < p
      BY <1>5, <3>1 DEF Lanes, Arrived
    <3> QED BY <1>2, <3>1, <3>2
  <2> QED BY <1>2, <2>1, <2>2
<1>6. ToSet(arrival) \subseteq Items
  BY LaneMembers
<1>7. /\ ToSet(turn2) \subseteq ToSet(arrival) /\ ToSet(step2) \cap ToSet(arrival) = {}
      /\ IsInjective(arrival)
      /\ \A i \in ToSet(arrival) : g[i] \notin {"new", "timer"}
  BY <1>6 DEF Lanes, Arrived, Remain
<1>8. Arrived(arrival, step2, turn2, g)
  BY <1>5, <1>7 DEF Arrived
<1>9. \A i \in Items : g[i] = "waiting" => f[i] = "waiting"
  BY DEF Lanes, Lined, Remain
<1>10. InOrder(arrival, g)
  <2>1. ASSUME NEW a \in DOMAIN arrival, NEW b \in DOMAIN arrival,
               a < b, g[arrival[a]] = "waiting"
        PROVE  g[arrival[b]] \in {"waiting", "withdrawn"}
    <3>1. f[arrival[a]] = "waiting"
      BY <1>3, <1>9, <2>1
    <3>2. f[arrival[b]] \in {"waiting", "withdrawn"}
      BY <2>1, <3>1 DEF Lanes, InOrder
    <3> QED BY <2>1, <3>2 DEF NoneIsPassed
  <2> QED BY <2>1 DEF InOrder
<1> QED BY <1>1, <1>8, <1>10 DEF Lanes

\* An input joins next-turn.
LEMMA ArriveLanes ==
  ASSUME NEW step \in Seq(Items), NEW turn \in Seq(Items), NEW arrival \in Seq(Items),
         NEW f, NEW g, NEW i \in Items, Lanes(step, turn, arrival, f),
         f[i] \in {"new", "timer"}, g[i] = "waiting",
         \A k \in Items \ {i} : g[k] = f[k]
  PROVE  Lanes(step, turn \o <<i>>, arrival \o <<i>>, g)
<1>1. /\ <<i>> \in Seq(Items) /\ ToSet(<<i>>) = {i} /\ IsInjective(<<i>>)
  BY DEF ToSet, IsInjective
<1>2. i \notin ToSet(arrival) /\ i \notin ToSet(step) /\ i \notin ToSet(turn)
  BY DEF Lanes, Lined, Arrived
<1>3. ToSet(arrival) \subseteq Items
  BY LaneMembers
<1>4. /\ ToSet(step) \cap (ToSet(arrival) \cup ToSet(<<i>>)) = {}
      /\ ToSet(<<i>>) \cap ToSet(arrival) = {}
  BY <1>1, <1>2 DEF Lanes, Arrived
<1>5. (\A k \in ToSet(<<i>>) : g[k] = "waiting") /\ (\A k \in ToSet(arrival) : g[k] = f[k])
  BY <1>1, <1>2, <1>3
<1>6. Arrived(arrival \o <<i>>, step, turn \o <<i>>, g) /\ InOrder(arrival \o <<i>>, g)
  BY <1>1, <1>4, <1>5, JoinTurn DEF Lanes
<1>7. ToSet(turn \o <<i>>) = ToSet(turn) \cup {i} /\ IsInjective(turn \o <<i>>)
  <2>1. IsInjective(turn) /\ ToSet(turn) \cap ToSet(<<i>>) = {}
    BY <1>1, <1>2 DEF Lanes, Lined
  <2>2. ToSet(turn \o <<i>>) = ToSet(turn) \cup ToSet(<<i>>) /\ IsInjective(turn \o <<i>>)
    BY <1>1, <2>1, ConcatLane
  <2> QED BY <1>1, <2>2
<1>8. Lined(step, turn \o <<i>>, g)
  BY <1>2, <1>7 DEF Lanes, Lined
<1> QED BY <1>6, <1>8 DEF Lanes

\* An input joins next-step.
LEMMA SteerLanes ==
  ASSUME NEW step \in Seq(Items), NEW turn \in Seq(Items), NEW arrival \in Seq(Items),
         NEW f, NEW g, NEW i \in Items, Lanes(step, turn, arrival, f),
         f[i] \in {"new", "timer"}, g[i] = "waiting",
         \A k \in Items \ {i} : g[k] = f[k]
  PROVE  Lanes(Append(step, i), turn, arrival, g)
<1>1. i \notin ToSet(arrival) /\ i \notin ToSet(step) /\ i \notin ToSet(turn)
  BY DEF Lanes, Lined, Arrived
<1>2. ToSet(arrival) \subseteq Items
  BY LaneMembers
<1>3. ToSet(Append(step, i)) = ToSet(step) \cup {i} /\ IsInjective(Append(step, i))
  BY <1>1, AppendLane DEF Lanes, Lined
<1>4. Lined(Append(step, i), turn, g)
  BY <1>1, <1>3 DEF Lanes, Lined
<1>5. \A k \in ToSet(arrival) : g[k] = f[k]
  BY <1>1, <1>2
<1>6. Arrived(arrival, Append(step, i), turn, g)
  BY <1>1, <1>3, <1>5 DEF Lanes, Arrived
<1>7. \A a \in DOMAIN arrival : arrival[a] \in ToSet(arrival)
  BY DEF ToSet
<1>8. InOrder(arrival, g)
  BY <1>5, <1>7 DEF Lanes, InOrder
<1> QED BY <1>4, <1>6, <1>8 DEF Lanes

\* What is left in next-step joins next-turn.
LEMMA DeferLanes ==
  ASSUME NEW step \in Seq(Items), NEW turn \in Seq(Items), NEW arrival \in Seq(Items),
         NEW f, Lanes(step, turn, arrival, f)
  PROVE  Lanes(<<>>, turn \o step, arrival \o step, f)
<1>1. <<>> \in Seq(Items) /\ ToSet(<<>>) = {} /\ IsInjective(<<>>)
  BY DEF ToSet, IsInjective
<1>2. ToSet(step) \subseteq Items
  BY LaneMembers
<1>3. \A k \in ToSet(step) : f[k] = "waiting"
  BY <1>2 DEF Lanes, Lined
<1>4. /\ Arrived(arrival \o step, <<>>, turn \o step, f)
      /\ InOrder(arrival \o step, f)
  <2>1. /\ Arrived(arrival, step, turn, f) /\ InOrder(arrival, f) /\ IsInjective(step)
        /\ ToSet(step) \cap ToSet(arrival) = {}
    BY DEF Lanes, Lined, Arrived
  <2>2. ToSet(<<>>) \cap (ToSet(arrival) \cup ToSet(step)) = {}
    BY <1>1
  <2>3. \A k \in ToSet(arrival) : f[k] = f[k]
    OBVIOUS
  <2> QED BY <1>1, <1>3, <2>1, <2>2, <2>3, JoinTurn
<1>5. ToSet(turn \o step) = ToSet(turn) \cup ToSet(step) /\ IsInjective(turn \o step)
  BY ConcatLane DEF Lanes, Lined
<1>6. Lined(<<>>, turn \o step, f)
  BY <1>1, <1>5 DEF Lanes, Lined
<1> QED BY <1>4, <1>6 DEF Lanes

\* An input leaves its lane.
LEMMA WithdrawLanes ==
  ASSUME NEW step \in Seq(Items), NEW turn \in Seq(Items), NEW arrival \in Seq(Items),
         NEW f, NEW g, NEW i \in Items, Lanes(step, turn, arrival, f),
         i \in ToSet(step) \cup ToSet(turn) => g[i] = "withdrawn",
         i \notin ToSet(step) \cup ToSet(turn) => g[i] = f[i],
         \A k \in Items \ {i} : g[k] = f[k]
  PROVE  /\ Leave(step, i) \in Seq(Items) /\ Leave(turn, i) \in Seq(Items)
         /\ Lanes(Leave(step, i), Leave(turn, i), arrival, g)
<1> DEFINE step2 == Leave(step, i)
           turn2 == Leave(turn, i)
<1>1. IsInjective(step) /\ IsInjective(turn)
  BY DEF Lanes, Lined
<1>2. /\ step2 \in Seq(Items) /\ IsInjective(step2) /\ ToSet(step2) = ToSet(step) \ {i}
      /\ turn2 \in Seq(Items) /\ IsInjective(turn2) /\ ToSet(turn2) = ToSet(turn) \ {i}
  BY <1>1, LeaveIsWithout, WithoutLane
<1>3. \A j, k \in DOMAIN turn2 : j < k =>
        \E m, n \in DOMAIN turn : m < n /\ turn[m] = turn2[j] /\ turn[n] = turn2[k]
  BY LeaveIsWithout, WithoutKeepsOrder
<1> HIDE DEF step2, turn2
<1>4. \A k \in Items : g[k] = "waiting" <=> k \in ToSet(step2) \cup ToSet(turn2)
  BY <1>2 DEF Lanes, Lined
<1>5. \A k \in Items : f[k] \notin {"new", "timer"} => g[k] \notin {"new", "timer"}
  OBVIOUS
<1>6. \A a \in DOMAIN arrival : arrival[a] \in Items
  BY ElementOfSeq, LenProperties
<1>7. \A k \in Items : f[k] \in {"waiting", "withdrawn"} => g[k] \in {"waiting", "withdrawn"}
  OBVIOUS
<1>8. NoneIsPassed(arrival, f, g)
  BY <1>6, <1>7 DEF NoneIsPassed
<1>9. Remain(step, turn, step2, turn2)
  BY <1>2, <1>3 DEF Remain
<1>10. Lanes(step2, turn2, arrival, g)
  BY <1>2, <1>4, <1>5, <1>8, <1>9, LeaveLanes
<1> QED BY <1>2, <1>10 DEF step2, turn2

\* Of what waited, only what is kept still does; a timer may go with the rest.
Clears(step, kept, f, g) ==
  /\ kept = <<>> \/ (step # <<>> /\ kept = <<Head(step)>>)
  /\ \A i \in Items :
       IF f[i] = "waiting" /\ i \notin ToSet(kept) THEN g[i] = "withdrawn"
       ELSE g[i] = f[i] \/ (f[i] = "timer" /\ g[i] = "withdrawn")

\* The lanes are cleared; at most one input stays in next-step.
LEMMA ClearLanes ==
  ASSUME NEW step \in Seq(Items), NEW turn \in Seq(Items), NEW arrival \in Seq(Items),
         NEW kept, NEW f, NEW g, Lanes(step, turn, arrival, f), Clears(step, kept, f, g)
  PROVE  kept \in Seq(Items) /\ Lanes(kept, <<>>, arrival, g)
<1>1. /\ <<>> \in Seq(Items) /\ ToSet(<<>>) = {} /\ IsInjective(<<>>)
  BY DEF ToSet, IsInjective
<1>2. kept \in Seq(Items) /\ IsInjective(kept) /\ ToSet(kept) \subseteq ToSet(step)
  <2>1. CASE kept = <<>>
    BY <1>1, <2>1
  <2>2. CASE step # <<>> /\ kept = <<Head(step)>>
    <3>1. Head(step) \in ToSet(step) /\ Head(step) \in Items
      BY <2>2, TailLane DEF Lanes, Lined
    <3>2. ToSet(kept) = {Head(step)} /\ IsInjective(kept) /\ kept \in Seq(Items)
      BY <2>2, <3>1 DEF ToSet, IsInjective
    <3> QED BY <3>1, <3>2
  <2> QED BY <2>1, <2>2 DEF Clears
<1>3. \A i \in Items : g[i] = "waiting" <=> i \in ToSet(kept) \cup ToSet(<<>>)
  BY <1>1, <1>2 DEF Lanes, Lined, Clears
<1>4. DOMAIN <<>> = {}
  OBVIOUS
<1>5. \A a \in DOMAIN arrival : arrival[a] \in Items
  BY ElementOfSeq, LenProperties
<1>6. \A i \in Items :
        /\ f[i] \notin {"new", "timer"} => g[i] \notin {"new", "timer"}
        /\ f[i] \in {"waiting", "withdrawn"} => g[i] \in {"waiting", "withdrawn"}
  BY DEF Clears
<1>7. ToSet(<<>>) \subseteq ToSet(turn)
  BY <1>1
<1>8. NoneIsPassed(arrival, f, g)
  BY <1>5, <1>6 DEF NoneIsPassed
<1>9. \A i \in Items : f[i] \notin {"new", "timer"} => g[i] \notin {"new", "timer"}
  BY <1>6
<1>10. Remain(step, turn, kept, <<>>)
  BY <1>1, <1>2, <1>4, <1>7 DEF Remain
<1>11. Lanes(kept, <<>>, arrival, g)
  BY <1>1, <1>2, <1>3, <1>8, <1>9, <1>10, LeaveLanes
<1> QED BY <1>2, <1>11

\* The head of next-step has been journaled and is claimed.
LEMMA ClaimLanes ==
  ASSUME NEW step \in Seq(Items), NEW turn \in Seq(Items), NEW arrival \in Seq(Items),
         NEW f, NEW g, step # <<>>, Lanes(step, turn, arrival, f),
         g[Head(step)] = "committed",
         \A i \in Items \ {Head(step)} : g[i] = f[i]
  PROVE  Lanes(Tail(step), turn, arrival, g)
<1>1. /\ Tail(step) \in Seq(Items) /\ Head(step) \in ToSet(step) /\ Head(step) \in Items
      /\ IsInjective(Tail(step)) /\ ToSet(Tail(step)) = ToSet(step) \ {Head(step)}
  BY TailLane DEF Lanes, Lined
<1>2. IsInjective(turn) /\ ToSet(turn) \subseteq ToSet(turn)
  BY DEF Lanes, Lined
<1>3. \A i \in Items : g[i] = "waiting" <=> i \in ToSet(Tail(step)) \cup ToSet(turn)
  BY <1>1 DEF Lanes, Lined
<1>4. \A i \in ToSet(arrival) : i \in Items /\ i # Head(step)
  BY <1>1, LaneMembers DEF Lanes, Arrived
<1>5. \A a \in DOMAIN arrival : arrival[a] \in ToSet(arrival)
  BY DEF ToSet
<1>6. \A i \in Items : f[i] \notin {"new", "timer"} => g[i] \notin {"new", "timer"}
  OBVIOUS
<1>7. ToSet(Tail(step)) \subseteq ToSet(step)
  BY <1>1
<1>8. NoneIsPassed(arrival, f, g)
  BY <1>4, <1>5 DEF NoneIsPassed
<1>9. Remain(step, turn, Tail(step), turn)
  BY <1>1, <1>2, <1>7 DEF Remain
<1> DEFINE step2 == Tail(step)
<1>10. /\ step2 \in Seq(Items) /\ Remain(step, turn, step2, turn)
       /\ \A i \in Items : g[i] = "waiting" <=> i \in ToSet(step2) \cup ToSet(turn)
  BY <1>1, <1>3, <1>9
<1> HIDE DEF step2
<1>11. Lanes(step2, turn, arrival, g)
  BY <1>6, <1>8, <1>10, LeaveLanes
<1> QED BY <1>11 DEF step2

\* Adjacent takes the head of the lane, and maybe more of its front.
LEMMA AdjacentIsFront ==
  ASSUME NEW turn \in Seq(Items), turn # <<>>
  PROVE  \E n \in 1..Len(turn) :
           /\ Adjacent(turn) = SubSeq(turn, 1, n)
           /\ Adjacent(turn) \in Seq(Items) /\ Len(Adjacent(turn)) = n
           /\ \A k \in 1..n : Adjacent(turn)[k] = turn[k]
           /\ Head(Adjacent(turn)) = turn[1]
<1>1. /\ Len(turn) \in Nat \ {0} /\ DOMAIN turn = 1..Len(turn) /\ Head(turn) = turn[1]
      /\ \A k \in 1..Len(turn) : turn[k] \in Items
  BY EmptySeq, LenProperties, ElementOfSeq
<1> DEFINE like == {k \in DOMAIN turn : \A j \in 1..k : Kind(turn[j]) = Kind(Head(turn))}
           n == IF Head(turn) \in Completions THEN Cardinality(like) ELSE 1
<1>2. Cardinality(like) \in 1..Len(turn)
  <2>1. IsFiniteSet(1..Len(turn)) /\ Cardinality(1..Len(turn)) = Len(turn)
    BY <1>1, FS_Interval
  <2>2. like \subseteq 1..Len(turn)
    BY <1>1
  <2>3. 1 \in like
    <3>1. 1 \in 1..Len(turn) /\ 1..1 = {1}
      BY <1>1
    <3> QED BY <1>1, <3>1
  <2> HIDE DEF like
  <2>4. IsFiniteSet(like) /\ Cardinality(like) <= Len(turn)
    BY <2>1, <2>2, FS_Subset
  <2>5. Cardinality(like) \in Nat /\ Cardinality(like) # 0
    BY <2>3, <2>4, FS_EmptySet, FS_CardinalityType
  <2> QED BY <1>1, <2>4, <2>5
<1> HIDE DEF like
<1>3. n \in 1..Len(turn)
  BY <1>1, <1>2
<1>4. Adjacent(turn) = SubSeq(turn, 1, n)
  BY DEF Adjacent, like
<1> HIDE DEF n
<1>5. /\ SubSeq(turn, 1, n) \in Seq(Items) /\ Len(SubSeq(turn, 1, n)) = n
      /\ \A k \in 1..n : SubSeq(turn, 1, n)[k] = turn[k]
  <2>1. /\ 1 \in Int /\ n \in Int /\ n >= 1 /\ \A k \in 1..n : turn[k] \in Items
    BY <1>1, <1>3
  <2>2. /\ SubSeq(turn, 1, n) \in Seq(Items)
        /\ Len(SubSeq(turn, 1, n)) = IF 1 <= n THEN n - 1 + 1 ELSE 0
        /\ \A k \in 1..(n - 1 + 1) : SubSeq(turn, 1, n)[k] = turn[1 + k - 1]
    BY <2>1, SubSeqProperties
  <2> QED BY <2>1, <2>2
<1>6. Head(SubSeq(turn, 1, n)) = turn[1]
  BY <1>3, <1>5
<1> QED BY <1>3, <1>4, <1>5, <1>6

\* A run takes the front of next-turn.
LEMMA TakeLanes ==
  ASSUME NEW step \in Seq(Items), NEW turn \in Seq(Items), NEW arrival \in Seq(Items),
         NEW f, NEW g, turn # <<>>, Lanes(step, turn, arrival, f),
         \A i \in Items : g[i] = IF i \in ToSet(Adjacent(turn)) THEN "prompt" ELSE f[i]
  PROVE  LET rest == SubSeq(turn, Len(Adjacent(turn)) + 1, Len(turn))
         IN  rest \in Seq(Items) /\ Lanes(step, rest, arrival, g)
<1>1. PICK n \in 1..Len(turn) :
        /\ Adjacent(turn) \in Seq(Items) /\ Len(Adjacent(turn)) = n
        /\ \A k \in 1..n : Adjacent(turn)[k] = turn[k]
  BY AdjacentIsFront
<1> DEFINE rest == SubSeq(turn, Len(Adjacent(turn)) + 1, Len(turn))
<1>2. /\ Len(turn) \in Nat \ {0} /\ DOMAIN turn = 1..Len(turn)
      /\ \A k \in 1..Len(turn) : turn[k] \in Items
  BY EmptySeq, LenProperties, ElementOfSeq
<1>3. /\ rest \in Seq(Items) /\ Len(rest) = Len(turn) - n /\ DOMAIN rest = 1..(Len(turn) - n)
      /\ \A k \in 1..(Len(turn) - n) : rest[k] = turn[n + k]
  <2>1. n + 1 \in Int /\ Len(turn) \in Int /\ \A k \in (n + 1)..Len(turn) : turn[k] \in Items
    BY <1>2
  <2>2. /\ SubSeq(turn, n + 1, Len(turn)) \in Seq(Items)
        /\ Len(SubSeq(turn, n + 1, Len(turn)))
             = IF n + 1 <= Len(turn) THEN Len(turn) - (n + 1) + 1 ELSE 0
        /\ \A k \in 1..(Len(turn) - (n + 1) + 1) :
             SubSeq(turn, n + 1, Len(turn))[k] = turn[(n + 1) + k - 1]
    BY <2>1, SubSeqProperties
  <2>3. /\ rest \in Seq(Items) /\ Len(rest) = Len(turn) - n
        /\ \A k \in 1..(Len(turn) - n) : rest[k] = turn[n + k]
    <3>1. rest = SubSeq(turn, n + 1, Len(turn))
      BY <1>1
    <3> HIDE DEF rest
    <3>2. Len(turn) - (n + 1) + 1 = Len(turn) - n /\ n \in Nat /\ n <= Len(turn)
      BY <1>2
    <3>3. rest \in Seq(Items) /\ Len(rest) = Len(turn) - n
      <4>1. CASE n + 1 <= Len(turn)
        BY <2>2, <3>1, <3>2, <4>1
      <4>2. CASE ~(n + 1 <= Len(turn))
        <5>1. Len(turn) \in Nat /\ n \in Nat /\ n <= Len(turn) /\ ~(n + 1 <= Len(turn))
          BY <1>2, <3>2, <4>2
        <5>2. Len(turn) - n = 0
          BY <5>1
        <5> QED BY <2>2, <3>1, <4>2, <5>2
      <4> QED BY <4>1, <4>2
    <3>4. ASSUME NEW k \in 1..(Len(turn) - n) PROVE rest[k] = turn[n + k]
      <4>1. rest[k] = turn[(n + 1) + k - 1]
        BY <2>2, <3>1, <3>2
      <4>2. (n + 1) + k - 1 = n + k
        BY <3>2
      <4> QED BY <4>1, <4>2
    <3> QED BY <3>3, <3>4
  <2> HIDE DEF rest
  <2> QED BY <2>3, LenProperties
<1> HIDE DEF rest
<1>4. \A a, b \in 1..Len(turn) : turn[a] = turn[b] => a = b
  BY NoDuplicates DEF Lanes, Lined
<1>5. \A x : x \in ToSet(Adjacent(turn)) <=> \E k \in 1..n : turn[k] = x
  <2> DEFINE taken == Adjacent(turn)
  <2>1. /\ taken \in Seq(Items) /\ Len(taken) = n
        /\ \A k \in 1..n : taken[k] = turn[k]
    BY <1>1
  <2> HIDE DEF taken
  <2>2. ASSUME NEW x
        PROVE  x \in ToSet(taken) <=> \E k \in 1..Len(taken) : taken[k] = x
    <3>1. taken \in Seq(Items)
      BY <2>1
    <3> QED BY <3>1, InLane
  <2>3. \A x : x \in ToSet(taken) <=> \E k \in 1..n : turn[k] = x
    BY <2>1, <2>2
  <2> QED BY <2>3 DEF taken
<1>6. \A x : x \in ToSet(rest) <=> \E k \in (n + 1)..Len(turn) : turn[k] = x
  <2>1. ASSUME NEW x PROVE x \in ToSet(rest) <=> \E k \in 1..(Len(turn) - n) : rest[k] = x
    <3>1. rest \in Seq(Items) /\ Len(rest) = Len(turn) - n
      BY <1>3
    <3>2. x \in ToSet(rest) <=> \E k \in 1..Len(rest) : rest[k] = x
      BY <3>1, InLane
    <3> QED BY <3>1, <3>2
  <2>2. ASSUME NEW x, NEW k \in 1..(Len(turn) - n), rest[k] = x
        PROVE  \E m \in (n + 1)..Len(turn) : turn[m] = x
    <3>1. n + k \in (n + 1)..Len(turn) /\ turn[n + k] = x
      BY <1>2, <1>3, <2>2
    <3> QED BY <3>1
  <2>3. ASSUME NEW x, NEW m \in (n + 1)..Len(turn), turn[m] = x
        PROVE  \E k \in 1..(Len(turn) - n) : rest[k] = x
    <3>1. m - n \in 1..(Len(turn) - n) /\ n + (m - n) = m
      BY <1>2
    <3>2. rest[m - n] = x
      BY <1>3, <2>3, <3>1
    <3> QED BY <3>1, <3>2
  <2> QED BY <2>1, <2>2, <2>3
<1>7. \A x : x \in ToSet(turn) <=> x \in ToSet(Adjacent(turn)) \/ x \in ToSet(rest)
  <2>1. \A x : x \in ToSet(turn) <=> \E k \in 1..Len(turn) : turn[k] = x
    BY InLane
  <2>2. \A k \in 1..Len(turn) : k \in 1..n \/ k \in (n + 1)..Len(turn)
    BY <1>2
  <2>3. 1..n \subseteq 1..Len(turn) /\ (n + 1)..Len(turn) \subseteq 1..Len(turn)
    BY <1>2
  <2> QED BY <1>5, <1>6, <2>1, <2>2, <2>3
<1>8. ASSUME NEW x, x \in ToSet(Adjacent(turn)), x \in ToSet(rest) PROVE FALSE
  <2>1. PICK a \in 1..n, b \in (n + 1)..Len(turn) : turn[a] = x /\ turn[b] = x
    BY <1>5, <1>6, <1>8
  <2>2. a \in 1..Len(turn) /\ b \in 1..Len(turn) /\ a # b
    BY <1>2
  <2> QED BY <1>4, <2>1, <2>2
<1>9. IsInjective(rest)
  <2>1. ASSUME NEW a \in 1..Len(rest), NEW b \in 1..Len(rest), rest[a] = rest[b] PROVE a = b
    <3>1. /\ n + a \in 1..Len(turn) /\ n + b \in 1..Len(turn)
          /\ turn[n + a] = turn[n + b]
      BY <1>2, <1>3, <2>1
    <3>2. n + a = n + b
      BY <1>4, <3>1
    <3> QED BY <1>3, <3>2
  <2> QED BY <1>3, <2>1, NoDuplicates
<1>10. ASSUME NEW j \in DOMAIN rest, NEW k \in DOMAIN rest, j < k
       PROVE  \E p, q \in DOMAIN turn : p < q /\ turn[p] = rest[j] /\ turn[q] = rest[k]
  <2>1. /\ n + j \in DOMAIN turn /\ n + k \in DOMAIN turn /\ n + j < n + k
        /\ turn[n + j] = rest[j] /\ turn[n + k] = rest[k]
    <3>1. j \in 1..(Len(turn) - n) /\ k \in 1..(Len(turn) - n)
      BY <1>3
    <3>2. turn[n + j] = rest[j] /\ turn[n + k] = rest[k]
      BY <1>3, <3>1
    <3>3. n + j \in 1..Len(turn) /\ n + k \in 1..Len(turn) /\ n + j < n + k
      BY <1>2, <1>10, <3>1
    <3> QED BY <1>2, <3>2, <3>3
  <2> QED BY <2>1
<1>11. Remain(step, turn, step, rest)
  BY <1>7, <1>9, <1>10 DEF Lanes, Lined, Remain
<1>12. \A i \in Items : g[i] = "waiting" <=> i \in ToSet(step) \cup ToSet(rest)
  BY <1>7, <1>8 DEF Lanes, Lined
<1>13. \A i \in Items : f[i] \notin {"new", "timer"} => g[i] \notin {"new", "timer"}
  OBVIOUS
<1>14. DOMAIN arrival = 1..Len(arrival) /\ Len(arrival) \in Nat
  BY LenProperties
<1>15. ASSUME NEW a \in DOMAIN arrival, NEW b \in DOMAIN arrival, a < b,
              g[arrival[a]] = "waiting", f[arrival[b]] \in {"waiting", "withdrawn"}
       PROVE  g[arrival[b]] \in {"waiting", "withdrawn"}
  <2>1. /\ arrival[a] \in Items /\ arrival[a] \in ToSet(arrival)
        /\ arrival[b] \in Items
    BY <1>14, ElementOfSeq, InLane
  <2>2. arrival[a] \in ToSet(rest)
    BY <1>12, <1>15, <2>1 DEF Lanes, Arrived
  <2>3. CASE arrival[b] \in ToSet(Adjacent(turn))
    <3>1. PICK m \in (n + 1)..Len(turn), p \in 1..n : turn[m] = arrival[a] /\ turn[p] = arrival[b]
      BY <1>5, <1>6, <2>2, <2>3
    <3>2. m \in DOMAIN turn /\ p \in DOMAIN turn /\ p < m
      BY <1>2
    <3>3. m < p
      BY <1>15, <3>1, <3>2 DEF Lanes, Arrived
    <3> QED BY <1>2, <3>2, <3>3
  <2>4. CASE arrival[b] \notin ToSet(Adjacent(turn))
    BY <1>15, <2>1, <2>4
  <2> QED BY <2>3, <2>4
<1>16. NoneIsPassed(arrival, f, g)
  BY <1>15 DEF NoneIsPassed
<1>17. Lanes(step, rest, arrival, g)
  BY <1>3, <1>11, <1>12, <1>13, <1>16, LeaveLanes
<1> QED BY <1>3, <1>17 DEF rest
-----------------------------------------------------------------------------
(* Starting runs. *)

\* The source of a run is never that of a compaction.
LEMMA Kinds ==
  ASSUME NEW i \in Items
  PROVE  Kind(i) \in {"user", "scheduled", "job", "subagent"}
BY DEF Kind, Items, Completions

\* A run that may start takes its prompt and becomes the run of its frame.
LEMMA RunIsStarted ==
  ASSUME NEW c \in Conversations, ~c.stopping, ~IsRunning(c),
         NEW source \in {"user", "scheduled", "goal", "job", "subagent"},
         NEW prompt \in Seq(Items \cup {GoalInput}), NEW frame \in {"drain", "caller"}
  PROVE  LET d == StartConversationRun(c, source, prompt, frame)
         IN  /\ d \in Conversations
             /\ d.source = source /\ d.prompt = prompt /\ d.agent = "journal"
             /\ d.settlingRun /\ ~d.aborted /\ ~d.bad
             /\ d.drain = IF frame = "drain" THEN "running" ELSE c.drain
             /\ d.caller = IF frame = "caller" THEN "running" ELSE c.caller
             /\ d.nextStep = c.nextStep /\ d.nextTurn = c.nextTurn
             /\ d.consumed = c.consumed /\ d.arrival = c.arrival
             /\ d.changing = c.changing /\ d.stopping = c.stopping
             /\ d.closed = c.closed /\ d.gate = c.gate /\ d.goal = c.goal
             /\ d.goalFailed = c.goalFailed /\ d.session = c.session
             /\ d.refused = c.refused
<1>1. CASE frame = "drain"
  BY <1>1 DEF StartConversationRun, Conversations, Frames
<1>2. CASE frame = "caller"
  BY <1>2 DEF StartConversationRun, Conversations, Frames
<1> QED BY <1>1, <1>2

\* A sound conversation has no input that waits and is in a prompt.
LEMMA AfterSound ==
  ASSUME NEW c, NEW f, NEW st, NEW sa, NEW op, NEW b, Sound(c, f, st, sa, op, b)
  PROVE  After(c, f) = f
<1>1. /\ c.refused = {} /\ f \in [Items -> InputFates]
      /\ \A i \in ToSet(c.prompt) \ {GoalInput} : f[i] = "prompt"
      /\ GoalInput \notin Items
  BY ConversationAssumption DEF Sound, Typed, PhasesAgree, Owned
<1>2. \A i \in Items : f[i] = "waiting" => i \notin ToSet(c.prompt)
  BY <1>1
<1>3. After(c, f) = [i \in Items |-> f[i]]
  BY <1>1, <1>2 DEF After
<1> QED BY <1>1, <1>3

\* The drain loop ends without a run; a goal may have reached its limit.
LEMMA DrainEnds ==
  ASSUME NEW c, NEW f, NEW st, NEW sa, NEW op, NEW b, Sound(c, f, st, sa, op, b),
         c.drain \in {"none", "resuming"}
  PROVE  /\ Sound([c EXCEPT !.drain = "none"], f, st, sa, op, b)
         /\ Sound([c EXCEPT !.drain = "none", !.goal.status = "round_limit"],
                  f, st, sa, op, b)
<1>1. ASSUME NEW d,
             \/ d = [c EXCEPT !.drain = "none"]
             \/ d = [c EXCEPT !.drain = "none", !.goal.status = "round_limit"]
      PROVE  Sound(d, f, st, sa, op, b)
  <2> DEFINE limited == [c.goal EXCEPT !.status = "round_limit"]
  <2>0. c \in Conversations /\ c.goal \in Goals
    BY DEF Sound, Typed, Conversations
  <2>1. /\ limited \in Goals /\ limited.status = "round_limit"
        /\ limited.session = c.goal.session
    BY <2>0 DEF Goals
  <2>6. \/ d = [c EXCEPT !.drain = "none"]
        \/ d = [c EXCEPT !.drain = "none", !.goal = limited]
    BY <1>1, <2>0 DEF Conversations
  <2> HIDE DEF limited
  <2>2. /\ d \in Conversations /\ d.drain = "none"
        /\ d.source = c.source /\ d.prompt = c.prompt /\ d.agent = c.agent
        /\ d.settlingRun = c.settlingRun /\ d.caller = c.caller
        /\ d.nextStep = c.nextStep /\ d.nextTurn = c.nextTurn
        /\ d.consumed = c.consumed /\ d.arrival = c.arrival
        /\ d.changing = c.changing /\ d.stopping = c.stopping
        /\ d.closed = c.closed /\ d.session = c.session
        /\ d.goalFailed = c.goalFailed /\ d.refused = c.refused
    <3>1. CASE d = [c EXCEPT !.drain = "none"]
      BY <2>0, <3>1 DEF Conversations, Frames
    <3>2. CASE d = [c EXCEPT !.drain = "none", !.goal = limited]
      BY <2>0, <2>1, <3>2 DEF Conversations, Frames
    <3> QED BY <2>6, <3>1, <3>2
  <2>3. d.goal = c.goal \/ (d.goal.status = "round_limit" /\ d.goal.session = c.goal.session)
    BY <2>0, <2>1, <2>6 DEF Conversations
  <2>4. PhasesAgree(d)
    BY <2>2 DEF Sound, PhasesAgree, AgentRuns
  <2>5. Owned(d, f) /\ OfThisSession(d, f, st, sa) /\ Reported(d, f, sa) /\ Held(d, op, b)
    BY <2>2, <2>3 DEF Sound, Owned, OfThisSession, Reported, Held
  <2> QED BY <2>2, <2>3, <2>4, <2>5 DEF Sound, Typed
<1> QED BY <1>1

\* The drain loop starts a run with the head of next-turn.
LEMMA QueuedRunStarts ==
  ASSUME NEW c, NEW f, NEW st, NEW sa, NEW op, NEW b, Sound(c, f, st, sa, op, b),
         ~c.stopping, ~IsRunning(c), c.nextTurn # <<>>
  PROVE  /\ Sound(StartQueued(c), After(StartQueued(c), f), st, sa, op, b)
         /\ StartQueued(c).drain = "running" /\ StartQueued(c).goal = c.goal
         /\ StartQueued(c).closed = c.closed
<1> DEFINE taken == Adjacent(c.nextTurn)
           rest == SubSeq(c.nextTurn, Len(taken) + 1, Len(c.nextTurn))
           e == [c EXCEPT !.nextTurn = rest]
           d == StartConversationRun(e, Kind(Head(taken)), taken, "drain")
           g == After(d, f)
<1>1. /\ c \in Conversations /\ c.nextTurn \in Seq(Items) /\ c.nextStep \in Seq(Items)
      /\ c.arrival \in Seq(Items) /\ Lanes(c.nextStep, c.nextTurn, c.arrival, f)
      /\ f \in [Items -> InputFates]
  BY DEF Sound, Typed, Conversations
<1>2. /\ taken \in Seq(Items) /\ Head(taken) \in Items
      /\ ToSet(taken) \subseteq ToSet(c.nextTurn)
  <2>1. PICK n \in 1..Len(c.nextTurn) :
          /\ taken \in Seq(Items) /\ Len(taken) = n
          /\ \A k \in 1..n : taken[k] = c.nextTurn[k]
          /\ Head(taken) = c.nextTurn[1]
    BY <1>1, AdjacentIsFront
  <2> HIDE DEF taken
  <2>2. Len(c.nextTurn) \in Nat \ {0}
    BY <1>1, EmptySeq
  <2>3. \A k \in 1..n : k \in 1..Len(c.nextTurn)
    BY <2>2
  <2>4. ToSet(taken) \subseteq ToSet(c.nextTurn)
    BY <1>1, <2>1, <2>3, InLane
  <2>5. c.nextTurn[1] \in Items
    BY <1>1, <2>2, ElementOfSeq
  <2> QED BY <2>1, <2>4, <2>5
<1>3. ASSUME NEW h, \A i \in Items : h[i] = IF i \in ToSet(taken) THEN "prompt" ELSE f[i]
      PROVE  rest \in Seq(Items) /\ Lanes(c.nextStep, rest, c.arrival, h)
  BY <1>1, <1>3, TakeLanes
<1>4. rest \in Seq(Items)
  <2>1. \A i \in Items : After([prompt |-> taken, refused |-> {}], f)[i]
                          = IF i \in ToSet(taken) THEN "prompt" ELSE f[i]
    BY <1>1, <1>2 DEF After, Lanes, Lined
  <2> QED BY <1>3, <2>1
<1>5. StartQueued(c) = d
  BY <1>1 DEF StartQueued, Conversations
<1> HIDE DEF taken, rest
<1>6. /\ e \in Conversations /\ ~e.stopping /\ ~IsRunning(e)
      /\ e.nextTurn = rest /\ e.drain = c.drain /\ e.caller = c.caller
      /\ e.nextStep = c.nextStep /\ e.consumed = c.consumed /\ e.arrival = c.arrival
      /\ e.changing = c.changing /\ e.stopping = c.stopping
      /\ e.closed = c.closed /\ e.goal = c.goal
      /\ e.goalFailed = c.goalFailed /\ e.session = c.session
      /\ e.refused = c.refused
  BY <1>1, <1>4 DEF Conversations, IsRunning
<1>7. Kind(Head(taken)) \in {"user", "scheduled", "job", "subagent"}
  BY <1>2, Kinds
<1>8. taken \in Seq(Items \cup {GoalInput})
  BY <1>2
<1> HIDE DEF e
<1>9. /\ d \in Conversations
      /\ d.source = Kind(Head(taken)) /\ d.prompt = taken /\ d.agent = "journal"
      /\ d.drain = "running" /\ d.caller = c.caller
      /\ d.nextStep = c.nextStep /\ d.nextTurn = rest
      /\ d.consumed = c.consumed /\ d.arrival = c.arrival
      /\ d.changing = c.changing /\ d.stopping = c.stopping
      /\ d.closed = c.closed /\ d.goal = c.goal
      /\ d.goalFailed = c.goalFailed /\ d.session = c.session
      /\ d.refused = c.refused
  BY <1>6, <1>7, <1>8, RunIsStarted
<1> HIDE DEF d
<1>10. c.refused = {} /\ c.consumed = <<>> /\ c.caller # "running" /\ ~c.changing /\ ~c.closed
  BY DEF Sound, PhasesAgree, IsRunning
<1>11. /\ g \in [Items -> InputFates]
       /\ \A i \in Items : g[i] = IF i \in ToSet(taken) THEN "prompt" ELSE f[i]
       /\ \A i \in ToSet(taken) : i \in Items /\ f[i] = "waiting"
  <2>1. \A i \in ToSet(taken) : i \in Items /\ f[i] = "waiting"
    BY <1>1, <1>2, LaneMembers DEF Lanes, Lined
  <2>2. \A i \in Items : g[i] = IF i \in ToSet(taken) THEN "prompt" ELSE f[i]
    BY <1>9, <1>10, <2>1 DEF After
  <2>3. g \in [Items -> InputFates]
    <3>1. /\ "prompt" \in InputFates /\ "refused" \in InputFates
          /\ \A i \in Items : f[i] \in InputFates
      BY <1>1 DEF InputFates
    <3> QED BY <3>1 DEF After
  <2> QED BY <2>1, <2>2, <2>3
<1> HIDE DEF g
<1>12. Lanes(c.nextStep, rest, c.arrival, g)
  BY <1>3, <1>11 DEF rest, taken
<1>13. PhasesAgree(d)
  BY <1>7, <1>9, <1>10 DEF Sound, PhasesAgree, AgentRuns
<1>14. ToSet(<<>>) = {}
  BY DEF ToSet
<1>15. Owned(d, g)
  BY <1>9, <1>10, <1>11, <1>14 DEF Owned
<1>16. \A i \in Items : g[i] = f[i] \/ (f[i] = "waiting" /\ g[i] = "prompt")
  BY <1>11
<1>17. OfThisSession(d, g, st, sa)
  <2>1. Wakes \subseteq Items
    BY DEF Items
  <2> QED BY <1>9, <1>10, <1>14, <1>16, <2>1 DEF Sound, OfThisSession
<1>18. Reported(d, g, sa)
  <2>1. Completions \subseteq Items
    BY DEF Items
  <2> QED BY <1>9, <1>16, <2>1 DEF Sound, Reported
<1>19. Held(d, op, b)
  BY <1>9 DEF Sound, Held
<1>20. Sound(d, g, st, sa, op, b)
  BY <1>9, <1>11, <1>12, <1>13, <1>15, <1>17, <1>18, <1>19 DEF Sound, Typed
<1> QED BY <1>5, <1>9, <1>20 DEF g

\* Conversations that differ in their goals, the gate and how a run went.
Alike(c, d) ==
  /\ d.nextStep = c.nextStep /\ d.nextTurn = c.nextTurn /\ d.arrival = c.arrival
  /\ d.consumed = c.consumed /\ d.prompt = c.prompt
  /\ d.agent = c.agent /\ d.source = c.source
  /\ d.drain = c.drain /\ d.caller = c.caller /\ d.settlingRun = c.settlingRun
  /\ d.changing = c.changing /\ d.stopping = c.stopping /\ d.closed = c.closed
  /\ d.session = c.session /\ d.refused = c.refused

\* Soundness does not depend on more of a goal than whose it is and how it went.
LEMMA AlikeSound ==
  ASSUME NEW c, NEW d, NEW f, NEW st, NEW sa, NEW op, NEW b,
         Sound(c, f, st, sa, op, b), d \in Conversations, Alike(c, d),
         d.goal.status = "active" => d.goal.session = c.session,
         d.goalFailed => d.goal.status # "active"
  PROVE  Sound(d, f, st, sa, op, b)
<1>1. PhasesAgree(d)
  BY DEF Sound, PhasesAgree, AgentRuns, Alike
<1>2. Owned(d, f) /\ OfThisSession(d, f, st, sa) /\ Reported(d, f, sa) /\ Held(d, op, b)
  BY DEF Sound, Owned, OfThisSession, Reported, Held, Alike
<1> QED BY <1>1, <1>2 DEF Sound, Typed, Alike

\* A run starts with a prompt of inputs nobody waited with, or a goal's.
LEMMA PromptedRunStarts ==
  ASSUME NEW c, NEW f, NEW st, NEW sa, NEW op, NEW b, Sound(c, f, st, sa, op, b),
         ~c.stopping, ~IsRunning(c), NEW source \in {"user", "goal"},
         NEW prompt \in Seq(Items \cup {GoalInput}), NEW frame \in {"drain", "caller"},
         ToSet(prompt) \subseteq UserInputs \cup {GoalInput},
         NEW g \in [Items -> InputFates],
         \A i \in Items : /\ i \in ToSet(prompt) => f[i] = "new" /\ g[i] = "prompt"
                          /\ i \notin ToSet(prompt) => g[i] = f[i]
  PROVE  Sound(StartConversationRun(c, source, prompt, frame), g, st, sa, op, b)
<1> DEFINE d == StartConversationRun(c, source, prompt, frame)
<1>1. /\ c \in Conversations /\ c.nextTurn \in Seq(Items) /\ c.nextStep \in Seq(Items)
      /\ c.arrival \in Seq(Items) /\ Lanes(c.nextStep, c.nextTurn, c.arrival, f)
  BY DEF Sound, Typed, Conversations
<1>2. source \in {"user", "scheduled", "goal", "job", "subagent"}
  OBVIOUS
<1>3. /\ d \in Conversations
      /\ d.source = source /\ d.prompt = prompt /\ d.agent = "journal"
      /\ d.drain = IF frame = "drain" THEN "running" ELSE c.drain
      /\ d.caller = IF frame = "caller" THEN "running" ELSE c.caller
      /\ d.nextStep = c.nextStep /\ d.nextTurn = c.nextTurn
      /\ d.consumed = c.consumed /\ d.arrival = c.arrival
      /\ d.changing = c.changing /\ d.stopping = c.stopping
      /\ d.closed = c.closed /\ d.goal = c.goal
      /\ d.goalFailed = c.goalFailed /\ d.session = c.session
      /\ d.refused = c.refused
  BY <1>1, <1>2, RunIsStarted
<1> HIDE DEF d
<1>4. /\ c.refused = {} /\ c.consumed = <<>> /\ ~c.changing /\ ~c.closed
      /\ c.caller # "running" /\ c.drain # "running"
  BY DEF Sound, PhasesAgree, IsRunning
<1>5. \A i \in Items : g[i] = f[i] \/ (f[i] = "new" /\ g[i] = "prompt")
  OBVIOUS
<1>6. Lanes(c.nextStep, c.nextTurn, c.arrival, g)
  BY <1>1, <1>5, FatesChange
<1>7. PhasesAgree(d)
  BY <1>2, <1>3, <1>4 DEF Sound, PhasesAgree, AgentRuns
<1>8. ToSet(<<>>) = {}
  BY DEF ToSet
<1>9. UserInputs \cap Completions = {} /\ GoalInput \notin Completions /\ UserInputs \subseteq Items
  BY ConversationAssumption DEF Items
<1>10. Owned(d, g)
  BY <1>3, <1>4, <1>8, <1>9 DEF Owned
<1>11. OfThisSession(d, g, st, sa)
  <2>1. Wakes \subseteq Items
    BY DEF Items
  <2> QED BY <1>3, <1>4, <1>5, <1>8, <2>1 DEF Sound, OfThisSession
<1>12. Reported(d, g, sa)
  <2>1. \A j \in Completions : j \in Items /\ g[j] = f[j]
    BY <1>9 DEF Items
  <2> QED BY <1>3, <2>1 DEF Sound, Reported
<1>13. Held(d, op, b)
  BY <1>3 DEF Sound, Held
<1>14. Sound(d, g, st, sa, op, b)
  BY <1>3, <1>6, <1>7, <1>10, <1>11, <1>12, <1>13 DEF Sound, Typed
<1> QED BY <1>14 DEF d

\* The drain loop starts a goal's next round.
LEMMA GoalRoundStarts ==
  ASSUME NEW c, NEW f, NEW st, NEW sa, NEW op, NEW b, Sound(c, f, st, sa, op, b),
         ~c.stopping, ~IsRunning(c), c.goal.status = "active", c.goal.rounds < MaxRounds
  PROVE  /\ Sound(ContinueGoal(c), After(ContinueGoal(c), f), st, sa, op, b)
         /\ ContinueGoal(c).drain = "running"
         /\ ContinueGoal(c).nextTurn = c.nextTurn
         /\ ContinueGoal(c).closed = c.closed
<1> DEFINE goal == [c.goal EXCEPT !.rounds = @ + 1]
           e == [c EXCEPT !.goal = goal]
           d == StartConversationRun(e, "goal", <<GoalInput>>, "drain")
<1>1. c \in Conversations /\ c.goal \in Goals /\ f \in [Items -> InputFates]
  BY DEF Sound, Typed, Conversations
<1>2. goal \in Goals /\ goal.status = c.goal.status /\ goal.session = c.goal.session
  BY <1>1, ConversationAssumption DEF Goals
<1>3. ContinueGoal(c) = d
  BY <1>1 DEF ContinueGoal, Conversations
<1> HIDE DEF goal
<1>4. /\ e \in Conversations /\ Alike(c, e) /\ e.goalFailed = c.goalFailed
      /\ e.goal = goal
  BY <1>1, <1>2 DEF Conversations, Alike
<1> HIDE DEF e
<1>5. c.goal.status = "active" => c.goal.session = c.session
  BY DEF Sound, OfThisSession
<1>6. c.goalFailed => c.goal.status # "active"
  BY DEF Sound
<1>7. Sound(e, f, st, sa, op, b)
  BY <1>2, <1>4, <1>5, <1>6, AlikeSound
<1>8. /\ <<GoalInput>> \in Seq(Items \cup {GoalInput})
      /\ ToSet(<<GoalInput>>) = {GoalInput}
      /\ GoalInput \notin Items
  BY ConversationAssumption DEF ToSet
<1>9. ~e.stopping /\ ~IsRunning(e) /\ e.nextTurn = c.nextTurn /\ e.closed = c.closed
  BY <1>4 DEF Alike, IsRunning
<1>10. Sound(d, f, st, sa, op, b)
  <2>1. \A i \in Items : i \notin ToSet(<<GoalInput>>)
    BY <1>8
  <2>2. ToSet(<<GoalInput>>) \subseteq UserInputs \cup {GoalInput}
    BY <1>8
  <2> QED BY <1>1, <1>7, <1>8, <1>9, <2>1, <2>2, PromptedRunStarts
<1>11. d.drain = "running" /\ d.nextTurn = c.nextTurn /\ d.closed = c.closed
  BY <1>4, <1>8, <1>9, RunIsStarted
<1> HIDE DEF d
<1>12. After(d, f) = f
  BY <1>10, AfterSound
<1> QED BY <1>3, <1>10, <1>11, <1>12

\* One iteration of the drain loop keeps a conversation sound, stops short of
\* nothing it should start, and continues a goal only when nothing waits.
LEMMA DrainLoopSound ==
  ASSUME NEW c, NEW f, NEW st, NEW sa, NEW op, NEW b, Sound(c, f, st, sa, op, b),
         c.drain \in {"none", "resuming"}
  PROVE  LET d == DrainLoop(c)
         IN  /\ Sound(d, After(d, f), st, sa, op, b)
             /\ Rests(d)
             /\ d.goal.status = "active" /\ d.goal.rounds > c.goal.rounds
                  => d.nextTurn = <<>>
             /\ d.closed = c.closed
             /\ c.stopping \/ IsRunning(c) => d.agent = c.agent
<1> DEFINE d == DrainLoop(c)
           idle == [c EXCEPT !.drain = "none"]
           limited == [c EXCEPT !.drain = "none", !.goal.status = "round_limit"]
<1>1. c \in Conversations /\ c.goal \in Goals
  BY DEF Sound, Typed, Conversations
<1>2. /\ idle \in Conversations /\ idle.drain = "none" /\ idle.goal = c.goal
      /\ idle.closed = c.closed /\ idle.agent = c.agent /\ idle.gate = c.gate
      /\ idle.nextTurn = c.nextTurn /\ idle.stopping = c.stopping
      /\ IsRunning(idle) = IsRunning(c)
  BY <1>1 DEF Conversations, Frames, IsRunning
<1>3. /\ limited.goal.status = "round_limit" /\ limited.nextTurn = c.nextTurn
      /\ limited.closed = c.closed /\ limited.agent = c.agent
  BY <1>1 DEF Conversations, Goals
<1>4. /\ Sound(idle, f, st, sa, op, b) /\ Sound(limited, f, st, sa, op, b)
      /\ After(idle, f) = f /\ After(limited, f) = f
  <2>1. Sound(idle, f, st, sa, op, b) /\ Sound(limited, f, st, sa, op, b)
    BY DrainEnds
  <2> HIDE DEF idle, limited
  <2> QED BY <2>1, AfterSound
<1>5. c.goal.rounds \in Nat /\ ~(c.goal.rounds > c.goal.rounds)
  BY <1>1 DEF Goals
<1>6. [idle EXCEPT !.goal.status = "round_limit"] = limited
  BY <1>1 DEF Conversations, Goals
<1> HIDE DEF idle, limited
<1>7. CASE c.stopping \/ IsRunning(c) \/ ~c.gate
  <2>1. d = idle
    BY <1>7 DEF DrainLoop, idle
  <2>2. Rests(idle)
    BY <1>2, <1>7 DEF Rests
  <2> QED BY <1>2, <1>4, <1>5, <2>1, <2>2
<1>8. CASE ~(c.stopping \/ IsRunning(c) \/ ~c.gate) /\ c.nextTurn # <<>>
  <2>1. CASE ~CompletionRuns /\ Head(c.nextTurn) \in Completions
    <3>1. d = idle
      BY <1>8, <2>1 DEF DrainLoop, idle
    <3>2. Rests(idle)
      BY <1>2, <1>8, <2>1 DEF Rests, Startable
    <3> QED BY <1>2, <1>4, <1>5, <1>8, <3>1, <3>2
  <2>2. CASE ~(~CompletionRuns /\ Head(c.nextTurn) \in Completions)
    <3>1. d = StartQueued(c)
      BY <1>8, <2>2 DEF DrainLoop
    <3>2. /\ Sound(StartQueued(c), After(StartQueued(c), f), st, sa, op, b)
          /\ StartQueued(c).drain = "running" /\ StartQueued(c).goal = c.goal
          /\ StartQueued(c).closed = c.closed
      BY <1>8, QueuedRunStarts
    <3> QED BY <1>5, <1>8, <3>1, <3>2 DEF Rests
  <2> QED BY <2>1, <2>2
<1>9. CASE /\ ~(c.stopping \/ IsRunning(c) \/ ~c.gate)
           /\ c.nextTurn = <<>> /\ c.goal.status = "active"
  <2>1. CASE c.goal.rounds < MaxRounds
    <3>1. d = ContinueGoal(c)
      BY <1>9, <2>1 DEF DrainLoop
    <3>2. /\ Sound(ContinueGoal(c), After(ContinueGoal(c), f), st, sa, op, b)
          /\ ContinueGoal(c).drain = "running"
          /\ ContinueGoal(c).nextTurn = c.nextTurn
          /\ ContinueGoal(c).closed = c.closed
      BY <1>9, <2>1, GoalRoundStarts
    <3> QED BY <1>9, <3>1, <3>2 DEF Rests
  <2>2. CASE ~(c.goal.rounds < MaxRounds)
    <3>1. d = limited
      BY <1>6, <1>9, <2>2 DEF DrainLoop, idle
    <3>2. Rests(limited)
      BY <1>3, <1>9 DEF Rests, Startable
    <3> QED BY <1>3, <1>4, <1>9, <3>1, <3>2
  <2> QED BY <2>1, <2>2
<1>10. CASE /\ ~(c.stopping \/ IsRunning(c) \/ ~c.gate)
            /\ c.nextTurn = <<>> /\ c.goal.status # "active"
  <2>1. d = idle
    BY <1>10 DEF DrainLoop, idle
  <2>2. Rests(idle)
    BY <1>2, <1>10 DEF Rests, Startable
  <2> QED BY <1>2, <1>4, <1>5, <1>10, <2>1, <2>2
<1> QED BY <1>7, <1>8, <1>9, <1>10

\* drain() keeps a conversation sound, whoever calls it, and leaves nothing
\* that could start.
LEMMA DrainSound ==
  ASSUME NEW c, NEW f, NEW st, NEW sa, NEW op, NEW b, Sound(c, f, st, sa, op, b)
  PROVE  LET d == Drain(c)
         IN  /\ Sound(d, After(d, f), st, sa, op, b)
             /\ Rests(d)
             /\ d.goal.status = "active" /\ d.goal.rounds > c.goal.rounds
                  => d.nextTurn = <<>>
             /\ d.closed = c.closed
             /\ c.stopping \/ IsRunning(c) => d.agent = c.agent
<1>1. CASE c.drain # "none" \/ c.settlingRun
  <2>1. Drain(c) = c
    BY <1>1 DEF Drain
  <2>2. Rests(c)
    BY <1>1 DEF Sound, PhasesAgree, Rests
  <2>3. After(c, f) = f
    BY AfterSound
  <2>4. c.goal.rounds \in Nat /\ ~(c.goal.rounds > c.goal.rounds)
    BY DEF Sound, Typed, Conversations, Goals
  <2> QED BY <2>1, <2>2, <2>3, <2>4
<1>2. CASE c.drain = "none" /\ ~c.settlingRun
  <2>1. Drain(c) = DrainLoop(c)
    BY <1>2 DEF Drain
  <2> QED BY <1>2, <2>1, DrainLoopSound
<1> QED BY <1>1, <1>2
-----------------------------------------------------------------------------
(* What a step has to show: the invariant, and the two action properties. *)
Yields ==
  /\ conv'.goal.status = "active" /\ conv'.goal.rounds > conv.goal.rounds
  /\ conv.goal.status = "active"
  => conv'.nextTurn = <<>>
Final ==
  /\ conv.stopping /\ conv.agent = "idle" => conv'.agent = "idle"
  /\ conv'.closed => conv'.agent = "idle"
Keeps == ConversationInv' /\ Yields /\ Final

\* A handler that ends with drain() hands it a sound conversation.
LEMMA ThenDrains ==
  ASSUME NEW c, NEW f, Becomes(Drain(c), f),
         Sound(c, f, stamp', status', open', bounds'),
         c.goal.rounds = conv.goal.rounds,
         conv.stopping /\ conv.agent = "idle" => c.stopping /\ c.agent = "idle"
  PROVE  Keeps
<1> DEFINE d == Drain(c)
<1>1. /\ Sound(d, After(d, f), stamp', status', open', bounds') /\ Rests(d)
      /\ d.goal.status = "active" /\ d.goal.rounds > c.goal.rounds => d.nextTurn = <<>>
      /\ c.stopping \/ IsRunning(c) => d.agent = c.agent
  BY DrainSound
<1>2. conv' = d /\ inputFate' = After(d, f)
  BY DEF Becomes, After
<1> HIDE DEF d
<1>3. Sound(conv', inputFate', stamp', status', open', bounds')
  BY <1>1, <1>2
<1>4. Rests(conv')
  BY <1>1, <1>2
<1>5. ConversationInv'
  BY <1>3, <1>4 DEF ConversationInv, NoStall, Rests
<1>6. Yields
  BY <1>1, <1>2 DEF Yields
<1>7. conv'.closed => conv'.agent = "idle"
  BY <1>3 DEF Sound, PhasesAgree
<1>8. conv.stopping /\ conv.agent = "idle" => conv'.agent = "idle"
  BY <1>1, <1>2
<1> QED BY <1>5, <1>6, <1>7, <1>8 DEF Keeps, Final

\* Another handler keeps the conversation at rest, or blocked, itself.
LEMMA ThenRests ==
  ASSUME NEW c, NEW f, Becomes(c, f),
         Sound(c, f, stamp', status', open', bounds'), Rests(c),
         /\ c.goal.status = "active" /\ c.goal.rounds > conv.goal.rounds
         /\ conv.goal.status = "active"
         => c.nextTurn = <<>>,
         conv.stopping /\ conv.agent = "idle" => c.agent = "idle"
  PROVE  Keeps
<1>1. After(c, f) = f
  BY AfterSound
<1>2. conv' = c /\ inputFate' = f
  BY <1>1 DEF Becomes, After
<1>3. Sound(conv', inputFate', stamp', status', open', bounds') /\ Rests(conv')
  BY <1>2
<1>4. ConversationInv'
  BY <1>3 DEF ConversationInv, NoStall, Rests
<1>5. conv'.closed => conv'.agent = "idle"
  BY <1>3 DEF Sound, PhasesAgree
<1> QED BY <1>2, <1>4, <1>5 DEF Keeps, Final, Yields

-----------------------------------------------------------------------------
(* Changes that handlers share. *)
Now(f) == Sound(conv, f, stamp, status, open, bounds)

\* An input may be given the current session.
LEMMA StampSound ==
  ASSUME NEW c, NEW f, NEW st, NEW sa, NEW op, NEW b, Sound(c, f, st, sa, op, b),
         NEW i \in Items
  PROVE  Sound(c, f, [st EXCEPT ![i] = c.session], sa, op, b)
<1> DEFINE t == [st EXCEPT ![i] = c.session]
<1>1. /\ c \in Conversations /\ st \in [Items -> 0..MaxSessions]
      /\ c.session \in 1..MaxSessions /\ MaxSessions \in Nat
  BY ConversationAssumption DEF Sound, Typed, Conversations
<1>2. c.session \in 0..MaxSessions
  BY <1>1
<1>3. t \in [Items -> 0..MaxSessions] /\ \A k \in Items : t[k] = c.session \/ t[k] = st[k]
  BY <1>1, <1>2
<1> HIDE DEF t
<1>4. ToSet(c.consumed) \subseteq Items /\ Wakes \subseteq Items /\ Completions \subseteq Items
  BY <1>1, LaneMembers DEF Conversations, Items
<1>5. OfThisSession(c, f, t, sa)
  BY <1>3, <1>4 DEF Sound, OfThisSession
<1>6. Sound(c, f, t, sa, op, b)
  BY <1>3, <1>5 DEF Sound, Typed
<1> QED BY <1>6 DEF t

\* A bound may be used up.
LEMMA AsideSound ==
  ASSUME NEW c, NEW f, NEW st, NEW sa, NEW op, Sound(c, f, st, sa, op, bounds),
         Aside
  PROVE  Sound(c, f, st, sa, op, bounds')
<1>1. /\ bounds \in [goals : 0..MaxGoals, sessions : 1..MaxSessions, aside : 0..MaxAside]
      /\ MaxAside \in Nat
  BY ConversationAssumption DEF Sound, Typed
<1>2. /\ bounds' \in [goals : 0..MaxGoals, sessions : 1..MaxSessions, aside : 0..MaxAside]
      /\ bounds'.sessions = bounds.sessions
  BY <1>1 DEF Aside
<1> QED BY <1>2 DEF Sound, Typed, Held

\* A wake or an input of the user that does not wait changes its fate.
LEMMA FateSound ==
  ASSUME NEW c, NEW f, NEW st, NEW sa, NEW op, NEW b, Sound(c, f, st, sa, op, b),
         NEW i \in Items \ Completions, f[i] \in {"new", "timer"},
         NEW fate2 \in {"timer", "discarded", "withdrawn"},
         fate2 = "timer" => st[i] = c.session,
         NEW g \in [Items -> InputFates], g[i] = fate2,
         \A k \in Items \ {i} : g[k] = f[k]
  PROVE  Sound(c, g, st, sa, op, b)
<1>1. /\ c \in Conversations /\ c.nextTurn \in Seq(Items) /\ c.nextStep \in Seq(Items)
      /\ c.arrival \in Seq(Items) /\ Lanes(c.nextStep, c.nextTurn, c.arrival, f)
      /\ f \in [Items -> InputFates] /\ c.prompt \in Seq(Items \cup {GoalInput})
      /\ c.consumed \in Seq(Items)
  BY DEF Sound, Typed, Conversations
<1>4. Lanes(c.nextStep, c.nextTurn, c.arrival, g)
  BY <1>1, FatesChange
<1>5. /\ ToSet(c.consumed) \subseteq Items
      /\ ToSet(c.prompt) \subseteq Items \cup {GoalInput}
  BY <1>1, LaneMembers
<1>6. Owned(c, g)
  BY <1>5 DEF Sound, Owned
<1>7. OfThisSession(c, g, st, sa)
  <2>1. Wakes \subseteq Items
    BY DEF Items
  <2> QED BY <2>1 DEF Sound, OfThisSession
<1>8. Reported(c, g, sa)
  <2>1. \A j \in Completions : g[j] = f[j]
    BY DEF Items
  <2> QED BY <2>1 DEF Sound, Reported
<1> QED BY <1>4, <1>6, <1>7, <1>8 DEF Sound, Typed

\* An input joins either lane.
Joins(c, d, i) == d = Arrive(c, <<i>>) \/ d = [c EXCEPT !.nextStep = Append(@, i)]

\* An input that belongs to the session, or the notification of a task that
\* has just settled, begins to wait, in either lane.
LEMMA WaitSound ==
  ASSUME NEW c, NEW f, NEW st, NEW sa, NEW op, NEW b, Sound(c, f, st, sa, op, b),
         NEW i \in Items, f[i] \in {"new", "timer"}, st[i] = c.session,
         NEW sa2 \in [Completions -> {"none", "active", "settled", "observed", "gone"}],
         \A j \in Completions \ {i} : sa2[j] = sa[j],
         i \in Completions => sa2[i] = "settled",
         NEW g \in [Items -> InputFates], g[i] = "waiting",
         \A k \in Items \ {i} : g[k] = f[k],
         NEW d, Joins(c, d, i)
  PROVE  Sound(d, g, st, sa2, op, b)
<1>1. /\ c \in Conversations /\ c.nextTurn \in Seq(Items) /\ c.nextStep \in Seq(Items)
      /\ c.arrival \in Seq(Items) /\ Lanes(c.nextStep, c.nextTurn, c.arrival, f)
      /\ f \in [Items -> InputFates] /\ c.prompt \in Seq(Items \cup {GoalInput})
      /\ c.consumed \in Seq(Items)
  BY DEF Sound, Typed, Conversations
<1>4. /\ c.nextTurn \o <<i>> \in Seq(Items) /\ c.arrival \o <<i>> \in Seq(Items)
      /\ Append(c.nextStep, i) \in Seq(Items) /\ Append(c.nextStep, i) # <<>>
  <2>1. <<i>> \in Seq(Items)
    OBVIOUS
  <2>2. c.nextTurn \o <<i>> \in Seq(Items)
    BY <1>1, <2>1, ConcatLane
  <2>3. c.arrival \o <<i>> \in Seq(Items)
    BY <1>1, <2>1, ConcatLane
  <2>4. Append(c.nextStep, i) \in Seq(Items) /\ Append(c.nextStep, i) # <<>>
    BY <1>1, AppendProperties
  <2> QED BY <2>2, <2>3, <2>4
<1>5. /\ Lanes(c.nextStep, c.nextTurn \o <<i>>, c.arrival \o <<i>>, g)
      /\ Lanes(Append(c.nextStep, i), c.nextTurn, c.arrival, g)
  BY <1>1, ArriveLanes, SteerLanes
<1>6. /\ d \in Conversations
      /\ Lanes(d.nextStep, d.nextTurn, d.arrival, g)
      /\ d.nextStep = c.nextStep \/ d.nextStep # <<>>
      /\ d.source = c.source /\ d.prompt = c.prompt /\ d.agent = c.agent
      /\ d.settlingRun = c.settlingRun /\ d.drain = c.drain /\ d.caller = c.caller
      /\ d.consumed = c.consumed
      /\ d.changing = c.changing /\ d.stopping = c.stopping
      /\ d.closed = c.closed /\ d.session = c.session
      /\ d.goal = c.goal /\ d.goalFailed = c.goalFailed /\ d.refused = c.refused
  <2>1. CASE d = Arrive(c, <<i>>)
    BY <1>1, <1>4, <1>5, <2>1 DEF Conversations, Arrive
  <2>2. CASE d = [c EXCEPT !.nextStep = Append(@, i)]
    BY <1>1, <1>4, <1>5, <2>2 DEF Conversations
  <2> QED BY <2>1, <2>2 DEF Joins
<1>7. PhasesAgree(d)
  BY <1>6 DEF Sound, PhasesAgree, AgentRuns
<1>8. /\ ToSet(c.consumed) \subseteq Items
      /\ ToSet(c.prompt) \subseteq Items \cup {GoalInput}
      /\ Wakes \subseteq Items /\ Completions \subseteq Items
  BY <1>1, LaneMembers DEF Items
<1>9. Owned(d, g)
  BY <1>6, <1>8 DEF Sound, Owned
<1>10. OfThisSession(d, g, st, sa2)
  BY <1>6, <1>8 DEF Sound, OfThisSession
<1>11. Reported(d, g, sa2)
  BY <1>6, <1>8 DEF Sound, Reported
<1>12. Held(d, op, b)
  BY <1>6 DEF Sound, Held
<1> QED BY <1>6, <1>7, <1>9, <1>10, <1>11, <1>12 DEF Sound, Typed
-----------------------------------------------------------------------------
(* The actions, one lemma each. *)

\* What the actions need of the invariant.
LEMMA InvFacts ==
  ASSUME ConversationInv
  PROVE  /\ Now(inputFate) /\ Rests(conv)
         /\ conv \in Conversations /\ conv.goal \in Goals
         /\ conv.goal.rounds \in Nat /\ ~(conv.goal.rounds > conv.goal.rounds)
         /\ inputFate \in [Items -> InputFates]
         /\ stamp \in [Items -> 0..MaxSessions]
         /\ status \in [Completions -> {"none", "active", "settled", "observed", "gone"}]
         /\ UserInputs \subseteq Items \ Completions /\ Wakes \subseteq Items \ Completions
         /\ Completions \subseteq Items
<1>1. UserInputs \subseteq Items \ Completions /\ Wakes \subseteq Items \ Completions
  BY ConversationAssumption DEF Items
<1>2. Completions \subseteq Items
  BY DEF Items
<1>3. Now(inputFate) /\ Rests(conv)
  BY DEF ConversationInv, NoStall, Rests, Now
<1>4. conv \in Conversations /\ conv.goal \in Goals
  BY <1>3 DEF Now, Sound, Typed, Conversations
<1>5. conv.goal.rounds \in Nat /\ ~(conv.goal.rounds > conv.goal.rounds)
  BY <1>4 DEF Goals
<1>6. /\ inputFate \in [Items -> InputFates]
      /\ stamp \in [Items -> 0..MaxSessions]
      /\ status \in [Completions -> {"none", "active", "settled", "observed", "gone"}]
  BY <1>3 DEF Now, Sound, Typed
<1> QED BY <1>1, <1>2, <1>3, <1>4, <1>5, <1>6

\* An input arrives in next-turn and drain() is called; or it joins next-step.
LEMMA InputWaits ==
  ASSUME ConversationInv, NEW i \in Items, inputFate[i] \in {"new", "timer"},
         stamp' \in {stamp, [stamp EXCEPT ![i] = conv.session]}, stamp'[i] = conv.session,
         status' \in [Completions -> {"none", "active", "settled", "observed", "gone"}],
         \A j \in Completions \ {i} : status'[j] = status[j],
         i \in Completions => status'[i] = "settled",
         UNCHANGED <<open, bounds>>
  PROVE  /\ Becomes(Drain(Arrive(conv, <<i>>)), Mark({i}, "waiting")) => Keeps
         /\ IsRunning(conv) /\ Becomes([conv EXCEPT !.nextStep = Append(@, i)],
                                       Mark({i}, "waiting")) => Keeps
<1> USE InvFacts
<1>1. Sound(conv, inputFate, stamp', status, open', bounds')
  BY StampSound DEF Now
<1>2. ASSUME NEW d, Joins(conv, d, i)
      PROVE  Sound(d, Mark({i}, "waiting"), stamp', status', open', bounds')
  <2> DEFINE g == Mark({i}, "waiting")
             t == stamp'
             s == status'
  <2>1. /\ g \in [Items -> InputFates] /\ g[i] = "waiting"
        /\ \A k \in Items \ {i} : g[k] = inputFate[k]
    BY DEF Mark, InputFates
  <2>2. /\ s \in [Completions -> {"none", "active", "settled", "observed", "gone"}]
        /\ \A j \in Completions \ {i} : s[j] = status[j]
        /\ i \in Completions => s[i] = "settled"
        /\ t[i] = conv.session
        /\ Sound(conv, inputFate, t, status, open', bounds')
    BY <1>1
  <2> HIDE DEF g, t, s
  <2>3. Sound(d, g, t, s, open', bounds')
    BY <1>2, <2>1, <2>2, WaitSound
  <2> QED BY <2>3 DEF g, t, s
<1>3. ASSUME Becomes(Drain(Arrive(conv, <<i>>)), Mark({i}, "waiting")) PROVE Keeps
  <2> DEFINE c == Arrive(conv, <<i>>)
  <2>1. c.goal.rounds = conv.goal.rounds /\ c.stopping = conv.stopping /\ c.agent = conv.agent
    BY DEF Arrive, Conversations
  <2>2. Sound(c, Mark({i}, "waiting"), stamp', status', open', bounds')
    BY <1>2 DEF Joins
  <2>3. Becomes(Drain(c), Mark({i}, "waiting"))
    BY <1>3
  <2> HIDE DEF c
  <2> QED BY <2>1, <2>2, <2>3, ThenDrains
<1>4. ASSUME IsRunning(conv),
             Becomes([conv EXCEPT !.nextStep = Append(@, i)], Mark({i}, "waiting"))
      PROVE  Keeps
  <2> DEFINE c == [conv EXCEPT !.nextStep = Append(@, i)]
  <2>1. /\ c.goal = conv.goal /\ c.stopping = conv.stopping /\ c.agent = conv.agent
        /\ IsRunning(c)
    BY <1>4 DEF IsRunning, Conversations
  <2>2. Sound(c, Mark({i}, "waiting"), stamp', status', open', bounds')
    BY <1>2 DEF Joins
  <2>3. Becomes(c, Mark({i}, "waiting"))
    BY <1>4
  <2> HIDE DEF c
  <2> QED BY <2>1, <2>2, <2>3, ThenRests DEF Rests
<1> QED BY <1>3, <1>4

\* An input is dropped, or a wake is set.
LEMMA InputDoesNotWait ==
  ASSUME ConversationInv, NEW i \in Items \ Completions, inputFate[i] \in {"new", "timer"},
         NEW fate2 \in {"timer", "discarded", "withdrawn"},
         Becomes(conv, Mark({i}, fate2)),
         \/ UNCHANGED stamp /\ fate2 # "timer"
         \/ stamp' = [stamp EXCEPT ![i] = conv.session],
         UNCHANGED <<status, open, bounds>>
  PROVE  Keeps
<1> USE InvFacts
<1>1. Sound(conv, inputFate, stamp', status', open', bounds')
  BY StampSound DEF Now
<1>2. Sound(conv, Mark({i}, fate2), stamp', status', open', bounds')
  <2>1. /\ Mark({i}, fate2) \in [Items -> InputFates]
        /\ Mark({i}, fate2)[i] = fate2
        /\ \A k \in Items \ {i} : Mark({i}, fate2)[k] = inputFate[k]
    BY DEF Mark, InputFates
  <2>2. fate2 = "timer" => stamp'[i] = conv.session
    OBVIOUS
  <2> QED BY <1>1, <2>1, <2>2, FateSound
<1> QED BY <1>2, ThenRests

\* A queued input waits in next-turn, or is dropped during a change.
LEMMA QueueInputKeeps ==
  ASSUME ConversationInv, NEW i \in UserInputs, QueueInput(i)
  PROVE  Keeps
<1> USE InvFacts
<1>1. CASE Accepting
  BY <1>1, InputWaits DEF QueueInput, Stamped
<1>2. CASE ~Accepting
  BY <1>2, InputDoesNotWait DEF QueueInput
<1> QED BY <1>1, <1>2

\* A steered input joins the run, or waits for one.
LEMMA SteerKeeps ==
  ASSUME ConversationInv, NEW i \in UserInputs, SteerConversation(i)
  PROVE  Keeps
<1> USE InvFacts
<1>1. CASE Accepting /\ AgentRuns(conv)
  <2>1. IsRunning(conv)
    BY <1>1 DEF AgentRuns, IsRunning
  <2> QED BY <1>1, <2>1, InputWaits DEF SteerConversation, Stamped
<1>2. CASE Accepting /\ ~AgentRuns(conv)
  BY <1>2, InputWaits DEF SteerConversation, Stamped
<1>3. CASE ~Accepting
  BY <1>3, InputDoesNotWait DEF SteerConversation
<1> QED BY <1>1, <1>2, <1>3

\* A wake is set for the current session.
LEMMA ScheduleWakeKeeps ==
  ASSUME ConversationInv, NEW w \in Wakes, ScheduleWake(w)
  PROVE  Keeps
BY InvFacts, InputDoesNotWait DEF ScheduleWake, Stamped

\* A wake that fires waits, unless its session is over.
LEMMA WakeFiresKeeps ==
  ASSUME ConversationInv, NEW w \in Wakes, WakeFires(w)
  PROVE  Keeps
<1> USE InvFacts
<1>1. CASE conv.stopping \/ stamp[w] # conv.session
  BY <1>1, InputDoesNotWait DEF WakeFires
<1>2. CASE ~(conv.stopping \/ stamp[w] # conv.session)
  BY <1>2, InputWaits DEF WakeFires
<1> QED BY <1>1, <1>2

\* The notification of a task that ends waits, in either lane.
LEMMA TaskSettlesKeeps ==
  ASSUME ConversationInv, NEW j \in Completions, TaskSettles(j)
  PROVE  Keeps
<1> USE InvFacts
<1>1. /\ inputFate[j] = "new" /\ stamp[j] = conv.session
      /\ status' \in [Completions -> {"none", "active", "settled", "observed", "gone"}]
      /\ status'[j] = "settled" /\ \A k \in Completions \ {j} : status'[k] = status[k]
  BY DEF TaskSettles, Now, Sound, OfThisSession, Reported
<1>2. CASE Accepting /\ CanSteer(conv)
  <2>1. IsRunning(conv)
    BY <1>2 DEF CanSteer, IsRunning
  <2> QED BY <1>1, <1>2, <2>1, InputWaits DEF TaskSettles
<1>3. CASE Accepting /\ ~CanSteer(conv)
  BY <1>1, <1>3, InputWaits DEF TaskSettles
<1>4. CASE ~Accepting
  <2>1. UNCHANGED <<conv, inputFate, stamp, open, bounds>>
    BY <1>4 DEF TaskSettles
  <2>2. OfThisSession(conv, inputFate, stamp, status')
    BY <1>1 DEF Now, Sound, OfThisSession
  <2>3. Reported(conv, inputFate, status')
    BY <1>1, <1>4 DEF Now, Sound, Reported, Accepting
  <2>4. Sound(conv, inputFate, stamp', status', open', bounds')
    BY <1>1, <2>1, <2>2, <2>3 DEF Now, Sound, Typed
  <2>5. ConversationInv'
    BY <2>1, <2>4 DEF ConversationInv, NoStall, Rests
  <2>6. conv.closed => conv.agent = "idle"
    BY DEF Now, Sound, PhasesAgree
  <2> QED BY <2>1, <2>5, <2>6 DEF Keeps, Yields, Final
<1> QED BY <1>2, <1>3, <1>4

\* A caller's run starts with its prompt.
LEMMA CallerRunStarts ==
  ASSUME NEW c \in Conversations, ~c.stopping, ~IsRunning(c),
         NEW source \in {"user", "goal"}, NEW prompt \in Seq(Items \cup {GoalInput})
  PROVE  /\ StartConversationRun(c, source, prompt, "caller").refused = c.refused
         /\ StartConversationRun(c, source, prompt, "caller").prompt = prompt
         /\ StartConversationRun(c, source, prompt, "caller").caller = "running"
         /\ StartConversationRun(c, source, prompt, "caller").goal = c.goal
         /\ StartConversationRun(c, source, prompt, "caller").stopping = c.stopping
<1>1. /\ source \in {"user", "scheduled", "goal", "job", "subagent"}
      /\ "caller" \in {"drain", "caller"}
  OBVIOUS
<1> QED BY <1>1, RunIsStarted

\* A frontend's run takes its input past the lanes.
LEMMA SubmitKeeps ==
  ASSUME ConversationInv, NEW i \in UserInputs, Submit(i)
  PROVE  Keeps
<1> USE InvFacts
<1> DEFINE d == StartConversationRun(conv, "user", <<i>>, "caller")
           f == Mark({i}, "waiting")
           g == After(d, f)
           t == stamp'
<1>1. /\ inputFate[i] = "new" /\ ~conv.stopping /\ ~IsRunning(conv) /\ conv.caller = "none"
      /\ Becomes(d, f) /\ UNCHANGED <<status, open, bounds>>
      /\ t = [stamp EXCEPT ![i] = conv.session]
  BY DEF Submit, MayStart, Stamped
<1>2. Sound(conv, inputFate, t, status, open, bounds)
  BY <1>1, StampSound DEF Now
<1>3. /\ <<i>> \in Seq(Items \cup {GoalInput}) /\ ToSet(<<i>>) = {i}
      /\ i \in Items /\ conv.refused = {}
  BY DEF ToSet, Now, Sound, PhasesAgree
<1>4. /\ d.refused = {} /\ d.prompt = <<i>> /\ d.caller = "running" /\ d.goal = conv.goal
      /\ d.stopping = conv.stopping
  BY <1>1, <1>3, CallerRunStarts
<1> HIDE DEF d, t
<1>5. /\ g \in [Items -> InputFates] /\ g[i] = "prompt"
      /\ \A k \in Items \ {i} : g[k] = inputFate[k]
  <2>1. \A k \in Items : f[k] = IF k = i THEN "waiting" ELSE inputFate[k]
    BY DEF Mark
  <2>2. \A k \in Items : g[k] = IF k = i THEN "prompt" ELSE inputFate[k]
    BY <1>3, <1>4, <2>1 DEF After
  <2>3. g = [k \in Items |-> IF k = i THEN "prompt" ELSE inputFate[k]]
    BY <2>2 DEF After
  <2> QED BY <1>3, <2>2, <2>3 DEF InputFates
<1>6. Becomes(d, f) => conv' = d /\ inputFate' = g
  BY DEF Becomes, After
<1> HIDE DEF f, g
<1>7. Sound(d, g, t, status, open, bounds)
  <2>1. \A k \in Items : /\ k \in ToSet(<<i>>) => inputFate[k] = "new" /\ g[k] = "prompt"
                         /\ k \notin ToSet(<<i>>) => g[k] = inputFate[k]
    BY <1>1, <1>3, <1>5
  <2>2. ToSet(<<i>>) \subseteq UserInputs \cup {GoalInput}
    BY <1>3
  <2> QED BY <1>1, <1>2, <1>3, <1>5, <2>1, <2>2, PromptedRunStarts DEF d
<1>8. conv' = d /\ inputFate' = g /\ stamp' = t
  BY <1>1, <1>6 DEF t
<1>9. ConversationInv'
  BY <1>1, <1>4, <1>7, <1>8 DEF ConversationInv, NoStall
<1>10. conv'.closed => conv'.agent = "idle"
  BY <1>7, <1>8 DEF Sound, PhasesAgree
<1> QED BY <1>1, <1>4, <1>8, <1>9, <1>10 DEF Keeps, Yields, Final

\* A goal starts with its first round.
LEMMA StartGoalKeeps ==
  ASSUME ConversationInv, StartGoal
  PROVE  Keeps
<1> USE InvFacts
<1> DEFINE goal == [status |-> "active", rounds |-> 1, session |-> conv.session]
           e == [conv EXCEPT !.goal = goal, !.goalFailed = FALSE]
           d == StartConversationRun(e, "goal", <<GoalInput>>, "caller")
<1>1. /\ ~conv.stopping /\ ~IsRunning(conv) /\ conv.caller = "none"
      /\ conv.goal.status # "active"
      /\ Becomes(d, inputFate) /\ UNCHANGED <<stamp, status, open>>
  BY DEF StartGoal, MayStart
<1>2. /\ bounds' \in [goals : 0..MaxGoals, sessions : 1..MaxSessions, aside : 0..MaxAside]
      /\ bounds'.sessions = bounds.sessions
  <2>1. /\ bounds \in [goals : 0..MaxGoals, sessions : 1..MaxSessions, aside : 0..MaxAside]
        /\ MaxGoals \in Nat
    BY ConversationAssumption DEF Now, Sound, Typed
  <2> QED BY <2>1 DEF StartGoal
<1>3. goal \in Goals
  <2>1. conv.session \in 0..MaxSessions /\ 1 \in 0..MaxRounds
    BY ConversationAssumption DEF Conversations
  <2> QED BY <2>1 DEF Goals
<1>4. /\ e \in Conversations /\ Alike(conv, e) /\ e.goalFailed = FALSE /\ e.goal = goal
      /\ goal.session = conv.session
  BY <1>3 DEF Conversations, Alike
<1> HIDE DEF goal, e
<1>5. Sound(e, inputFate, stamp, status, open, bounds)
  BY <1>4, AlikeSound DEF Now
<1>6. Sound(e, inputFate, stamp, status, open, bounds')
  BY <1>2, <1>5 DEF Sound, Typed, Held
<1>7. ~e.stopping /\ ~IsRunning(e)
  BY <1>1, <1>4 DEF Alike, IsRunning
<1>8. /\ <<GoalInput>> \in Seq(Items \cup {GoalInput})
      /\ ToSet(<<GoalInput>>) = {GoalInput} /\ GoalInput \notin Items
  BY ConversationAssumption DEF ToSet
<1>9. Sound(d, inputFate, stamp, status, open, bounds')
  <2>1. \A i \in Items : i \notin ToSet(<<GoalInput>>)
    BY <1>8
  <2>2. ToSet(<<GoalInput>>) \subseteq UserInputs \cup {GoalInput}
    BY <1>8
  <2> QED BY <1>6, <1>7, <1>8, <2>1, <2>2, PromptedRunStarts
<1>10. d.caller = "running"
  BY <1>4, <1>7, <1>8, CallerRunStarts
<1> HIDE DEF d
<1>11. Sound(d, inputFate, stamp', status', open', bounds')
  BY <1>1, <1>9
<1>12. Rests(d)
  BY <1>10 DEF Rests
<1> QED BY <1>1, <1>11, <1>12, ThenRests

\* A handler that changes the goal, the gate or what is known of the run.
LEMMA ChangesAlike ==
  ASSUME ConversationInv, NEW d \in Conversations, Alike(conv, d),
         UNCHANGED <<stamp, status, open>>, Aside \/ UNCHANGED bounds,
         d.goal.status = "active" => d.goal.session = conv.session,
         d.goalFailed => d.goal.status # "active",
         d.goal.rounds = conv.goal.rounds \/ d.goal.status # "active"
  PROVE  /\ Becomes(d, inputFate)
            /\ Rests(d)
            => Keeps
         /\ Becomes(Drain(d), inputFate) /\ d.goal.rounds = conv.goal.rounds => Keeps
<1> USE InvFacts
<1>1. Sound(conv, inputFate, stamp', status', open', bounds')
  BY AsideSound DEF Now
<1>2. Sound(d, inputFate, stamp', status', open', bounds')
  BY <1>1, AlikeSound
<1>3. d.agent = conv.agent /\ d.stopping = conv.stopping
  BY DEF Alike
<1>4. ASSUME Becomes(d, inputFate), Rests(d) PROVE Keeps
  BY <1>2, <1>3, <1>4, ThenRests
<1>5. ASSUME Becomes(Drain(d), inputFate), d.goal.rounds = conv.goal.rounds PROVE Keeps
  BY <1>2, <1>3, <1>5, ThenDrains
<1> QED BY <1>4, <1>5

\* A conversation that rests still does without its goal.
LEMMA RestsWithoutGoal ==
  ASSUME NEW d, Alike(conv, d), d.gate = conv.gate, Rests(conv),
         d.goal.status # "active" \/ d.goal = conv.goal
  PROVE  Rests(d)
BY DEF Alike, Rests, IsRunning, Startable

\* A goal that is active is of this session and has not failed.
LEMMA GoalFacts ==
  ASSUME ConversationInv
  PROVE  /\ conv.goal.status = "active" => conv.goal.session = conv.session
         /\ conv.goalFailed => conv.goal.status # "active"
BY InvFacts DEF Now, Sound, OfThisSession

\* Without its goal a conversation has less to start.
LEMMA CancelGoalKeeps ==
  ASSUME ConversationInv, CancelGoal
  PROVE  Keeps
<1> USE InvFacts, GoalFacts
<1> DEFINE goal == [conv.goal EXCEPT !.status = "cancelled"]
           d == [conv EXCEPT !.goal = goal]
<1>1. Becomes(d, inputFate) /\ UNCHANGED <<stamp, status, open, bounds>>
  BY DEF CancelGoal, Conversations
<1>2. goal \in Goals /\ goal.status = "cancelled"
  BY DEF Goals
<1> HIDE DEF goal
<1>3. d \in Conversations /\ Alike(conv, d) /\ d.goal = goal /\ d.gate = conv.gate
  BY <1>2 DEF Conversations, Alike
<1> HIDE DEF d
<1>4. Rests(d)
  BY <1>2, <1>3, RestsWithoutGoal
<1> QED BY <1>1, <1>2, <1>3, <1>4, ChangesAlike

\* A new Agent drops the goal that was active.
LEMMA ReconfigureKeeps ==
  ASSUME ConversationInv, Reconfigure
  PROVE  Keeps
<1> USE InvFacts, GoalFacts
<1> DEFINE goal == IF conv.goal.status = "active" THEN NoGoal ELSE conv.goal
           d == [conv EXCEPT !.goal = goal]
<1>1. Becomes(d, inputFate) /\ UNCHANGED <<stamp, status, open>> /\ Aside
  BY DEF Reconfigure, Conversations
<1>2. goal \in Goals /\ goal.status # "active"
  BY ConversationAssumption DEF Goals, NoGoal
<1> HIDE DEF goal
<1>3. d \in Conversations /\ Alike(conv, d) /\ d.goal = goal /\ d.gate = conv.gate
  BY <1>2 DEF Conversations, Alike
<1> HIDE DEF d
<1>4. Rests(d)
  BY <1>2, <1>3, RestsWithoutGoal
<1> QED BY <1>1, <1>2, <1>3, <1>4, ChangesAlike

\* An aborted run still runs; its goal is over.
LEMMA AbortKeeps ==
  ASSUME ConversationInv, AbortConversation
  PROVE  Keeps
<1> USE InvFacts, GoalFacts
<1> DEFINE goal == [conv.goal EXCEPT !.status = IF @ = "active" THEN "cancelled" ELSE @]
           d == [conv EXCEPT !.aborted = TRUE, !.goal = goal]
<1>1. Becomes(d, inputFate) /\ UNCHANGED <<stamp, status, open, bounds>> /\ AgentRuns(conv)
  BY DEF AbortConversation, Conversations
<1>2. goal \in Goals /\ goal.status # "active"
  BY DEF Goals
<1> HIDE DEF goal
<1>3. d \in Conversations /\ Alike(conv, d) /\ d.goal = goal
  BY <1>2 DEF Conversations, Alike
<1> HIDE DEF d
<1>4. Rests(d)
  BY <1>1, <1>3 DEF Alike, Rests, IsRunning, AgentRuns
<1> QED BY <1>1, <1>2, <1>3, <1>4, ChangesAlike

\* The model ends the goal while it runs.
LEMMA UpdateGoalKeeps ==
  ASSUME ConversationInv, UpdateGoal
  PROVE  Keeps
<1> USE InvFacts, GoalFacts
<1>1. PICK s \in {"completed", "blocked"} : Becomes([conv EXCEPT !.goal.status = s], inputFate)
  BY DEF UpdateGoal
<1> DEFINE goal == [conv.goal EXCEPT !.status = s]
           d == [conv EXCEPT !.goal = goal]
<1>2. Becomes(d, inputFate) /\ UNCHANGED <<stamp, status, open, bounds>> /\ conv.agent = "loop"
  BY <1>1 DEF UpdateGoal, Conversations
<1>3. goal \in Goals /\ goal.status # "active"
  BY DEF Goals
<1> HIDE DEF goal
<1>4. d \in Conversations /\ Alike(conv, d) /\ d.goal = goal
  BY <1>3 DEF Conversations, Alike
<1> HIDE DEF d
<1>5. Rests(d)
  BY <1>2, <1>4 DEF Alike, Rests, IsRunning
<1> QED BY <1>2, <1>3, <1>4, <1>5, ChangesAlike

\* A closed gate holds runs back, and opening it drains.
LEMMA GateKeeps ==
  ASSUME ConversationInv, CloseGate \/ OpenGate
  PROVE  Keeps
<1> USE InvFacts, GoalFacts
<1>1. CASE CloseGate
  <2> DEFINE d == [conv EXCEPT !.gate = FALSE]
  <2>1. Becomes(d, inputFate) /\ UNCHANGED <<stamp, status, open>> /\ Aside
    BY <1>1 DEF CloseGate
  <2>2. /\ d \in Conversations /\ Alike(conv, d) /\ d.goal = conv.goal /\ ~d.gate
        /\ d.goalFailed = conv.goalFailed
    BY DEF Conversations, Alike
  <2> HIDE DEF d
  <2>3. Rests(d)
    BY <2>2 DEF Rests
  <2> QED BY <2>1, <2>2, <2>3, ChangesAlike
<1>2. CASE OpenGate
  <2> DEFINE d == [conv EXCEPT !.gate = TRUE]
  <2>1. Becomes(Drain(d), inputFate) /\ UNCHANGED <<stamp, status, open, bounds>>
    BY <1>2 DEF OpenGate
  <2>2. /\ d \in Conversations /\ Alike(conv, d) /\ d.goal = conv.goal
        /\ d.goalFailed = conv.goalFailed
    BY DEF Conversations, Alike
  <2> HIDE DEF d
  <2> QED BY <2>1, <2>2, ChangesAlike
<1> QED BY <1>1, <1>2

\* A compaction blocks runs and drains when it ends.
LEMMA CompactKeeps ==
  ASSUME ConversationInv, CompactConversation \/ CompactEnds
  PROVE  Keeps
<1> USE InvFacts, GoalFacts
<1>1. CASE CompactConversation
  <2> DEFINE d == [conv EXCEPT !.source = "compaction", !.agent = "compacting"]
  <2>1. /\ Becomes(d, inputFate) /\ UNCHANGED <<stamp, status, open>> /\ Aside
        /\ ~conv.stopping /\ ~IsRunning(conv)
    BY <1>1 DEF CompactConversation, MayStart
  <2>2. /\ d \in Conversations /\ d.source = "compaction" /\ d.agent = "compacting"
        /\ d.prompt = conv.prompt /\ d.settlingRun = conv.settlingRun
        /\ d.drain = conv.drain /\ d.caller = conv.caller
        /\ d.nextStep = conv.nextStep /\ d.nextTurn = conv.nextTurn
        /\ d.consumed = conv.consumed /\ d.arrival = conv.arrival
        /\ d.changing = conv.changing /\ d.stopping = conv.stopping
        /\ d.closed = conv.closed /\ d.session = conv.session
        /\ d.goal = conv.goal /\ d.goalFailed = conv.goalFailed /\ d.refused = conv.refused
    BY DEF Conversations
  <2> HIDE DEF d
  <2>3. Sound(conv, inputFate, stamp', status', open', bounds')
    BY <2>1, AsideSound DEF Now
  <2>4. PhasesAgree(d)
    BY <2>1, <2>2, <2>3 DEF Sound, PhasesAgree, AgentRuns, IsRunning
  <2>5. Sound(d, inputFate, stamp', status', open', bounds')
    BY <2>2, <2>3, <2>4 DEF Sound, Typed, Owned, OfThisSession, Reported, Held
  <2>6. Rests(d)
    BY <2>2 DEF Rests, IsRunning
  <2> QED BY <2>1, <2>2, <2>5, <2>6, ThenRests
<1>2. CASE CompactEnds
  <2> DEFINE d == [conv EXCEPT !.source = "none", !.agent = "idle"]
  <2>1. /\ Becomes(Drain(d), inputFate) /\ UNCHANGED <<stamp, status, open, bounds>>
        /\ conv.agent = "compacting"
    BY <1>2 DEF CompactEnds
  <2>2. /\ d \in Conversations /\ d.source = "none" /\ d.agent = "idle"
        /\ d.prompt = conv.prompt /\ d.settlingRun = conv.settlingRun
        /\ d.drain = conv.drain /\ d.caller = conv.caller
        /\ d.nextStep = conv.nextStep /\ d.nextTurn = conv.nextTurn
        /\ d.consumed = conv.consumed /\ d.arrival = conv.arrival
        /\ d.changing = conv.changing /\ d.stopping = conv.stopping
        /\ d.closed = conv.closed /\ d.session = conv.session
        /\ d.goal = conv.goal /\ d.goalFailed = conv.goalFailed /\ d.refused = conv.refused
    BY DEF Conversations
  <2> HIDE DEF d
  <2>3. PhasesAgree(d)
    BY <2>1, <2>2 DEF Now, Sound, PhasesAgree, AgentRuns
  <2>4. Sound(d, inputFate, stamp, status, open, bounds)
    BY <2>2, <2>3 DEF Now, Sound, Typed, Owned, OfThisSession, Reported, Held
  <2> QED BY <2>1, <2>2, <2>4, ThenDrains
<1> QED BY <1>1, <1>2
-----------------------------------------------------------------------------
(* The run. *)

\* A step of the run leaves alone who waits for it and who may start another.
Steady(d) ==
  /\ d \in Conversations
  /\ d.source = conv.source /\ d.drain = conv.drain /\ d.caller = conv.caller
  /\ d.settlingRun = conv.settlingRun /\ d.changing = conv.changing
  /\ d.stopping = conv.stopping /\ d.closed = conv.closed
  /\ d.session = conv.session /\ d.goal = conv.goal
  /\ d.goalFailed = conv.goalFailed /\ d.refused = conv.refused

\* The phase of the Agent tells what it took from next-step.
Phased(d) ==
  /\ AgentRuns(d)
  /\ d.agent = "consuming" => d.nextStep # <<>>
  /\ d.agent = "announcing" => d.consumed # <<>>
  /\ d.agent \notin {"consuming", "announcing"} => d.consumed = <<>>

\* A step of the run need only account for inputs and tasks.
LEMMA RunMoves ==
  ASSUME ConversationInv, AgentRuns(conv), NEW d, NEW f \in [Items -> InputFates],
         Becomes(d, f), Steady(d), Phased(d),
         status' \in [Completions -> {"none", "active", "settled", "observed", "gone"}],
         UNCHANGED <<stamp, open, bounds>>,
         Lanes(d.nextStep, d.nextTurn, d.arrival, f),
         Owned(d, f), OfThisSession(d, f, stamp, status'), Reported(d, f, status')
  PROVE  Keeps
<1> USE InvFacts
<1>1. PhasesAgree(d)
  BY DEF Now, Sound, PhasesAgree, Steady, Phased, AgentRuns
<1>2. Held(d, open, bounds) /\ (d.goalFailed => d.goal.status # "active")
  BY DEF Now, Sound, Held, Steady
<1>3. Sound(d, f, stamp', status', open', bounds')
  BY <1>1, <1>2 DEF Now, Sound, Typed, Steady
<1>4. Rests(d)
  BY DEF Phased, AgentRuns, Rests, IsRunning
<1>5. conv.agent # "idle" /\ d.goal = conv.goal
  BY DEF AgentRuns, Steady
<1> QED BY <1>3, <1>4, <1>5, ThenRests

\* What a run took last, and before.
LEMMA HeadAndTail ==
  ASSUME NEW S, NEW s \in Seq(S), s # <<>>
  PROVE  /\ Head(s) \in S /\ Head(s) \in ToSet(s) /\ Tail(s) \in Seq(S)
         /\ ToSet(Tail(s)) \subseteq ToSet(s)
         /\ ToSet(s) \subseteq ToSet(Tail(s)) \cup {Head(s)}
         /\ Len(s) = 1 <=> Tail(s) = <<>>
<1>1. /\ Len(s) \in Nat \ {0} /\ Head(s) \in S /\ Tail(s) \in Seq(S)
      /\ Len(Tail(s)) = Len(s) - 1 /\ Head(s) = s[1]
      /\ \A i \in 1..Len(Tail(s)) : Tail(s)[i] = s[i + 1]
  BY EmptySeq, HeadTailProperties
<1> DEFINE t == Tail(s)
           h == Head(s)
<1>2. \A e : e \in ToSet(s) <=> \E k \in 1..Len(s) : s[k] = e
  BY InLane
<1>3. \A e : e \in ToSet(t) <=> \E k \in 1..Len(t) : t[k] = e
  BY <1>1, InLane
<1>4. Len(s) = 1 <=> t = <<>>
  <2>1. Len(<<>>) = 0 /\ (t # <<>> => Len(t) \in Nat \ {0})
    BY <1>1, EmptySeq
  <2>2. Len(t) = Len(s) - 1 /\ Len(s) \in Nat
    BY <1>1
  <2> HIDE DEF t
  <2> QED BY <2>1, <2>2
<1> HIDE DEF t, h
<1>5. /\ Len(s) \in Nat \ {0} /\ Len(t) = Len(s) - 1 /\ h = s[1]
      /\ \A i \in 1..Len(t) : t[i] = s[i + 1]
  BY <1>1 DEF t, h
<1>6. h \in ToSet(s)
  BY <1>2, <1>5
<1>7. ASSUME NEW e \in ToSet(t) PROVE e \in ToSet(s)
  <2>1. PICK k \in 1..Len(t) : t[k] = e
    BY <1>3
  <2>2. k + 1 \in 1..Len(s) /\ s[k + 1] = e
    BY <1>5, <2>1
  <2> QED BY <1>2, <2>2
<1>8. ASSUME NEW e \in ToSet(s), e # h PROVE e \in ToSet(t)
  <2>1. PICK k \in 1..Len(s) : s[k] = e
    BY <1>2
  <2>2. k - 1 \in 1..Len(t) /\ t[k - 1] = s[(k - 1) + 1] /\ (k - 1) + 1 = k
    BY <1>5, <1>8, <2>1
  <2> QED BY <1>3, <2>1, <2>2
<1> QED BY <1>1, <1>4, <1>6, <1>7, <1>8 DEF t, h

\* The members of what the run took, and their fates.
LEMMA RunFacts ==
  ASSUME ConversationInv
  PROVE  /\ conv.nextStep \in Seq(Items) /\ conv.nextTurn \in Seq(Items)
         /\ conv.arrival \in Seq(Items) /\ conv.consumed \in Seq(Items)
         /\ ToSet(conv.consumed) \subseteq Items
         /\ ToSet(conv.prompt) \subseteq Items \cup {GoalInput}
         /\ \A i \in ToSet(conv.consumed) : inputFate[i] = "committed"
         /\ \A i \in ToSet(conv.prompt) \ {GoalInput} : inputFate[i] = "prompt"
         /\ \A i \in Items : inputFate[i] = "waiting" <=> i \in InLanes(conv)
         /\ Lanes(conv.nextStep, conv.nextTurn, conv.arrival, inputFate)
         /\ GoalInput \notin Items
<1> USE InvFacts
<1>1. /\ conv.nextStep \in Seq(Items) /\ conv.nextTurn \in Seq(Items)
      /\ conv.arrival \in Seq(Items) /\ conv.consumed \in Seq(Items)
      /\ conv.prompt \in Seq(Items \cup {GoalInput})
  BY DEF Conversations
<1>2. /\ ToSet(conv.consumed) \subseteq Items
      /\ ToSet(conv.prompt) \subseteq Items \cup {GoalInput}
  BY <1>1, LaneMembers
<1>3. Lanes(conv.nextStep, conv.nextTurn, conv.arrival, inputFate) /\ Owned(conv, inputFate)
  BY DEF Now, Sound
<1>4. \A i \in Items : inputFate[i] = "waiting" <=> i \in InLanes(conv)
  BY <1>3 DEF Lanes, Lined, InLanes, InStep, InTurn
<1> QED BY <1>1, <1>2, <1>3, <1>4, ConversationAssumption DEF Owned

\* The prompt is committed and its notifications are observed at once.
LEMMA PromptCommittedKeeps ==
  ASSUME ConversationInv, PromptCommitted
  PROVE  Keeps
<1> USE InvFacts, RunFacts
<1> DEFINE d == [conv EXCEPT !.agent = "loop", !.prompt = <<>>]
           g == Mark(ToSet(conv.prompt), "committed")
           s == status'
<1>1. /\ conv.agent = "journal" /\ Becomes(d, g) /\ UNCHANGED <<stamp, open, bounds>>
      /\ s = Observed(ToSet(conv.prompt))
  BY DEF PromptCommitted
<1>2. /\ Steady(d) /\ d.agent = "loop" /\ d.prompt = <<>> /\ d.consumed = conv.consumed
      /\ d.nextStep = conv.nextStep /\ d.nextTurn = conv.nextTurn
      /\ d.arrival = conv.arrival
  <2>1. <<>> \in Seq(Items \cup {GoalInput})
    OBVIOUS
  <2>2. d \in Conversations /\ d.agent = "loop" /\ d.prompt = <<>>
    BY <2>1 DEF Conversations
  <2> QED BY <2>2 DEF Conversations, Steady
<1>3. /\ g \in [Items -> InputFates]
      /\ \A i \in Items : g[i] = inputFate[i] \/ (inputFate[i] = "prompt" /\ g[i] = "committed")
      /\ \A i \in Items : g[i] # inputFate[i] => i \in ToSet(conv.prompt)
      /\ \A i \in Items : i \in ToSet(conv.prompt) => g[i] = "committed"
  BY DEF Mark, InputFates
<1>4. /\ s \in [Completions -> {"none", "active", "settled", "observed", "gone"}]
      /\ \A j \in Completions :
           \/ s[j] = status[j] /\ (j \in ToSet(conv.prompt) => s[j] # "settled")
           \/ j \in ToSet(conv.prompt) /\ status[j] = "settled" /\ s[j] = "observed"
  BY <1>1 DEF Observed
<1> HIDE DEF d, g, s
<1>5. conv.consumed = <<>> /\ ToSet(<<>>) = {}
  BY <1>1 DEF Now, Sound, PhasesAgree, ToSet
<1>6. Lanes(d.nextStep, d.nextTurn, d.arrival, g)
  BY <1>2, <1>3, FatesChange
<1>7. Phased(d) /\ AgentRuns(conv)
  BY <1>1, <1>2, <1>5 DEF Phased, AgentRuns
<1>8. Owned(d, g)
  BY <1>2, <1>5 DEF Owned
<1>9. OfThisSession(d, g, stamp, s)
  BY <1>2, <1>3, <1>4, <1>5 DEF Now, Sound, OfThisSession, Steady
<1>10. Reported(d, g, s)
  <2>1. ASSUME NEW j \in Completions, s[j] \in {"none", "active"} PROVE g[j] = "new"
    BY <1>3, <1>4, <2>1 DEF Now, Sound, Reported
  <2>2. ASSUME NEW j \in Completions, s[j] = "settled", ~conv.stopping, ~conv.changing
        PROVE  g[j] \in {"waiting", "prompt", "committed", "unannounced", "lost"}
    BY <1>3, <1>4, <2>2 DEF Now, Sound, Reported
  <2>3. ASSUME NEW j \in Completions, s[j] = "observed", ~conv.stopping PROVE g[j] # "waiting"
    BY <1>3, <1>4, <2>3 DEF Now, Sound, Reported
  <2>4. ASSUME NEW j \in Completions, g[j] = "committed" PROVE s[j] # "settled"
    BY <1>3, <1>4, <1>5, <2>4 DEF Now, Sound, Reported
  <2> QED BY <1>2, <2>1, <2>2, <2>3, <2>4 DEF Reported, Steady
<1>11. OfThisSession(d, g, stamp, status') /\ Reported(d, g, status')
       /\ status' \in [Completions -> {"none", "active", "settled", "observed", "gone"}]
  BY <1>4, <1>9, <1>10 DEF s
<1> QED BY <1>1, <1>2, <1>3, <1>6, <1>7, <1>8, <1>11, RunMoves

\* The Agent turns to its next phase.
LEMMA PhaseKeeps ==
  ASSUME ConversationInv, ConsumeStep \/ LoopEnds
  PROVE  Keeps
<1> USE InvFacts, RunFacts
<1>1. PICK d : /\ Becomes(d, inputFate) /\ UNCHANGED <<stamp, status, open, bounds>>
               /\ conv.agent = "loop"
               /\ \/ d = [conv EXCEPT !.agent = "consuming"] /\ conv.nextStep # <<>>
                  \/ \E bad \in BOOLEAN : d = [conv EXCEPT !.agent = "ending", !.bad = bad]
  BY DEF ConsumeStep, LoopEnds
<1>2. /\ Steady(d) /\ d.prompt = conv.prompt /\ d.consumed = conv.consumed
      /\ d.nextStep = conv.nextStep /\ d.nextTurn = conv.nextTurn
      /\ d.arrival = conv.arrival
      /\ (d.agent = "consuming" /\ conv.nextStep # <<>>) \/ d.agent = "ending"
  BY <1>1 DEF Conversations, Steady
<1>3. conv.consumed = <<>>
  BY <1>1 DEF Now, Sound, PhasesAgree
<1>4. Phased(d) /\ AgentRuns(conv)
  BY <1>1, <1>2, <1>3 DEF Phased, AgentRuns
<1>5. /\ Owned(d, inputFate) /\ OfThisSession(d, inputFate, stamp, status)
      /\ Reported(d, inputFate, status)
  BY <1>2 DEF Now, Sound, Owned, OfThisSession, Reported, Steady
<1>6. Lanes(d.nextStep, d.nextTurn, d.arrival, inputFate)
  BY <1>2
<1>7. OfThisSession(d, inputFate, stamp, status') /\ Reported(d, inputFate, status')
      /\ status' \in [Completions -> {"none", "active", "settled", "observed", "gone"}]
  BY <1>1, <1>5
<1> QED BY <1>1, <1>2, <1>4, <1>5, <1>6, <1>7, RunMoves

\* The head of next-step leaves its lane when it has been journaled.
LEMMA ClaimKeeps ==
  ASSUME ConversationInv, Claim
  PROVE  Keeps
<1> USE InvFacts, RunFacts
<1> DEFINE h == Head(conv.nextStep)
           step == Tail(conv.nextStep)
           taken == Append(conv.consumed, h)
           phase == IF Len(conv.nextStep) = 1 THEN "announcing" ELSE "consuming"
           d == [conv EXCEPT !.nextStep = step, !.consumed = taken, !.agent = phase]
           g == Mark({h}, "committed")
<1>1. /\ conv.agent = "consuming" /\ Becomes(d, g)
      /\ UNCHANGED <<stamp, status, open, bounds>>
  BY DEF Claim, Conversations
<1>2. conv.nextStep # <<>>
  BY <1>1 DEF Now, Sound, PhasesAgree
<1>3. /\ h \in Items /\ h \in ToSet(conv.nextStep) /\ step \in Seq(Items)
      /\ Len(conv.nextStep) = 1 <=> step = <<>>
  BY <1>2, HeadAndTail
<1>4. inputFate[h] = "waiting"
  BY <1>3 DEF InLanes, InStep
<1>5. /\ taken \in Seq(Items) /\ taken # <<>>
      /\ ToSet(taken) = ToSet(conv.consumed) \cup {h}
  <2> DEFINE past == conv.consumed
  <2>1. past \in Seq(Items) /\ h \in Items
    BY <1>3
  <2> HIDE DEF h, past
  <2>2. /\ Append(past, h) \in Seq(Items) /\ Append(past, h) # <<>>
        /\ ToSet(Append(past, h)) = ToSet(past) \cup {h}
    BY ONLY <2>1, AppendLane
  <2> QED BY <2>2 DEF past
<1>6. /\ g \in [Items -> InputFates] /\ g[h] = "committed"
      /\ \A i \in Items \ {h} : g[i] = inputFate[i]
  BY <1>3 DEF Mark, InputFates
<1>7. Lanes(step, conv.nextTurn, conv.arrival, g)
  BY <1>2, <1>6, ClaimLanes
<1>8. phase \in {"announcing", "consuming"} /\ (phase = "consuming" => step # <<>>)
  BY <1>3
<1> HIDE DEF h, step, taken, phase, g
<1>9. /\ Steady(d) /\ d.agent = phase /\ d.prompt = conv.prompt /\ d.consumed = taken
      /\ d.nextStep = step /\ d.nextTurn = conv.nextTurn /\ d.arrival = conv.arrival
  BY <1>3, <1>5, <1>8 DEF Conversations, Steady
<1> HIDE DEF d
<1>10. Phased(d) /\ AgentRuns(conv)
  BY <1>1, <1>5, <1>8, <1>9 DEF Phased, AgentRuns
<1>11. Owned(d, g)
  BY <1>4, <1>5, <1>6, <1>9 DEF Now, Sound, Owned, Steady
<1>12. OfThisSession(d, g, stamp, status)
  BY <1>3, <1>4, <1>5, <1>6, <1>9 DEF Now, Sound, OfThisSession, Steady
<1>13. Reported(d, g, status)
  BY <1>4, <1>5, <1>6, <1>9 DEF Now, Sound, Reported, Steady
<1>14. OfThisSession(d, g, stamp, status') /\ Reported(d, g, status')
       /\ status' \in [Completions -> {"none", "active", "settled", "observed", "gone"}]
       /\ Lanes(d.nextStep, d.nextTurn, d.arrival, g)
  BY <1>1, <1>7, <1>9, <1>12, <1>13
<1> QED BY <1>1, <1>6, <1>9, <1>10, <1>11, <1>14, RunMoves

\* An input that is announced is observed.
LEMMA AnnounceKeeps ==
  ASSUME ConversationInv, Announce
  PROVE  Keeps
<1> USE InvFacts, RunFacts
<1> DEFINE h == Head(conv.consumed)
           rest == Tail(conv.consumed)
           phase == IF Len(conv.consumed) = 1 THEN "loop" ELSE "announcing"
           d == [conv EXCEPT !.consumed = rest, !.agent = phase]
           s == status'
<1>1. /\ conv.agent = "announcing" /\ Becomes(d, inputFate) /\ s = Observed({h})
      /\ UNCHANGED <<stamp, open, bounds>>
  BY DEF Announce, Conversations
<1>2. conv.consumed # <<>>
  BY <1>1 DEF Now, Sound, PhasesAgree
<1>3. /\ h \in Items /\ h \in ToSet(conv.consumed) /\ rest \in Seq(Items)
      /\ ToSet(rest) \subseteq ToSet(conv.consumed)
      /\ ToSet(conv.consumed) \subseteq ToSet(rest) \cup {h}
      /\ Len(conv.consumed) = 1 <=> rest = <<>>
  BY <1>2, HeadAndTail
<1>4. /\ s \in [Completions -> {"none", "active", "settled", "observed", "gone"}]
      /\ \A j \in Completions :
           \/ s[j] = status[j] /\ (j = h => s[j] # "settled")
           \/ j = h /\ status[j] = "settled" /\ s[j] = "observed"
  BY <1>1 DEF Observed
<1>5. /\ phase \in {"loop", "announcing"} /\ (phase = "announcing" => rest # <<>>)
      /\ phase = "loop" => rest = <<>>
  BY <1>3
<1> HIDE DEF h, rest, phase, s
<1>6. /\ Steady(d) /\ d.agent = phase /\ d.prompt = conv.prompt /\ d.consumed = rest
      /\ d.nextStep = conv.nextStep /\ d.nextTurn = conv.nextTurn
      /\ d.arrival = conv.arrival
  BY <1>3, <1>5 DEF Conversations, Steady
<1> HIDE DEF d
<1>7. Phased(d) /\ AgentRuns(conv)
  BY <1>1, <1>5, <1>6 DEF Phased, AgentRuns
<1>8. Owned(d, inputFate)
  BY <1>3, <1>6 DEF Now, Sound, Owned, Steady
<1>9. OfThisSession(d, inputFate, stamp, s)
  BY <1>3, <1>4, <1>6 DEF Now, Sound, OfThisSession, Steady
<1>10. Reported(d, inputFate, s)
  <2>1. inputFate[h] = "committed"
    BY <1>3
  <2> QED BY <1>3, <1>4, <1>6, <2>1 DEF Now, Sound, Reported, Steady
<1>11. OfThisSession(d, inputFate, stamp, status') /\ Reported(d, inputFate, status')
       /\ status' \in [Completions -> {"none", "active", "settled", "observed", "gone"}]
       /\ Lanes(d.nextStep, d.nextTurn, d.arrival, inputFate)
  BY <1>4, <1>6, <1>9, <1>10 DEF s
<1> QED BY <1>1, <1>6, <1>7, <1>8, <1>11, RunMoves

\* The conversation stays as it is, and what is known of a task changes.
LEMMA TaskMoves ==
  ASSUME ConversationInv, UNCHANGED <<conv, inputFate, open, bounds>>,
         Sound(conv, inputFate, stamp', status, open, bounds),
         status' \in [Completions -> {"none", "active", "settled", "observed", "gone"}],
         OfThisSession(conv, inputFate, stamp', status'),
         Reported(conv, inputFate, status')
  PROVE  Keeps
<1> USE InvFacts
<1>1. Sound(conv', inputFate', stamp', status', open', bounds')
  BY DEF Sound, Typed
<1>2. ConversationInv'
  BY <1>1 DEF ConversationInv, NoStall, Rests
<1>3. conv.closed => conv.agent = "idle"
  BY DEF Now, Sound, PhasesAgree
<1> QED BY <1>2, <1>3 DEF Keeps, Yields, Final

\* A task that starts belongs to the current session.
LEMMA StartBackgroundKeeps ==
  ASSUME ConversationInv, NEW j \in Completions, StartBackground(j)
  PROVE  Keeps
<1> USE InvFacts
<1>1. Sound(conv, inputFate, stamp', status, open, bounds)
  BY StampSound DEF Now, StartBackground, Stamped
<1>2. /\ UNCHANGED <<conv, inputFate, open, bounds>> /\ status[j] = "none"
      /\ stamp'[j] = conv.session
      /\ status' \in [Completions -> {"none", "active", "settled", "observed", "gone"}]
      /\ status'[j] = "active" /\ \A k \in Completions \ {j} : status'[k] = status[k]
  <2>1. conv.session \in 0..MaxSessions
    BY ConversationAssumption DEF Conversations
  <2> QED BY <2>1 DEF StartBackground, Stamped
<1>3. OfThisSession(conv, inputFate, stamp', status')
  BY <1>1, <1>2 DEF Sound, OfThisSession
<1>4. Reported(conv, inputFate, status')
  BY <1>2 DEF Now, Sound, Reported
<1> QED BY <1>1, <1>2, <1>3, <1>4, TaskMoves

\* Input i leaves its lane, and if it is the notification of a task, the task
\* has been observed.
LEMMA WithdrawSound ==
  ASSUME ConversationInv, NEW i \in Items, i \notin Committing(conv),
         NEW g \in [Items -> InputFates],
         i \in InLanes(conv) => g[i] = "withdrawn",
         i \notin InLanes(conv) => g[i] = inputFate[i],
         \A k \in Items \ {i} : g[k] = inputFate[k],
         NEW s \in [Completions -> {"none", "active", "settled", "observed", "gone"}],
         \A k \in Completions \ {i} : s[k] = status[k],
         i \in Completions => status[i] \in {"active", "settled"} /\ s[i] = "observed"
  PROVE  /\ Sound(Withdraw(conv, i), g, stamp, s, open, bounds)
         /\ Withdraw(conv, i).goal = conv.goal
         /\ Withdraw(conv, i).stopping = conv.stopping
         /\ Withdraw(conv, i).agent = conv.agent
<1> USE InvFacts, RunFacts
<1> DEFINE step == Leave(conv.nextStep, i)
           turn == Leave(conv.nextTurn, i)
           d == Withdraw(conv, i)
<1>1. /\ step \in Seq(Items) /\ turn \in Seq(Items)
      /\ Lanes(step, turn, conv.arrival, g)
  BY WithdrawLanes DEF InLanes, InStep, InTurn
<1>2. conv.agent = "consuming" => step # <<>>
  <2>1. conv.agent = "consuming" => conv.nextStep # <<>> /\ i # Head(conv.nextStep)
    BY DEF Committing, Now, Sound, PhasesAgree
  <2>2. IsInjective(conv.nextStep)
    BY DEF Lanes, Lined
  <2> QED BY <2>1, <2>2, LeaveIsWithout, WithoutLane
<1>3. d = [conv EXCEPT !.nextStep = step, !.nextTurn = turn]
  BY DEF Withdraw, Conversations
<1> HIDE DEF step, turn
<1>4. /\ Steady(d) /\ d.agent = conv.agent /\ d.prompt = conv.prompt
      /\ d.consumed = conv.consumed /\ d.nextStep = step /\ d.nextTurn = turn
      /\ d.arrival = conv.arrival
  <2>1. d \in Conversations
    BY <1>1, <1>3 DEF Conversations
  <2>2. /\ d.agent = conv.agent /\ d.prompt = conv.prompt
        /\ d.consumed = conv.consumed /\ d.nextStep = step /\ d.nextTurn = turn
        /\ d.arrival = conv.arrival
    BY <1>3 DEF Conversations
  <2>3. /\ d.source = conv.source /\ d.drain = conv.drain /\ d.caller = conv.caller
        /\ d.settlingRun = conv.settlingRun /\ d.changing = conv.changing
        /\ d.stopping = conv.stopping /\ d.closed = conv.closed
        /\ d.session = conv.session /\ d.goal = conv.goal
        /\ d.goalFailed = conv.goalFailed /\ d.refused = conv.refused
    BY <1>3 DEF Conversations
  <2> QED BY <2>1, <2>2, <2>3 DEF Steady
<1> HIDE DEF d
<1>5. PhasesAgree(d)
  BY <1>2, <1>4 DEF Now, Sound, PhasesAgree, Steady, AgentRuns
<1>6. \A k \in Items : g[k] = inputFate[k] \/ (inputFate[k] = "waiting" /\ g[k] = "withdrawn")
  OBVIOUS
<1>7. Owned(d, g)
  BY <1>4, <1>6 DEF Now, Sound, Owned, Steady
<1>8. OfThisSession(d, g, stamp, s)
  BY <1>4, <1>6 DEF Now, Sound, OfThisSession, Steady
<1>9. i \in Completions => g[i] # "waiting"
  OBVIOUS
<1>10. Reported(d, g, s)
  <2>1. \A k \in Completions : k # i => s[k] = status[k] /\ g[k] = inputFate[k]
    OBVIOUS
  <2> QED BY <1>4, <1>9, <2>1 DEF Now, Sound, Reported, Steady
<1>11. Held(d, open, bounds) /\ (d.goalFailed => d.goal.status # "active")
  BY <1>4 DEF Now, Sound, Held, Steady
<1>12. Sound(d, g, stamp, s, open, bounds)
  BY <1>1, <1>4, <1>5, <1>7, <1>8, <1>10, <1>11 DEF Now, Sound, Typed, Steady
<1> QED BY <1>4, <1>12 DEF d, Steady

\* A task that is observed takes its notification out of the lanes.
LEMMA ObserveTaskKeeps ==
  ASSUME ConversationInv, NEW j \in Completions, ObserveTask(j)
  PROVE  Keeps
<1> USE InvFacts, RunFacts
<1>1. /\ conv.agent = "loop" /\ status[j] \in {"active", "settled"}
      /\ status' \in [Completions -> {"none", "active", "settled", "observed", "gone"}]
      /\ status'[j] = "observed" /\ \A k \in Completions \ {j} : status'[k] = status[k]
      /\ UNCHANGED <<stamp, open, bounds>>
  BY DEF ObserveTask
<1>2. CASE conv.stopping
  <2>1. UNCHANGED <<conv, inputFate>>
    BY <1>2 DEF ObserveTask
  <2>2. OfThisSession(conv, inputFate, stamp, status')
    BY <1>1 DEF Now, Sound, OfThisSession
  <2>3. Reported(conv, inputFate, status')
    BY <1>1, <1>2 DEF Now, Sound, Reported
  <2> QED BY <1>1, <2>1, <2>2, <2>3, TaskMoves DEF Now
<1>3. CASE ~conv.stopping
  <2> DEFINE c == Withdraw(conv, j)
             g == Mark(Withdrawn(conv, {j}), "withdrawn")
             s == status'
  <2>1. Becomes(Drain(c), g)
    BY <1>3 DEF ObserveTask
  <2>2. Committing(conv) = {}
    BY <1>1 DEF Committing
  <2>3. /\ g \in [Items -> InputFates]
        /\ j \in InLanes(conv) => g[j] = "withdrawn"
        /\ j \notin InLanes(conv) => g[j] = inputFate[j]
        /\ \A k \in Items \ {j} : g[k] = inputFate[k]
    BY <2>2 DEF Mark, Withdrawn, InputFates
  <2>4. /\ s \in [Completions -> {"none", "active", "settled", "observed", "gone"}]
        /\ \A k \in Completions \ {j} : s[k] = status[k]
        /\ status[j] \in {"active", "settled"} /\ s[j] = "observed"
    BY <1>1
  <2> HIDE DEF g, s
  <2>5. /\ Sound(c, g, stamp, s, open, bounds) /\ c.goal = conv.goal
        /\ c.stopping = conv.stopping /\ c.agent = conv.agent
    BY <2>2, <2>3, <2>4, WithdrawSound
  <2> HIDE DEF c
  <2>6. Sound(c, g, stamp', status', open', bounds')
    BY <1>1, <2>5 DEF s
  <2> QED BY <2>1, <2>5, <2>6, ThenDrains
<1> QED BY <1>2, <1>3

\* A wake is cancelled before it fires, or while it waits in next-turn.
LEMMA CancelWakeKeeps ==
  ASSUME ConversationInv, NEW w \in Wakes, CancelWake(w)
  PROVE  Keeps
<1> USE InvFacts, RunFacts
<1>1. CASE inputFate[w] = "timer"
  BY <1>1, InputDoesNotWait DEF CancelWake
<1>2. CASE inputFate[w] # "timer"
  <2> DEFINE c == Withdraw(conv, w)
             g == Mark({w}, "withdrawn")
  <2>1. /\ w \in InTurn(conv) /\ Becomes(Drain(c), g)
        /\ UNCHANGED <<stamp, status, open, bounds>>
    BY <1>2 DEF CancelWake
  <2>2. w \notin Committing(conv) /\ w \in InLanes(conv)
    <3>1. conv.agent = "consuming" => Head(conv.nextStep) \in ToSet(conv.nextStep)
      BY HeadAndTail DEF Now, Sound, PhasesAgree
    <3>2. ToSet(conv.nextStep) \cap ToSet(conv.nextTurn) = {}
      BY DEF Lanes, Lined
    <3> QED BY <2>1, <3>1, <3>2 DEF Committing, InTurn, InLanes
  <2>3. /\ g \in [Items -> InputFates] /\ g[w] = "withdrawn"
        /\ \A k \in Items \ {w} : g[k] = inputFate[k]
    BY DEF Mark, InputFates
  <2> HIDE DEF g
  <2>4. /\ Sound(c, g, stamp, status, open, bounds) /\ c.goal = conv.goal
        /\ c.stopping = conv.stopping /\ c.agent = conv.agent
    BY <2>2, <2>3, WithdrawSound
  <2> HIDE DEF c
  <2>5. Sound(c, g, stamp', status', open', bounds')
    BY <2>1, <2>4
  <2> QED BY <2>1, <2>4, <2>5, ThenDrains
<1> QED BY <1>1, <1>2

\* A conversation whose Agent is idle again.
Idled(e, turn, arrival, prompt, bad) ==
  [e EXCEPT !.nextTurn = turn, !.arrival = arrival, !.nextStep = <<>>,
            !.consumed = <<>>, !.agent = "idle", !.bad = bad, !.prompt = prompt]

\* The Agent is idle again, with the fates of what it took settled.
LEMMA IdleSound ==
  ASSUME ConversationInv, AgentRuns(conv), NEW c, NEW bad \in BOOLEAN,
         NEW prompt \in {conv.prompt, <<>>},
         c = Idled(conv, conv.nextTurn \o conv.nextStep,
                   conv.arrival \o conv.nextStep, prompt, bad),
         NEW g \in [Items -> InputFates],
         Lanes(conv.nextStep, conv.nextTurn, conv.arrival, g),
         \A i \in Items : g[i] \in {"new", "timer", "waiting"} => inputFate[i] = g[i],
         \A i \in ToSet(prompt) \ {GoalInput} : g[i] = "prompt",
         \A j \in Completions :
           /\ status[j] \in {"none", "active"} => g[j] = "new"
           /\ status[j] = "settled" /\ ~conv.stopping /\ ~conv.changing
                => g[j] \in {"waiting", "prompt", "committed", "unannounced", "lost"}
           /\ g[j] = "committed" => status[j] # "settled"
  PROVE  /\ Sound(c, g, stamp, status, open, bounds)
         /\ c.goal = conv.goal
<1> USE InvFacts, RunFacts
<1> DEFINE turn == conv.nextTurn \o conv.nextStep
           arrival == conv.arrival \o conv.nextStep
<1>1. /\ turn \in Seq(Items) /\ arrival \in Seq(Items) /\ <<>> \in Seq(Items)
      /\ prompt \in Seq(Items \cup {GoalInput}) /\ ToSet(<<>>) = {}
  <2>1. turn \in Seq(Items) /\ arrival \in Seq(Items)
    BY ConcatLane
  <2>2. <<>> \in Seq(Items) /\ <<>> \in Seq(Items \cup {GoalInput}) /\ ToSet(<<>>) = {}
    BY DEF ToSet
  <2>3. conv.prompt \in Seq(Items \cup {GoalInput})
    BY DEF Conversations
  <2> QED BY <2>1, <2>2, <2>3
<1>2. Lanes(<<>>, turn, arrival, g)
  BY DeferLanes
<1>3. /\ c \in Conversations /\ c.nextStep = <<>> /\ c.nextTurn = turn
      /\ c.arrival = arrival /\ c.consumed = <<>> /\ c.prompt = prompt
      /\ c.agent = "idle"
      /\ c.source = conv.source /\ c.drain = conv.drain /\ c.caller = conv.caller
      /\ c.settlingRun = conv.settlingRun /\ c.changing = conv.changing
      /\ c.stopping = conv.stopping /\ c.closed = conv.closed
      /\ c.session = conv.session /\ c.goal = conv.goal
      /\ c.goalFailed = conv.goalFailed /\ c.refused = conv.refused
  <2> HIDE DEF turn, arrival
  <2>1. c = Idled(conv, turn, arrival, prompt, bad)
    BY DEF turn, arrival
  <2>2. conv \in Conversations /\ bad \in BOOLEAN
    OBVIOUS
  <2>3. <<>> \in Seq(Items)
    OBVIOUS
  <2>4. c \in Conversations
    BY ONLY <1>1, <2>1, <2>2, <2>3 DEF Conversations, Idled
  <2>5. /\ c.nextStep = <<>> /\ c.nextTurn = turn
        /\ c.arrival = arrival /\ c.consumed = <<>> /\ c.prompt = prompt
        /\ c.agent = "idle"
    BY ONLY <2>1, <2>2 DEF Conversations, Idled
  <2> QED BY ONLY <2>1, <2>2, <2>4, <2>5 DEF Conversations, Idled
<1> HIDE DEF turn, arrival
<1>4. ~conv.changing /\ ~conv.closed
  BY DEF Now, Sound, PhasesAgree, AgentRuns
<1>5. PhasesAgree(c)
  BY <1>3, <1>4 DEF Now, Sound, PhasesAgree, AgentRuns
<1>6. c.caller = "running" => ToSet(prompt) \cap Completions = {}
  BY <1>1, <1>3 DEF Now, Sound, Owned
<1>7. Owned(c, g)
  BY <1>1, <1>3, <1>6 DEF Owned
<1>8. OfThisSession(c, g, stamp, status)
  BY <1>1, <1>3 DEF Now, Sound, OfThisSession
<1>9. Reported(c, g, status)
  <2>1. \A j \in Completions : status[j] = "observed" /\ ~conv.stopping => g[j] # "waiting"
    BY DEF Now, Sound, Reported
  <2> QED BY <1>1, <1>3, <2>1 DEF Reported
<1>10. Held(c, open, bounds) /\ (c.goalFailed => c.goal.status # "active")
  BY <1>3 DEF Now, Sound, Held
<1>11. Lanes(c.nextStep, c.nextTurn, c.arrival, g)
  BY <1>2, <1>3
<1> QED BY <1>3, <1>5, <1>7, <1>8, <1>9, <1>10, <1>11 DEF Now, Sound, Typed

\* A run that ends leaves next-step to next-turn, in order, and drains.
LEMMA AgentSettlesKeeps ==
  ASSUME ConversationInv, AgentSettles
  PROVE  Keeps
<1> USE InvFacts, RunFacts
<1> DEFINE c == Idle(conv, conv.bad)
<1>1. /\ conv.agent = "ending" /\ Becomes(Drain(c), inputFate)
      /\ UNCHANGED <<stamp, status, open, bounds>>
  BY DEF AgentSettles
<1>2. conv.consumed = <<>> /\ ToSet(<<>>) = {} /\ AgentRuns(conv)
  BY <1>1 DEF Now, Sound, PhasesAgree, AgentRuns, ToSet
<1>3. c = Idled(conv, conv.nextTurn \o conv.nextStep,
                conv.arrival \o conv.nextStep, conv.prompt, conv.bad)
  BY DEF Idle, Arrive, Idled, Conversations
<1> HIDE DEF c
<1>4. conv.bad \in BOOLEAN
  BY DEF Conversations
<1>5. \A j \in Completions :
        /\ status[j] \in {"none", "active"} => inputFate[j] = "new"
        /\ status[j] = "settled" /\ ~conv.stopping /\ ~conv.changing
             => inputFate[j] \in {"waiting", "prompt", "committed", "unannounced", "lost"}
        /\ inputFate[j] = "committed" => status[j] # "settled"
  BY <1>2 DEF Now, Sound, Reported
<1>6. Sound(c, inputFate, stamp, status, open, bounds) /\ c.goal = conv.goal
  BY <1>2, <1>3, <1>4, <1>5, IdleSound
<1>7. Sound(c, inputFate, stamp', status', open', bounds')
  BY <1>1, <1>6
<1> QED BY <1>1, <1>6, <1>7, ThenDrains

\* A run that fails loses its prompt, and what it had not announced.
LEMMA RunFailsKeeps ==
  ASSUME ConversationInv, RunFails
  PROVE  Keeps
<1> USE InvFacts, RunFacts
<1> DEFINE c == [Idle(conv, TRUE) EXCEPT !.prompt = <<>>]
           g == [i \in Items |->
                   IF i \in ToSet(conv.consumed) THEN "unannounced"
                   ELSE IF i \notin ToSet(conv.prompt) THEN inputFate[i]
                   ELSE IF conv.caller = "running" THEN "failed" ELSE "lost"]
<1>1. /\ AgentRuns(conv) /\ Becomes(Drain(c), g)
      /\ UNCHANGED <<stamp, status, open, bounds>>
  BY DEF RunFails
<1>2. c = Idled(conv, conv.nextTurn \o conv.nextStep,
                conv.arrival \o conv.nextStep, <<>>, TRUE)
  BY DEF Idle, Arrive, Idled, Conversations
<1>3. /\ g \in [Items -> InputFates]
      /\ \A i \in Items :
           \/ g[i] = inputFate[i] /\ i \notin ToSet(conv.consumed) /\ i \notin ToSet(conv.prompt)
           \/ inputFate[i] = "committed" /\ g[i] = "unannounced"
           \/ /\ inputFate[i] = "prompt" /\ i \in ToSet(conv.prompt)
              /\ g[i] = IF conv.caller = "running" THEN "failed" ELSE "lost"
  <2>1. \A i \in Items : inputFate[i] \in InputFates
    OBVIOUS
  <2>2. g \in [Items -> InputFates]
    BY <2>1 DEF InputFates
  <2>3. \A i \in Items : i # GoalInput
    OBVIOUS
  <2> QED BY <2>2, <2>3
<1> HIDE DEF c, g
<1>4. Lanes(conv.nextStep, conv.nextTurn, conv.arrival, g)
  BY <1>3, FatesChange
<1>5. /\ \A i \in Items : g[i] \in {"new", "timer", "waiting"} => inputFate[i] = g[i]
      /\ \A i \in ToSet(<<>>) \ {GoalInput} : g[i] = "prompt"
  <2>1. ToSet(<<>>) = {}
    BY DEF ToSet
  <2> QED BY <1>3, <2>1
<1>6. \A j \in Completions :
        /\ status[j] \in {"none", "active"} => g[j] = "new"
        /\ status[j] = "settled" /\ ~conv.stopping /\ ~conv.changing
             => g[j] \in {"waiting", "prompt", "committed", "unannounced", "lost"}
        /\ g[j] = "committed" => status[j] # "settled"
  <2>1. conv.caller = "running" => ToSet(conv.prompt) \cap Completions = {}
    BY DEF Now, Sound, Owned
  <2>2. ASSUME NEW j \in Completions, status[j] \in {"none", "active"} PROVE g[j] = "new"
    BY <1>3, <2>2 DEF Now, Sound, Reported
  <2>3. ASSUME NEW j \in Completions, status[j] = "settled", ~conv.stopping, ~conv.changing
        PROVE  g[j] \in {"waiting", "prompt", "committed", "unannounced", "lost"}
    BY <1>3, <2>1, <2>3 DEF Now, Sound, Reported
  <2>4. ASSUME NEW j \in Completions, g[j] = "committed" PROVE status[j] # "settled"
    BY <1>3, <2>4 DEF Now, Sound, Reported
  <2> QED BY <2>2, <2>3, <2>4
<1>7. <<>> \in {conv.prompt, <<>>} /\ TRUE \in BOOLEAN
  OBVIOUS
<1>8. Sound(c, g, stamp, status, open, bounds) /\ c.goal = conv.goal
  BY <1>1, <1>2, <1>3, <1>4, <1>5, <1>6, <1>7, IdleSound
<1>9. Sound(c, g, stamp', status', open', bounds') /\ conv.agent # "idle"
  BY <1>1, <1>8 DEF AgentRuns
<1> QED BY <1>1, <1>8, <1>9, ThenDrains

-----------------------------------------------------------------------------
(* The promise chain of a run. *)

\* What the links of the chain leave alone.
Linked(d) ==
  /\ d \in Conversations /\ d.agent = conv.agent /\ d.prompt = conv.prompt
  /\ d.consumed = conv.consumed /\ d.nextStep = conv.nextStep
  /\ d.nextTurn = conv.nextTurn /\ d.arrival = conv.arrival
  /\ d.changing = conv.changing /\ d.stopping = conv.stopping
  /\ d.closed = conv.closed /\ d.session = conv.session
  /\ d.refused = conv.refused
  /\ d.caller # "running" \/ conv.caller = "running"

\* A link of the chain changes frames and the goal, no input.
LEMMA LinkSound ==
  ASSUME ConversationInv, NEW d, Linked(d), PhasesAgree(d),
         d.goal.status = "active" => d.goal.session = conv.session,
         d.goalFailed => d.goal.status # "active"
  PROVE  Sound(d, inputFate, stamp, status, open, bounds)
<1>1. /\ Owned(d, inputFate) /\ OfThisSession(d, inputFate, stamp, status)
      /\ Reported(d, inputFate, status) /\ Held(d, open, bounds)
  BY InvFacts DEF Now, Sound, Owned, OfThisSession, Reported, Held, Linked
<1> QED BY <1>1, InvFacts DEF Now, Sound, Typed, Linked

\* A goal whose run failed is blocked before anything can drain.
LEMMA RunSettlesKeeps ==
  ASSUME ConversationInv, NEW frame \in {"drain", "caller"}, RunSettles(frame)
  PROVE  Keeps
<1> USE InvFacts, GoalFacts
<1> DEFINE failed == conv.source = "goal" /\ conv.bad
           goal == [conv.goal EXCEPT !.status = IF failed /\ @ = "active"
                                                THEN "blocked" ELSE @]
           d == [conv EXCEPT ![frame] = "settled", !.source = "none",
                             !.goalFailed = failed, !.goal = goal]
<1>1. /\ conv[frame] = "running" /\ conv.agent = "idle"
      /\ Becomes(d, inputFate) /\ UNCHANGED <<stamp, status, open, bounds>>
  BY DEF RunSettles, ConversationRunning, Conversations
<1>2. /\ goal \in Goals /\ goal.rounds = conv.goal.rounds /\ failed \in BOOLEAN
      /\ goal.session = conv.goal.session
      /\ goal.status = "active" => conv.goal.status = "active" /\ ~failed
  BY DEF Goals
<1> HIDE DEF failed, goal
<1>3. /\ Linked(d) /\ d.source = "none" /\ d.goal = goal /\ d.goalFailed = failed
      /\ d.settlingRun = conv.settlingRun
      /\ \/ frame = "drain" /\ d.drain = "settled" /\ d.caller = conv.caller
         \/ frame = "caller" /\ d.caller = "settled" /\ d.drain = conv.drain
  <2>1. CASE frame = "drain"
    <3>1. d = [conv EXCEPT !.drain = "settled", !.source = "none",
                           !.goalFailed = failed, !.goal = goal]
      BY <2>1
    <3>2. d \in Conversations
      BY <1>2, <3>1 DEF Conversations, Frames
    <3> HIDE DEF d
    <3>3. /\ d.source = "none" /\ d.goal = goal /\ d.goalFailed = failed
          /\ d.settlingRun = conv.settlingRun
          /\ d.drain = "settled" /\ d.caller = conv.caller
      BY <3>1 DEF Conversations
    <3>4. Linked(d)
      BY <3>1, <3>2 DEF Conversations, Linked
    <3> QED BY <2>1, <3>3, <3>4
  <2>2. CASE frame = "caller"
    <3>1. d = [conv EXCEPT !.caller = "settled", !.source = "none",
                           !.goalFailed = failed, !.goal = goal]
      BY <2>2
    <3>2. d \in Conversations
      BY <1>2, <3>1 DEF Conversations, Frames
    <3> HIDE DEF d
    <3>3. /\ d.source = "none" /\ d.goal = goal /\ d.goalFailed = failed
          /\ d.settlingRun = conv.settlingRun
          /\ d.caller = "settled" /\ d.drain = conv.drain
      BY <3>1 DEF Conversations
    <3>4. Linked(d)
      BY <3>1, <3>2, <3>3 DEF Conversations, Linked
    <3> QED BY <2>2, <3>3, <3>4
  <2> QED BY <2>1, <2>2
<1> HIDE DEF d
<1>4. PhasesAgree(d)
  BY <1>1, <1>3 DEF Now, Sound, PhasesAgree, AgentRuns, Linked
<1>5. Sound(d, inputFate, stamp, status, open, bounds)
  BY <1>2, <1>3, <1>4, LinkSound
<1>6. Sound(d, inputFate, stamp', status', open', bounds')
  BY <1>1, <1>5
<1>7. Rests(d) /\ d.agent = "idle" /\ d.goal.rounds = conv.goal.rounds
  BY <1>1, <1>2, <1>3 DEF Rests, Linked
<1> QED BY <1>1, <1>6, <1>7, ThenRests

\* The end of submit() frees its frame and drains.
LEMMA SubmitReturnsKeeps ==
  ASSUME ConversationInv, NEW frame \in {"drain", "caller"}, SubmitReturns(frame)
  PROVE  Keeps
<1> USE InvFacts, GoalFacts
<1> DEFINE c == [conv EXCEPT ![frame] = IF frame = "drain" THEN "resuming" ELSE "none",
                             !.settlingRun = FALSE]
<1>1. /\ conv[frame] = "settled"
      /\ Becomes(Drain(c), inputFate) /\ UNCHANGED <<stamp, status, open, bounds>>
  BY DEF SubmitReturns
<1>2. /\ Linked(c) /\ c.source = conv.source /\ c.goal = conv.goal
      /\ c.goalFailed = conv.goalFailed /\ ~c.settlingRun
      /\ \/ conv.drain = "settled" /\ c.drain = "resuming" /\ c.caller = conv.caller
         \/ conv.caller = "settled" /\ c.caller = "none" /\ c.drain = conv.drain
  <2>1. CASE frame = "drain"
    BY <1>1, <2>1 DEF Conversations, Frames, Linked
  <2>2. CASE frame = "caller"
    BY <1>1, <2>2 DEF Conversations, Frames, Linked
  <2> QED BY <2>1, <2>2
<1> HIDE DEF c
<1>3. PhasesAgree(c)
  BY <1>2 DEF Now, Sound, PhasesAgree, AgentRuns, Linked
<1>4. Sound(c, inputFate, stamp, status, open, bounds)
  BY <1>2, <1>3, LinkSound
<1>5. Sound(c, inputFate, stamp', status', open', bounds')
  BY <1>1, <1>4
<1>6. c.stopping = conv.stopping /\ c.agent = conv.agent
  BY <1>2 DEF Linked
<1> QED BY <1>1, <1>2, <1>5, <1>6, ThenDrains

\* The drain loop goes on after its run.
LEMMA DrainResumesKeeps ==
  ASSUME ConversationInv, DrainResumes
  PROVE  Keeps
<1> USE InvFacts
<1> DEFINE d == DrainLoop(conv)
<1>1. /\ conv.drain = "resuming" /\ Becomes(d, inputFate)
      /\ UNCHANGED <<stamp, status, open, bounds>>
  BY DEF DrainResumes
<1>2. /\ Sound(d, After(d, inputFate), stamp, status, open, bounds) /\ Rests(d)
      /\ d.goal.status = "active" /\ d.goal.rounds > conv.goal.rounds => d.nextTurn = <<>>
      /\ conv.stopping \/ IsRunning(conv) => d.agent = conv.agent
  BY <1>1, DrainLoopSound DEF Now
<1> HIDE DEF d
<1>3. conv' = d /\ inputFate' = After(d, inputFate)
  BY <1>1 DEF Becomes, After
<1>4. Sound(conv', inputFate', stamp', status', open', bounds') /\ Rests(conv')
  BY <1>1, <1>2, <1>3
<1>5. ConversationInv'
  BY <1>4 DEF ConversationInv, NoStall, Rests
<1>6. conv'.closed => conv'.agent = "idle"
  BY <1>4 DEF Sound, PhasesAgree
<1> QED BY <1>2, <1>3, <1>5, <1>6 DEF Keeps, Yields, Final

-----------------------------------------------------------------------------
(* Session changes and the end of the conversation. *)

\* A session change blocks runs; the host holds both sessions.
LEMMA BeginSessionChangeKeeps ==
  ASSUME ConversationInv, BeginSessionChange
  PROVE  Keeps
<1> USE InvFacts
<1> DEFINE b == bounds'
           next == bounds.sessions + 1
<1>1. /\ ~IsRunning(conv) /\ ~conv.closed /\ UNCHANGED <<stamp, status>>
      /\ b.sessions = next /\ conv.session < next /\ next \in 1..MaxSessions
      /\ b \in [goals : 0..MaxGoals, sessions : 1..MaxSessions, aside : 0..MaxAside]
      /\ bounds.sessions \in Nat /\ conv.session \in Nat /\ conv.session <= bounds.sessions
  <2>1. /\ bounds \in [goals : 0..MaxGoals, sessions : 1..MaxSessions, aside : 0..MaxAside]
        /\ conv.session <= bounds.sessions /\ conv.session \in 1..MaxSessions
        /\ MaxSessions \in Nat
    BY ConversationAssumption DEF Now, Sound, Typed, Held, Conversations
  <2>2. bounds.sessions < MaxSessions /\ b = [bounds EXCEPT !.sessions = @ + 1]
    BY DEF BeginSessionChange
  <2> HIDE DEF b
  <2>3. b.sessions = next /\ next \in 1..MaxSessions /\ conv.session < next
    BY <2>1, <2>2
  <2>4. b \in [goals : 0..MaxGoals, sessions : 1..MaxSessions, aside : 0..MaxAside]
    BY <2>1, <2>2, <2>3
  <2> QED BY <2>1, <2>3, <2>4 DEF BeginSessionChange
<1>2. /\ ~conv.changing /\ conv.source = "none" /\ conv.agent = "idle"
      /\ open \subseteq 1..MaxSessions /\ open \subseteq {conv.session}
      /\ ~conv.stopping => conv.session \in open
  BY <1>1 DEF IsRunning, Now, Sound, Typed, Held
<1> HIDE DEF b, next
<1>3. CASE Becomes([conv EXCEPT !.changing = TRUE], inputFate)
           /\ open' = open \cup {next}
  <2> DEFINE d == [conv EXCEPT !.changing = TRUE]
             o == open'
  <2>1. /\ d \in Conversations /\ d.changing
        /\ d.agent = "idle" /\ d.prompt = conv.prompt /\ d.consumed = conv.consumed
        /\ d.nextStep = conv.nextStep /\ d.nextTurn = conv.nextTurn
        /\ d.arrival = conv.arrival /\ d.source = "none" /\ d.drain = conv.drain
        /\ d.caller = conv.caller /\ d.settlingRun = conv.settlingRun
        /\ d.stopping = conv.stopping /\ d.closed = conv.closed
        /\ d.session = conv.session /\ d.goal = conv.goal
        /\ d.goalFailed = conv.goalFailed /\ d.refused = conv.refused
    BY <1>2 DEF Conversations
  <2> HIDE DEF d
  <2>2. o \subseteq 1..MaxSessions /\ o = open \cup {next}
    BY <1>1, <1>2, <1>3
  <2> HIDE DEF o
  <2>3. PhasesAgree(d)
    BY <1>2, <2>1 DEF Now, Sound, PhasesAgree, AgentRuns
  <2>4. Held(d, o, b)
    BY <1>1, <1>2, <2>1, <2>2 DEF Held
  <2>5. /\ Owned(d, inputFate) /\ OfThisSession(d, inputFate, stamp, status)
        /\ Reported(d, inputFate, status) /\ (d.goalFailed => d.goal.status # "active")
    BY <2>1 DEF Now, Sound, Owned, OfThisSession, Reported
  <2>6. Sound(d, inputFate, stamp, status, o, b)
    BY <1>1, <2>1, <2>2, <2>3, <2>4, <2>5 DEF Now, Sound, Typed
  <2>7. Sound(d, inputFate, stamp', status', open', bounds')
    BY <1>1, <2>6 DEF o, b
  <2>8. Rests(d)
    BY <2>1 DEF Rests, IsRunning
  <2> QED BY <1>3, <2>1, <2>7, <2>8, ThenRests DEF d
<1>4. CASE UNCHANGED <<conv, inputFate, open>>
  <2>1. Held(conv, open, b)
    BY <1>1, <1>2 DEF Now, Sound, Held
  <2>2. Sound(conv', inputFate', stamp', status', open', bounds')
    BY <1>1, <1>4, <2>1 DEF Now, Sound, Typed, b
  <2>3. ConversationInv'
    BY <1>4, <2>2 DEF ConversationInv, NoStall, Rests
  <2> QED BY <1>2, <1>4, <2>3 DEF Keeps, Yields, Final
<1>5. \/ Becomes([conv EXCEPT !.changing = TRUE], inputFate) /\ open' = open \cup {next}
      \/ UNCHANGED <<conv, inputFate, open>>
  BY <1>1 DEF BeginSessionChange, b
<1> QED BY <1>3, <1>4, <1>5

\* Nothing of the old session is left, and the host lets it go.
LEMMA SessionChangedKeeps ==
  ASSUME ConversationInv, SessionChanged
  PROVE  Keeps
<1> USE InvFacts, RunFacts
<1> DEFINE e == Cleared(conv)
           d == [e EXCEPT !.goal = NoGoal, !.session = Candidate, !.changing = FALSE]
           g == [i \in Items |-> IF /\ stamp[i] = conv.session
                                   /\ inputFate[i] \in {"timer", "waiting"}
                                THEN "withdrawn" ELSE inputFate[i]]
           s == status'
           o == open'
<1>1. /\ conv.changing /\ ~conv.stopping /\ Becomes(d, g)
      /\ o = open \ {conv.session} /\ UNCHANGED <<stamp, bounds>>
      /\ s = [j \in Completions |->
                IF stamp[j] = conv.session THEN "gone" ELSE status[j]]
  BY DEF SessionChanged
<1>2. /\ conv.source = "none" /\ conv.agent = "idle" /\ conv.consumed = <<>>
      /\ ~conv.closed
  BY <1>1 DEF Now, Sound, PhasesAgree
<1>3. NoGoal \in Goals /\ NoGoal.status = "none"
  BY ConversationAssumption DEF NoGoal, Goals
<1>4. bounds.sessions \in 1..MaxSessions /\ conv.session # bounds.sessions
  BY <1>1, ConversationAssumption DEF Now, Sound, Typed, Held, Conversations
<1>5. e = [conv EXCEPT !.nextStep = <<>>, !.nextTurn = <<>>]
  BY <1>2 DEF Cleared, Committing
<1> HIDE DEF e
<1>6. /\ d \in Conversations /\ d.nextStep = <<>> /\ d.nextTurn = <<>>
      /\ d.arrival = conv.arrival /\ d.consumed = <<>> /\ d.prompt = conv.prompt
      /\ d.agent = "idle" /\ d.source = "none" /\ d.drain = conv.drain
      /\ d.caller = conv.caller /\ d.settlingRun = conv.settlingRun
      /\ d.changing = FALSE /\ d.stopping = FALSE /\ d.closed = FALSE
      /\ d.session = bounds.sessions /\ d.goal = NoGoal
      /\ d.goalFailed = conv.goalFailed /\ d.refused = conv.refused
  <2>1. <<>> \in Seq(Items)
    OBVIOUS
  <2>2. d \in Conversations
    BY <1>3, <1>4, <1>5, <2>1 DEF Conversations, Candidate
  <2>3. /\ d.nextStep = <<>> /\ d.nextTurn = <<>> /\ d.goal = NoGoal
        /\ d.changing = FALSE /\ d.session = bounds.sessions
    BY <1>5 DEF Conversations, Candidate
  <2> QED BY <1>1, <1>2, <1>5, <2>2, <2>3 DEF Conversations
<1>7. /\ g \in [Items -> InputFates]
      /\ \A i \in Items :
           \/ g[i] = inputFate[i] /\ g[i] \notin {"timer", "waiting"}
           \/ inputFate[i] \in {"timer", "waiting"} /\ g[i] = "withdrawn"
           \/ inputFate[i] = "timer" /\ g[i] = "timer" /\ i \notin Wakes
  <2>1. /\ \A i \in Items : inputFate[i] = "waiting" => stamp[i] = conv.session
        /\ \A w \in Wakes : inputFate[w] = "timer" => stamp[w] = conv.session
    BY <1>2 DEF Now, Sound, OfThisSession
  <2> QED BY <2>1 DEF InputFates
<1>8. /\ s \in [Completions -> {"none", "active", "settled", "observed", "gone"}]
      /\ \A j \in Completions :
           \/ s[j] = "gone"
           \/ s[j] = status[j] /\ s[j] \notin {"active", "settled"}
  <2>1. \A j \in Completions :
          status[j] \in {"active", "settled"} => stamp[j] = conv.session
    BY DEF Now, Sound, OfThisSession
  <2> QED BY <1>1, <2>1
<1>9. /\ o \subseteq 1..MaxSessions /\ o \subseteq {bounds.sessions}
      /\ bounds.sessions \in o
  BY <1>1, <1>4 DEF Now, Sound, Typed, Held
<1> HIDE DEF d, g, s, o
<1>10. ToSet(<<>>) = {}
  BY DEF ToSet
<1>11. Lanes(<<>>, <<>>, conv.arrival, g)
  <2>1. Clears(conv.nextStep, <<>>, inputFate, g)
    BY <1>7, <1>10 DEF Clears
  <2> QED BY <2>1, ClearLanes
<1>12. PhasesAgree(d)
  BY <1>1, <1>2, <1>6 DEF Now, Sound, PhasesAgree, AgentRuns
<1>13. Owned(d, g)
  BY <1>6, <1>7, <1>10 DEF Now, Sound, Owned
<1>14. OfThisSession(d, g, stamp, s)
  BY <1>3, <1>6, <1>7, <1>8, <1>10 DEF Now, Sound, OfThisSession
<1>15. Reported(d, g, s)
  BY <1>2, <1>6, <1>7, <1>8, <1>10 DEF Now, Sound, Reported
<1>16. Held(d, o, bounds)
  BY <1>4, <1>6, <1>9 DEF Held
<1>17. Sound(d, g, stamp, s, o, bounds)
  BY <1>3, <1>6, <1>7, <1>8, <1>9, <1>11, <1>12, <1>13, <1>14, <1>15, <1>16
     DEF Now, Sound, Typed
<1>18. Sound(d, g, stamp', status', open', bounds')
  BY <1>1, <1>17 DEF s, o
<1>19. Rests(d)
  BY <1>3, <1>6 DEF Rests, Startable
<1> QED BY <1>1, <1>3, <1>6, <1>18, <1>19, ThenRests

\* A change that close() overtook lets both sessions go.
LEMMA ChangeStoppedKeeps ==
  ASSUME ConversationInv, ChangeStopped
  PROVE  Keeps
<1> USE InvFacts
<1> DEFINE d == [conv EXCEPT !.changing = FALSE]
           o == open'
<1>1. /\ conv.changing /\ conv.stopping /\ Becomes(d, inputFate)
      /\ o = open \ {conv.session, bounds.sessions} /\ UNCHANGED <<stamp, status, bounds>>
  BY DEF ChangeStopped, Candidate
<1>2. /\ d \in Conversations /\ d.prompt = conv.prompt /\ d.consumed = conv.consumed
      /\ d.nextStep = conv.nextStep /\ d.nextTurn = conv.nextTurn
      /\ d.arrival = conv.arrival /\ d.source = conv.source /\ d.drain = conv.drain
      /\ d.caller = conv.caller /\ d.settlingRun = conv.settlingRun
      /\ d.agent = conv.agent /\ d.changing = FALSE
      /\ d.stopping = conv.stopping /\ d.closed = conv.closed
      /\ d.session = conv.session /\ d.goal = conv.goal
      /\ d.goalFailed = conv.goalFailed /\ d.refused = conv.refused
  BY DEF Conversations
<1>3. o = {} /\ conv.session <= bounds.sessions
  BY <1>1 DEF Now, Sound, Typed, Held
<1> HIDE DEF d, o
<1>4. PhasesAgree(d)
  BY <1>2 DEF Now, Sound, PhasesAgree, AgentRuns
<1>5. Held(d, o, bounds)
  BY <1>1, <1>2, <1>3 DEF Held
<1>6. /\ Owned(d, inputFate) /\ OfThisSession(d, inputFate, stamp, status)
      /\ Reported(d, inputFate, status) /\ (d.goalFailed => d.goal.status # "active")
  BY <1>1, <1>2 DEF Now, Sound, Owned, OfThisSession, Reported
<1>7. Sound(d, inputFate, stamp, status, o, bounds)
  BY <1>2, <1>3, <1>4, <1>5, <1>6 DEF Now, Sound, Typed
<1>8. Sound(d, inputFate, stamp', status', open', bounds')
  BY <1>1, <1>7 DEF o
<1>9. Rests(d)
  BY <1>1, <1>2 DEF Rests
<1> QED BY <1>1, <1>2, <1>8, <1>9, ThenRests

\* close() drops what waits but for what is being journaled.
LEMMA CloseKeeps ==
  ASSUME ConversationInv, Close
  PROVE  Keeps
<1> USE InvFacts, RunFacts, GoalFacts
<1> DEFINE kept == IF Committing(conv) = {} THEN <<>> ELSE <<Head(conv.nextStep)>>
           goal == IF conv.goal.status = "active" THEN NoGoal ELSE conv.goal
           aborts == AgentRuns(conv)
           d == [conv EXCEPT !.nextStep = kept, !.nextTurn = <<>>, !.stopping = TRUE,
                             !.aborted = aborts, !.goal = goal]
           g == Mark(Withdrawn(conv, InLanes(conv)), "withdrawn")
<1>1. /\ ~conv.stopping /\ Becomes(d, g) /\ UNCHANGED <<stamp, status, open, bounds>>
  BY DEF Close, Cleared, Conversations
<1>2. goal \in Goals /\ goal.status # "active" /\ aborts \in BOOLEAN
  BY ConversationAssumption DEF NoGoal, Goals, AgentRuns
<1>3. /\ kept = <<>> \/ (conv.nextStep # <<>> /\ kept = <<Head(conv.nextStep)>>)
      /\ conv.agent = "consuming" => kept # <<>>
      /\ ToSet(kept) = Committing(conv)
  <2>1. conv.agent = "consuming" => conv.nextStep # <<>>
    BY DEF Now, Sound, PhasesAgree
  <2>2. ToSet(<<>>) = {} /\ ToSet(<<Head(conv.nextStep)>>) = {Head(conv.nextStep)}
    BY DEF ToSet
  <2> QED BY <2>1, <2>2 DEF Committing
<1>4. /\ g \in [Items -> InputFates]
      /\ \A i \in Items :
           IF inputFate[i] = "waiting" /\ i \notin ToSet(kept) THEN g[i] = "withdrawn"
           ELSE g[i] = inputFate[i]
  BY <1>3 DEF Mark, Withdrawn, InputFates
<1> HIDE DEF kept, goal, g, aborts
<1>5. kept \in Seq(Items) /\ Lanes(kept, <<>>, conv.arrival, g)
  <2>1. Clears(conv.nextStep, kept, inputFate, g)
    BY <1>3, <1>4 DEF Clears
  <2> QED BY <2>1, ClearLanes
<1>6. /\ d \in Conversations /\ d.prompt = conv.prompt /\ d.consumed = conv.consumed
      /\ d.nextStep = kept /\ d.nextTurn = <<>>
      /\ d.arrival = conv.arrival /\ d.source = conv.source /\ d.drain = conv.drain
      /\ d.caller = conv.caller /\ d.settlingRun = conv.settlingRun
      /\ d.agent = conv.agent /\ d.changing = conv.changing
      /\ d.stopping = TRUE /\ d.closed = conv.closed
      /\ d.session = conv.session /\ d.goal = goal
      /\ d.goalFailed = conv.goalFailed /\ d.refused = conv.refused
  <2>1. <<>> \in Seq(Items)
    OBVIOUS
  <2>2. d \in Conversations
    BY <1>2, <1>5, <2>1 DEF Conversations
  <2> QED BY <2>2 DEF Conversations
<1> HIDE DEF d
<1>7. PhasesAgree(d)
  BY <1>1, <1>3, <1>6 DEF Now, Sound, PhasesAgree, AgentRuns
<1>8. \A i \in Items : g[i] = inputFate[i] \/ (inputFate[i] = "waiting" /\ g[i] = "withdrawn")
  BY <1>4
<1>9. Owned(d, g) /\ OfThisSession(d, g, stamp, status)
  BY <1>2, <1>6, <1>8 DEF Now, Sound, Owned, OfThisSession
<1>10. Reported(d, g, status) /\ Held(d, open, bounds)
  BY <1>6, <1>8 DEF Now, Sound, Reported, Held
<1>11. Sound(d, g, stamp, status, open, bounds)
  BY <1>2, <1>4, <1>5, <1>6, <1>7, <1>9, <1>10 DEF Now, Sound, Typed
<1>12. Sound(d, g, stamp', status', open', bounds')
  BY <1>1, <1>11
<1>13. Rests(d)
  BY <1>6 DEF Rests
<1> QED BY <1>1, <1>2, <1>6, <1>12, <1>13, ThenRests

\* The last timers and the session go.
LEMMA ClosedKeeps ==
  ASSUME ConversationInv, Closed
  PROVE  Keeps
<1> USE InvFacts, RunFacts, GoalFacts
<1> DEFINE d == [conv EXCEPT !.closed = TRUE]
           g == [i \in Items |-> IF inputFate[i] = "timer" THEN "withdrawn" ELSE inputFate[i]]
           o == open'
<1>1. /\ conv.stopping /\ ~conv.closed /\ conv.agent = "idle" /\ Becomes(d, g)
      /\ o = open \ {conv.session} /\ UNCHANGED <<stamp, status, bounds>>
  BY DEF Closed
<1>2. /\ d \in Conversations /\ d.prompt = conv.prompt /\ d.consumed = conv.consumed
      /\ d.nextStep = conv.nextStep /\ d.nextTurn = conv.nextTurn
      /\ d.arrival = conv.arrival /\ d.source = conv.source /\ d.drain = conv.drain
      /\ d.caller = conv.caller /\ d.settlingRun = conv.settlingRun
      /\ d.agent = conv.agent /\ d.changing = conv.changing
      /\ d.stopping = conv.stopping /\ d.closed = TRUE
      /\ d.session = conv.session /\ d.goal = conv.goal
      /\ d.goalFailed = conv.goalFailed /\ d.refused = conv.refused
  BY DEF Conversations
<1>3. /\ g \in [Items -> InputFates]
      /\ \A i \in Items : \/ g[i] = inputFate[i] /\ g[i] # "timer"
                          \/ inputFate[i] = "timer" /\ g[i] = "withdrawn"
  BY DEF InputFates
<1> HIDE DEF d, g, o
<1>4. Lanes(d.nextStep, d.nextTurn, d.arrival, g)
  <2>1. \A i \in Items :
          \/ g[i] = inputFate[i]
          \/ /\ inputFate[i] \notin {"waiting", "withdrawn"} /\ g[i] # "waiting"
             /\ g[i] \in {"new", "timer"} => inputFate[i] \in {"new", "timer"}
    BY <1>3
  <2>2. Lanes(conv.nextStep, conv.nextTurn, conv.arrival, g)
    BY <2>1, FatesChange
  <2> QED BY <1>2, <2>2
<1>5. PhasesAgree(d)
  BY <1>1, <1>2 DEF Now, Sound, PhasesAgree, AgentRuns
<1>6. Owned(d, g) /\ OfThisSession(d, g, stamp, status)
  BY <1>2, <1>3 DEF Now, Sound, Owned, OfThisSession
<1>7. Reported(d, g, status)
  BY <1>1, <1>2, <1>3 DEF Now, Sound, Reported
<1>8. Held(d, o, bounds) /\ o \subseteq 1..MaxSessions
  BY <1>1, <1>2 DEF Now, Sound, Typed, Held
<1>9. Sound(d, g, stamp, status, o, bounds)
  BY <1>2, <1>3, <1>4, <1>5, <1>6, <1>7, <1>8 DEF Now, Sound, Typed
<1>10. Sound(d, g, stamp', status', open', bounds')
  BY <1>1, <1>9 DEF o
<1>11. Rests(d)
  BY <1>1, <1>2 DEF Rests
<1> QED BY <1>1, <1>2, <1>10, <1>11, ThenRests

-----------------------------------------------------------------------------
(* The invariant and the properties. *)

\* A new conversation satisfies the invariant.
LEMMA ConversationStarts == ConversationInit => ConversationInv
<1> SUFFICES ASSUME ConversationInit PROVE ConversationInv
  OBVIOUS
<1>1. /\ <<>> \in Seq(Items) /\ <<>> \in Seq(Items \cup {GoalInput})
      /\ ToSet(<<>>) = {} /\ IsInjective(<<>>) /\ DOMAIN <<>> = {}
  BY DEF ToSet, IsInjective
<1>2. /\ 0 \in 0..MaxSessions /\ 1 \in 1..MaxSessions /\ 0 \in 0..MaxRounds
      /\ 0 \in 0..MaxGoals /\ 0 \in 0..MaxAside /\ GoalInput \notin Items
  BY ConversationAssumption
<1>3. /\ conv.nextStep = <<>> /\ conv.nextTurn = <<>> /\ conv.consumed = <<>>
      /\ conv.prompt = <<>> /\ conv.agent = "idle" /\ conv.source = "none"
      /\ conv.drain = "none" /\ conv.caller = "none" /\ conv.settlingRun = FALSE
      /\ conv.changing = FALSE /\ conv.stopping = FALSE /\ conv.closed = FALSE
      /\ conv.goal = NoGoal /\ conv.goalFailed = FALSE /\ conv.session = 1
      /\ conv.arrival = <<>> /\ conv.refused = {}
  BY DEF ConversationInit
<1>4. NoGoal \in Goals /\ NoGoal.status = "none"
  BY <1>2 DEF Goals, NoGoal
<1>5. conv \in Conversations
  BY <1>1, <1>2, <1>4 DEF ConversationInit, Conversations, Frames
<1>6. /\ inputFate \in [Items -> InputFates] /\ \A i \in Items : inputFate[i] = "new"
      /\ stamp \in [Items -> 0..MaxSessions]
      /\ status \in [Completions -> {"none", "active", "settled", "observed", "gone"}]
      /\ \A j \in Completions : j \in Items /\ status[j] = "none"
      /\ open = {1}
      /\ bounds \in [goals : 0..MaxGoals, sessions : 1..MaxSessions, aside : 0..MaxAside]
      /\ bounds.sessions = 1
  BY <1>2 DEF ConversationInit, InputFates, Items
<1>7. Typed(conv, inputFate, stamp, status, open, bounds)
  BY <1>2, <1>5, <1>6 DEF Typed
<1>8. PhasesAgree(conv)
  BY <1>3 DEF PhasesAgree, AgentRuns
<1>9. Lanes(conv.nextStep, conv.nextTurn, conv.arrival, inputFate)
  BY <1>1, <1>3, <1>6 DEF Lanes, Lined, Arrived, InOrder
<1>10. Owned(conv, inputFate) /\ Held(conv, open, bounds)
  BY <1>1, <1>3, <1>6 DEF Owned, Held
<1>11. OfThisSession(conv, inputFate, stamp, status) /\ Reported(conv, inputFate, status)
  BY <1>1, <1>3, <1>4, <1>6 DEF OfThisSession, Reported, Items
<1>12. NoStall
  BY <1>3, <1>4 DEF NoStall, Startable
<1> QED BY <1>3, <1>7, <1>8, <1>9, <1>10, <1>11, <1>12 DEF ConversationInv, Sound

\* Nothing changes when nothing happens.
LEMMA ConversationStutters ==
  ASSUME ConversationInv, UNCHANGED conversationVars
  PROVE  Keeps
<1> USE InvFacts
<1>1. UNCHANGED <<conv, inputFate, stamp, status, open, bounds>>
  BY DEF conversationVars
<1>2. Sound(conv', inputFate', stamp', status', open', bounds') /\ Rests(conv')
  BY <1>1 DEF Now
<1>3. ConversationInv'
  BY <1>2 DEF ConversationInv, NoStall, Rests
<1>4. conv.closed => conv.agent = "idle"
  BY DEF Now, Sound, PhasesAgree
<1> QED BY <1>1, <1>3, <1>4 DEF Keeps, Yields, Final

\* Every step keeps the invariant, lets no goal overtake an input, and starts
\* nothing once close() was called.
LEMMA ConversationSteps == ConversationInv /\ [Next]_conversationVars => Keeps
<1> SUFFICES ASSUME ConversationInv, [Next]_conversationVars PROVE Keeps
  OBVIOUS
<1>1. CASE User
  <2>1. CASE \E i \in UserInputs : QueueInput(i) \/ SteerConversation(i) \/ Submit(i)
    BY <2>1, QueueInputKeeps, SteerKeeps, SubmitKeeps
  <2>2. CASE \E w \in Wakes : ScheduleWake(w) \/ CancelWake(w)
    BY <2>2, ScheduleWakeKeeps, CancelWakeKeeps
  <2>3. CASE StartGoal \/ CancelGoal \/ AbortConversation \/ Reconfigure
    BY <2>3, StartGoalKeeps, CancelGoalKeeps, AbortKeeps, ReconfigureKeeps
  <2>4. CASE CompactConversation \/ CloseGate \/ BeginSessionChange \/ Close
    BY <2>4, CompactKeeps, GateKeeps, BeginSessionChangeKeeps, CloseKeeps
  <2> QED BY <1>1, <2>1, <2>2, <2>3, <2>4 DEF User
<1>2. CASE Agent
  <2>1. CASE \E j \in Completions : StartBackground(j) \/ ObserveTask(j) \/ TaskSettles(j)
    BY <2>1, StartBackgroundKeeps, ObserveTaskKeeps, TaskSettlesKeeps
  <2>2. CASE \E w \in Wakes : WakeFires(w)
    BY <2>2, WakeFiresKeeps
  <2>3. CASE UpdateGoal \/ RunFails
    BY <2>3, UpdateGoalKeeps, RunFailsKeeps
  <2> QED BY <1>2, <2>1, <2>2, <2>3 DEF Agent
<1>3. CASE RunProgress
  <2>1. CASE PromptCommitted \/ ConsumeStep \/ Claim \/ Announce
    BY <2>1, PromptCommittedKeeps, PhaseKeeps, ClaimKeeps, AnnounceKeeps
  <2>2. CASE LoopEnds \/ AgentSettles \/ CompactEnds
    BY <2>2, PhaseKeeps, AgentSettlesKeeps, CompactKeeps
  <2> QED BY <1>3, <2>1, <2>2 DEF RunProgress
<1>4. CASE ChainProgress
  BY <1>4, RunSettlesKeeps, SubmitReturnsKeeps, DrainResumesKeeps DEF ChainProgress
<1>5. CASE OpenGate \/ SessionChanged \/ ChangeStopped \/ Closed
  BY <1>5, GateKeeps, SessionChangedKeeps, ChangeStoppedKeeps, ClosedKeeps
<1>6. CASE UNCHANGED conversationVars
  BY <1>6, ConversationStutters
<1> QED BY <1>1, <1>2, <1>3, <1>4, <1>5, <1>6 DEF Next

(* The invariant holds of every reachable state: lanes, fates, frames,     *)
(* sessions and the states of tasks agree, whatever segments of the        *)
(* runtime, the coordinator and the Agent's run are interleaved.           *)
THEOREM ConversationInvariant == Spec => []ConversationInv
<1>1. ConversationInv /\ [Next]_conversationVars => ConversationInv'
  BY ConversationSteps DEF Keeps
<1> QED BY ConversationStarts, <1>1, PTL DEF Spec

\* What the invariant says of runs and their inputs.
LEMMA InvRunsOnce == ConversationInv => InputsRunOnce
<1> SUFFICES ASSUME ConversationInv PROVE InputsRunOnce
  OBVIOUS
<1> USE InvFacts, RunFacts
<1>1. OneRunAtATime
  BY DEF Now, Sound, PhasesAgree, OneRunAtATime
<1>2. StartInOrder
  BY DEF Lanes, InOrder, StartInOrder
<1>3. CompletionsReachTheModel
  BY DEF Now, Sound, Reported, CompletionsReachTheModel, Accepting
<1>4. ObservedOnce
  BY DEF Now, Sound, Reported, ObservedOnce
<1> QED BY <1>1, <1>2, <1>3, <1>4
        DEF InputsRunOnce, StartsAreSerial, CompletionsReachTheModelOnce

\* What the invariant says of drain() and of sessions.
LEMMA InvIsSafe == ConversationInv => ConversationIsSafe
<1> SUFFICES ASSUME ConversationInv PROVE ConversationIsSafe
  OBVIOUS
<1> USE InvFacts, RunFacts
<1>1. ConversationTypeOK
  BY DEF Now, Sound, Typed, ConversationTypeOK
<1>2. NoStall /\ FailedGoalsStop
  BY DEF ConversationInv, Sound, FailedGoalsStop
<1>3. SessionsStaySeparate
  <2>1. InLanes(conv) \subseteq Items
    BY LaneMembers DEF InLanes, InStep, InTurn
  <2> QED BY <2>1 DEF Now, Sound, OfThisSession, SessionsStaySeparate
<1>4. SessionsAreReleased
  BY DEF Now, Sound, Held, SessionsAreReleased
<1> QED BY <1>1, <1>2, <1>3, <1>4
        DEF ConversationIsSafe, DrainDecidesRightly, SessionsAreSevered

(* Runs are started one at a time and in the order in which inputs began   *)
(* to wait; the end of a job or subagent reaches the model, and only once  *)
(* (drain(), executeRun() and observeRunInputs of the coordinator).        *)
THEOREM InputsRunOnceHolds == Spec => []InputsRunOnce
BY ConversationInvariant, InvRunsOnce, PTL

(* drain() never stops short of work it should start, a failed goal is not *)
(* continued, and a session change leaves no input, timer, goal or host    *)
(* resource of the old session behind.                                     *)
THEOREM ConversationSafety == Spec => []ConversationIsSafe
BY ConversationInvariant, InvIsSafe, PTL

(* A goal's next round never overtakes an input that waits for a run, and  *)
(* close() is final: no run starts after it.                               *)
THEOREM StartsAreAllowedHolds == Spec => StartsAreAllowed
<1>1. ConversationInv /\ [Next]_conversationVars =>
        [/\ conv'.goal.status = "active" /\ conv'.goal.rounds > conv.goal.rounds
         /\ conv.goal.status = "active"
         => conv'.nextTurn = <<>>]_conversationVars
  BY ConversationSteps DEF Keeps, Yields
<1>2. ConversationInv /\ [Next]_conversationVars =>
        [/\ conv.stopping /\ conv.agent = "idle" => conv'.agent = "idle"
         /\ conv'.closed => conv'.agent = "idle"]_conversationVars
  BY ConversationSteps DEF Keeps, Final
<1> QED BY ConversationInvariant, <1>1, <1>2, PTL
        DEF Spec, StartsAreAllowed, GoalYieldsToInput, NothingRunsAfterClose

-----------------------------------------------------------------------------
(* Induction on the natural numbers, as a fact about a set, and the
   recursive function CaughtUp. *)

\* A set of numbers with 0 that has the successor of each is all of Nat.
LEMMA Induction ==
  ASSUME NEW S, 0 \in S, \A n \in Nat : n \in S => n + 1 \in S
  PROVE  Nat \subseteq S
<1>. DEFINE R == OpToRel(<, Nat)
            T == Nat \ S
<1>. SUFFICES ASSUME T # {} PROVE FALSE
  OBVIOUS
<1>1. IsWellFoundedOn(R, Nat)
  BY NatLessThanWellFounded
<1>2. R = {ss \in Nat \X Nat : ss[1] < ss[2]}
  BY DEF OpToRel
<1>. HIDE DEF R
<1>3. PICK m \in T : \A n \in T : ~(<<n, m>> \in R)
  BY <1>1, WFMin
<1>4. m \in Nat /\ m # 0
  BY <1>3
<1>5. m - 1 \in Nat /\ m - 1 < m /\ m = (m - 1) + 1
  BY <1>4
<1>6. <<m - 1, m>> \in R
  BY <1>2, <1>4, <1>5
<1>7. m - 1 \in S
  BY <1>3, <1>5, <1>6
<1>. QED BY <1>3, <1>5, <1>7

\* v lists the views of a reader of these frames.
Reads(v, shown, frames) ==
  v = [n \in 0..Len(frames) |-> IF n = 0 THEN shown ELSE ApiApply(v[n - 1], frames[n])]

\* Such a list exists, and there is one only.
LEMMA ReadsExists ==
  ASSUME NEW shown, NEW frames, Len(frames) \in Nat
  PROVE  \E v : Reads(v, shown, frames)
<1>. DEFINE S == {m \in Nat : \E v : v = [n \in 0..m |-> IF n = 0 THEN shown
                                           ELSE ApiApply(v[n - 1], frames[n])]}
<1>1. 0 \in S
  <2>. DEFINE v == [n \in 0..0 |-> shown]
  <2>1. v = [n \in 0..0 |-> IF n = 0 THEN shown ELSE ApiApply(v[n - 1], frames[n])]
    OBVIOUS
  <2>. QED BY <2>1
<1>2. ASSUME NEW m \in Nat, m \in S PROVE m + 1 \in S
  <2>1. PICK v : v = [n \in 0..m |-> IF n = 0 THEN shown ELSE ApiApply(v[n - 1], frames[n])]
    BY <1>2
  <2>. DEFINE w == [n \in 0..(m + 1) |-> IF n = m + 1 THEN ApiApply(v[m], frames[m + 1]) ELSE v[n]]
  <2>2. \A n \in 0..(m + 1) : w[n] = IF n = 0 THEN shown ELSE ApiApply(w[n - 1], frames[n])
    <3>. SUFFICES ASSUME NEW n \in 0..(m + 1)
                  PROVE  w[n] = IF n = 0 THEN shown ELSE ApiApply(w[n - 1], frames[n])
      OBVIOUS
    <3>1. CASE n = m + 1
      <4>1. n # 0 /\ n - 1 = m /\ m \in 0..(m + 1) /\ m # m + 1
        BY <3>1
      <4>. QED BY <3>1, <4>1
    <3>2. CASE n # m + 1 /\ n = 0
      <4>1. w[n] = v[n] /\ 0 \in 0..m
        BY <3>2
      <4>. QED BY <3>2, <4>1, <2>1
    <3>3. CASE n # m + 1 /\ n # 0
      <4>1. n \in 0..m /\ n - 1 \in 0..m /\ n - 1 # m + 1 /\ n - 1 \in 0..(m + 1)
        BY <3>3
      <4>2. w[n] = v[n] /\ w[n - 1] = v[n - 1]
        BY <3>3, <4>1
      <4>3. v[n] = ApiApply(v[n - 1], frames[n])
        BY <2>1, <3>3, <4>1
      <4>. QED BY <3>3, <4>2, <4>3
    <3>. QED BY <3>1, <3>2, <3>3
  <2>3. w = [n \in 0..(m + 1) |-> IF n = 0 THEN shown ELSE ApiApply(w[n - 1], frames[n])]
    BY <2>2
  <2>. HIDE DEF w
  <2>. QED BY <2>3
<1>. HIDE DEF S
<1>3. Len(frames) \in S
  BY <1>1, <1>2, Induction
<1>. QED BY <1>3 DEF S, Reads

LEMMA ReadsUnique ==
  ASSUME NEW shown, NEW frames, Len(frames) \in Nat,
         NEW v, NEW w, Reads(v, shown, frames), Reads(w, shown, frames)
  PROVE  v = w
<1>. DEFINE S == {m \in Nat : m \in 0..Len(frames) => v[m] = w[m]}
<1>1. 0 \in S
  BY DEF Reads
<1>2. ASSUME NEW m \in Nat, m \in S PROVE m + 1 \in S
  <2>. SUFFICES ASSUME m + 1 \in 0..Len(frames) PROVE v[m + 1] = w[m + 1]
    OBVIOUS
  <2>1. m \in 0..Len(frames) /\ m + 1 # 0 /\ (m + 1) - 1 = m
    OBVIOUS
  <2>2. v[m + 1] = ApiApply(v[m], frames[m + 1]) /\ w[m + 1] = ApiApply(w[m], frames[m + 1])
    BY <2>1 DEF Reads
  <2>. QED BY <1>2, <2>1, <2>2
<1>. HIDE DEF S
<1>3. Nat \subseteq S
  BY <1>1, <1>2, Induction
<1>4. \A m \in 0..Len(frames) : v[m] = w[m]
  BY <1>3 DEF S
<1>. QED BY <1>4 DEF Reads

\* What CaughtUp is, by any list of views.
LEMMA CaughtUpIs ==
  ASSUME NEW shown, NEW frames, Len(frames) \in Nat, NEW v, Reads(v, shown, frames)
  PROVE  CaughtUp(shown, frames) = v[Len(frames)]
<1>. DEFINE c == CHOOSE s : s = [n \in 0..Len(frames) |-> IF n = 0 THEN shown
                                  ELSE ApiApply(s[n - 1], frames[n])]
<1>1. CaughtUp(shown, frames) = c[Len(frames)]
  BY DEF CaughtUp
<1>2. c = CHOOSE s : Reads(s, shown, frames)
  BY DEF Reads
<1>. HIDE DEF c
<1>3. Reads(c, shown, frames)
  BY <1>2
<1>4. c = v
  BY <1>3, ReadsUnique
<1>. QED BY <1>1, <1>4

\* A reader that has no frames left knows what it shows.
LEMMA NothingLeft ==
  ASSUME NEW shown
  PROVE  CaughtUp(shown, <<>>) = shown
<1>1. PICK v : Reads(v, shown, <<>>)
  BY ReadsExists
<1>2. CaughtUp(shown, <<>>) = v[0] /\ v[0] = shown
  BY <1>1, CaughtUpIs DEF Reads
<1>. QED BY <1>2

\* One frame more is one event more.
LEMMA FrameSent ==
  ASSUME NEW F, NEW shown, NEW frames \in Seq(F), NEW e \in F
  PROVE  CaughtUp(shown, Append(frames, e)) = ApiApply(CaughtUp(shown, frames), e)
<1>. DEFINE more == Append(frames, e)
            n == Len(frames)
<1>1. n \in Nat /\ Len(more) \in Nat /\ Len(more) = n + 1 /\ more[n + 1] = e /\ \A k \in 1..n : more[k] = frames[k]
  OBVIOUS
<1>. HIDE DEF more, n
<1>2. PICK v : Reads(v, shown, frames)
  BY <1>1, ReadsExists DEF n
<1>3. PICK w : Reads(w, shown, more)
  BY <1>1, ReadsExists
<1>4. w = [k \in 0..(n + 1) |-> IF k = 0 THEN shown ELSE ApiApply(w[k - 1], more[k])]
  BY <1>1, <1>3 DEF Reads
<1>. DEFINE u == [k \in 0..n |-> w[k]]
<1>5. \A k \in 0..n : u[k] = IF k = 0 THEN shown ELSE ApiApply(u[k - 1], frames[k])
  <2>. SUFFICES ASSUME NEW k \in 0..n
                PROVE  u[k] = IF k = 0 THEN shown ELSE ApiApply(u[k - 1], frames[k])
    OBVIOUS
  <2>1. CASE k = 0
    BY <1>1, <1>4, <2>1
  <2>2. CASE k # 0
    <3>1. k \in 1..n /\ k - 1 \in 0..n /\ k \in 0..(n + 1)
      BY <1>1, <2>2
    <3>2. w[k] = ApiApply(w[k - 1], more[k])
      BY <1>4, <2>2, <3>1
    <3>. QED BY <1>1, <2>2, <3>1, <3>2
  <2>. QED BY <2>1, <2>2
<1>6. Reads(u, shown, frames)
  BY <1>5 DEF Reads, n
<1>7. CaughtUp(shown, frames) = w[n]
  <2>1. CaughtUp(shown, frames) = u[n]
    BY <1>1, <1>6, CaughtUpIs DEF n
  <2>. QED BY <1>1, <2>1
<1>8. CaughtUp(shown, more) = w[n + 1]
  BY <1>1, <1>3, CaughtUpIs
<1>9. w[n + 1] = ApiApply(w[n], e)
  <2>1. n + 1 \in 0..(n + 1) /\ n + 1 # 0 /\ (n + 1) - 1 = n
    BY <1>1
  <2>. QED BY <1>1, <1>4, <2>1
<1>. QED BY <1>7, <1>8, <1>9 DEF more

\* A frame that is read has been read already, for one who catches up.
LEMMA FrameRead ==
  ASSUME NEW F, NEW shown, NEW frames \in Seq(F), frames # <<>>
  PROVE  CaughtUp(ApiApply(shown, Head(frames)), Tail(frames)) = CaughtUp(shown, frames)
<1>. DEFINE rest == Tail(frames)
            n == Len(rest)
<1>1. n \in Nat /\ Len(frames) \in Nat /\ Len(frames) = n + 1 /\ Head(frames) = frames[1]
      /\ \A k \in 1..n : rest[k] = frames[k + 1]
  OBVIOUS
<1>. HIDE DEF rest, n
<1>2. PICK w : Reads(w, shown, frames)
  BY <1>1, ReadsExists
<1>3. w = [k \in 0..(n + 1) |-> IF k = 0 THEN shown ELSE ApiApply(w[k - 1], frames[k])]
  BY <1>1, <1>2 DEF Reads
<1>. DEFINE first == ApiApply(shown, Head(frames))
            u == [k \in 0..n |-> w[k + 1]]
<1>4. w[1] = first
  <2>1. 1 \in 0..(n + 1) /\ 0 \in 0..(n + 1) /\ 1 # 0 /\ 1 - 1 = 0
    BY <1>1
  <2>2. w[1] = ApiApply(w[0], frames[1]) /\ w[0] = shown
    BY <1>3, <2>1
  <2>. QED BY <1>1, <2>2
<1>. HIDE DEF first
<1>5. \A k \in 0..n : u[k] = IF k = 0 THEN first ELSE ApiApply(u[k - 1], rest[k])
  <2>. SUFFICES ASSUME NEW k \in 0..n
                PROVE  u[k] = IF k = 0 THEN first ELSE ApiApply(u[k - 1], rest[k])
    OBVIOUS
  <2>1. CASE k = 0
    BY <1>1, <1>4, <2>1
  <2>2. CASE k # 0
    <3>1. k \in 1..n /\ k - 1 \in 0..n /\ k + 1 \in 0..(n + 1) /\ k + 1 # 0
          /\ (k + 1) - 1 = k /\ (k - 1) + 1 = k
      BY <1>1, <2>2
    <3>2. w[k + 1] = ApiApply(w[k], frames[k + 1])
      BY <1>3, <3>1
    <3>3. u[k] = w[k + 1] /\ u[k - 1] = w[k]
      BY <3>1
    <3>. QED BY <1>1, <2>2, <3>1, <3>2, <3>3
  <2>. QED BY <2>1, <2>2
<1>6. Reads(u, first, rest)
  BY <1>5 DEF Reads, n
<1>7. CaughtUp(first, rest) = w[n + 1]
  <2>1. CaughtUp(first, rest) = u[n]
    BY <1>1, <1>6, CaughtUpIs DEF n
  <2>. QED BY <1>1, <2>1
<1>8. CaughtUp(shown, frames) = w[n + 1]
  BY <1>1, <1>2, CaughtUpIs
<1>. QED BY <1>7, <1>8 DEF first, rest
-----------------------------------------------------------------------------
(* The invariant of the server: the streams with what they lead to, and
   what the answers and "never" depend on. *)

ApiRunRecords == [id : 0..MaxRuns, status : {"none", "running", "completed", "failed"}]
ApiToolStatuses == {"none", "running", "completed"}

\* What a stream carries.
ApiFrames ==
  [type : {"run"}, data : ApiRunRecords] \cup [type : {"assistant"}, data : BOOLEAN]
    \cup [type : {"tool"}, data : ApiTools \X ApiToolStatuses]
    \cup [type : {"required"}, data : ApiCalls]
    \cup [type : {"resolved"}, data : SUBSET ApiCalls]
    \cup [type : {"session"}, data : ApiSessions]

ApiStreams ==
  [open : {TRUE}, frames : Seq(ApiFrames), view : Views] \cup {Gone}

\* The streams are what they may be, and lead to the current state.
StreamsAreSound ==
  /\ clients \in [ApiClients -> ApiStreams]
  /\ \A c \in ApiClients : /\ Len(clients[c].frames) <= HighWater
                           /\ clients[c].open \in BOOLEAN
                           /\ clients[c].open => clients[c].view \in Views
  /\ ViewsAreCurrent

ApiCallStates == [kind : ApiKinds, aborted : BOOLEAN,
               answer : {"none", "pending", "continue", "cancel"}]

\* The state but for the streams.
ServerTyped ==
  /\ api \in [closed : BOOLEAN, transition : {"none", "change", "delete"}]
  /\ runtime \in [session : ApiSessions, running : BOOLEAN]
  /\ calls \in [ApiCalls -> ApiCallStates]
  /\ policy \in [mode : ApiModes, trusted : BOOLEAN, never : ApiSessions \cup {"no"}]
  /\ projection \in [run : ApiRunRecords, assistant : BOOLEAN, tools : [ApiTools -> ApiToolStatuses]]
  /\ requests \subseteq [kind : {"message", "fork", "decision"}, session : ApiSessions]
  /\ apiRuns \in 0..MaxRuns

ServerInv == ServerTyped /\ StreamsAreSound /\ PendingIsAsked /\ NeverEndsWithItsSession

\* A server that is closed has no streams left.
ClosedIsSilent == api.closed => \A c \in ApiClients : ~clients[c].open

USE DEF ApiRunRecords, ApiToolStatuses

\* An event makes a view of a view.
LEMMA ApplyIsView ==
  ASSUME NEW shown \in Views, NEW e \in ApiFrames
  PROVE  ApiApply(shown, e) \in Views
<1>1. CASE e \in [type : {"run"}, data : ApiRunRecords]
  BY <1>1 DEF ApiApply, Views, NoTools
<1>2. CASE e \in [type : {"assistant"}, data : BOOLEAN]
  BY <1>2 DEF ApiApply, Views
<1>3. CASE e \in [type : {"tool"}, data : ApiTools \X ApiToolStatuses]
  BY <1>3 DEF ApiApply, Views
<1>4. CASE e \in [type : {"required"}, data : ApiCalls]
  BY <1>4 DEF ApiApply, Views
<1>5. CASE e \in [type : {"resolved"}, data : SUBSET ApiCalls]
  BY <1>5 DEF ApiApply, Views
<1>6. CASE e \in [type : {"session"}, data : ApiSessions]
  <2>1. ApiNoRun \in ApiRunRecords /\ NoTools \in [ApiTools -> ApiToolStatuses]
    BY ServerAssumption DEF ApiNoRun, NoTools
  <2>2. ApiApply(shown, e) = [shown EXCEPT !.session = e.data, !.run = ApiNoRun,
                                         !.assistant = FALSE, !.tools = NoTools]
    BY <1>6 DEF ApiApply
  <2>. QED BY <1>6, <2>1, <2>2 DEF Views
<1>. QED BY <1>1, <1>2, <1>3, <1>4, <1>5, <1>6 DEF ApiFrames

\* What is open is a stream that carries frames.
LEMMA OpenStreamIs ==
  ASSUME NEW s \in ApiStreams
  PROVE  /\ s.open \in BOOLEAN
         /\ ~s.open => s = Gone
         /\ s.open => /\ s \in [open : {TRUE}, frames : Seq(ApiFrames), view : Views]
                      /\ s.frames \in Seq(ApiFrames)
                      /\ Len(s.frames) \in Nat
                      /\ s.view \in Views
<1>1. CASE s \in [open : {TRUE}, frames : Seq(ApiFrames), view : Views]
  <2>1. s.open = TRUE /\ s.frames \in Seq(ApiFrames) /\ s.view \in Views
    BY <1>1
  <2>2. \A q \in Seq(ApiFrames) : Len(q) \in Nat
    OBVIOUS
  <2>. QED BY <1>1, <2>1, <2>2
<1>2. CASE s = Gone
  BY <1>2 DEF Gone
<1>. QED BY <1>1, <1>2 DEF ApiStreams

LEMMA StreamIs ==
  ASSUME ServerInv, NEW c \in ApiClients
  PROVE  /\ clients[c].open \in BOOLEAN
         /\ ~clients[c].open => clients[c] = Gone
         /\ clients[c].open => /\ clients[c] \in [open : {TRUE}, frames : Seq(ApiFrames), view : Views]
                               /\ clients[c].frames \in Seq(ApiFrames)
                               /\ Len(clients[c].frames) \in Nat
                               /\ clients[c].view \in Views
<1>1. clients[c] \in ApiStreams
  BY DEF ServerInv, StreamsAreSound
<1>. QED BY <1>1, OpenStreamIs

\* ApiStreams stay streams, and lead to what the server has come to, when the
\* events sent do.
LEMMA EmitKeeps ==
  ASSUME ServerInv, NEW events \in Seq(ApiFrames), Emit(events),
         \A c \in ApiClients : clients[c].open =>
           CaughtUp(clients[c].view, clients[c].frames \o events) = ApiSnapshot'
  PROVE  StreamsAreSound'
<1>1. ASSUME NEW c \in ApiClients
      PROVE  /\ clients'[c] \in ApiStreams
             /\ clients'[c].open => CaughtUp(clients'[c].view, clients'[c].frames) = ApiSnapshot'
             /\ Len(clients'[c].frames) <= HighWater
  <2>1. clients[c] \in ApiStreams /\ Len(clients[c].frames) <= HighWater
    BY DEF ServerInv, StreamsAreSound
  <2>2. Gone \in ApiStreams /\ ~Gone.open /\ Len(Gone.frames) <= HighWater
    BY ServerAssumption DEF Gone, ApiStreams
  <2>3. CASE ~clients[c].open
    BY <2>1, <2>3 DEF Emit
  <2>4. CASE clients[c].open /\ Len(clients[c].frames) + Len(events) > HighWater
    BY <2>2, <2>4 DEF Emit
  <2>5. CASE clients[c].open /\ ~(Len(clients[c].frames) + Len(events) > HighWater)
    <3>1. clients[c] \in [open : {TRUE}, frames : Seq(ApiFrames), view : Views]
      BY <2>1, <2>2, <2>5 DEF ApiStreams
    <3>2. clients'[c] = [clients[c] EXCEPT !.frames = @ \o events]
      BY <2>5 DEF Emit
    <3>3. clients'[c].frames = clients[c].frames \o events /\ clients'[c].view = clients[c].view
          /\ clients'[c].open
      BY <3>1, <3>2, <2>5
    <3>. DEFINE fs == clients[c].frames
    <3>7. fs \in Seq(ApiFrames)
      BY <3>1
    <3>. HIDE DEF fs
    <3>4. fs \o events \in Seq(ApiFrames) /\ Len(fs \o events) = Len(fs) + Len(events)
      BY <3>7
    <3>5. clients'[c] \in [open : {TRUE}, frames : Seq(ApiFrames), view : Views]
      BY <3>1, <3>2, <3>4 DEF fs
    <3>6. Len(clients[c].frames) \in Nat /\ Len(events) \in Nat
      BY <3>1
    <3>8. clients'[c] \in ApiStreams
      BY <3>5 DEF ApiStreams
    <3>9. Len(clients[c].frames \o events) <= HighWater
      BY <2>5, <3>4, <3>6, ServerAssumption DEF fs
    <3>10. CaughtUp(clients'[c].view, clients'[c].frames)
             = CaughtUp(clients[c].view, clients[c].frames \o events)
      BY <3>3
    <3>11. CaughtUp(clients[c].view, clients[c].frames \o events) = ApiSnapshot'
      BY <2>5
    <3>. QED BY <3>3, <3>8, <3>9, <3>10, <3>11
  <2>. QED BY <2>3, <2>4, <2>5
<1>2. clients' = [c \in ApiClients |-> clients'[c]]
  BY DEF Emit
<1>3. ViewsAreCurrent'
  BY <1>1 DEF ViewsAreCurrent
<1>4. clients' \in [ApiClients -> ApiStreams]
  BY <1>1, <1>2
<1>5. \A c \in ApiClients : /\ clients'[c].open \in BOOLEAN
                            /\ clients'[c].open => clients'[c].view \in Views
  BY <1>1, OpenStreamIs
<1>. QED BY <1>1, <1>3, <1>4, <1>5 DEF StreamsAreSound

LEMMA EmitOne ==
  ASSUME ServerInv, NEW e \in ApiFrames, Emit(<<e>>), ApiSnapshot' = ApiApply(ApiSnapshot, e)
  PROVE  StreamsAreSound'
<1>1. ASSUME NEW c \in ApiClients, clients[c].open
      PROVE  CaughtUp(clients[c].view, clients[c].frames \o <<e>>) = ApiSnapshot'
  <2>1. clients[c].frames \in Seq(ApiFrames)
    BY <1>1, StreamIs
  <2>2. clients[c].frames \o <<e>> = Append(clients[c].frames, e)
    BY <2>1
  <2>3. CaughtUp(clients[c].view, clients[c].frames) = ApiSnapshot
    BY <1>1 DEF ServerInv, StreamsAreSound, ViewsAreCurrent
  <2>4. CaughtUp(clients[c].view, Append(clients[c].frames, e))
          = ApiApply(CaughtUp(clients[c].view, clients[c].frames), e)
    BY <2>1, FrameSent
  <2>. QED BY <2>2, <2>3, <2>4
<1>2. <<e>> \in Seq(ApiFrames)
  OBVIOUS
<1>. QED BY <1>1, <1>2, EmitKeeps

LEMMA EmitTwo ==
  ASSUME ServerInv, NEW d \in ApiFrames, NEW e \in ApiFrames, Emit(<<d, e>>),
         ApiSnapshot' = ApiApply(ApiApply(ApiSnapshot, d), e)
  PROVE  StreamsAreSound'
<1>1. ASSUME NEW c \in ApiClients, clients[c].open
      PROVE  CaughtUp(clients[c].view, clients[c].frames \o <<d, e>>) = ApiSnapshot'
  <2>. DEFINE fs == clients[c].frames
  <2>1. fs \in Seq(ApiFrames)
    BY <1>1, StreamIs
  <2>. HIDE DEF fs
  <2>2. fs \o <<d, e>> = Append(Append(fs, d), e)
    BY <2>1
  <2>5. Append(fs, d) \in Seq(ApiFrames)
    BY <2>1
  <2>3. CaughtUp(clients[c].view, clients[c].frames) = ApiSnapshot
    BY <1>1 DEF ServerInv, StreamsAreSound, ViewsAreCurrent
  <2>4. CaughtUp(clients[c].view, Append(fs, d)) = ApiApply(ApiSnapshot, d)
    BY <2>1, <2>3, FrameSent DEF fs
  <2>. DEFINE gs == Append(fs, d)
  <2>7. gs \in Seq(ApiFrames)
    BY <2>5
  <2>8. CaughtUp(clients[c].view, gs) = ApiApply(ApiSnapshot, d)
    BY <2>4
  <2>. HIDE DEF gs
  <2>6. CaughtUp(clients[c].view, Append(gs, e)) = ApiApply(CaughtUp(clients[c].view, gs), e)
    BY <2>7, FrameSent
  <2>. QED BY <2>2, <2>6, <2>8 DEF fs, gs
<1>2. <<d, e>> \in Seq(ApiFrames)
  OBVIOUS
<1>. QED BY <1>1, <1>2, EmitKeeps
-----------------------------------------------------------------------------
(* Every step keeps the invariant. *)

LEMMA ServerBegins == ServerInit => ServerInv
<1>. SUFFICES ASSUME ServerInit PROVE ServerInv
  OBVIOUS
<1>1. PICK k \in [ApiCalls -> ApiKinds] :
        calls = [c \in ApiCalls |-> [kind |-> k[c], aborted |-> FALSE, answer |-> "none"]]
  BY DEF ServerInit
<1>2. PendingApprovals = {}
  BY <1>1 DEF PendingApprovals
<1>3. clients \in [ApiClients -> ApiStreams] /\ \A c \in ApiClients : clients[c].open = FALSE /\ Len(clients[c].frames) = 0
  BY DEF ServerInit, ApiStreams, Gone
<1>4. calls \in [ApiCalls -> ApiCallStates]
  BY <1>1 DEF ApiCallStates
<1>5. projection \in [run : ApiRunRecords, assistant : BOOLEAN, tools : [ApiTools -> ApiToolStatuses]]
  BY ServerAssumption DEF ServerInit, ApiNoRun, NoTools
<1>6. ServerTyped
  BY <1>4, <1>5, ServerAssumption DEF ServerInit, ServerTyped
<1>7. StreamsAreSound
  <2>1. \A c \in ApiClients : Len(clients[c].frames) <= HighWater
    BY <1>3, ServerAssumption
  <2>2. \A c \in ApiClients : clients[c].open \in BOOLEAN /\ ~clients[c].open
    BY <1>3
  <2>. QED BY <1>3, <2>1, <2>2 DEF StreamsAreSound, ViewsAreCurrent
<1>8. NeverEndsWithItsSession
  BY DEF ServerInit, NeverEndsWithItsSession
<1>. QED BY <1>2, <1>6, <1>7, <1>8 DEF ServerInv, PendingIsAsked

\* A step that leaves alone what the streams tell.
LEMMA ServerSilent ==
  ASSUME ServerInv, UNCHANGED <<clients, projection>>, runtime'.session = runtime.session,
         PendingApprovals' = PendingApprovals
  PROVE  StreamsAreSound'
<1>1. ApiSnapshot' = ApiSnapshot
  BY DEF ApiSnapshot
<1>. QED BY <1>1 DEF ServerInv, StreamsAreSound, ViewsAreCurrent

\* Calls that are answered keep what they are.
LEMMA AnsweredAre ==
  ASSUME ServerInv, NEW set, NEW answer \in {"none", "pending", "continue", "cancel"},
         calls' = Answered(set, answer)
  PROVE  /\ calls' \in [ApiCalls -> ApiCallStates]
         /\ PendingApprovals' = IF answer = "pending" THEN PendingApprovals \cup (set \cap ApiCalls)
                                ELSE PendingApprovals \ set
         /\ \A d \in ApiCalls : calls'[d].kind = calls[d].kind /\ calls'[d].aborted = calls[d].aborted
BY DEF ServerInv, ServerTyped, ApiCallStates, PendingApprovals, Answered

\* Those who wait still have to be asked, if nobody joins them.
LEMMA StillAsked ==
  ASSUME ServerInv, UNCHANGED <<api, policy>>, PendingApprovals' \subseteq PendingApprovals,
         \A d \in PendingApprovals' : calls'[d].kind = calls[d].kind /\ calls'[d].aborted = calls[d].aborted
  PROVE  PendingIsAsked'
BY DEF ServerInv, PendingIsAsked, Requires

LEMMA RequestApprovalKeeps ==
  ASSUME ServerInv, NEW c \in ApiCalls, RequestApproval(c)
  PROVE  ServerInv'
<1>1. calls[c].answer = "none" /\ c \notin PendingApprovals
  BY DEF RequestApproval, PendingApprovals
<1>. USE DEF RequestApproval
<1>2. NeverEndsWithItsSession'
  BY DEF NeverEndsWithItsSession, ServerInv
<1>3. CASE calls' = Answered({c}, "pending") /\ Emit(Event("required", c))
           /\ ~api.closed /\ ~calls[c].aborted /\ Requires(calls[c].kind, policy.trusted, policy.never # "no")
  <2>1. /\ PendingApprovals' = PendingApprovals \cup {c}
        /\ calls' \in [ApiCalls -> ApiCallStates]
        /\ \A d \in ApiCalls : calls'[d].kind = calls[d].kind /\ calls'[d].aborted = calls[d].aborted
    BY <1>3, AnsweredAre
  <2>. DEFINE e == [type |-> "required", data |-> c]
  <2>2. e \in ApiFrames /\ Emit(<<e>>)
    BY <1>3 DEF ApiFrames, Event
  <2>3. ApiSnapshot' = ApiApply(ApiSnapshot, e)
    BY <2>1 DEF ApiSnapshot, ApiApply
  <2>. HIDE DEF e
  <2>4. StreamsAreSound'
    BY <2>2, <2>3, EmitOne
  <2>5. ServerTyped'
    BY <2>1 DEF ServerTyped, ServerInv
  <2>6. ASSUME NEW d \in PendingApprovals'
        PROVE  ~calls'[d].aborted /\ ~api'.closed /\ Requires(calls[d].kind, policy.trusted, policy.never # "no")
    <3>1. d \in ApiCalls
      BY DEF PendingApprovals
    <3>2. CASE d = c
      BY <1>3, <2>1, <3>1, <3>2
    <3>3. CASE d \in PendingApprovals
      BY <2>1, <3>1, <3>3 DEF ServerInv, PendingIsAsked
    <3>. QED BY <2>1, <3>2, <3>3
  <2>7. PendingIsAsked'
    BY <2>1, <2>6 DEF PendingIsAsked, Requires, PendingApprovals
  <2>. QED BY <1>2, <2>4, <2>5, <2>7 DEF ServerInv
<1>4. ASSUME NEW answer \in {"continue", "cancel"}, calls' = Answered({c}, answer), UNCHANGED clients
      PROVE  ServerInv'
  <2>. answer \in {"none", "pending", "continue", "cancel"} /\ answer # "pending"
    OBVIOUS
  <2>5. /\ PendingApprovals' = PendingApprovals \ {c}
        /\ calls' \in [ApiCalls -> ApiCallStates]
        /\ \A d \in ApiCalls : calls'[d].kind = calls[d].kind /\ calls'[d].aborted = calls[d].aborted
    BY <1>4, AnsweredAre
  <2>1. /\ PendingApprovals' = PendingApprovals
        /\ calls' \in [ApiCalls -> ApiCallStates]
        /\ \A d \in ApiCalls : calls'[d].kind = calls[d].kind /\ calls'[d].aborted = calls[d].aborted
    BY <1>1, <2>5
  <2>2. StreamsAreSound'
    BY <1>4, <2>1, ServerSilent
  <2>3. ServerTyped'
    BY <2>1 DEF ServerTyped, ServerInv
  <2>4. PendingIsAsked'
    BY <2>1, StillAsked DEF PendingApprovals
  <2>. QED BY <1>2, <2>2, <2>3, <2>4 DEF ServerInv
<1>. QED BY <1>3, <1>4

\* An approval is resolved, or a call without one aborted.
LEMMA AbortCallKeeps ==
  ASSUME ServerInv, NEW c \in ApiCalls, AbortCall(c)
  PROVE  ServerInv'
<1>. USE DEF AbortCall
<1>1. calls \in [ApiCalls -> ApiCallStates]
  BY DEF ServerInv, ServerTyped
<1>2. NeverEndsWithItsSession'
  BY DEF NeverEndsWithItsSession, ServerInv
<1>3. CASE c \in PendingApprovals
  <2>1. /\ PendingApprovals' = PendingApprovals \ {c}
        /\ calls' \in [ApiCalls -> ApiCallStates]
        /\ \A d \in ApiCalls \ {c} : calls'[d] = calls[d]
    BY <1>1, <1>3 DEF PendingApprovals, ApiCallStates
  <2>. DEFINE e == [type |-> "resolved", data |-> {c}]
  <2>2. e \in ApiFrames
    BY DEF ApiFrames
  <2>3. Emit(<<e>>)
    BY <1>3 DEF Resolved, Event
  <2>4. ApiSnapshot' = ApiApply(ApiSnapshot, e)
    BY <2>1 DEF ApiSnapshot, ApiApply
  <2>. HIDE DEF e
  <2>5. StreamsAreSound'
    BY <2>2, <2>3, <2>4, EmitOne
  <2>6. ServerTyped'
    BY <2>1 DEF ServerTyped, ServerInv
  <2>7. PendingIsAsked'
    BY <2>1, StillAsked DEF PendingApprovals
  <2>. QED BY <1>2, <2>5, <2>6, <2>7 DEF ServerInv
<1>4. CASE c \notin PendingApprovals
  <2>5. calls' = [calls EXCEPT ![c].aborted = TRUE]
    BY <1>4
  <2>6. calls' \in [ApiCalls -> ApiCallStates] /\ \A d \in ApiCalls : calls'[d].answer = calls[d].answer
    BY <1>1, <2>5 DEF ApiCallStates
  <2>1. /\ PendingApprovals' = PendingApprovals
        /\ calls' \in [ApiCalls -> ApiCallStates]
        /\ \A d \in ApiCalls \ {c} : calls'[d] = calls[d]
    BY <1>1, <2>5, <2>6 DEF PendingApprovals
  <2>2. StreamsAreSound'
    BY <1>4, <2>1, ServerSilent
  <2>3. ServerTyped'
    BY <1>4, <2>1 DEF ServerTyped, ServerInv
  <2>4. PendingIsAsked'
    BY <1>4, <2>1, StillAsked DEF PendingApprovals
  <2>. QED BY <1>2, <2>2, <2>3, <2>4 DEF ServerInv
<1>. QED BY <1>3, <1>4

\* Those whom a decision does not free still have to be asked.
LEMMA DecideKeeps ==
  ASSUME ServerInv, NEW c \in ApiCalls, NEW decision \in Decisions, Decide(c, decision),
         ~api.closed, UNCHANGED <<api, runtime, projection, apiRuns>>, requests' \subseteq requests
  PROVE  ServerInv'
<1>0. calls \in [ApiCalls -> ApiCallStates] /\ policy.trusted \in BOOLEAN
  BY DEF ServerInv, ServerTyped
<1>1. CASE UNCHANGED <<calls, policy, clients>>
  <2>1. PendingApprovals' = PendingApprovals
    BY <1>1 DEF PendingApprovals
  <2>2. StreamsAreSound'
    BY <1>1, <2>1, ServerSilent
  <2>3. ServerTyped'
    BY <1>1 DEF ServerTyped, ServerInv
  <2>4. PendingIsAsked'
    BY <1>1, <2>1, StillAsked
  <2>5. NeverEndsWithItsSession'
    BY <1>1 DEF NeverEndsWithItsSession, ServerInv
  <2>. QED BY <2>2, <2>3, <2>4, <2>5 DEF ServerInv
<1>2. CASE ~UNCHANGED <<calls, policy, clients>>
  <2>. DEFINE freed == Freed(c, decision)
              e == [type |-> "resolved", data |-> freed \cup {c}]
  <2>1. c \in PendingApprovals /\ freed \subseteq PendingApprovals \ {c} /\ freed \subseteq ApiCalls
    BY <1>2 DEF Decide, Freed, PendingApprovals
  <2>2. /\ policy' = [policy EXCEPT !.trusted = @ \/ decision = "always",
                                    !.never = IF decision = "never" THEN runtime.session ELSE @]
        /\ calls' = [d \in ApiCalls |->
                   IF d \in freed \/ (d = c /\ decision # "reject")
                   THEN [calls[d] EXCEPT !.answer = "continue"]
                   ELSE IF d = c THEN [calls[d] EXCEPT !.answer = "cancel"]
                   ELSE calls[d]]
        /\ Emit(Resolved(freed \cup {c}))
    BY <1>2 DEF Decide
  <2>. HIDE DEF freed
  <2>3. /\ PendingApprovals' = PendingApprovals \ (freed \cup {c})
        /\ calls' \in [ApiCalls -> ApiCallStates]
        /\ \A d \in ApiCalls : calls'[d].kind = calls[d].kind /\ calls'[d].aborted = calls[d].aborted
    BY <1>0, <2>1, <2>2 DEF PendingApprovals, ApiCallStates
  <2>4. e \in ApiFrames
    BY <2>1 DEF ApiFrames
  <2>5. Emit(<<e>>)
    BY <2>2 DEF Resolved, Event
  <2>6. ApiSnapshot' = ApiApply(ApiSnapshot, e)
    BY <2>3 DEF ApiSnapshot, ApiApply
  <2>. HIDE DEF e
  <2>7. StreamsAreSound'
    BY <2>4, <2>5, <2>6, EmitOne
  <2>8. /\ policy' \in [mode : ApiModes, trusted : BOOLEAN, never : ApiSessions \cup {"no"}]
        /\ policy'.mode = policy.mode
        /\ policy'.trusted <=> policy.trusted \/ decision = "always"
        /\ policy'.never # "no" <=> policy.never # "no" \/ decision = "never"
        /\ policy'.never \in {policy.never, runtime.session}
    BY <2>2, ServerAssumption DEF ServerInv, ServerTyped
  <2>9. ServerTyped'
    BY <2>3, <2>8 DEF ServerTyped, ServerInv
  <2>10. NeverEndsWithItsSession'
    BY <2>8 DEF NeverEndsWithItsSession, ServerInv
  <2>11. ASSUME NEW d \in PendingApprovals'
         PROVE  /\ d \in ApiCalls /\ ~calls[d].aborted
                /\ Requires(calls[d].kind, policy.trusted \/ decision = "always",
                            policy.never # "no" \/ decision = "never")
    <3>1. d \in PendingApprovals \ (freed \cup {c})
      BY <2>3
    <3>2. d \in ApiCalls /\ ~calls[d].aborted /\ Requires(calls[d].kind, policy.trusted, policy.never # "no")
      BY <3>1 DEF ServerInv, PendingIsAsked, PendingApprovals
    <3>3. CASE decision \in {"always", "never"}
      BY <3>1, <3>2, <3>3 DEF freed, Freed
    <3>4. CASE decision \notin {"always", "never"}
      BY <3>2, <3>4 DEF Requires
    <3>. QED BY <3>2, <3>3, <3>4
  <2>12. PendingIsAsked'
    BY <2>3, <2>8, <2>11 DEF PendingIsAsked, Requires
  <2>. QED BY <2>7, <2>9, <2>10, <2>12 DEF ServerInv
<1>. QED BY <1>1, <1>2

LEMMA HandleDecisionKeeps ==
  ASSUME ServerInv, NEW r \in requests, NEW c \in ApiCalls, NEW decision \in Decisions,
         HandleDecision(r, c, decision)
  PROVE  ServerInv'
<1>1. UNCHANGED <<api, runtime, projection, apiRuns>> /\ requests' \subseteq requests
  BY DEF HandleDecision
<1>2. CASE MayAct(r)
  BY <1>1, <1>2, DecideKeeps DEF HandleDecision, MayAct
<1>3. CASE ~MayAct(r)
  <2>1. UNCHANGED <<calls, policy, clients>>
    BY <1>3 DEF HandleDecision
  <2>2. PendingApprovals' = PendingApprovals
    BY <2>1 DEF PendingApprovals
  <2>3. StreamsAreSound'
    BY <1>1, <2>1, <2>2, ServerSilent
  <2>4. PendingIsAsked'
    BY <1>1, <2>1, <2>2, StillAsked
  <2>5. ServerTyped' /\ NeverEndsWithItsSession'
    BY <1>1, <2>1 DEF ServerTyped, ServerInv, NeverEndsWithItsSession
  <2>. QED BY <2>3, <2>4, <2>5 DEF ServerInv
<1>. QED BY <1>2, <1>3

\* A step of the run: an event that the projection follows.
LEMMA ProjectedKeeps ==
  ASSUME ServerInv, UNCHANGED <<api, calls, policy>>, requests' \subseteq requests,
         apiRuns' \in 0..MaxRuns, NEW running \in BOOLEAN,
         runtime' = [runtime EXCEPT !.running = running],
         projection' \in [run : ApiRunRecords, assistant : BOOLEAN, tools : [ApiTools -> ApiToolStatuses]],
         NEW e \in ApiFrames, Emit(<<e>>),
         ApiApply(ApiSnapshot, e) = [ApiSnapshot EXCEPT !.run = projection'.run,
           !.assistant = projection'.assistant, !.tools = projection'.tools]
  PROVE  ServerInv'
<1>1. PendingApprovals' = PendingApprovals
  BY DEF PendingApprovals
<1>2. runtime' \in [session : ApiSessions, running : BOOLEAN] /\ runtime'.session = runtime.session
  BY DEF ServerInv, ServerTyped
<1>3. ApiSnapshot' = ApiApply(ApiSnapshot, e)
  BY <1>1, <1>2 DEF ApiSnapshot
<1>4. StreamsAreSound'
  BY <1>3, EmitOne
<1>5. PendingIsAsked'
  BY <1>1, StillAsked
<1>6. ServerTyped' /\ NeverEndsWithItsSession'
  BY <1>2 DEF ServerTyped, ServerInv, NeverEndsWithItsSession
<1>. QED BY <1>4, <1>5, <1>6 DEF ServerInv

LEMMA StartedKeeps ==
  ASSUME ServerInv, Started, UNCHANGED <<api, calls, policy>>, requests' \subseteq requests
  PROVE  ServerInv'
<1>. DEFINE e == [type |-> "run", data |-> projection'.run]
<1>1. apiRuns \in 0..MaxRuns /\ apiRuns + 1 \in 0..MaxRuns /\ MaxRuns \in Nat
  BY ServerAssumption DEF Started, ServerInv, ServerTyped
<1>2. projection' = [run |-> [id |-> apiRuns + 1, status |-> "running"],
                     assistant |-> FALSE, tools |-> NoTools]
  BY DEF Started
<1>3. projection' \in [run : ApiRunRecords, assistant : BOOLEAN, tools : [ApiTools -> ApiToolStatuses]]
  BY <1>1, <1>2 DEF NoTools
<1>4. e \in ApiFrames
  BY <1>3 DEF ApiFrames
<1>5. ApiApply(ApiSnapshot, e) = [ApiSnapshot EXCEPT !.run = projection'.run,
           !.assistant = projection'.assistant, !.tools = projection'.tools]
  BY <1>2 DEF ApiApply, ApiSnapshot
<1>6. Emit(<<e>>)
  BY DEF Started, Event
<1>. HIDE DEF e
<1>7. runtime' = [runtime EXCEPT !.running = TRUE] /\ apiRuns' \in 0..MaxRuns
  BY <1>1 DEF Started
<1>. QED BY <1>3, <1>4, <1>5, <1>6, <1>7, ProjectedKeeps

\* A step that changes requests and transitions, and nothing they are about.
LEMMA RequestsKeep ==
  ASSUME ServerInv, UNCHANGED <<runtime, calls, policy, projection, clients, apiRuns>>,
         api' \in [closed : BOOLEAN, transition : {"none", "change", "delete"}],
         api'.closed = api.closed,
         requests' \subseteq [kind : {"message", "fork", "decision"}, session : ApiSessions]
  PROVE  ServerInv'
<1>1. PendingApprovals' = PendingApprovals
  BY DEF PendingApprovals
<1>2. StreamsAreSound'
  BY <1>1, ServerSilent
<1>3. PendingIsAsked'
  BY <1>1 DEF PendingIsAsked, ServerInv, Requires
<1>4. ServerTyped' /\ NeverEndsWithItsSession'
  BY DEF ServerTyped, ServerInv, NeverEndsWithItsSession
<1>. QED BY <1>2, <1>3, <1>4 DEF ServerInv

LEMMA AssistantEventKeeps ==
  ASSUME ServerInv, AssistantEvent
  PROVE  ServerInv'
<1>. DEFINE b == ~projection.assistant
            e == [type |-> "assistant", data |-> b]
<1>1. projection \in [run : ApiRunRecords, assistant : BOOLEAN, tools : [ApiTools -> ApiToolStatuses]]
      /\ apiRuns \in 0..MaxRuns /\ runtime.running = TRUE
      /\ runtime \in [session : ApiSessions, running : BOOLEAN]
  BY DEF ServerInv, ServerTyped, AssistantEvent
<1>2. projection' = [projection EXCEPT !.assistant = ~@] /\ Emit(<<e>>)
  BY DEF AssistantEvent, Event
<1>9. b \in BOOLEAN /\ projection' = [projection EXCEPT !.assistant = b]
  BY <1>1, <1>2
<1>. HIDE DEF b
<1>3. projection' \in [run : ApiRunRecords, assistant : BOOLEAN, tools : [ApiTools -> ApiToolStatuses]]
  BY <1>1, <1>9
<1>4. e \in ApiFrames
  BY <1>9 DEF ApiFrames
<1>8. projection'.run = projection.run /\ projection'.assistant = b
      /\ projection'.tools = projection.tools
  BY <1>1, <1>9
<1>5. ApiApply(ApiSnapshot, e) = [ApiSnapshot EXCEPT !.run = projection'.run,
           !.assistant = projection'.assistant, !.tools = projection'.tools]
  <2>1. ApiApply(ApiSnapshot, e) = [ApiSnapshot EXCEPT !.assistant = b]
    BY DEF ApiApply
  <2>. QED BY <1>8, <2>1 DEF ApiSnapshot
<1>. HIDE DEF e
<1>6. runtime' = [runtime EXCEPT !.running = TRUE] /\ apiRuns' \in 0..MaxRuns
  BY <1>1 DEF AssistantEvent
<1>7. UNCHANGED <<api, calls, policy>> /\ requests' \subseteq requests
  BY DEF AssistantEvent
<1>. QED BY <1>2, <1>3, <1>4, <1>5, <1>6, <1>7, ProjectedKeeps

LEMMA ToolEventKeeps ==
  ASSUME ServerInv, NEW t \in ApiTools, ToolEvent(t)
  PROVE  ServerInv'
<1>. DEFINE n == IF projection.tools[t] = "none" THEN "running" ELSE "completed"
            e == [type |-> "tool", data |-> <<t, n>>]
<1>1. projection \in [run : ApiRunRecords, assistant : BOOLEAN, tools : [ApiTools -> ApiToolStatuses]]
      /\ apiRuns \in 0..MaxRuns /\ runtime.running = TRUE
      /\ runtime \in [session : ApiSessions, running : BOOLEAN]
  BY DEF ServerInv, ServerTyped, ToolEvent
<1>2. projection' = [projection EXCEPT !.tools[t] = n] /\ Emit(<<e>>)
  BY DEF ToolEvent, Event
<1>3. projection' \in [run : ApiRunRecords, assistant : BOOLEAN, tools : [ApiTools -> ApiToolStatuses]]
  BY <1>1, <1>2
<1>4. e \in ApiFrames
  BY DEF ApiFrames
<1>8. projection'.run = projection.run /\ projection'.assistant = projection.assistant
      /\ projection'.tools = [projection.tools EXCEPT ![t] = n]
  BY <1>1, <1>2
<1>5. ApiApply(ApiSnapshot, e) = [ApiSnapshot EXCEPT !.run = projection'.run,
           !.assistant = projection'.assistant, !.tools = projection'.tools]
  <2>1. ApiApply(ApiSnapshot, e) = [ApiSnapshot EXCEPT !.tools[t] = n]
    BY DEF ApiApply
  <2>. QED BY <1>8, <2>1 DEF ApiSnapshot
<1>. HIDE DEF e
<1>6. runtime' = [runtime EXCEPT !.running = TRUE] /\ apiRuns' \in 0..MaxRuns
  BY <1>1 DEF ToolEvent
<1>7. UNCHANGED <<api, calls, policy>> /\ requests' \subseteq requests
  BY DEF ToolEvent
<1>. QED BY <1>2, <1>3, <1>4, <1>5, <1>6, <1>7, ProjectedKeeps

LEMMA RunEndsKeeps ==
  ASSUME ServerInv, NEW st \in {"completed", "failed"}, ApiRunEnds(st)
  PROVE  ServerInv'
<1>1. projection \in [run : ApiRunRecords, assistant : BOOLEAN, tools : [ApiTools -> ApiToolStatuses]]
      /\ apiRuns \in 0..MaxRuns
      /\ runtime \in [session : ApiSessions, running : BOOLEAN]
  BY DEF ServerInv, ServerTyped
<1>2. UNCHANGED <<api, calls, policy, requests, apiRuns>> /\ runtime' = [runtime EXCEPT !.running = FALSE]
  BY DEF ApiRunEnds
<1>3. CASE api.closed
  <2>1. UNCHANGED <<projection, clients>>
    BY <1>3 DEF ApiRunEnds
  <2>2. PendingApprovals' = PendingApprovals
    BY <1>2 DEF PendingApprovals
  <2>3. runtime' \in [session : ApiSessions, running : BOOLEAN] /\ runtime'.session = runtime.session
    BY <1>1, <1>2
  <2>4. StreamsAreSound'
    BY <2>1, <2>2, <2>3, ServerSilent
  <2>5. PendingIsAsked'
    BY <1>2, <2>2, StillAsked
  <2>6. ServerTyped' /\ NeverEndsWithItsSession'
    BY <1>2, <2>1, <2>3 DEF ServerTyped, ServerInv, NeverEndsWithItsSession
  <2>. QED BY <2>4, <2>5, <2>6 DEF ServerInv
<1>4. CASE ~api.closed
  <2>. DEFINE e == [type |-> "run", data |-> projection'.run]
  <2>1. projection' = [projection EXCEPT !.run.status = st] /\ Emit(<<e>>)
    BY <1>4 DEF ApiRunEnds, Event
  <2>2. projection' \in [run : ApiRunRecords, assistant : BOOLEAN, tools : [ApiTools -> ApiToolStatuses]]
        /\ projection'.run.status = st /\ projection'.assistant = projection.assistant
        /\ projection'.tools = projection.tools
    BY <1>1, <2>1
  <2>3. e \in ApiFrames
    BY <2>2 DEF ApiFrames
  <2>4. ApiApply(ApiSnapshot, e) = [ApiSnapshot EXCEPT !.run = projection'.run,
           !.assistant = projection'.assistant, !.tools = projection'.tools]
    BY <2>2 DEF ApiApply, ApiSnapshot
  <2>. HIDE DEF e
  <2>5. apiRuns' \in 0..MaxRuns /\ requests' \subseteq requests
    BY <1>1, <1>2
  <2>. QED BY <1>2, <2>1, <2>2, <2>3, <2>4, <2>5, ProjectedKeeps
<1>. QED BY <1>3, <1>4

LEMMA TwoFrames ==
  ASSUME NEW d, NEW e
  PROVE  <<d>> \o <<e>> = <<d, e>>
<1>. DEFINE fs == <<d>>
<1>1. fs \in Seq({d, e}) /\ fs = <<d>>
  OBVIOUS
<1>. HIDE DEF fs
<1>2. Len(fs) = 1 /\ fs[1] = d
  BY <1>1
<1>3. fs \o <<e>> \in Seq({d, e}) /\ Len(fs \o <<e>>) = 2
      /\ (fs \o <<e>>)[1] = d /\ (fs \o <<e>>)[2] = e
  BY <1>1, <1>2
<1>4. <<d, e>> \in Seq({d, e}) /\ Len(<<d, e>>) = 2 /\ <<d, e>>[1] = d /\ <<d, e>>[2] = e
  OBVIOUS
<1>. DEFINE gs == fs \o <<e>>
            hs == <<d, e>>
<1>. HIDE DEF gs, hs
<1>5. gs = hs
  <2>1. gs \in Seq({d, e}) /\ hs \in Seq({d, e}) /\ Len(gs) = 2 /\ Len(hs) = 2
    BY <1>3, <1>4 DEF gs, hs
  <2>2. \A i \in 1..2 : gs[i] = hs[i]
    BY <1>3, <1>4 DEF gs, hs
  <2>. QED BY <2>1, <2>2, SeqEqual
<1>. QED BY <1>1, <1>5 DEF gs, hs

\* A session change leaves no approval of the old session.
LEMMA SessionChangesKeeps ==
  ASSUME ServerInv, ClosedIsSilent, NEW s \in ApiSessions, SessionChanges(s)
  PROVE  ServerInv'
<1>1. /\ api \in [closed : BOOLEAN, transition : {"none", "change", "delete"}]
      /\ runtime \in [session : ApiSessions, running : BOOLEAN]
      /\ policy \in [mode : ApiModes, trusted : BOOLEAN, never : ApiSessions \cup {"no"}]
  BY DEF ServerInv, ServerTyped
<1>2. /\ api' = [api EXCEPT !.transition = "none"]
      /\ runtime' = [runtime EXCEPT !.session = s]
      /\ UNCHANGED <<requests, apiRuns>>
  BY DEF SessionChanges
<1>3. /\ api' \in [closed : BOOLEAN, transition : {"none", "change", "delete"}]
      /\ runtime' \in [session : ApiSessions, running : BOOLEAN]
      /\ runtime'.session = s /\ api'.closed = api.closed
  BY <1>1, <1>2
<1>4. CASE api.closed
  <2>1. UNCHANGED <<calls, policy, projection, clients>>
    BY <1>4 DEF SessionChanges
  <2>2. PendingApprovals = {} /\ PendingApprovals' = {}
    BY <1>4, <2>1 DEF ServerInv, PendingIsAsked, PendingApprovals
  <2>3. policy.never = "no"
    BY <1>4 DEF ServerInv, NeverEndsWithItsSession
  <2>4. \A c \in ApiClients : ~clients[c].open
    BY <1>4 DEF ClosedIsSilent
  <2>5. StreamsAreSound'
    BY <2>1, <2>4 DEF ServerInv, StreamsAreSound, ViewsAreCurrent
  <2>. QED BY <1>2, <1>3, <2>1, <2>2, <2>3, <2>5 DEF ServerInv, ServerTyped, PendingIsAsked, NeverEndsWithItsSession
<1>5. CASE ~api.closed
  <2>1. /\ calls' = Answered(PendingApprovals, "cancel")
        /\ policy' = AfterReset
        /\ projection' = [run |-> ApiNoRun, assistant |-> FALSE, tools |-> NoTools]
        /\ Emit(Resolved(PendingApprovals) \o Event("session", s))
    BY <1>5 DEF SessionChanges
  <2>2. PendingApprovals' = {} /\ calls' \in [ApiCalls -> ApiCallStates]
    <3>1. "cancel" \in {"none", "pending", "continue", "cancel"} /\ "cancel" # "pending"
      OBVIOUS
    <3>. QED BY <2>1, <3>1, AnsweredAre
  <2>3. policy' \in [mode : ApiModes, trusted : BOOLEAN, never : ApiSessions \cup {"no"}]
        /\ policy'.never = "no"
    BY <1>1, <2>1 DEF AfterReset
  <2>4. ApiNoRun \in ApiRunRecords /\ NoTools \in [ApiTools -> ApiToolStatuses]
    BY ServerAssumption DEF ApiNoRun, NoTools
  <2>5. ServerTyped' /\ NeverEndsWithItsSession' /\ PendingIsAsked'
    BY <1>2, <1>3, <2>1, <2>2, <2>3, <2>4
       DEF ServerInv, ServerTyped, NeverEndsWithItsSession, PendingIsAsked
  <2>. DEFINE d == [type |-> "resolved", data |-> PendingApprovals]
              e == [type |-> "session", data |-> s]
  <2>6. d \in ApiFrames /\ e \in ApiFrames
    BY DEF ApiFrames, PendingApprovals
  <2>7. ApiSnapshot' = [session |-> s, run |-> ApiNoRun, assistant |-> FALSE, tools |-> NoTools,
                        approvals |-> {}]
    BY <1>3, <2>1, <2>2 DEF ApiSnapshot
  <2>8. CASE PendingApprovals = {}
    <3>1. Emit(<<e>>)
      BY <2>1, <2>8 DEF Resolved, Event
    <3>2. ApiSnapshot' = ApiApply(ApiSnapshot, e)
      BY <2>7, <2>8 DEF ApiApply, ApiSnapshot
    <3>. HIDE DEF e
    <3>3. StreamsAreSound'
      BY <2>6, <3>1, <3>2, EmitOne
    <3>. QED BY <2>5, <3>3 DEF ServerInv
  <2>9. CASE PendingApprovals # {}
    <3>1. Emit(<<d>> \o <<e>>)
      BY <2>1, <2>9 DEF Resolved, Event
    <3>2. ApiSnapshot' = ApiApply(ApiApply(ApiSnapshot, d), e)
      <4>1. ApiApply(ApiSnapshot, d) = [ApiSnapshot EXCEPT !.approvals = {}]
        BY DEF ApiApply, ApiSnapshot
      <4>. QED BY <2>7, <4>1 DEF ApiApply, ApiSnapshot
    <3>4. <<d>> \o <<e>> = <<d, e>>
      BY TwoFrames
    <3>. HIDE DEF d, e
    <3>3. StreamsAreSound'
      BY <2>6, <3>1, <3>2, <3>4, EmitTwo
    <3>. QED BY <2>5, <3>3 DEF ServerInv
  <2>. QED BY <2>8, <2>9
<1>. QED BY <1>4, <1>5

LEMMA ConnectKeeps ==
  ASSUME ServerInv, NEW c \in ApiClients, Connect(c)
  PROVE  ServerInv'
<1>1. UNCHANGED <<api, runtime, calls, policy, projection, requests, apiRuns>>
  BY DEF Connect
<1>. DEFINE new == [open |-> TRUE, frames |-> <<>>, view |-> ApiSnapshot]
<1>2. clients' = [clients EXCEPT ![c] = new] /\ clients \in [ApiClients -> ApiStreams]
  BY DEF Connect, ServerInv, StreamsAreSound
<1>3. ApiSnapshot \in Views /\ ApiSnapshot' = ApiSnapshot
  BY <1>1 DEF ApiSnapshot, Views, ServerInv, ServerTyped, PendingApprovals
<1>4. new \in ApiStreams
  BY <1>3 DEF ApiStreams
<1>5. clients' \in [ApiClients -> ApiStreams]
  BY <1>2, <1>4
<1>6. CaughtUp(new.view, new.frames) = ApiSnapshot
  BY NothingLeft
<1>7. ASSUME NEW d \in ApiClients
      PROVE  /\ Len(clients'[d].frames) <= HighWater
             /\ clients'[d].open \in BOOLEAN
             /\ clients'[d].open => clients'[d].view \in Views
             /\ clients'[d].open => CaughtUp(clients'[d].view, clients'[d].frames) = ApiSnapshot'
  <2>1. CASE d = c
    <3>1. clients'[d] = new
      BY <1>2, <2>1
    <3>2. Len(new.frames) = 0 /\ new.open = TRUE /\ new.view = ApiSnapshot
      OBVIOUS
    <3>. HIDE DEF new
    <3>3. Len(clients'[d].frames) <= HighWater
      BY <3>1, <3>2, ServerAssumption
    <3>4. clients'[d].open \in BOOLEAN /\ clients'[d].view \in Views
      BY <1>3, <3>1, <3>2
    <3>5. CaughtUp(clients'[d].view, clients'[d].frames) = ApiSnapshot'
      BY <1>3, <1>6, <3>1
    <3>. QED BY <3>3, <3>4, <3>5
  <2>2. CASE d # c
    <3>1. clients'[d] = clients[d]
      BY <1>2, <2>2
    <3>. QED BY <1>3, <3>1 DEF ServerInv, StreamsAreSound, ViewsAreCurrent
  <2>. QED BY <2>1, <2>2
<1>8. StreamsAreSound'
  BY <1>5, <1>7 DEF StreamsAreSound, ViewsAreCurrent
<1>9. PendingIsAsked' /\ ServerTyped' /\ NeverEndsWithItsSession'
  BY <1>1 DEF ServerInv, PendingIsAsked, PendingApprovals, Requires, ServerTyped, NeverEndsWithItsSession
<1>. QED BY <1>8, <1>9 DEF ServerInv

LEMMA ReadFrameKeeps ==
  ASSUME ServerInv, NEW c \in ApiClients, ReadFrame(c)
  PROVE  ServerInv'
<1>1. UNCHANGED <<api, runtime, calls, policy, projection, requests, apiRuns>>
  BY DEF ReadFrame
<1>2. clients \in [ApiClients -> ApiStreams] /\ clients[c].frames # <<>>
  BY DEF ReadFrame, ServerInv, StreamsAreSound
<1>3. clients[c].open
  <2>1. CASE clients[c] = Gone
    BY <1>2, <2>1 DEF Gone
  <2>. QED BY <2>1, StreamIs
<1>4. clients[c] \in [open : {TRUE}, frames : Seq(ApiFrames), view : Views]
      /\ clients[c].frames \in Seq(ApiFrames) /\ clients[c].view \in Views
  BY <1>3, StreamIs
<1>. DEFINE fs == clients[c].frames
            shown == ApiApply(clients[c].view, Head(fs))
            new == [clients[c] EXCEPT !.view = shown, !.frames = Tail(fs)]
<1>5. clients' = [clients EXCEPT ![c] = new]
  BY <1>2 DEF ReadFrame
<1>6. Head(fs) \in ApiFrames /\ Tail(fs) \in Seq(ApiFrames) /\ Len(Tail(fs)) <= Len(fs)
      /\ Len(Tail(fs)) \in Nat /\ Len(fs) \in Nat
  <2>. HIDE DEF fs
  <2>1. fs \in Seq(ApiFrames) /\ fs # <<>>
    BY <1>2, <1>4 DEF fs
  <2>. QED BY <2>1
<1>7. shown \in Views
  BY <1>4, <1>6, ApplyIsView
<1>8. CaughtUp(shown, Tail(fs)) = CaughtUp(clients[c].view, fs)
  BY <1>2, <1>4, FrameRead
<1>9. CaughtUp(clients[c].view, fs) = ApiSnapshot /\ Len(fs) <= HighWater
  BY <1>3 DEF ServerInv, StreamsAreSound, ViewsAreCurrent
<1>10. ApiSnapshot' = ApiSnapshot
  BY <1>1 DEF ApiSnapshot, PendingApprovals
<1>. HIDE DEF fs, shown
<1>11. new \in [open : {TRUE}, frames : Seq(ApiFrames), view : Views]
       /\ new.open /\ new.view = shown /\ new.frames = Tail(fs)
  BY <1>4, <1>6, <1>7
<1>. HIDE DEF new
<1>12. new \in ApiStreams
  BY <1>11 DEF ApiStreams
<1>13. clients' \in [ApiClients -> ApiStreams]
  BY <1>2, <1>5, <1>12
<1>14. ASSUME NEW d \in ApiClients
      PROVE  /\ Len(clients'[d].frames) <= HighWater
             /\ clients'[d].open \in BOOLEAN
             /\ clients'[d].open => clients'[d].view \in Views
             /\ clients'[d].open => CaughtUp(clients'[d].view, clients'[d].frames) = ApiSnapshot'
  <2>1. CASE d = c
    <3>1. clients'[d] = new
      BY <1>2, <1>5, <2>1
    <3>2. Len(new.frames) <= HighWater
      BY <1>6, <1>9, <1>11, ServerAssumption
    <3>3. new.open \in BOOLEAN
      BY <1>12, OpenStreamIs
    <3>4. CaughtUp(new.view, new.frames) = ApiSnapshot'
      BY <1>8, <1>9, <1>10, <1>11
    <3>. QED BY <1>7, <1>11, <3>1, <3>2, <3>3, <3>4
  <2>2. CASE d # c
    <3>1. clients'[d] = clients[d]
      BY <1>2, <1>5, <2>2
    <3>. QED BY <1>10, <3>1 DEF ServerInv, StreamsAreSound, ViewsAreCurrent
  <2>. QED BY <2>1, <2>2
<1>15. StreamsAreSound'
  BY <1>13, <1>14 DEF StreamsAreSound, ViewsAreCurrent
<1>16. PendingIsAsked' /\ ServerTyped' /\ NeverEndsWithItsSession'
  BY <1>1 DEF ServerInv, PendingIsAsked, PendingApprovals, Requires, ServerTyped, NeverEndsWithItsSession
<1>. QED BY <1>15, <1>16 DEF ServerInv

\* ApiStreams that end tell nothing wrong.
LEMMA GoneStreamsAreSound ==
  ASSUME ServerInv, NEW S, clients' = [c \in ApiClients |-> IF c \in S THEN Gone ELSE clients[c]],
         S = ApiClients \/ ApiSnapshot' = ApiSnapshot
  PROVE  StreamsAreSound'
<1>1. Gone \in ApiStreams /\ ~Gone.open /\ Gone.open \in BOOLEAN /\ Len(Gone.frames) = 0
  BY DEF Gone, ApiStreams
<1>2. clients \in [ApiClients -> ApiStreams]
  BY DEF ServerInv, StreamsAreSound
<1>3. clients' \in [ApiClients -> ApiStreams]
  BY <1>1, <1>2
<1>4. ASSUME NEW c \in ApiClients
      PROVE  /\ Len(clients'[c].frames) <= HighWater
             /\ clients'[c].open \in BOOLEAN
             /\ clients'[c].open => clients'[c].view \in Views
             /\ clients'[c].open => CaughtUp(clients'[c].view, clients'[c].frames) = ApiSnapshot'
  <2>1. CASE c \in S
    <3>1. clients'[c] = Gone
      BY <2>1
    <3>. QED BY <1>1, <3>1, ServerAssumption
  <2>2. CASE c \notin S
    <3>1. clients'[c] = clients[c] /\ ApiSnapshot' = ApiSnapshot
      BY <2>2
    <3>. QED BY <3>1 DEF ServerInv, StreamsAreSound, ViewsAreCurrent
  <2>. QED BY <2>1, <2>2
<1>. QED BY <1>3, <1>4 DEF StreamsAreSound, ViewsAreCurrent

LEMMA DisconnectKeeps ==
  ASSUME ServerInv, NEW c \in ApiClients, Disconnect(c)
  PROVE  ServerInv'
<1>1. UNCHANGED <<api, runtime, calls, policy, projection, requests, apiRuns>>
  BY DEF Disconnect
<1>2. clients' = [d \in ApiClients |-> IF d \in {c} THEN Gone ELSE clients[d]]
  BY DEF Disconnect, ServerInv, StreamsAreSound
<1>3. ApiSnapshot' = ApiSnapshot
  BY <1>1 DEF ApiSnapshot, PendingApprovals
<1>4. StreamsAreSound'
  BY <1>2, <1>3, GoneStreamsAreSound
<1>5. PendingIsAsked' /\ ServerTyped' /\ NeverEndsWithItsSession'
  BY <1>1 DEF ServerInv, PendingIsAsked, PendingApprovals, Requires, ServerTyped, NeverEndsWithItsSession
<1>. QED BY <1>4, <1>5 DEF ServerInv

LEMMA ApiCloseKeeps ==
  ASSUME ServerInv, ApiClose
  PROVE  ServerInv'
<1>1. /\ api' = [api EXCEPT !.closed = TRUE] /\ policy' = AfterReset
      /\ calls' = Answered(PendingApprovals, "cancel")
      /\ UNCHANGED <<runtime, projection, requests, apiRuns>>
  BY DEF ApiClose
<1>2. clients' = [d \in ApiClients |-> IF d \in ApiClients THEN Gone ELSE clients[d]]
  BY DEF ApiClose
<1>3. StreamsAreSound'
  BY <1>2, GoneStreamsAreSound
<1>4. PendingApprovals' = {} /\ calls' \in [ApiCalls -> ApiCallStates]
  <2>1. "cancel" \in {"none", "pending", "continue", "cancel"} /\ "cancel" # "pending"
    OBVIOUS
  <2>. QED BY <1>1, <2>1, AnsweredAre
<1>5. policy' \in [mode : ApiModes, trusted : BOOLEAN, never : ApiSessions \cup {"no"}]
      /\ policy'.never = "no"
      /\ api' \in [closed : BOOLEAN, transition : {"none", "change", "delete"}]
  BY <1>1 DEF AfterReset, ServerInv, ServerTyped
<1>. QED BY <1>1, <1>3, <1>4, <1>5
          DEF ServerInv, ServerTyped, NeverEndsWithItsSession, PendingIsAsked

\* A step of the server, but the one that ends it, leaves it as closed as it is.
LEMMA ServerStepKeeps ==
  ASSUME ServerInv, ClosedIsSilent, ServerNext
  PROVE  ServerInv'
<1>1. ASSUME NEW c \in ApiCalls, RequestApproval(c) PROVE ServerInv'
  BY <1>1, RequestApprovalKeeps
<1>2. ASSUME NEW c \in ApiCalls, AbortCall(c) PROVE ServerInv'
  BY <1>2, AbortCallKeeps
<1>3. ASSUME NEW k \in {"message", "fork", "decision"}, NEW s \in ApiSessions,
             ReceiveRequest([kind |-> k, session |-> s])
      PROVE  ServerInv'
  <2>1. requests' \subseteq [kind : {"message", "fork", "decision"}, session : ApiSessions]
    BY <1>3 DEF ReceiveRequest
  <2>2. UNCHANGED <<api, runtime, calls, policy, projection, clients, apiRuns>>
    BY <1>3 DEF ReceiveRequest
  <2>3. api' \in [closed : BOOLEAN, transition : {"none", "change", "delete"}] /\ api'.closed = api.closed
    BY <2>2 DEF ServerInv, ServerTyped
  <2>. QED BY <2>1, <2>2, <2>3, RequestsKeep
<1>4. ASSUME NEW r \in requests, NEW c \in ApiCalls, NEW d \in Decisions, HandleDecision(r, c, d)
      PROVE  ServerInv'
  BY <1>4, HandleDecisionKeeps
<1>5. ASSUME NEW r \in requests, HandleMessage(r) PROVE ServerInv'
  <2>1. UNCHANGED <<api, calls, policy>> /\ requests' \subseteq requests
    BY <1>5 DEF HandleMessage
  <2>2. CASE Started
    BY <2>1, <2>2, StartedKeeps
  <2>3. CASE UNCHANGED <<runtime, projection, clients, apiRuns>>
    <3>1. /\ api' \in [closed : BOOLEAN, transition : {"none", "change", "delete"}]
          /\ api'.closed = api.closed
          /\ requests' \subseteq [kind : {"message", "fork", "decision"}, session : ApiSessions]
      BY <2>1 DEF ServerInv, ServerTyped
    <3>. QED BY <2>1, <2>3, <3>1, RequestsKeep
  <2>. QED BY <1>5, <2>2, <2>3 DEF HandleMessage
<1>6. ASSUME NEW r \in requests, HandleFork(r) PROVE ServerInv'
  <2>1. /\ UNCHANGED <<runtime, calls, policy, projection, clients, apiRuns>>
        /\ requests' \subseteq requests
        /\ api' \in {api, [api EXCEPT !.transition = "change"]}
    BY <1>6 DEF HandleFork
  <2>2. /\ api' \in [closed : BOOLEAN, transition : {"none", "change", "delete"}]
        /\ api'.closed = api.closed
        /\ requests' \subseteq [kind : {"message", "fork", "decision"}, session : ApiSessions]
    BY <2>1 DEF ServerInv, ServerTyped
  <2>. QED BY <2>1, <2>2, RequestsKeep
<1>7. ASSUME NEW k \in {"change", "delete"}, BeginTransition(k) PROVE ServerInv'
  <2>1. UNCHANGED <<runtime, calls, policy, projection, clients, requests, apiRuns>>
    BY <1>7 DEF BeginTransition
  <2>2. /\ api' \in [closed : BOOLEAN, transition : {"none", "change", "delete"}]
        /\ api'.closed = api.closed
        /\ requests' \subseteq [kind : {"message", "fork", "decision"}, session : ApiSessions]
    BY <1>7, <2>1 DEF BeginTransition, ServerInv, ServerTyped
  <2>. QED BY <2>1, <2>2, RequestsKeep
<1>8. ASSUME NEW s \in ApiSessions, SessionChanges(s) PROVE ServerInv'
  BY <1>8, SessionChangesKeeps
<1>9. ASSUME TransitionReturns PROVE ServerInv'
  <2>1. UNCHANGED <<runtime, calls, policy, projection, clients, requests, apiRuns>>
    BY <1>9 DEF TransitionReturns
  <2>2. /\ api' \in [closed : BOOLEAN, transition : {"none", "change", "delete"}]
        /\ api'.closed = api.closed
        /\ requests' \subseteq [kind : {"message", "fork", "decision"}, session : ApiSessions]
    BY <1>9, <2>1 DEF TransitionReturns, ServerInv, ServerTyped
  <2>. QED BY <2>1, <2>2, RequestsKeep
<1>10. ASSUME RunStarts PROVE ServerInv'
  BY <1>10, StartedKeeps DEF RunStarts
<1>11. ASSUME AssistantEvent PROVE ServerInv'
  BY <1>11, AssistantEventKeeps
<1>12. ASSUME NEW t \in ApiTools, ToolEvent(t) PROVE ServerInv'
  BY <1>12, ToolEventKeeps
<1>13. ASSUME NEW st \in {"completed", "failed"}, ApiRunEnds(st) PROVE ServerInv'
  BY <1>13, RunEndsKeeps
<1>14. ASSUME NEW c \in ApiClients, Connect(c) PROVE ServerInv'
  BY <1>14, ConnectKeeps
<1>15. ASSUME NEW c \in ApiClients, ReadFrame(c) PROVE ServerInv'
  BY <1>15, ReadFrameKeeps
<1>16. ASSUME NEW c \in ApiClients, Disconnect(c) PROVE ServerInv'
  BY <1>16, DisconnectKeeps
<1>17. ASSUME ApiClose PROVE ServerInv'
  BY <1>17, ApiCloseKeeps
<1>. QED BY <1>1, <1>2, <1>3, <1>4, <1>5, <1>6, <1>7, <1>8, <1>9, <1>10, <1>11, <1>12, <1>13,
             <1>14, <1>15, <1>16, <1>17 DEF ServerNext

\* Only a connection opens a stream, and only an open server takes one.
LEMMA ClosedStaysSilent ==
  ASSUME ServerInv, ClosedIsSilent, ServerNext
  PROVE  ClosedIsSilent'
<1>. SUFFICES ASSUME api'.closed, NEW d \in ApiClients PROVE ~clients'[d].open
  BY DEF ClosedIsSilent
<1>1. CASE ApiClose
  BY <1>1 DEF ApiClose, Gone
<1>2. CASE ~ApiClose
  <2>1. api'.closed = api.closed
    BY <1>2 DEF ServerNext, RequestApproval, AbortCall, ReceiveRequest, HandleDecision, HandleMessage,
      HandleFork, BeginTransition, SessionChanges, TransitionReturns, RunStarts, AssistantEvent,
      ToolEvent, ApiRunEnds, Connect, ReadFrame, Disconnect, ServerInv, ServerTyped
  <2>2. ~clients[d].open /\ clients[d] = Gone
    BY <2>1, StreamIs DEF ClosedIsSilent
  <2>3. \A events : Emit(events) => clients'[d] = clients[d]
    BY <2>2 DEF Emit
  <2>4. \/ \E events : Emit(events)
        \/ UNCHANGED clients
        \/ \E c \in ApiClients : ReadFrame(c)
        \/ \E c \in ApiClients : Disconnect(c)
    <3>1. ASSUME NEW r \in requests, NEW c \in ApiCalls, NEW x \in Decisions, HandleDecision(r, c, x)
          PROVE  (\E events : Emit(events)) \/ UNCHANGED clients
      BY <3>1 DEF HandleDecision, Decide
    <3>2. ASSUME NEW c \in ApiCalls, RequestApproval(c) \/ AbortCall(c)
          PROVE  (\E events : Emit(events)) \/ UNCHANGED clients
      BY <3>2 DEF RequestApproval, AbortCall
    <3>3. ASSUME (\E r \in requests : HandleMessage(r)) \/ RunStarts \/ AssistantEvent
                 \/ (\E t \in ApiTools : ToolEvent(t))
                 \/ (\E st \in {"completed", "failed"} : ApiRunEnds(st))
                 \/ (\E s \in ApiSessions : SessionChanges(s))
          PROVE  (\E events : Emit(events)) \/ UNCHANGED clients
      BY <3>3 DEF HandleMessage, Started, RunStarts, AssistantEvent, ToolEvent, ApiRunEnds, SessionChanges
    <3>4. ASSUME (\E k \in {"message", "fork", "decision"}, s \in ApiSessions :
                    ReceiveRequest([kind |-> k, session |-> s]))
                 \/ (\E r \in requests : HandleFork(r))
                 \/ (\E kind \in {"change", "delete"} : BeginTransition(kind)) \/ TransitionReturns
          PROVE  UNCHANGED clients
      BY <3>4 DEF ReceiveRequest, HandleFork, BeginTransition, TransitionReturns
    <3>5. ~\E c \in ApiClients : Connect(c)
      BY <2>1 DEF Connect
    <3>. QED BY <1>2, <3>1, <3>2, <3>3, <3>4, <3>5 DEF ServerNext
  <2>5. ASSUME NEW c \in ApiClients, ReadFrame(c) PROVE clients'[d] = clients[d]
    <3>1. clients[c] = Gone
      BY <2>1, StreamIs DEF ClosedIsSilent
    <3>. QED BY <2>5, <3>1 DEF ReadFrame, Gone
  <2>6. ASSUME NEW c \in ApiClients, Disconnect(c) PROVE clients'[d] = clients[d]
    BY <2>1, <2>6 DEF Disconnect, ClosedIsSilent
  <2>. QED BY <2>2, <2>3, <2>4, <2>5, <2>6
<1>. QED BY <1>1, <1>2

\* A step that changes nothing.
LEMMA ServerRests ==
  ASSUME ServerInv, ClosedIsSilent, UNCHANGED serverVars
  PROVE  ServerInv' /\ ClosedIsSilent'
<1>1. UNCHANGED <<api, runtime, calls, policy, projection, clients, requests, apiRuns>>
  BY DEF serverVars
<1>2. PendingApprovals' = PendingApprovals
  BY <1>1 DEF PendingApprovals
<1>3. StreamsAreSound'
  BY <1>1, <1>2, ServerSilent
<1>4. PendingIsAsked' /\ ServerTyped' /\ NeverEndsWithItsSession' /\ ClosedIsSilent'
  BY <1>1, <1>2 DEF ServerInv, PendingIsAsked, Requires, ServerTyped, NeverEndsWithItsSession, ClosedIsSilent
<1>. QED BY <1>3, <1>4 DEF ServerInv

LEMMA ServerInvariant == ServerSpec => [](ServerInv /\ ClosedIsSilent)
<1>1. ServerInit => ServerInv /\ ClosedIsSilent
  <2>1. ServerInit => ClosedIsSilent
    BY DEF ServerInit, ClosedIsSilent
  <2>. QED BY <2>1, ServerBegins
<1>2. (ServerInv /\ ClosedIsSilent) /\ [ServerNext]_serverVars => (ServerInv /\ ClosedIsSilent)'
  BY ServerStepKeeps, ClosedStaysSilent, ServerRests
<1>. QED BY <1>1, <1>2, PTL DEF ServerSpec

\* The server is safe: a client that has read its buffer knows the current
\* state, nobody is asked for what is granted or over, and "never" ends with
\* its session.
THEOREM ServerIsAlwaysSafe == ServerSpec => []ServerIsSafe
<1>1. ServerInv => ServerIsSafe
  BY DEF ServerInv, ServerIsSafe, ServerTyped, ServerTypeOK, StreamsAreSound, ApiCallStates
<1>. QED BY <1>1, ServerInvariant, PTL

\* What a step may do to the answer of a call.
LEMMA AnswersKept ==
  ASSUME ServerInv, ServerNext, NEW c \in ApiCalls
  PROVE  /\ calls[c].answer \in {"continue", "cancel"} => calls'[c].answer = calls[c].answer
         /\ calls[c].answer # "continue" /\ calls'[c].answer = "continue" =>
              /\ ~calls[c].aborted /\ ~api.closed
              /\ calls[c].kind = "sensitive" =>
                   [kind |-> "decision", session |-> runtime.session] \in requests
<1>. DEFINE Goal ==
       /\ calls[c].answer \in {"continue", "cancel"} => calls'[c].answer = calls[c].answer
       /\ calls[c].answer # "continue" /\ calls'[c].answer = "continue" =>
            /\ ~calls[c].aborted /\ ~api.closed
            /\ calls[c].kind = "sensitive" =>
                 [kind |-> "decision", session |-> runtime.session] \in requests
<1>1. calls \in [ApiCalls -> ApiCallStates]
  BY DEF ServerInv, ServerTyped
<1>2. ASSUME calls' = calls PROVE Goal
  BY <1>2
<1>3. ASSUME calls' = Answered(PendingApprovals, "cancel") PROVE Goal
  BY <1>1, <1>3 DEF Answered, PendingApprovals, ApiCallStates
<1>4. ASSUME NEW d \in ApiCalls, RequestApproval(d) PROVE Goal
  <2>1. calls[d].answer = "none"
    BY <1>4 DEF RequestApproval
  <2>2. CASE d # c
    BY <1>4, <2>2 DEF RequestApproval, Answered
  <2>3. CASE d = c
    BY <1>1, <1>4, <2>1, <2>3 DEF RequestApproval, Answered, ApiCallStates, Requires
  <2>. QED BY <2>2, <2>3
<1>5. ASSUME NEW d \in ApiCalls, AbortCall(d) PROVE Goal
  <2>1. CASE d # c
    BY <1>1, <1>5, <2>1 DEF AbortCall
  <2>2. CASE d = c
    BY <1>1, <1>5, <2>2 DEF AbortCall, PendingApprovals, ApiCallStates
  <2>. QED BY <2>1, <2>2
<1>6. ASSUME NEW r \in requests, NEW d \in ApiCalls, NEW x \in Decisions, HandleDecision(r, d, x),
             calls' # calls
      PROVE  Goal
  <2>1. MayAct(r) /\ Decide(d, x) /\ r.kind = "decision"
    BY <1>6 DEF HandleDecision
  <2>2. r = [kind |-> "decision", session |-> runtime.session]
    BY <2>1 DEF MayAct, ServerInv, ServerTyped
  <2>3. d \in PendingApprovals /\ ~api.closed
    BY <1>6, <2>1 DEF Decide, MayAct
  <2>4. calls' = [y \in ApiCalls |->
                   IF y \in Freed(d, x) \/ (y = d /\ x # "reject")
                   THEN [calls[y] EXCEPT !.answer = "continue"]
                   ELSE IF y = d THEN [calls[y] EXCEPT !.answer = "cancel"]
                   ELSE calls[y]]
    BY <1>6, <2>1 DEF Decide
  <2>5. Freed(d, x) \subseteq PendingApprovals
    BY DEF Freed
  <2>6. CASE c \in PendingApprovals
    <3>1. ~calls[c].aborted /\ calls[c].answer = "pending"
      BY <2>6 DEF ServerInv, PendingIsAsked, PendingApprovals
    <3>. QED BY <2>2, <2>3, <3>1
  <2>7. CASE c \notin PendingApprovals
    <3>1. calls'[c] = calls[c]
      BY <2>3, <2>4, <2>5, <2>7
    <3>. QED BY <3>1
  <2>. QED BY <2>6, <2>7
<1>7. ASSUME \/ \E k \in {"message", "fork", "decision"}, s \in ApiSessions :
                   ReceiveRequest([kind |-> k, session |-> s])
             \/ \E r \in requests : HandleMessage(r) \/ HandleFork(r)
             \/ \E kind \in {"change", "delete"} : BeginTransition(kind)
             \/ TransitionReturns \/ RunStarts \/ AssistantEvent
             \/ \E t \in ApiTools : ToolEvent(t)
             \/ \E st \in {"completed", "failed"} : ApiRunEnds(st)
             \/ \E d \in ApiClients : Connect(d) \/ ReadFrame(d) \/ Disconnect(d)
      PROVE  calls' = calls
  BY <1>7 DEF ReceiveRequest, HandleMessage, HandleFork, BeginTransition, TransitionReturns, RunStarts,
    AssistantEvent, ToolEvent, ApiRunEnds, Connect, ReadFrame, Disconnect
<1>8. ASSUME ApiClose \/ \E s \in ApiSessions : SessionChanges(s) PROVE Goal
  <2>1. calls' = Answered(PendingApprovals, "cancel") \/ calls' = calls
    BY <1>8 DEF ApiClose, SessionChanges
  <2>. QED BY <1>2, <1>3, <2>1
<1>. HIDE DEF Goal
<1>9. Goal
  BY <1>2, <1>4, <1>5, <1>6, <1>7, <1>8 DEF ServerNext
<1>. QED BY <1>9 DEF Goal

\* A call is answered once; none that was aborted, or that asks a closed
\* server, is let through, and a decision frees no call that needs its own.
THEOREM ServerAlwaysBehaves == ServerSpec => ServerBehaves
<1>1. ServerInv /\ [ServerNext]_serverVars =>
        [\A c \in ApiCalls :
           /\ calls[c].answer \in {"continue", "cancel"} => calls'[c].answer = calls[c].answer
           /\ calls[c].answer # "continue" /\ calls'[c].answer = "continue" =>
                /\ ~calls[c].aborted /\ ~api.closed
                /\ calls[c].kind = "sensitive" =>
                     [kind |-> "decision", session |-> runtime.session] \in requests]_serverVars
  BY AnswersKept
<1>. QED BY <1>1, ServerInvariant, PTL DEF ServerSpec, ServerBehaves, AnswersStand
=============================================================================
