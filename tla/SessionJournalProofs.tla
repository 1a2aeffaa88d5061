------------------------ MODULE SessionJournalProofs ------------------------
(***************************************************************************)
(* Proofs about what sessions keep.  SessionJournal: whoever appends holds *)
(* the lock, and the journal survives crashes and failed writes and tells  *)
(* the truth of what was interrupted.  ArtifactFiles, from HostRecords on: *)
(* the files that journals name stay, and the others go.                   *)
(*                                                                         *)
(* What a file says is sound (Sound): it can be read, every call has one   *)
(* message that made it and at most one result, calls that ran have one or *)
(* are in the open turn, and stored todo lists are accounted for.  One     *)
(* record more keeps a file sound if it is allowed where it stands         *)
(* (SoundGrows), so every prefix of a batch of allowed records does        *)
(* (BatchIsSound), which is what a write that fails or is cut short leaves *)
(* in the file.  Each append is such a batch, and so is a recovery.        *)
(*                                                                         *)
(* The invariant needs two things of the world: texts whose length in      *)
(* characters is their length in bytes, since the repair of a tail counts  *)
(* one for the other, and processes that are not suspended for longer than *)
(* their lock lasts, since another process may then take it over.  The     *)
(* model has states that violate the properties without either.            *)
(***************************************************************************)
EXTENDS SessionJournal, ArtifactFiles, FiniteSetTheorems, SequenceTheorems,
        WellFoundedInduction, TLAPS

\* Among natural numbers there is a least one: what an argument by induction on
\* the length of a sequence rests on here.
LEMMA LeastNumber ==
  ASSUME NEW T, T \subseteq Nat, T # {}
  PROVE  \E m \in T : \A n \in T : m <= n
<1>. DEFINE R == OpToRel(<, Nat)
<1>1. IsWellFoundedOn(R, Nat)
  BY NatLessThanWellFounded
<1>2. R = {ss \in Nat \X Nat : ss[1] < ss[2]}
  BY DEF OpToRel
<1>. HIDE DEF R
<1>3. PICK m \in T : \A n \in T : ~(<<n, m>> \in R)
  BY <1>1, WFMin
<1>4. \A n \in T : n < m => <<n, m>> \in R
  BY <1>2
<1>5. \A n \in T : ~(n < m) => m <= n
  OBVIOUS
<1>. QED BY <1>3, <1>4, <1>5

\* A set of natural numbers with 0 that has an upper bound has a maximum.
LEMMA Maximum ==
  ASSUME NEW S, S \subseteq Nat, 0 \in S, NEW b \in Nat, \A x \in S : x <= b
  PROVE  Max(S) \in S /\ \A x \in S : x <= Max(S)
<1>. DEFINE T == {n \in Nat : \A x \in S : x <= n}
<1>1. T \subseteq Nat /\ T # {}
  BY b \in T
<1>2. PICK m \in T : \A n \in T : m <= n
  BY <1>1, LeastNumber
<1>3. m \in S
  <2>. SUFFICES ASSUME m \notin S PROVE FALSE
    OBVIOUS
  <2>1. m \in Nat /\ \A x \in S : x <= m
    BY <1>2
  <2>2. \A x \in S : x <= m - 1
    BY <2>1
  <2>3. m - 1 \in Nat
    BY <2>1, <2>2
  <2>. QED BY <1>2, <2>1, <2>2, <2>3
<1>4. \A x \in S : m >= x
  BY <1>2
<1>. QED BY <1>3, <1>4 DEF Max
-----------------------------------------------------------------------------
(* What the records of a session say *)

\* The header of a session's file, and what its records follow.
Header == Entry("session")
Markers == {"turn_start", "turn_end"}
CallRecords == {"result", "todo_state"}

\* What the records of a journal say of its tool calls, given which calls ran.
CallsAreSaid(s) ==
  /\ \A i \in DOMAIN s :
       /\ ~s[i].wide
       /\ s[i].calls # {} => s[i].type = "assistant"
       /\ s[i].type = "result" => s[i].call # NoCall /\ s[i].status # ""
  /\ \A i, j \in DOMAIN s : i # j => s[i].calls \cap s[j].calls = {}
  /\ \A j \in DOMAIN s : s[j].type \in CallRecords /\ s[j].call # NoCall =>
       \E i \in DOMAIN s : i < j /\ s[j].call \in s[i].calls

\* A message is in the open turn, or its turn was ended.
TurnsAreEnded(s) ==
  \A i \in DOMAIN s : s[i].calls # {} =>
    \/ TurnOpen(s) /\ Opened(s) < i
    \/ \E e \in DOMAIN s : e > i /\ s[e].type = "turn_end"

\* Every call has one result; those that ran and those that were recovered have it.
ResultsAreSaid(s, ran) ==
  /\ \A i, j \in DOMAIN s :
       s[i].type = "result" /\ s[j].type = "result" /\ s[i].call = s[j].call => i = j
  /\ \A c \in ran : c \in CallsIn(ToSet(s)) => c \in AnsweredIn(ToSet(s)) \cup Unresolved(s)
  /\ \A i, r \in DOMAIN s :
       s[r].type = "recovery" /\ i < r /\ (\A e \in DOMAIN s : s[e].type = "turn_end" /\ i < e => r < e)
         => s[i].calls \subseteq AnsweredIn(ToSet(s))

\* A todo list was stored by a call that ran, and its result says so.
TodosAreSaid(s, ran) ==
  \A j \in DOMAIN s :
    /\ s[j].type = "todo_state" /\ s[j].call # NoCall => s[j].call \in ran
    /\ s[j].type = "result" /\ s[j].status = "ok" => s[j].call \in ran
    /\ s[j].type = "result" /\ s[j].call \in TodoCall \cap AcceptedIn(ToSet(s)) => s[j].status = "ok"

Sound(s, ran) ==
  /\ s \in Seq(Record) /\ Readable(s)
  /\ CallsAreSaid(s) /\ TurnsAreEnded(s) /\ ResultsAreSaid(s, ran) /\ TodosAreSaid(s, ran)

-----------------------------------------------------------------------------
(* The open turn *)

\* At most one turn is open, and OpenTurn has its records.
LEMMA OpenedIs ==
  ASSUME NEW s \in Seq(Record), TurnOpen(s)
  PROVE  /\ Opened(s) \in 1..Len(s) /\ Opens(s, Opened(s))
         /\ \A i \in 1..Len(s) : Opens(s, i) => i = Opened(s)
         /\ OpenTurn(s) = {s[i] : i \in Opened(s)..Len(s)}
<1>1. Len(s) \in Nat /\ DOMAIN s = 1..Len(s)
  OBVIOUS
<1>2. Opened(s) \in 1..Len(s) /\ Opens(s, Opened(s))
  BY DEF TurnOpen, Opened
<1>3. ASSUME NEW i \in 1..Len(s), NEW j \in 1..Len(s), Opens(s, i), Opens(s, j), i < j
      PROVE  FALSE
  <2>1. j \in (i + 1)..Len(s)
    BY <1>1, <1>3
  <2>. QED BY <1>3, <2>1 DEF Opens
<1>4. \A i \in 1..Len(s) : Opens(s, i) => i = Opened(s)
  <2>. SUFFICES ASSUME NEW i \in 1..Len(s), Opens(s, i), i # Opened(s) PROVE FALSE
    OBVIOUS
  <2>1. i < Opened(s) \/ Opened(s) < i
    BY <1>1, <1>2
  <2>. QED BY <1>2, <1>3, <2>1
<1>5. ASSUME NEW o \in 1..Len(s)
      PROVE  ToSet(SubSeq(s, o, Len(s))) = {s[i] : i \in o..Len(s)}
  <2>. DEFINE q == SubSeq(s, o, Len(s))
  <2>1. DOMAIN q = 1..(Len(s) - o + 1) /\ \A k \in 1..(Len(s) - o + 1) : q[k] = s[o + k - 1]
    BY <1>1, SubSeqProperties
  <2>. HIDE DEF q
  <2>2. \A i \in o..Len(s) : i - o + 1 \in 1..(Len(s) - o + 1) /\ o + (i - o + 1) - 1 = i
    BY <1>1
  <2>3. \A k \in 1..(Len(s) - o + 1) : o + k - 1 \in o..Len(s)
    BY <1>1
  <2>4. ToSet(q) \subseteq {s[i] : i \in o..Len(s)}
    BY <2>1, <2>3 DEF ToSet
  <2>5. ASSUME NEW i \in o..Len(s) PROVE s[i] \in ToSet(q)
    BY <2>1, <2>2 DEF ToSet
  <2>. QED BY <2>4, <2>5 DEF q
<1>. QED BY <1>2, <1>4, <1>5 DEF OpenTurn

\* v is u and one record more.
OneMore(u, v, r) ==
  /\ u \in Seq(Record) /\ v \in Seq(Record) /\ r \in Record
  /\ Len(v) = Len(u) + 1 /\ v[Len(v)] = r
  /\ \A i \in 1..Len(u) : v[i] = u[i]

\* What it means to be one record longer.
LEMMA OneMoreIs ==
  ASSUME NEW u, NEW v, NEW r, OneMore(u, v, r)
  PROVE  /\ Len(u) \in Nat /\ DOMAIN u = 1..Len(u) /\ DOMAIN v = 1..(Len(u) + 1)
         /\ v[Len(u) + 1] = r
         /\ \A i \in DOMAIN v : (i \in DOMAIN u /\ v[i] = u[i]) \/ i = Len(u) + 1
         /\ ToSet(v) = ToSet(u) \cup {r}
<1>1. /\ Len(u) \in Nat /\ DOMAIN u = 1..Len(u) /\ DOMAIN v = 1..(Len(u) + 1)
      /\ v[Len(u) + 1] = r
  BY DEF OneMore
<1>2. \A i \in DOMAIN v : (i \in DOMAIN u /\ v[i] = u[i]) \/ i = Len(u) + 1
  BY <1>1 DEF OneMore
<1>3. \A i \in DOMAIN u : i \in DOMAIN v /\ v[i] = u[i]
  BY <1>1 DEF OneMore
<1>4. Len(u) + 1 \in DOMAIN v
  BY <1>1
<1>5. ToSet(v) \subseteq ToSet(u) \cup {r}
  BY <1>1, <1>2 DEF ToSet
<1>6. ToSet(u) \cup {r} \subseteq ToSet(v)
  BY <1>1, <1>3, <1>4 DEF ToSet
<1>. QED BY <1>1, <1>2, <1>5, <1>6

\* A record that neither starts nor ends a turn leaves the open turn open.
LEMMA TurnGrows ==
  ASSUME NEW u, NEW v, NEW r, OneMore(u, v, r), r.type \notin Markers
  PROVE  /\ TurnOpen(v) <=> TurnOpen(u)
         /\ TurnOpen(u) => Opened(v) = Opened(u) /\ OpenTurn(v) = OpenTurn(u) \cup {r}
<1>. DEFINE n == Len(u)
<1>1. /\ n \in Nat /\ Len(v) = n + 1 /\ v[n + 1] = r /\ u \in Seq(Record) /\ v \in Seq(Record)
      /\ \A i \in 1..n : v[i] = u[i]
  BY OneMoreIs DEF OneMore
<1>. HIDE DEF n
<1>2. ASSUME NEW i \in 1..n PROVE Opens(v, i) <=> Opens(u, i)
  <2>1. \A j \in (i + 1)..(n + 1) : j \in (i + 1)..n \/ j = n + 1
    BY <1>1
  <2>2. \A j \in (i + 1)..n : j \in (i + 1)..(n + 1) /\ v[j] = u[j]
    BY <1>1
  <2>. QED BY <1>1, <2>1, <2>2 DEF Opens, Markers, n
<1>3. ~Opens(v, n + 1)
  BY <1>1 DEF Opens, Markers
<1>4. \A i \in 1..(n + 1) : i \in 1..n \/ i = n + 1
  BY <1>1
<1>5. \A i \in 1..n : i \in 1..(n + 1)
  BY <1>1
<1>6. TurnOpen(v) <=> TurnOpen(u)
  BY <1>1, <1>2, <1>3, <1>4, <1>5 DEF TurnOpen, n
<1>7. ASSUME TurnOpen(u) PROVE Opened(v) = Opened(u) /\ OpenTurn(v) = OpenTurn(u) \cup {r}
  <2>. DEFINE o == Opened(u)
  <2>1. o \in 1..n /\ Opens(u, o) /\ OpenTurn(u) = {u[i] : i \in o..n}
    BY <1>1, <1>7, OpenedIs DEF n
  <2>2. o \in 1..(n + 1) /\ Opens(v, o)
    BY <1>2, <1>5, <2>1
  <2>3. o = Opened(v) /\ OpenTurn(v) = {v[i] : i \in o..(n + 1)}
    BY <1>1, <1>6, <1>7, <2>2, OpenedIs
  <2>. HIDE DEF o
  <2>4. \A i \in o..(n + 1) : i = n + 1 \/ (i \in o..n /\ v[i] = u[i])
    BY <1>1, <2>1
  <2>5. n + 1 \in o..(n + 1) /\ \A i \in o..n : i \in o..(n + 1) /\ v[i] = u[i]
    BY <1>1, <2>1
  <2>6. {v[i] : i \in o..(n + 1)} = {u[i] : i \in o..n} \cup {r}
    BY <1>1, <2>4, <2>5
  <2>. QED BY <2>1, <2>3, <2>6 DEF o
<1>. QED BY <1>6, <1>7

\* turn_start opens a turn, turn_end leaves none open.
LEMMA TurnStarts ==
  ASSUME NEW u, NEW v, NEW r, OneMore(u, v, r), r.type = "turn_start"
  PROVE  TurnOpen(v) /\ Opened(v) = Len(v) /\ OpenTurn(v) = {r}
<1>1. Len(v) \in Nat /\ Len(v) # 0 /\ v \in Seq(Record) /\ v[Len(v)] = r
  BY OneMoreIs DEF OneMore
<1>2. Len(v) \in 1..Len(v) /\ (Len(v) + 1)..Len(v) = {} /\ Len(v)..Len(v) = {Len(v)}
  BY <1>1
<1>3. Opens(v, Len(v))
  BY <1>1, <1>2 DEF Opens
<1>4. TurnOpen(v)
  BY <1>2, <1>3 DEF TurnOpen
<1>. QED BY <1>1, <1>2, <1>3, <1>4, OpenedIs

\* After turn_end no turn is open.
LEMMA TurnEnds ==
  ASSUME NEW u, NEW v, NEW r, OneMore(u, v, r), r.type = "turn_end"
  PROVE  ~TurnOpen(v)
<1>1. Len(v) \in Nat /\ Len(v) # 0 /\ v \in Seq(Record) /\ v[Len(v)] = r
  BY OneMoreIs DEF OneMore
<1>2. \A i \in 1..Len(v) : i = Len(v) \/ Len(v) \in (i + 1)..Len(v)
  BY <1>1
<1>. QED BY <1>1, <1>2 DEF TurnOpen, Opens

\* What a record that follows u has to satisfy, its place in the chain apart.
Allowed(u, r, ran) ==
  /\ r.type # "session" /\ ~r.wide
  /\ r.type = "turn_start" => ~TurnOpen(u)
  /\ r.type \in MessageTypes \cup {"todo_state", "turn_end"} => TurnOpen(u)
  /\ r.type = "turn_end" => r.turn = u[Opened(u)].turn /\ Unresolved(u) \cap ran = {}
  /\ r.type = "context_compaction" => r.covers \in MessageIds(u)
  /\ r.calls # {} => r.type = "assistant" /\ r.calls \cap (ran \cup CallsIn(ToSet(u))) = {}
  /\ r.type = "result" =>
       /\ r.call \in Unresolved(u) /\ r.status # ""
       /\ r.status = "ok" => r.call \in ran
       /\ r.call \in TodoCall \cap AcceptedIn(ToSet(u)) => r.status = "ok"
  /\ r.type = "todo_state" /\ r.call # NoCall =>
       r.call \in (Unresolved(u) \cap ran) \ AcceptedIn(ToSet(u))
  /\ r.type = "recovery" => Unresolved(u) = {}

Chains(u, r) == r.parent = TailId(u) /\ \A x \in ToSet(u) : x.id # r.id

\* One more record adds its calls, its result, its accepted list.
LEMMA SetsGrow ==
  ASSUME NEW S, NEW r, NEW T, T = S \cup {r}
  PROVE  /\ CallsIn(T) = CallsIn(S) \cup r.calls
         /\ \A c : c \in AnsweredIn(T) <=> c \in AnsweredIn(S) \/ (r.type = "result" /\ r.call = c)
         /\ \A c : c \in AcceptedIn(T) <=> c \in AcceptedIn(S) \/ (r.type = "todo_state" /\ r.call = c)
<1>1. CallsIn(T) = CallsIn(S) \cup r.calls
  BY DEF CallsIn
<1>2. \A c : c \in AnsweredIn(T) <=> c \in AnsweredIn(S) \/ (r.type = "result" /\ r.call = c)
  BY DEF AnsweredIn
<1>3. \A c : c \in AcceptedIn(T) <=> c \in AcceptedIn(S) \/ (r.type = "todo_state" /\ r.call = c)
  BY DEF AcceptedIn
<1>. QED BY <1>1, <1>2, <1>3

\* Without an open turn no call waits for a result.
LEMMA NothingOpen ==
  ASSUME NEW s, ~TurnOpen(s)
  PROVE  OpenTurn(s) = {} /\ Unresolved(s) = {}
<1>1. OpenTurn(s) = {}
  BY DEF OpenTurn
<1>2. CallsIn({}) = {}
  BY DEF CallsIn
<1>. QED BY <1>1, <1>2 DEF Unresolved

\* A call without result in the open turn was asked for there, has no result
\* anywhere, and where it stored a list it did so in this turn.
LEMMA UnresolvedIs ==
  ASSUME NEW s, s \in Seq(Record), CallsAreSaid(s), NEW c \in Unresolved(s)
  PROVE  /\ TurnOpen(s) /\ c \in Call /\ c # NoCall
         /\ \E i \in DOMAIN s : Opened(s) <= i /\ c \in s[i].calls
         /\ c \in CallsIn(ToSet(s)) /\ c \notin AnsweredIn(ToSet(s))
         /\ c \in AcceptedIn(ToSet(s)) => c \in AcceptedIn(OpenTurn(s))
<1>1. TurnOpen(s)
  BY NothingOpen
<1>2. /\ Len(s) \in Nat /\ DOMAIN s = 1..Len(s) /\ Opened(s) \in 1..Len(s)
      /\ OpenTurn(s) = {s[i] : i \in Opened(s)..Len(s)}
  BY <1>1, OpenedIs
<1>3. c \in CallsIn(OpenTurn(s)) /\ c \notin AnsweredIn(OpenTurn(s))
  BY DEF Unresolved
<1>4. PICK r \in OpenTurn(s) : c \in r.calls
  BY <1>3 DEF CallsIn
<1>5. PICK i \in Opened(s)..Len(s) : r = s[i]
  BY <1>2, <1>4
<1>6. i \in DOMAIN s /\ Opened(s) <= i /\ c \in s[i].calls
  BY <1>2, <1>4, <1>5
<1>7. c \in Call /\ c # NoCall
  <2>1. s[i] \in Record
    BY <1>6
  <2>. QED BY <1>6, <2>1, SessionJournalAssumption DEF Record
<1>8. c \in CallsIn(ToSet(s))
  BY <1>6 DEF CallsIn, ToSet
<1>9. ASSUME NEW j \in DOMAIN s, s[j].type \in CallRecords, s[j].call = c
      PROVE  s[j] \in OpenTurn(s)
  <2>1. PICK k \in DOMAIN s : k < j /\ c \in s[k].calls
    BY <1>7, <1>9 DEF CallsAreSaid
  <2>2. k = i
    BY <1>6, <2>1 DEF CallsAreSaid
  <2>3. j \in Opened(s)..Len(s)
    BY <1>2, <1>6, <1>9, <2>1, <2>2
  <2>. QED BY <1>2, <2>3
<1>10. c \notin AnsweredIn(ToSet(s))
  <2>. SUFFICES ASSUME NEW j \in DOMAIN s, s[j].type = "result", s[j].call = c PROVE FALSE
    BY DEF AnsweredIn, ToSet
  <2>1. s[j] \in OpenTurn(s)
    BY <1>9 DEF CallRecords
  <2>. QED BY <1>3, <2>1 DEF AnsweredIn
<1>11. ASSUME c \in AcceptedIn(ToSet(s)) PROVE c \in AcceptedIn(OpenTurn(s))
  <2>1. PICK j \in DOMAIN s : s[j].type = "todo_state" /\ s[j].call = c
    BY <1>11 DEF AcceptedIn, ToSet
  <2>2. s[j] \in OpenTurn(s)
    BY <1>9, <2>1 DEF CallRecords
  <2>. QED BY <2>1, <2>2 DEF AcceptedIn
<1>. QED BY <1>1, <1>6, <1>7, <1>8, <1>10, <1>11

\* What one more record that is no marker does to the calls without result.
LEMMA UnresolvedGrows ==
  ASSUME NEW u, NEW v, NEW r, OneMore(u, v, r), r.type \notin Markers, TurnOpen(u)
  PROVE  \A c \in Unresolved(u) : c \in Unresolved(v) \/ (r.type = "result" /\ r.call = c)
<1>1. OpenTurn(v) = OpenTurn(u) \cup {r}
  BY TurnGrows
<1>2. /\ CallsIn(OpenTurn(v)) = CallsIn(OpenTurn(u)) \cup r.calls
      /\ \A c : c \in AnsweredIn(OpenTurn(v)) <=>
               c \in AnsweredIn(OpenTurn(u)) \/ (r.type = "result" /\ r.call = c)
  BY <1>1, SetsGrow
<1>. QED BY <1>2 DEF Unresolved

\* A record that may follow leaves the journal readable.
LEMMA ReadableGrows ==
  ASSUME NEW u, NEW v, NEW r, OneMore(u, v, r), Readable(u), Follows(u, r)
  PROVE  Readable(v)
<1>. DEFINE n == Len(u)
<1>1. /\ n \in Nat /\ Len(v) = n + 1 /\ v[n + 1] = r /\ u \in Seq(Record) /\ v \in Seq(Record)
      /\ DOMAIN u = 1..n /\ DOMAIN v = 1..(n + 1)
      /\ \A i \in 1..n : v[i] = u[i]
  BY OneMoreIs DEF OneMore
<1>2. n # 0 /\ u # <<>> /\ u[1].type = "session"
  BY DEF Readable
<1>. HIDE DEF n
<1>3. ASSUME NEW k \in 0..n PROVE SubSeq(v, 1, k) = SubSeq(u, 1, k)
  <2>1. \A i \in 1..k : i \in 1..n /\ i \in DOMAIN u /\ i \in DOMAIN v /\ u[i] \in Record /\ v[i] \in Record
    BY <1>1
  <2>2. /\ SubSeq(u, 1, k) \in Seq(Record) /\ Len(SubSeq(u, 1, k)) = k
        /\ \A i \in 1..k : SubSeq(u, 1, k)[i] = u[i]
    BY <2>1, <1>1, SubSeqProperties
  <2>3. /\ SubSeq(v, 1, k) \in Seq(Record) /\ Len(SubSeq(v, 1, k)) = k
        /\ \A i \in 1..k : SubSeq(v, 1, k)[i] = v[i]
    BY <2>1, <1>1, SubSeqProperties
  <2>. QED BY <1>1, <2>1, <2>2, <2>3, SeqEqual
<1>4. SubSeq(v, 1, n) = u
  <2>1. SubSeq(u, 1, n) = u
    BY <1>1, SubSeqFull DEF n
  <2>2. n \in 0..n
    BY <1>1
  <2>. QED BY <1>3, <2>1, <2>2
<1>5. ASSUME NEW i \in 2..Len(v) PROVE Follows(SubSeq(v, 1, i - 1), v[i])
  <2>1. CASE i = n + 1
    <3>1. i - 1 = n
      BY <1>1, <2>1
    <3>. QED BY <1>1, <1>4, <2>1, <3>1
  <2>2. CASE i \in 2..n
    <3>1. i - 1 \in 0..n /\ i \in 1..n
      BY <1>1, <2>2
    <3>2. Follows(SubSeq(u, 1, i - 1), u[i])
      BY <2>2 DEF Readable, n
    <3>. QED BY <1>1, <1>3, <3>1, <3>2
  <2>. QED BY <1>1, <2>1, <2>2
<1>6. v # <<>> /\ v[1] = u[1]
  BY <1>1, <1>2
<1>. QED BY <1>2, <1>5, <1>6 DEF Readable

\* One more record keeps a journal sound.
LEMMA SoundGrows ==
  ASSUME NEW u, NEW v, NEW r, NEW ran, OneMore(u, v, r), Sound(u, ran),
         Allowed(u, r, ran), Chains(u, r)
  PROVE  Sound(v, ran)
<1>. DEFINE n == Len(u)
<1>1. /\ n \in Nat /\ DOMAIN u = 1..n /\ DOMAIN v = 1..(n + 1) /\ v[n + 1] = r
      /\ \A i \in 1..(n + 1) : (i \in 1..n /\ v[i] = u[i]) \/ i = n + 1
      /\ \A i \in 1..n : i \in 1..(n + 1) /\ v[i] = u[i] /\ i < n + 1
      /\ n + 1 \in 1..(n + 1) /\ r \in Record
  BY OneMoreIs DEF OneMore
<1>2. ToSet(v) = ToSet(u) \cup {r}
  BY OneMoreIs
<1>. HIDE DEF n
<1>3. /\ CallsIn(ToSet(v)) = CallsIn(ToSet(u)) \cup r.calls
      /\ \A c : c \in AnsweredIn(ToSet(v)) <=>
               c \in AnsweredIn(ToSet(u)) \/ (r.type = "result" /\ r.call = c)
      /\ \A c : c \in AcceptedIn(ToSet(v)) <=>
               c \in AcceptedIn(ToSet(u)) \/ (r.type = "todo_state" /\ r.call = c)
  BY <1>2, SetsGrow
<1>4. u \in Seq(Record) /\ v \in Seq(Record)
  BY DEF OneMore
<1>5. /\ Readable(u) /\ CallsAreSaid(u) /\ TurnsAreEnded(u) /\ ResultsAreSaid(u, ran)
      /\ TodosAreSaid(u, ran)
  BY DEF Sound
<1>6. r.type \in Types
  BY <1>1 DEF Record
<1>7. \A c \in Unresolved(u) :
        /\ TurnOpen(u) /\ c \in Call /\ c # NoCall
        /\ \E i \in DOMAIN u : Opened(u) <= i /\ c \in u[i].calls
        /\ c \in CallsIn(ToSet(u)) /\ c \notin AnsweredIn(ToSet(u))
  BY <1>4, <1>5, UnresolvedIs
<1>8. Readable(v)
  <2>1. r.type = "todo_state" /\ r.call # NoCall =>
          r.call \in CallsIn(OpenTurn(u)) /\ r.call \notin AcceptedIn(ToSet(u))
    BY DEF Allowed, Unresolved
  <2>2. CASE r.type = "turn_start"
    BY <1>5, <2>2, ReadableGrows DEF Follows, Allowed, Chains, MessageTypes
  <2>3. CASE r.type \in MessageTypes
    BY <1>5, <2>3, ReadableGrows DEF Follows, Allowed, Chains, MessageTypes
  <2>4. CASE r.type = "context_compaction"
    BY <1>5, <2>4, ReadableGrows DEF Follows, Allowed, Chains, MessageTypes
  <2>5. CASE r.type = "todo_state"
    BY <1>5, <2>1, <2>5, ReadableGrows DEF Follows, Allowed, Chains, MessageTypes
  <2>6. CASE r.type = "turn_end"
    BY <1>5, <2>6, ReadableGrows DEF Follows, Allowed, Chains, MessageTypes
  <2>7. r.type # "session"
    BY DEF Allowed
  <2>. QED BY <1>6, <2>2, <2>3, <2>4, <2>5, <2>6, <2>7 DEF Types, MessageTypes
<1>9. CallsAreSaid(v)
  <2>1. ASSUME NEW i \in DOMAIN v
        PROVE  /\ ~v[i].wide
               /\ v[i].calls # {} => v[i].type = "assistant"
               /\ v[i].type = "result" => v[i].call # NoCall /\ v[i].status # ""
    BY <1>1, <1>5, <1>7 DEF CallsAreSaid, Allowed
  <2>2. ASSUME NEW i \in DOMAIN v, NEW j \in DOMAIN v, i # j
        PROVE  v[i].calls \cap v[j].calls = {}
    <3>1. \A k \in DOMAIN u : u[k].calls \subseteq CallsIn(ToSet(u))
      BY DEF CallsIn, ToSet
    <3>2. \A k \in DOMAIN u : u[k].calls \cap r.calls = {}
      BY <3>1 DEF Allowed
    <3>. QED BY <1>1, <1>5, <2>2, <3>2 DEF CallsAreSaid
  <2>3. ASSUME NEW j \in DOMAIN v, v[j].type \in CallRecords, v[j].call # NoCall
        PROVE  \E i \in DOMAIN v : i < j /\ v[j].call \in v[i].calls
    <3>1. CASE j \in 1..n
      <4>1. PICK i \in DOMAIN u : i < j /\ u[j].call \in u[i].calls
        BY <1>1, <1>5, <2>3, <3>1 DEF CallsAreSaid
      <4>. QED BY <1>1, <3>1, <4>1
    <3>2. CASE j = n + 1
      <4>1. r.call \in Unresolved(u)
        BY <1>1, <2>3, <3>2 DEF Allowed, CallRecords
      <4>. QED BY <1>1, <1>7, <3>2, <4>1
    <3>. QED BY <1>1, <3>1, <3>2
  <2>. QED BY <2>1, <2>2, <2>3 DEF CallsAreSaid
<1>10. TurnsAreEnded(v)
  <2>. SUFFICES ASSUME NEW i \in DOMAIN v, v[i].calls # {}
                PROVE  \/ TurnOpen(v) /\ Opened(v) < i
                       \/ \E e \in DOMAIN v : e > i /\ v[e].type = "turn_end"
    BY DEF TurnsAreEnded
  <2>1. CASE i = n + 1
    <3>1. r.type = "assistant" /\ TurnOpen(u) /\ r.type \notin Markers
      BY <1>1, <2>1 DEF Allowed, MessageTypes, Markers
    <3>2. TurnOpen(v) /\ Opened(v) = Opened(u) /\ Opened(u) \in 1..n
      BY <1>4, <3>1, TurnGrows, OpenedIs DEF n
    <3>. QED BY <1>1, <2>1, <3>2
  <2>2. CASE i \in 1..n /\ \E e \in DOMAIN u : e > i /\ u[e].type = "turn_end"
    BY <1>1, <2>2
  <2>3. CASE i \in 1..n /\ TurnOpen(u) /\ Opened(u) < i
    <3>1. CASE r.type \notin Markers
      BY <2>3, <3>1, TurnGrows
    <3>2. CASE r.type = "turn_end"
      BY <1>1, <2>3, <3>2
    <3>3. r.type # "turn_start"
      BY <2>3 DEF Allowed
    <3>. QED BY <3>1, <3>2, <3>3 DEF Markers
  <2>4. i \in 1..n => \/ TurnOpen(u) /\ Opened(u) < i
                      \/ \E e \in DOMAIN u : e > i /\ u[e].type = "turn_end"
    BY <1>1, <1>5 DEF TurnsAreEnded
  <2>. QED BY <1>1, <2>1, <2>2, <2>3, <2>4
<1>11. ResultsAreSaid(v, ran)
  <2>1. ASSUME NEW i \in DOMAIN v, NEW j \in DOMAIN v,
               v[i].type = "result", v[j].type = "result", v[i].call = v[j].call
        PROVE  i = j
    <3>1. \A k \in 1..n : u[k].type = "result" => u[k].call \in AnsweredIn(ToSet(u))
      BY <1>1 DEF AnsweredIn, ToSet
    <3>2. r.type = "result" => r.call \notin AnsweredIn(ToSet(u))
      BY <1>7 DEF Allowed
    <3>. QED BY <1>1, <1>5, <2>1, <3>1, <3>2 DEF ResultsAreSaid
  <2>2. ASSUME NEW c \in ran, c \in CallsIn(ToSet(v))
        PROVE  c \in AnsweredIn(ToSet(v)) \cup Unresolved(v)
    <3>1. c \in CallsIn(ToSet(u))
      BY <1>3, <2>2 DEF Allowed
    <3>2. CASE c \in AnsweredIn(ToSet(u))
      BY <1>3, <3>2
    <3>3. CASE c \in Unresolved(u)
      <4>1. TurnOpen(u) /\ r.type # "turn_start" /\ r.type # "turn_end"
        BY <1>7, <3>3 DEF Allowed
      <4>2. c \in Unresolved(v) \/ (r.type = "result" /\ r.call = c)
        BY <3>3, <4>1, UnresolvedGrows DEF Markers
      <4>. QED BY <1>3, <4>2
    <3>. QED BY <1>5, <3>1, <3>2, <3>3 DEF ResultsAreSaid
  <2>3. ASSUME NEW i \in DOMAIN v, NEW k \in DOMAIN v, v[k].type = "recovery", i < k,
               \A e \in DOMAIN v : v[e].type = "turn_end" /\ i < e => k < e
        PROVE  v[i].calls \subseteq AnsweredIn(ToSet(v))
    <3>1. i \in 1..n /\ v[i] = u[i]
      BY <1>1, <2>3
    <3>2. CASE k \in 1..n
      <4>1. \A e \in DOMAIN u : u[e].type = "turn_end" /\ i < e => k < e
        BY <1>1, <2>3
      <4>2. u[i].calls \subseteq AnsweredIn(ToSet(u))
        BY <1>1, <1>5, <2>3, <3>1, <3>2, <4>1 DEF ResultsAreSaid
      <4>. QED BY <1>3, <3>1, <4>2
    <3>3. CASE k = n + 1 /\ u[i].calls # {}
      <4>1. r.type = "recovery" /\ Unresolved(u) = {}
        BY <1>1, <2>3, <3>3 DEF Allowed
      <4>2. \A e \in DOMAIN u : ~(e > i /\ u[e].type = "turn_end")
        BY <1>1, <2>3, <3>3
      <4>3. TurnOpen(u) /\ Opened(u) < i
        BY <1>1, <1>5, <3>1, <3>3, <4>2 DEF TurnsAreEnded
      <4>4. /\ Opened(u) \in 1..n /\ Len(u) = n
            /\ OpenTurn(u) = {u[x] : x \in Opened(u)..Len(u)}
        BY <1>4, <4>3, OpenedIs DEF n
      <4>5. u[i] \in OpenTurn(u)
        BY <1>1, <3>1, <4>3, <4>4
      <4>6. u[i].calls \subseteq AnsweredIn(OpenTurn(u))
        BY <4>1, <4>5 DEF Unresolved, CallsIn
      <4>7. OpenTurn(u) \subseteq ToSet(u)
        BY <1>1, <4>4 DEF ToSet
      <4>8. AnsweredIn(OpenTurn(u)) \subseteq AnsweredIn(ToSet(u))
        BY <4>7 DEF AnsweredIn
      <4>. QED BY <1>3, <3>1, <4>6, <4>8
    <3>. QED BY <1>1, <3>1, <3>2, <3>3
  <2>. QED BY <2>1, <2>2, <2>3 DEF ResultsAreSaid
<1>12. TodosAreSaid(v, ran)
  <2>. SUFFICES ASSUME NEW j \in DOMAIN v
                PROVE  /\ v[j].type = "todo_state" /\ v[j].call # NoCall => v[j].call \in ran
                       /\ v[j].type = "result" /\ v[j].status = "ok" => v[j].call \in ran
                       /\ v[j].type = "result" /\ v[j].call \in TodoCall \cap AcceptedIn(ToSet(v))
                            => v[j].status = "ok"
    BY DEF TodosAreSaid
  <2>1. CASE j = n + 1
    BY <1>1, <1>3, <2>1 DEF Allowed
  <2>2. CASE j \in 1..n
    <3>1. v[j] = u[j] /\ j \in DOMAIN u
      BY <1>1, <2>2
    <3>2. u[j].type = "result" => u[j].call \in AnsweredIn(ToSet(u))
      BY <3>1 DEF AnsweredIn, ToSet
    <3>3. ASSUME u[j].type = "result", u[j].call \in TodoCall, r.type = "todo_state", r.call = u[j].call
          PROVE  FALSE
      <4>1. r.call # NoCall
        BY <3>3, SessionJournalAssumption
      <4>2. r.call \in Unresolved(u)
        BY <3>3, <4>1 DEF Allowed
      <4>. QED BY <1>7, <3>2, <3>3, <4>2
    <3>. QED BY <1>3, <1>5, <3>1, <3>3 DEF TodosAreSaid
  <2>. QED BY <1>1, <2>1, <2>2
<1>. QED BY <1>4, <1>8, <1>9, <1>10, <1>11, <1>12 DEF Sound

\* The prefixes of a sequence of records grow record by record.
LEMMA PrefixIs ==
  ASSUME NEW s \in Seq(Record), NEW k \in 0..Len(s)
  PROVE  /\ SubSeq(s, 1, k) \in Seq(Record) /\ Len(SubSeq(s, 1, k)) = k
         /\ DOMAIN SubSeq(s, 1, k) = 1..k
         /\ \A i \in 1..k : SubSeq(s, 1, k)[i] = s[i]
<1>1. Len(s) \in Nat /\ DOMAIN s = 1..Len(s)
  OBVIOUS
<1>2. \A i \in 1..k : i \in DOMAIN s /\ s[i] \in Record
  BY <1>1
<1>3. /\ SubSeq(s, 1, k) \in Seq(Record) /\ Len(SubSeq(s, 1, k)) = k
      /\ \A i \in 1..k : SubSeq(s, 1, k)[i] = s[i]
  BY <1>1, <1>2, SubSeqProperties
<1>. QED BY <1>3

\* A prefix and the next one differ by one record.
LEMMA PrefixGrows ==
  ASSUME NEW s \in Seq(Record), NEW i \in 2..Len(s)
  PROVE  OneMore(SubSeq(s, 1, i - 1), SubSeq(s, 1, i), s[i])
<1>1. Len(s) \in Nat /\ i - 1 \in 0..Len(s) /\ i \in 0..Len(s) /\ i \in 1..Len(s)
      /\ \A j \in 1..(i - 1) : j \in 1..i
      /\ (i - 1) + 1 = i /\ i \in 1..i
  OBVIOUS
<1>2. /\ SubSeq(s, 1, i - 1) \in Seq(Record) /\ Len(SubSeq(s, 1, i - 1)) = i - 1
      /\ \A j \in 1..(i - 1) : SubSeq(s, 1, i - 1)[j] = s[j]
  BY <1>1, PrefixIs
<1>3. /\ SubSeq(s, 1, i) \in Seq(Record) /\ Len(SubSeq(s, 1, i)) = i
      /\ \A j \in 1..i : SubSeq(s, 1, i)[j] = s[j]
  BY <1>1, PrefixIs
<1>4. s[i] \in Record
  BY <1>1
<1>. QED BY <1>1, <1>2, <1>3, <1>4 DEF OneMore

\* A batch of records with new ids, each allowed after those before it, can be
\* cut off after any of them and leaves a sound journal.
LEMMA BatchIsSound ==
  ASSUME NEW all \in Seq(Record), NEW m \in 1..Len(all), NEW ran, NEW f \in Nat,
         Sound(SubSeq(all, 1, m), ran),
         \A i \in 1..m : all[i].id < f,
         \A i \in (m + 1)..Len(all) :
           /\ all[i].id = f + (i - m) - 1 /\ all[i].parent = all[i - 1].id
           /\ Sound(SubSeq(all, 1, i - 1), ran) => Allowed(SubSeq(all, 1, i - 1), all[i], ran)
  PROVE  \A n \in m..Len(all) : Sound(SubSeq(all, 1, n), ran)
<1>. DEFINE T == {n \in m..Len(all) : ~Sound(SubSeq(all, 1, n), ran)}
<1>. SUFFICES ASSUME T # {} PROVE FALSE
  OBVIOUS
<1>1. Len(all) \in Nat /\ m \in Nat /\ 1 <= m
  OBVIOUS
<1>2. T \subseteq Nat
  BY <1>1
<1>3. PICK n \in T : \A k \in T : n <= k
  BY <1>2, LeastNumber
<1>4. n \in (m + 1)..Len(all) /\ n \in 2..Len(all) /\ n - 1 \in m..Len(all) /\ n - 1 \in 0..Len(all)
      /\ n - 1 \in 1..Len(all)
  <2>1. n \in m..Len(all) /\ n # m
    OBVIOUS
  <2>. QED BY <1>1, <2>1
<1>5. Sound(SubSeq(all, 1, n - 1), ran)
  <2>1. ~(n <= n - 1)
    BY <1>4
  <2>. QED BY <1>3, <1>4, <2>1
<1>6. Allowed(SubSeq(all, 1, n - 1), all[n], ran)
  BY <1>4, <1>5
<1>7. OneMore(SubSeq(all, 1, n - 1), SubSeq(all, 1, n), all[n])
  BY <1>4, PrefixGrows
<1>8. Chains(SubSeq(all, 1, n - 1), all[n])
  <2>. DEFINE u == SubSeq(all, 1, n - 1)
  <2>1. /\ DOMAIN u = 1..(n - 1) /\ Len(u) = n - 1
        /\ \A i \in 1..(n - 1) : u[i] = all[i]
    BY <1>4, PrefixIs
  <2>. HIDE DEF u
  <2>2. u # <<>> /\ n - 1 \in 1..(n - 1) /\ TailId(u) = all[n - 1].id
    <3>1. u # <<>> /\ n - 1 \in 1..(n - 1)
      BY <1>4, <2>1
    <3>. QED BY <2>1, <3>1 DEF TailId, Last
  <2>3. ASSUME NEW i \in 1..(n - 1) PROVE all[i].id # all[n].id
    <3>1. all[n].id = f + (n - m) - 1
      BY <1>4
    <3>2. CASE i \in 1..m
      <4>1. all[i].id < f
        BY <3>2
      <4>2. all[i].id \in Nat
        <5>1. i \in 1..Len(all)
          BY <1>1, <1>4
        <5>2. all[i] \in Record
          BY <5>1, ElementOfSeq
        <5>. QED BY <5>2 DEF Record
      <4>. QED BY <1>1, <1>4, <3>1, <4>1, <4>2
    <3>3. CASE i \in (m + 1)..Len(all)
      <4>1. all[i].id = f + (i - m) - 1
        BY <3>3
      <4>. QED BY <1>1, <1>4, <3>1, <4>1
    <3>4. i \in 1..m \/ i \in (m + 1)..Len(all)
      BY <1>1, <1>4
    <3>. QED BY <3>2, <3>3, <3>4
  <2>4. all[n].parent = all[n - 1].id
    BY <1>4
  <2>5. \A x \in ToSet(u) : x.id # all[n].id
    <3>1. \A x \in ToSet(u) : \E i \in 1..(n - 1) : x = all[i]
      BY <2>1 DEF ToSet
    <3>. QED BY <2>3, <3>1
  <2>. QED BY <2>2, <2>4, <2>5 DEF Chains, u
<1>9. Sound(SubSeq(all, 1, n), ran)
  BY <1>5, <1>6, <1>7, <1>8, SoundGrows
<1>. QED BY <1>9

\* Two sequences of records joined, and the prefixes of that.
LEMMA ConcatIs ==
  ASSUME NEW s \in Seq(Record), NEW c \in Seq(Record)
  PROVE  /\ s \o c \in Seq(Record) /\ Len(s \o c) = Len(s) + Len(c)
         /\ Len(s) \in Nat /\ Len(c) \in Nat
         /\ \A i \in 1..Len(s) : (s \o c)[i] = s[i]
         /\ \A i \in 1..Len(c) : (s \o c)[Len(s) + i] = c[i]
         /\ SubSeq(s \o c, 1, Len(s)) = s
         /\ ToSet(s \o c) = ToSet(s) \cup ToSet(c)
         /\ \A k \in 0..Len(c) : s \o SubSeq(c, 1, k) = SubSeq(s \o c, 1, Len(s) + k)
<1>. DEFINE t == s \o c
<1>1. /\ t \in Seq(Record) /\ Len(t) = Len(s) + Len(c) /\ Len(s) \in Nat /\ Len(c) \in Nat
      /\ \A i \in 1..(Len(s) + Len(c)) : t[i] = IF i <= Len(s) THEN s[i] ELSE c[i - Len(s)]
  BY ConcatProperties
<1>. HIDE DEF t
<1>2. \A i \in 1..Len(s) : t[i] = s[i] /\ i \in 1..Len(t)
  BY <1>1
<1>3. \A i \in 1..Len(c) : t[Len(s) + i] = c[i] /\ Len(s) + i \in 1..Len(t)
  BY <1>1
<1>4. SubSeq(t, 1, Len(s)) = s
  <2>1. Len(s) \in 0..Len(t)
    BY <1>1
  <2>2. /\ SubSeq(t, 1, Len(s)) \in Seq(Record) /\ Len(SubSeq(t, 1, Len(s))) = Len(s)
        /\ \A i \in 1..Len(s) : SubSeq(t, 1, Len(s))[i] = t[i]
    BY <1>1, <2>1, PrefixIs
  <2>. QED BY <1>2, <2>2, SeqEqual
<1>5. \A i \in 1..Len(t) : i \in 1..Len(s) \/ (i - Len(s) \in 1..Len(c) /\ t[i] = c[i - Len(s)])
  BY <1>1
<1>6. DOMAIN s = 1..Len(s) /\ DOMAIN c = 1..Len(c) /\ DOMAIN t = 1..Len(t)
  BY <1>1
<1>7. ToSet(t) = ToSet(s) \cup ToSet(c)
  <2>1. ToSet(t) \subseteq ToSet(s) \cup ToSet(c)
    BY <1>2, <1>5, <1>6 DEF ToSet
  <2>2. ToSet(s) \cup ToSet(c) \subseteq ToSet(t)
    BY <1>2, <1>3, <1>6 DEF ToSet
  <2>. QED BY <2>1, <2>2
<1>8. ASSUME NEW k \in 0..Len(c)
      PROVE  s \o SubSeq(c, 1, k) = SubSeq(t, 1, Len(s) + k)
  <2>. DEFINE d == SubSeq(c, 1, k)
  <2>1. d \in Seq(Record) /\ Len(d) = k /\ \A i \in 1..k : d[i] = c[i]
    BY PrefixIs
  <2>. HIDE DEF d
  <2>2. /\ s \o d \in Seq(Record) /\ Len(s \o d) = Len(s) + k
        /\ \A i \in 1..(Len(s) + k) : (s \o d)[i] = IF i <= Len(s) THEN s[i] ELSE d[i - Len(s)]
    BY <2>1, ConcatProperties
  <2>3. Len(s) + k \in 0..Len(t)
    BY <1>1
  <2>4. /\ SubSeq(t, 1, Len(s) + k) \in Seq(Record) /\ Len(SubSeq(t, 1, Len(s) + k)) = Len(s) + k
        /\ \A i \in 1..(Len(s) + k) : SubSeq(t, 1, Len(s) + k)[i] = t[i]
    BY <1>1, <2>3, PrefixIs
  <2>5. \A i \in 1..(Len(s) + k) : (s \o d)[i] = t[i]
    <3>. SUFFICES ASSUME NEW i \in 1..(Len(s) + k) PROVE (s \o d)[i] = t[i]
      OBVIOUS
    <3>1. CASE i <= Len(s)
      BY <1>1, <1>2, <2>2, <3>1
    <3>2. CASE ~(i <= Len(s))
      <4>1. i - Len(s) \in 1..k /\ i - Len(s) \in 1..Len(c) /\ i \in 1..(Len(s) + Len(c))
        BY <1>1, <3>2
      <4>. QED BY <1>1, <2>1, <2>2, <3>2, <4>1
    <3>. QED BY <3>1, <3>2
  <2>. QED BY <2>2, <2>4, <2>5, SeqEqual DEF d
<1>. QED BY <1>1, <1>2, <1>3, <1>4, <1>7, <1>8 DEF t

-----------------------------------------------------------------------------
(* The invariant *)

ProcStates ==
  [at : {"off", "found", "locked", "repaired", "ready"}, seen : Seq(Record),
   created : BOOLEAN, failed : BOOLEAN, lost : BOOLEAN, fork : BOOLEAN]
Owning == {"locked", "repaired", "ready"}

JournalShape ==
  /\ exists \in BOOLEAN /\ end \in Ends /\ stale \in BOOLEAN
  /\ lock \in Process \cup {Free, Dead}
  /\ proc \in [Process -> ProcStates]
  /\ file \in Seq(Record) /\ confirmed \subseteq Record /\ executed \subseteq Call

\* What is in the file is sound, whoever wrote it and however far they came.
FileIsSound ==
  /\ ~joined
  /\ file # <<>> => Sound(file, executed)
  /\ ~exists => file = <<>> /\ end = "clean"

ConfirmedStays ==
  /\ exists => confirmed \subseteq ToSet(file)
  /\ executed \subseteq CallsIn(confirmed)

\* One process owns the lock of a session it has open, and never loses it.
OneOwner ==
  /\ stale => lock = Dead
  /\ \A p \in Process :
       /\ proc[p].at \in Owning => lock = p
       /\ ~proc[p].lost
       /\ proc[p].at \in {"off", "found", "locked"} => proc[p] = [Off EXCEPT !.at = proc[p].at]

\* What the owner has cached is the file, until a write of it fails.
OwnersKnow ==
  \A p \in Process :
    /\ proc[p].fork => ~proc[p].created /\ proc[p].seen = <<>>
    /\ proc[p].at = "repaired" =>
         /\ exists /\ file # <<>> /\ end = "clean" /\ proc[p].seen = file
         /\ proc[p].created /\ ~proc[p].failed /\ ~proc[p].fork
    /\ proc[p].at = "ready" /\ ~proc[p].failed =>
         /\ proc[p].created = exists /\ proc[p].seen = file
         /\ exists => file # <<>> /\ end = "clean"
         /\ ~exists => confirmed = {}
         /\ ToSet(file) \subseteq confirmed \cup {Header}

IdsBelow(n) ==
  /\ \A r \in ToSet(file) \cup confirmed : r.id < n
  /\ \A p \in Process : \A r \in ToSet(proc[p].seen) : r.id < n
IdsAreBounded == \E n \in Nat : IdsBelow(n)

JournalInv ==
  /\ JournalShape /\ FileIsSound /\ ConfirmedStays
  /\ OneOwner /\ OwnersKnow /\ IdsAreBounded

\* The header is a record of its own kind and opens no turn.
LEMMA HeaderIs ==
  /\ Header \in Record /\ Header.type = "session" /\ Header.id = 0 /\ Header.calls = {}
  /\ ~Header.wide
  /\ <<Header>> \in Seq(Record) /\ Len(<<Header>>) = 1 /\ <<Header>>[1] = Header
  /\ ~TurnOpen(<<Header>>)
<1>1. /\ Header.type = "session" /\ Header.id = 0 /\ Header.calls = {} /\ ~Header.wide
      /\ Header \in Record
  BY DEF Header, Entry, Blank, Record, Types
<1>. HIDE DEF Header
<1>2. /\ <<Header>> \in Seq(Record) /\ Len(<<Header>>) = 1 /\ <<Header>>[1] = Header
  BY <1>1
<1>3. ~TurnOpen(<<Header>>)
  BY <1>1, <1>2 DEF TurnOpen, Opens
<1>. QED BY <1>1, <1>2, <1>3

\* A file with only its header is sound.
LEMMA HeaderIsSound == ASSUME NEW ran PROVE Sound(<<Header>>, ran)
<1>. DEFINE h == <<Header>>
<1>1. /\ h \in Seq(Record) /\ Len(h) = 1 /\ DOMAIN h = {1} /\ h[1] = Header
      /\ ToSet(h) = {Header} /\ h # <<>>
  BY HeaderIs DEF ToSet
<1>. HIDE DEF h
<1>2. Readable(h)
  BY <1>1, HeaderIs DEF Readable
<1>3. CallsAreSaid(h) /\ TurnsAreEnded(h) /\ TodosAreSaid(h, ran)
  BY <1>1, HeaderIs DEF CallsAreSaid, TurnsAreEnded, TodosAreSaid, CallRecords
<1>4. CallsIn(ToSet(h)) = {}
  BY <1>1, HeaderIs DEF CallsIn
<1>5. ResultsAreSaid(h, ran)
  BY <1>1, <1>4, HeaderIs DEF ResultsAreSaid
<1>. QED BY <1>1, <1>2, <1>3, <1>5 DEF Sound, h

\* Fresh is above every id in use.
LEMMA FreshIs == ASSUME JournalInv PROVE Fresh \in Nat /\ Fresh >= 1 /\ IdsBelow(Fresh)
<1>. DEFINE R == ToSet(file) \cup confirmed \cup UNION {ToSet(proc[p].seen) : p \in Process}
            S == {0} \cup {r.id : r \in R}
<1>1. PICK n \in Nat : IdsBelow(n)
  BY DEF JournalInv, IdsAreBounded
<1>2. ToSet(file) \subseteq Record /\ confirmed \subseteq Record
      /\ \A p \in Process : ToSet(proc[p].seen) \subseteq Record
  BY DEF JournalInv, JournalShape, ProcStates, ToSet
<1>3. \A r \in R : r \in Record /\ r.id < n
  BY <1>1, <1>2 DEF IdsBelow
<1>0. \A r \in R : r.id \in Nat /\ r.id < n /\ r.id <= n
  <2>. SUFFICES ASSUME NEW r \in R PROVE r.id \in Nat /\ r.id < n /\ r.id <= n
    OBVIOUS
  <2>1. r \in Record /\ r.id < n
    BY <1>3
  <2>2. r.id \in Nat
    BY <2>1 DEF Record
  <2>. QED BY <2>1, <2>2
<1>. HIDE DEF R
<1>4. S \subseteq Nat /\ 0 \in S /\ \A x \in S : x <= n
  <2>1. \A x \in S : x = 0 \/ \E r \in R : x = r.id
    OBVIOUS
  <2>. QED BY <1>0, <2>1
<1>5. Max(S) \in S /\ \A x \in S : x <= Max(S)
  <2>. HIDE DEF S
  <2>. QED BY <1>4, Maximum
<1>6. \A r \in R : r.id < 1 + Max(S) /\ r.id \in Nat
  <2>1. \A r \in R : r.id \in S
    OBVIOUS
  <2>. QED BY <1>0, <1>4, <1>5, <2>1
<1>7. Fresh = 1 + Max(S) /\ Max(S) \in Nat
  BY <1>4, <1>5 DEF Fresh, R
<1>. HIDE DEF S
<1>8. IdsBelow(Fresh)
  BY <1>6, <1>7 DEF IdsBelow, R
<1>. QED BY <1>7, <1>8

-----------------------------------------------------------------------------
(* Writing a batch *)

\* What a write appends to: the header goes with the first records of a file.
Base == IF file = <<>> THEN <<Header>> ELSE file

\* What a write appends to is sound and older than its batch.
LEMMA BaseIs ==
  ASSUME JournalInv
  PROVE  /\ Base \in Seq(Record) /\ Sound(Base, executed)
         /\ Len(Base) \in Nat /\ Len(Base) >= 1 /\ DOMAIN Base = 1..Len(Base)
         /\ \A i \in 1..Len(Base) : Base[i].id < Fresh
         /\ Base[Len(Base)].id = TailId(file)
         /\ TurnOpen(Base) <=> TurnOpen(file)
         /\ ToSet(file) \subseteq ToSet(Base)
<1>1. CASE file = <<>>
  <2>1. Base = <<Header>>
    BY <1>1 DEF Base
  <2>2. ~TurnOpen(file) /\ TailId(file) = 0 /\ ToSet(file) = {}
    BY <1>1 DEF TurnOpen, TailId, ToSet
  <2>3. Fresh > 0
    BY FreshIs
  <2>4. DOMAIN <<Header>> = 1..1 /\ \A i \in 1..1 : i = 1
    BY HeaderIs
  <2>. QED BY <2>1, <2>2, <2>3, <2>4, HeaderIs, HeaderIsSound
<1>2. CASE file # <<>>
  <2>1. Base = file /\ file \in Seq(Record) /\ Sound(file, executed)
    BY <1>2 DEF Base, JournalInv, JournalShape, FileIsSound
  <2>2. Len(file) \in Nat /\ Len(file) >= 1 /\ DOMAIN file = 1..Len(file)
    BY <1>2, <2>1
  <2>3. \A i \in 1..Len(file) : file[i].id < Fresh
    BY <2>2, FreshIs DEF IdsBelow, ToSet
  <2>4. file[Len(file)].id = TailId(file)
    BY <1>2 DEF TailId, Last
  <2>. QED BY <2>1, <2>2, <2>3, <2>4
<1>. QED BY <1>1, <1>2

\* However much of a sound batch reaches the file, the file is sound.
LEMMA WriteIs ==
  ASSUME JournalInv, end = "clean", NEW c \in Seq(Record), c # <<>>, NEW n, NEW rest,
         WriteFile(c, n, rest),
         \A k \in 0..Len(c) : Len(file) + k # 0 => Sound(SubSeq(file \o c, 1, Len(file) + k), executed)
  PROVE  /\ exists' = TRUE /\ ~joined' /\ end' \in Ends
         /\ file' \in Seq(Record) /\ (file' # <<>> => Sound(file', executed))
         /\ ToSet(file) \subseteq ToSet(file') /\ ToSet(file') \subseteq ToSet(file) \cup ToSet(c)
         /\ n = Len(c) => file' = file \o c /\ end' = "clean"
<1>1. /\ file \in Seq(Record) /\ ~joined
      /\ Len(file) \in Nat /\ Len(c) \in Nat /\ Len(c) # 0
  BY DEF JournalInv, JournalShape, FileIsSound
<1>2. /\ n \in 0..Len(c) /\ rest \in Ends /\ (n = Len(c) => rest = "clean")
      /\ exists' = TRUE /\ ~joined' /\ file' = file \o Written(c, n, rest)
      /\ end' = IF n > 0 \/ rest # "clean" THEN rest ELSE end
  BY <1>1 DEF WriteFile
<1>3. PICK k \in 0..Len(c) : Written(c, n, rest) = SubSeq(c, 1, k) /\ (n = Len(c) => k = Len(c))
  <2>1. CASE rest = "unterminated"
    BY <1>1, <1>2, <2>1 DEF Written
  <2>2. CASE rest # "unterminated"
    BY <1>1, <1>2, <2>2 DEF Written
  <2>. QED BY <2>1, <2>2
<1>. DEFINE d == SubSeq(c, 1, k)
<1>4. d \in Seq(Record) /\ DOMAIN d = 1..k /\ Len(d) = k /\ \A i \in 1..k : d[i] = c[i] /\ i \in DOMAIN c
  <2>1. \A i \in 1..k : i \in DOMAIN c
    BY <1>1
  <2>. QED BY <2>1, PrefixIs
<1>5. file' = file \o d
  BY <1>2, <1>3
<1>. HIDE DEF d
<1>6. /\ file \o d \in Seq(Record) /\ Len(file \o d) = Len(file) + k
      /\ ToSet(file \o d) = ToSet(file) \cup ToSet(d)
  BY <1>1, <1>4, ConcatIs
<1>7. ToSet(d) \subseteq ToSet(c)
  BY <1>4 DEF ToSet
<1>8. file \o d = SubSeq(file \o c, 1, Len(file) + k)
  BY <1>1, ConcatIs DEF d
<1>9. file' # <<>> => Len(file) + k # 0
  BY <1>1, <1>5, <1>6
<1>10. file' # <<>> => Sound(file', executed)
  BY <1>5, <1>8, <1>9
<1>11. n = Len(c) => d = c
  BY <1>3, SubSeqFull DEF d
<1>12. n = Len(c) => end' = "clean"
  BY <1>1, <1>2
<1>. QED BY <1>1, <1>2, <1>5, <1>6, <1>7, <1>10, <1>11, <1>12

\* A batch with the ids of Chained, each record allowed after those before it.
GoodBatch(batch) ==
  /\ batch \in Seq(Record) /\ batch # <<>>
  /\ \A i \in 1..Len(batch) :
       /\ batch[i].id = Fresh + i - 1
       /\ batch[i].parent = IF i = 1 THEN TailId(file) ELSE Fresh + i - 2
       /\ LET before == SubSeq(Base \o batch, 1, Len(Base) + i - 1)
          IN  Sound(before, executed) => Allowed(before, batch[i], executed)

\* Every prefix of the file with a good batch is sound.
LEMMA GoodBatchIsSound ==
  ASSUME JournalInv, NEW batch, GoodBatch(batch)
  PROVE  \A n \in Len(Base)..Len(Base \o batch) : Sound(SubSeq(Base \o batch, 1, n), executed)
<1>. DEFINE all == Base \o batch
            m == Len(Base)
<1>1. batch \in Seq(Record) /\ batch # <<>>
  BY DEF GoodBatch
<1>2. /\ all \in Seq(Record) /\ Len(all) = m + Len(batch) /\ Len(batch) \in Nat
      /\ \A i \in 1..m : all[i] = Base[i]
      /\ \A i \in 1..Len(batch) : all[m + i] = batch[i]
      /\ SubSeq(all, 1, m) = Base
  BY <1>1, BaseIs, ConcatIs
<1>3. /\ m \in Nat /\ m >= 1 /\ Sound(Base, executed)
      /\ \A i \in 1..m : Base[i].id < Fresh
      /\ Base[m].id = TailId(file)
      /\ Fresh \in Nat
  BY BaseIs, FreshIs
<1>4. \A i \in 1..Len(batch) :
        /\ batch[i].id = Fresh + i - 1
        /\ batch[i].parent = IF i = 1 THEN TailId(file) ELSE Fresh + i - 2
        /\ Sound(SubSeq(all, 1, m + i - 1), executed)
             => Allowed(SubSeq(all, 1, m + i - 1), batch[i], executed)
  BY DEF GoodBatch
<1>. HIDE DEF all, m
<1>5. m \in 1..Len(all)
  BY <1>2, <1>3
<1>6. \A i \in 1..m : all[i].id < Fresh
  BY <1>2, <1>3
<1>7. ASSUME NEW j \in (m + 1)..Len(all)
      PROVE  /\ all[j].id = Fresh + (j - m) - 1 /\ all[j].parent = all[j - 1].id
             /\ Sound(SubSeq(all, 1, j - 1), executed) => Allowed(SubSeq(all, 1, j - 1), all[j], executed)
  <2>1. PICK i \in 1..Len(batch) : j = m + i
    <3>1. j - m \in 1..Len(batch) /\ j = m + (j - m)
      BY <1>2, <1>3
    <3>. QED BY <3>1
  <2>2. all[j] = batch[i] /\ j - m = i /\ j - 1 = m + i - 1
    BY <1>2, <1>3, <2>1
  <2>3. all[j].parent = all[j - 1].id
    <3>1. CASE i = 1
      <4>1. j - 1 = m /\ m \in 1..m
        BY <1>3, <2>1, <3>1
      <4>. QED BY <1>2, <1>3, <1>4, <2>2, <3>1, <4>1
    <3>2. CASE i # 1
      <4>1. i - 1 \in 1..Len(batch) /\ j - 1 = m + (i - 1)
        BY <1>2, <1>3, <2>1, <3>2
      <4>2. all[j - 1] = batch[i - 1] /\ batch[i - 1].id = Fresh + (i - 1) - 1
        BY <1>2, <1>4, <4>1
      <4>3. batch[i].parent = Fresh + i - 2
        BY <1>4, <3>2
      <4>. QED BY <1>3, <2>2, <4>2, <4>3
    <3>. QED BY <3>1, <3>2
  <2>. QED BY <1>3, <1>4, <2>2, <2>3
<1>8. Sound(SubSeq(all, 1, m), executed)
  BY <1>2, <1>3
<1>9. \A n \in m..Len(all) : Sound(SubSeq(all, 1, n), executed)
  BY <1>2, <1>3, <1>5, <1>6, <1>7, <1>8, BatchIsSound
<1>. QED BY <1>9 DEF all, m

\* What a process that may write has cached, and what its write adds.
LEMMA WriterIs ==
  ASSUME JournalInv, NEW p \in Process, proc[p].at \in {"repaired", "ready"}, MayWrite(p),
         NEW batch, GoodBatch(batch)
  PROVE  /\ end = "clean" /\ proc[p].seen = file /\ proc[p].created = exists
         /\ Content(p, batch) \in Seq(Record) /\ Content(p, batch) # <<>>
         /\ file \o Content(p, batch) = Base \o batch
         /\ ToSet(batch) \subseteq ToSet(Content(p, batch))
         /\ ToSet(Content(p, batch)) \subseteq ToSet(batch) \cup {Header}
         /\ proc[p].created => Content(p, batch) = batch
         /\ \A k \in 0..Len(Content(p, batch)) : Len(file) + k # 0 =>
              Sound(SubSeq(file \o Content(p, batch), 1, Len(file) + k), executed)
<1>. DEFINE c == Content(p, batch)
<1>1. batch \in Seq(Record) /\ batch # <<>> /\ file \in Seq(Record)
  BY DEF GoodBatch, JournalInv, JournalShape
<1>2. /\ proc[p].seen = file /\ proc[p].created = exists
      /\ exists => file # <<>> /\ end = "clean"
      /\ ~exists => file = <<>> /\ end = "clean"
      /\ exists \in BOOLEAN
  BY DEF JournalInv, JournalShape, FileIsSound, OwnersKnow, MayWrite
<1>5. /\ c \in Seq(Record) /\ c # <<>> /\ file \o c = Base \o batch
      /\ ToSet(batch) \subseteq ToSet(c) /\ ToSet(c) \subseteq ToSet(batch) \cup {Header}
      /\ proc[p].created => c = batch
  <2>. HIDE DEF c
  <2>1. CASE exists
    <3>1. c = batch /\ Base = file
      BY <1>2, <2>1 DEF Content, Base, c
    <3>. QED BY <1>1, <3>1
  <2>2. CASE ~exists
    <3>1. c = <<Header>> \o batch /\ file = <<>> /\ Base = <<Header>> /\ ~proc[p].created
      BY <1>2, <2>2 DEF Content, Base, Header, c
    <3>2. /\ c \in Seq(Record) /\ Len(c) = 1 + Len(batch) /\ Len(batch) \in Nat
          /\ ToSet(c) = ToSet(<<Header>>) \cup ToSet(batch)
      BY <1>1, <3>1, HeaderIs, ConcatIs
    <3>3. ToSet(<<Header>>) = {Header}
      BY HeaderIs DEF ToSet
    <3>4. file \o c = c /\ c # <<>>
      BY <3>1, <3>2, ConcatEmptySeq
    <3>. QED BY <3>1, <3>2, <3>3, <3>4
  <2>. QED BY <2>1, <2>2
<1>. HIDE DEF c
<1>6. /\ Len(file \o c) = Len(file) + Len(c) /\ Len(file) \in Nat /\ Len(c) \in Nat
  BY <1>1, <1>5, ConcatIs
<1>7. Len(Base) = IF file = <<>> THEN 1 ELSE Len(file)
  BY HeaderIs DEF Base
<1>8. ASSUME NEW k \in 0..Len(c), Len(file) + k # 0
      PROVE  Sound(SubSeq(file \o c, 1, Len(file) + k), executed)
  <2>1. Len(file) + k \in Len(Base)..Len(Base \o batch)
    BY <1>1, <1>5, <1>6, <1>7, <1>8
  <2>. QED BY <1>5, <2>1, GoodBatchIsSound
<1>. QED BY <1>2, <1>5, <1>8 DEF c

\* The ids of a batch, and those of everything it is added to, have a bound.
LEMMA BatchIds ==
  ASSUME JournalInv, NEW batch, GoodBatch(batch)
  PROVE  \E n \in Nat : IdsBelow(n) /\ Header.id < n /\ \A r \in ToSet(batch) : r.id < n
<1>1. batch \in Seq(Record) /\ Len(batch) \in Nat /\ DOMAIN batch = 1..Len(batch)
  BY DEF GoodBatch
<1>2. Fresh \in Nat /\ Fresh >= 1 /\ IdsBelow(Fresh)
  BY FreshIs
<1>. DEFINE n == Fresh + Len(batch)
<1>3. \A r \in ToSet(batch) : \E i \in 1..Len(batch) : r.id = Fresh + i - 1
  BY <1>1 DEF GoodBatch, ToSet
<1>4. n \in Nat /\ n >= Fresh /\ n > 0 /\ \A r \in ToSet(batch) : r.id < n
  BY <1>1, <1>2, <1>3
<1>5. \A r \in ToSet(file) \cup confirmed : r.id \in Nat
  <2>1. file \in Seq(Record) /\ confirmed \subseteq Record
    BY DEF JournalInv, JournalShape
  <2>2. \A r \in ToSet(file) \cup confirmed : r \in Record
    BY <2>1 DEF ToSet
  <2>. QED BY <2>2 DEF Record
<1>6. \A p \in Process : \A r \in ToSet(proc[p].seen) : r.id \in Nat
  <2>. SUFFICES ASSUME NEW p \in Process, NEW r \in ToSet(proc[p].seen) PROVE r.id \in Nat
    OBVIOUS
  <2>1. proc[p].seen \in Seq(Record)
    BY DEF JournalInv, JournalShape, ProcStates
  <2>2. r \in Record
    BY <2>1 DEF ToSet
  <2>. QED BY <2>2 DEF Record
<1>7. IdsBelow(n)
  BY <1>2, <1>4, <1>5, <1>6 DEF IdsBelow
<1>. QED BY <1>4, <1>7, HeaderIs

\* The other processes while one owns the lock: they have nothing open.
LEMMA OthersAreOff ==
  ASSUME JournalInv, NEW p \in Process, proc[p].at \in Owning, NEW q \in Process, q # p
  PROVE  /\ proc[q].at \in {"off", "found"} /\ proc[q] = [Off EXCEPT !.at = proc[q].at]
         /\ lock = p /\ ~stale /\ lock # Dead
<1>1. lock = p /\ proc[q].at \notin Owning
  BY DEF JournalInv, OneOwner
<1>2. proc[q].at \in {"off", "found"}
  BY <1>1 DEF JournalInv, JournalShape, ProcStates, Owning
<1>. QED BY <1>1, <1>2, SessionJournalAssumption DEF JournalInv, JournalShape, OneOwner

\* The owner gives its session up, or crashes: nobody has it open then.
LEMMA OwnerGoesOff ==
  ASSUME JournalInv, NEW p \in Process, proc[p].at \in Owning,
         proc' = [proc EXCEPT ![p] = Off], lock' \in {Free, Dead}, stale' = stale,
         exists' \in BOOLEAN, end' \in Ends, file' \in Seq(Record), confirmed' \subseteq Record,
         executed' = executed, FileIsSound', ConfirmedStays',
         NEW b \in Nat, \A r \in ToSet(file') \cup confirmed' : r.id < b
  PROVE  JournalInv'
<1>1. /\ JournalShape /\ ~stale
      /\ \A q \in Process : q # p =>
           proc[q].at \in {"off", "found"} /\ proc[q] = [Off EXCEPT !.at = proc[q].at]
  <2>1. ~stale
    BY SessionJournalAssumption DEF JournalInv, OneOwner
  <2>. QED BY <2>1, OthersAreOff DEF JournalInv
<1>2. Off \in ProcStates /\ Off.at = "off" /\ Off.seen = <<>> /\ ~Off.lost /\ ~Off.fork
  BY DEF Off, ProcStates
<1>3. /\ proc'[p] = Off /\ \A q \in Process : q # p => proc'[q] = proc[q]
      /\ proc' \in [Process -> ProcStates]
  BY <1>1, <1>2 DEF JournalShape
<1>4. JournalShape'
  BY <1>1, <1>3 DEF JournalShape
<1>5. \A q \in Process :
        /\ proc'[q].at \in {"off", "found"} /\ proc'[q] = [Off EXCEPT !.at = proc'[q].at]
        /\ proc'[q].seen = <<>> /\ ~proc'[q].lost /\ ~proc'[q].fork
  BY <1>1, <1>3 DEF Off
<1>6. OneOwner'
  BY <1>1, <1>5 DEF OneOwner, Owning
<1>7. OwnersKnow'
  BY <1>5 DEF OwnersKnow
<1>8. IdsAreBounded'
  <2>1. ToSet(<<>>) = {}
    BY DEF ToSet
  <2>2. \A q \in Process : ToSet(proc'[q].seen) = {}
    BY <1>5, <2>1
  <2>. QED BY <2>2 DEF IdsAreBounded, IdsBelow
<1>. QED BY <1>4, <1>6, <1>7, <1>8 DEF JournalInv

\* Appends keep the invariant, whether they succeed, fail or are cut short.
LEMMA WriteKeeps ==
  ASSUME JournalInv, NEW p \in Process, proc[p].at = "ready",
         NEW batch, GoodBatch(batch), Write(p, batch)
  PROVE  JournalInv'
<1>. DEFINE c == Content(p, batch)
<1>1. MayWrite(p)
  BY DEF Write, AppendAll, FailAppend, CrashAppend
<1>2. /\ end = "clean" /\ proc[p].seen = file /\ proc[p].created = exists
      /\ c \in Seq(Record) /\ c # <<>>
      /\ ToSet(batch) \subseteq ToSet(c) /\ ToSet(c) \subseteq ToSet(batch) \cup {Header}
      /\ \A k \in 0..Len(c) : Len(file) + k # 0 =>
           Sound(SubSeq(file \o c, 1, Len(file) + k), executed)
  BY <1>1, WriterIs
<1>3. PICK n, rest :
        /\ WriteFile(c, n, rest)
        /\ \/ /\ n = Len(c)
              /\ confirmed' = confirmed \cup ToSet(batch)
              /\ proc' = [proc EXCEPT ![p].seen = @ \o c, ![p].created = TRUE, ![p].fork = FALSE]
              /\ UNCHANGED <<lock, stale, executed>>
           \/ /\ proc' = [proc EXCEPT ![p].failed = TRUE]
              /\ UNCHANGED <<confirmed, lock, stale, executed>>
           \/ /\ proc' = [proc EXCEPT ![p] = Off]
              /\ lock' = IF lock = p THEN Dead ELSE lock
              /\ UNCHANGED <<confirmed, stale, executed>>
  <2>1. CASE AppendAll(p, batch)
    BY <2>1 DEF AppendAll
  <2>2. CASE FailAppend(p, batch)
    BY <2>2 DEF FailAppend
  <2>3. CASE CrashAppend(p, batch)
    BY <2>3 DEF CrashAppend
  <2>. QED BY <2>1, <2>2, <2>3 DEF Write
<1>. HIDE DEF c
<1>4. /\ exists' = TRUE /\ ~joined' /\ end' \in Ends
      /\ file' \in Seq(Record) /\ (file' # <<>> => Sound(file', executed))
      /\ ToSet(file) \subseteq ToSet(file') /\ ToSet(file') \subseteq ToSet(file) \cup ToSet(c)
      /\ n = Len(c) => file' = file \o c /\ end' = "clean"
  BY <1>2, <1>3, WriteIs
<1>5. /\ JournalShape /\ ConfirmedStays /\ OneOwner /\ OwnersKnow
      /\ proc[p] \in ProcStates /\ file \in Seq(Record)
      /\ lock = p /\ ~stale /\ Dead \notin Process
      /\ ~exists => confirmed = {}
      /\ ToSet(file) \subseteq confirmed \cup {Header}
      /\ \A q \in Process : q # p =>
           proc[q].at \in {"off", "found"} /\ proc[q] = [Off EXCEPT !.at = proc[q].at]
  <2>1. lock = p /\ ~stale /\ Dead \notin Process
    BY SessionJournalAssumption DEF JournalInv, OneOwner, Owning
  <2>2. \A q \in Process : q # p =>
           proc[q].at \in {"off", "found"} /\ proc[q] = [Off EXCEPT !.at = proc[q].at]
    BY OthersAreOff DEF Owning
  <2>3. (~exists => confirmed = {}) /\ ToSet(file) \subseteq confirmed \cup {Header}
    BY <1>1 DEF JournalInv, OwnersKnow, MayWrite
  <2>. QED BY <2>1, <2>2, <2>3 DEF JournalInv, JournalShape
<1>6. PICK b \in Nat : IdsBelow(b) /\ Header.id < b /\ \A r \in ToSet(batch) : r.id < b
  BY BatchIds
<1>7. /\ \A r \in ToSet(file') : r.id < b
      /\ ToSet(file) \subseteq ToSet(file')
  BY <1>2, <1>4, <1>6 DEF IdsBelow
<1>8. FileIsSound'
  <2>1. executed' = executed
    BY <1>3
  <2>. QED BY <1>4, <2>1 DEF FileIsSound
<1>9. ASSUME confirmed' = confirmed \/ (confirmed' = confirmed \cup ToSet(batch) /\ n = Len(c))
      PROVE  ConfirmedStays'
  <2>1. confirmed \subseteq ToSet(file')
    BY <1>4, <1>5 DEF ConfirmedStays, JournalShape
  <2>2. n = Len(c) => ToSet(batch) \subseteq ToSet(file')
    <3>1. n = Len(c) => ToSet(file') = ToSet(file) \cup ToSet(c)
      <4>1. ToSet(file \o c) = ToSet(file) \cup ToSet(c)
        BY <1>2, <1>5, ConcatIs
      <4>. QED BY <1>4, <4>1
    <3>. QED BY <1>2, <3>1
  <2>3. CallsIn(confirmed) \subseteq CallsIn(confirmed')
    BY <1>9 DEF CallsIn
  <2>4. executed' = executed
    BY <1>3
  <2>. QED BY <1>5, <1>9, <2>1, <2>2, <2>3, <2>4 DEF ConfirmedStays
<1>10. ToSet(batch) \subseteq Record
  BY DEF GoodBatch, ToSet
<1>11. CASE /\ n = Len(c)
            /\ confirmed' = confirmed \cup ToSet(batch)
            /\ proc' = [proc EXCEPT ![p].seen = @ \o c, ![p].created = TRUE, ![p].fork = FALSE]
            /\ UNCHANGED <<lock, stale, executed>>
  <2>1. /\ proc'[p] = [proc[p] EXCEPT !.seen = file', !.created = TRUE, !.fork = FALSE]
        /\ \A q \in Process : q # p => proc'[q] = proc[q]
        /\ proc' \in [Process -> ProcStates]
    <3>1. proc' = [proc EXCEPT ![p] = [proc[p] EXCEPT !.seen = file', !.created = TRUE, !.fork = FALSE]]
      BY <1>2, <1>4, <1>11
    <3>2. [proc[p] EXCEPT !.seen = file', !.created = TRUE, !.fork = FALSE] \in ProcStates
      BY <1>4, <1>5 DEF ProcStates
    <3>. QED BY <1>5, <3>1, <3>2 DEF JournalShape
  <2>2. /\ proc'[p].at = "ready" /\ proc'[p].seen = file' /\ proc'[p].created /\ ~proc'[p].fork
        /\ proc'[p].lost = proc[p].lost
    BY <1>5, <2>1 DEF ProcStates
  <2>3. JournalShape'
    BY <1>4, <1>5, <1>10, <1>11, <2>1 DEF JournalShape
  <2>4. ConfirmedStays'
    BY <1>9, <1>11
  <2>5. OneOwner'
    BY <1>5, <1>11, <2>1, <2>2 DEF OneOwner
  <2>6. file' # <<>> /\ end' = "clean" /\ ToSet(file') \subseteq confirmed' \cup {Header}
    <3>1. file' = file \o c /\ end' = "clean"
      BY <1>4, <1>11
    <3>2. file' # <<>>
      BY <1>2, <1>5, <3>1, ConcatEqualIffEmpty
    <3>. QED BY <1>2, <1>4, <1>5, <1>11, <3>1, <3>2
  <2>7. OwnersKnow'
    <3>. SUFFICES ASSUME NEW q \in Process
                  PROVE  /\ proc'[q].fork => ~proc'[q].created /\ proc'[q].seen = <<>>
                         /\ proc'[q].at # "repaired"
                         /\ proc'[q].at = "ready" /\ ~proc'[q].failed =>
                              /\ proc'[q].created = exists' /\ proc'[q].seen = file'
                              /\ exists' => file' # <<>> /\ end' = "clean"
                              /\ ~exists' => confirmed' = {}
                              /\ ToSet(file') \subseteq confirmed' \cup {Header}
      BY Zenon DEF OwnersKnow
    <3>1. CASE q = p
      BY <1>4, <2>2, <2>6, <3>1
    <3>2. CASE q # p
      BY <1>5, <2>1, <3>2 DEF Off
    <3>. QED BY <3>1, <3>2
  <2>8. IdsAreBounded'
    <3>1. \A q \in Process : \A r \in ToSet(proc'[q].seen) : r.id < b
      BY <1>6, <1>7, <2>1, <2>2 DEF IdsBelow
    <3>2. \A r \in ToSet(file') \cup confirmed' : r.id < b
      BY <1>6, <1>7, <1>11 DEF IdsBelow
    <3>. QED BY <3>1, <3>2 DEF IdsBelow, IdsAreBounded
  <2>. QED BY <1>8, <2>3, <2>4, <2>5, <2>7, <2>8 DEF JournalInv
<1>12. CASE /\ proc' = [proc EXCEPT ![p].failed = TRUE]
            /\ UNCHANGED <<confirmed, lock, stale, executed>>
  <2>1. /\ proc'[p] = [proc[p] EXCEPT !.failed = TRUE]
        /\ \A q \in Process : q # p => proc'[q] = proc[q]
        /\ proc' \in [Process -> ProcStates]
    <3>1. [proc[p] EXCEPT !.failed = TRUE] \in ProcStates
      BY <1>5 DEF ProcStates
    <3>. QED BY <1>5, <1>12, <3>1 DEF JournalShape
  <2>2. /\ proc'[p].at = "ready" /\ proc'[p].failed
        /\ proc'[p].fork = proc[p].fork /\ proc'[p].created = proc[p].created
        /\ proc'[p].seen = proc[p].seen /\ proc'[p].lost = proc[p].lost
    BY <1>5, <2>1 DEF ProcStates
  <2>3. JournalShape'
    BY <1>4, <1>5, <1>12, <2>1 DEF JournalShape
  <2>4. ConfirmedStays'
    BY <1>9, <1>12
  <2>5. OneOwner'
    BY <1>5, <1>12, <2>1, <2>2 DEF OneOwner
  <2>6. OwnersKnow'
    <3>. SUFFICES ASSUME NEW q \in Process
                  PROVE  /\ proc'[q].fork => ~proc'[q].created /\ proc'[q].seen = <<>>
                         /\ proc'[q].at # "repaired"
                         /\ ~(proc'[q].at = "ready" /\ ~proc'[q].failed)
      BY Zenon DEF OwnersKnow
    <3>1. CASE q = p
      BY <1>5, <2>2, <3>1 DEF OwnersKnow
    <3>2. CASE q # p
      BY <1>5, <2>1, <3>2 DEF Off
    <3>. QED BY <3>1, <3>2
  <2>7. IdsAreBounded'
    <3>1. \A q \in Process : \A r \in ToSet(proc'[q].seen) : r.id < b
      BY <1>6, <2>1, <2>2 DEF IdsBelow
    <3>2. \A r \in ToSet(file') \cup confirmed' : r.id < b
      BY <1>6, <1>7, <1>12 DEF IdsBelow
    <3>. QED BY <3>1, <3>2 DEF IdsBelow, IdsAreBounded
  <2>. QED BY <1>8, <2>3, <2>4, <2>5, <2>6, <2>7 DEF JournalInv
<1>13. CASE /\ proc' = [proc EXCEPT ![p] = Off]
            /\ lock' = IF lock = p THEN Dead ELSE lock
            /\ UNCHANGED <<confirmed, stale, executed>>
  <2>1. proc[p].at \in Owning /\ lock' = Dead /\ confirmed' \subseteq Record
    BY <1>5, <1>13 DEF Owning, JournalShape
  <2>2. \A r \in ToSet(file') \cup confirmed' : r.id < b
    BY <1>6, <1>7, <1>13 DEF IdsBelow
  <2>3. ConfirmedStays'
    BY <1>9, <1>13
  <2>. QED BY <1>4, <1>8, <1>13, <2>1, <2>2, <2>3, OwnerGoesOff
<1>. QED BY <1>3, <1>11, <1>12, <1>13

-----------------------------------------------------------------------------
(* Batches, record by record *)

\* The file and the records of the batch before the i-th.
Before(batch, i) == SubSeq(Base \o batch, 1, Len(Base) + i - 1)

\* What precedes the records of a batch: the base, then one record more each time.
LEMMA BeforeIs ==
  ASSUME JournalInv, NEW batch \in Seq(Record)
  PROVE  /\ Before(batch, 1) = Base
         /\ \A i \in 1..Len(batch) : Before(batch, i) \in Seq(Record)
         /\ \A i \in 1..(Len(batch) - 1) : OneMore(Before(batch, i), Before(batch, i + 1), batch[i])
         /\ \A i \in 1..Len(batch) : \A j \in 1..Len(Base) : Before(batch, i)[j] = Base[j]
<1>. DEFINE all == Base \o batch
            m == Len(Base)
<1>1. /\ all \in Seq(Record) /\ Len(all) = m + Len(batch) /\ Len(batch) \in Nat
      /\ \A i \in 1..m : all[i] = Base[i]
      /\ \A i \in 1..Len(batch) : all[m + i] = batch[i]
      /\ SubSeq(all, 1, m) = Base /\ m \in Nat /\ m >= 1
  BY BaseIs, ConcatIs
<1>. HIDE DEF all, m
<1>2. \A i : Before(batch, i) = SubSeq(all, 1, m + i - 1)
  BY DEF Before, all, m
<1>3. Before(batch, 1) = Base
  <2>1. m + 1 - 1 = m
    BY <1>1
  <2>. QED BY <1>1, <1>2, <2>1
<1>4. ASSUME NEW i \in 1..Len(batch)
      PROVE  /\ Before(batch, i) \in Seq(Record)
             /\ \A j \in 1..m : Before(batch, i)[j] = Base[j]
  <2>1. m + i - 1 \in 0..Len(all) /\ \A j \in 1..m : j \in 1..(m + i - 1)
    BY <1>1
  <2>2. /\ SubSeq(all, 1, m + i - 1) \in Seq(Record)
        /\ \A j \in 1..(m + i - 1) : SubSeq(all, 1, m + i - 1)[j] = all[j]
    BY <1>1, <2>1, PrefixIs
  <2>. QED BY <1>1, <1>2, <2>1, <2>2
<1>5. ASSUME NEW i \in 1..(Len(batch) - 1)
      PROVE  OneMore(Before(batch, i), Before(batch, i + 1), batch[i])
  <2>1. m + i \in 2..Len(all) /\ (m + i) - 1 = m + i - 1 /\ m + (i + 1) - 1 = m + i /\ i \in 1..Len(batch)
    BY <1>1
  <2>2. OneMore(SubSeq(all, 1, (m + i) - 1), SubSeq(all, 1, m + i), all[m + i])
    BY <1>1, <2>1, PrefixGrows
  <2>3. all[m + i] = batch[i]
    BY <1>1, <2>1
  <2>4. Before(batch, i) = SubSeq(all, 1, (m + i) - 1) /\ Before(batch, i + 1) = SubSeq(all, 1, m + i)
    BY <1>2, <2>1
  <2>. QED BY <2>2, <2>3, <2>4
<1>. QED BY <1>3, <1>4, <1>5 DEF m

\* The id that the next record names as its parent.
LEMMA TailIdIs == ASSUME JournalInv PROVE TailId(file) \in Nat
<1>1. CASE file = <<>>
  BY <1>1 DEF TailId
<1>2. CASE file # <<>>
  <2>1. file[Len(file)] \in Record
    BY <1>2 DEF JournalInv, JournalShape
  <2>. QED BY <1>2, <2>1 DEF TailId, Last, Record
<1>. QED BY <1>1, <1>2

\* Chained gives the records their ids and parents and nothing else.
LEMMA ChainedIs ==
  ASSUME JournalInv, NEW es \in Seq(Record), es # <<>>
  PROVE  /\ Chained(file, es) \in Seq(Record) /\ Len(Chained(file, es)) = Len(es)
         /\ Chained(file, es) # <<>> /\ Len(es) \in Nat /\ Len(es) >= 1
         /\ \A i \in 1..Len(es) :
              /\ Chained(file, es)[i] =
                   [es[i] EXCEPT !.id = Fresh + i - 1,
                                 !.parent = IF i = 1 THEN TailId(file) ELSE Fresh + i - 2]
              /\ Chained(file, es)[i].id = Fresh + i - 1
              /\ Chained(file, es)[i].parent = IF i = 1 THEN TailId(file) ELSE Fresh + i - 2
<1>. DEFINE e(i) == [es[i] EXCEPT !.id = Fresh + i - 1,
                                  !.parent = IF i = 1 THEN TailId(file) ELSE Fresh + i - 2]
<1>1. Fresh \in Nat /\ Fresh >= 1 /\ TailId(file) \in Nat /\ Len(es) \in Nat /\ Len(es) >= 1
  BY FreshIs, TailIdIs
<1>2. ASSUME NEW i \in 1..Len(es)
      PROVE  /\ e(i) \in Record /\ e(i).id = Fresh + i - 1
             /\ e(i).parent = IF i = 1 THEN TailId(file) ELSE Fresh + i - 2
  <2>1. es[i] \in Record
    OBVIOUS
  <2>2. Fresh + i - 1 \in Nat /\ (IF i = 1 THEN TailId(file) ELSE Fresh + i - 2) \in Nat
    BY <1>1
  <2>. QED BY <2>1, <2>2 DEF Record
<1>3. Chained(file, es) = [i \in 1..Len(es) |-> e(i)]
  BY DEF Chained
<1>. HIDE DEF e
<1>4. [i \in 1..Len(es) |-> e(i)] \in Seq(Record)
  BY <1>1, <1>2
<1>5. Len([i \in 1..Len(es) |-> e(i)]) = Len(es)
  BY <1>1
<1>6. Chained(file, es) # <<>>
  BY <1>1, <1>3, <1>4, <1>5
<1>7. \A i \in 1..Len(es) : Chained(file, es)[i] = e(i)
  BY <1>3
<1>. QED BY <1>1, <1>2, <1>3, <1>4, <1>5, <1>6, <1>7 DEF e

\* Whether a record is allowed does not depend on its place in the chain.
LEMMA PlaceIsApart ==
  ASSUME NEW u, NEW r \in Record, NEW ran, Allowed(u, r, ran), NEW id, NEW parent
  PROVE  Allowed(u, [r EXCEPT !.id = id, !.parent = parent], ran)
<1>. DEFINE x == [r EXCEPT !.id = id, !.parent = parent]
<1>1. /\ x.type = r.type /\ x.wide = r.wide /\ x.turn = r.turn /\ x.covers = r.covers
      /\ x.calls = r.calls /\ x.call = r.call /\ x.status = r.status
  BY DEF Record
<1>. HIDE DEF x
<1>2. Allowed(u, x, ran)
  BY <1>1 DEF Allowed
<1>. QED BY <1>2 DEF x

\* Entries that are allowed one after the other make a good batch.
LEMMA EntriesAreGood ==
  ASSUME JournalInv, NEW es \in Seq(Record), es # <<>>,
         \A i \in 1..Len(es) : Allowed(Before(Chained(file, es), i), es[i], executed)
  PROVE  GoodBatch(Chained(file, es))
<1>. DEFINE batch == Chained(file, es)
<1>1. /\ batch \in Seq(Record) /\ Len(batch) = Len(es) /\ batch # <<>>
      /\ \A i \in 1..Len(es) :
           /\ batch[i] = [es[i] EXCEPT !.id = Fresh + i - 1,
                                       !.parent = IF i = 1 THEN TailId(file) ELSE Fresh + i - 2]
           /\ batch[i].id = Fresh + i - 1
           /\ batch[i].parent = IF i = 1 THEN TailId(file) ELSE Fresh + i - 2
  BY ChainedIs
<1>. HIDE DEF batch
<1>2. ASSUME NEW i \in 1..Len(es)
      PROVE  Allowed(SubSeq(Base \o batch, 1, Len(Base) + i - 1), batch[i], executed)
  <2>1. Allowed(Before(batch, i), es[i], executed) /\ es[i] \in Record
    BY DEF batch
  <2>. DEFINE id == Fresh + i - 1
              parent == IF i = 1 THEN TailId(file) ELSE Fresh + i - 2
  <2>2. batch[i] = [es[i] EXCEPT !.id = id, !.parent = parent]
    BY <1>1
  <2>. HIDE DEF id, parent
  <2>3. Allowed(Before(batch, i), [es[i] EXCEPT !.id = id, !.parent = parent], executed)
    BY <2>1, PlaceIsApart
  <2>4. Allowed(Before(batch, i), batch[i], executed)
    BY <2>2, <2>3
  <2>. QED BY <2>4 DEF Before
<1>3. GoodBatch(batch)
  BY <1>1, <1>2 DEF GoodBatch
<1>. QED BY <1>3 DEF batch

\* One entry, allowed after what is in the file.
LEMMA EntryIsGood ==
  ASSUME JournalInv, NEW e \in Record, Allowed(Base, e, executed)
  PROVE  GoodBatch(Chained(file, <<e>>))
<1>1. <<e>> \in Seq(Record) /\ Len(<<e>>) = 1 /\ <<e>>[1] = e /\ <<e>> # <<>>
  OBVIOUS
<1>2. Before(Chained(file, <<e>>), 1) = Base
  BY <1>1, ChainedIs, BeforeIs
<1>. DEFINE es == <<e>>
<1>3. \A i \in 1..Len(es) : i = 1
  BY <1>1
<1>. HIDE DEF es
<1>4. \A i \in 1..Len(es) : Allowed(Before(Chained(file, es), i), es[i], executed)
  BY <1>1, <1>2, <1>3 DEF es
<1>. QED BY <1>1, <1>4, EntriesAreGood DEF es

\* As long as a batch has no marker its records join the turn that is open.
LEMMA TurnGoesOn ==
  ASSUME JournalInv, NEW batch \in Seq(Record), TurnOpen(Base),
         NEW m \in 1..Len(batch), \A j \in 1..(m - 1) : batch[j].type \notin Markers
  PROVE  \A i \in 1..m :
           /\ TurnOpen(Before(batch, i)) /\ Opened(Before(batch, i)) = Opened(Base)
           /\ OpenTurn(Before(batch, i)) = OpenTurn(Base) \cup {batch[j] : j \in 1..(i - 1)}
           /\ ToSet(Before(batch, i)) = ToSet(Base) \cup {batch[j] : j \in 1..(i - 1)}
<1>. DEFINE Holds(i) ==
              /\ TurnOpen(Before(batch, i)) /\ Opened(Before(batch, i)) = Opened(Base)
              /\ OpenTurn(Before(batch, i)) = OpenTurn(Base) \cup {batch[j] : j \in 1..(i - 1)}
              /\ ToSet(Before(batch, i)) = ToSet(Base) \cup {batch[j] : j \in 1..(i - 1)}
            T == {i \in 1..m : ~Holds(i)}
<1>. SUFFICES ASSUME T # {} PROVE FALSE
  BY Zenon
<1>1. Len(batch) \in Nat /\ m \in Nat /\ T \subseteq Nat
  OBVIOUS
<1>2. PICK i \in T : \A k \in T : i <= k
  BY <1>1, LeastNumber
<1>3. i \in 1..m /\ ~Holds(i)
  OBVIOUS
<1>4. Holds(1)
  <2>1. {batch[j] : j \in 1..(1 - 1)} = {}
    OBVIOUS
  <2>2. Before(batch, 1) = Base
    BY BeforeIs
  <2>. QED BY <2>1, <2>2
<1>5. i - 1 \in 1..m /\ i - 1 \in 1..(Len(batch) - 1) /\ i - 1 \in 1..(m - 1) /\ (i - 1) + 1 = i
      /\ ~(i <= i - 1)
  <2>. HIDE DEF Holds
  <2>1. i # 1
    BY <1>3, <1>4
  <2>. QED BY <1>1, <1>3, <2>1
<1>6. Holds(i - 1)
  BY <1>2, <1>5
<1>7. OneMore(Before(batch, i - 1), Before(batch, i), batch[i - 1])
  BY <1>5, BeforeIs
<1>8. batch[i - 1].type \notin Markers
  BY <1>5
<1>9. /\ TurnOpen(Before(batch, i)) /\ Opened(Before(batch, i)) = Opened(Base)
      /\ OpenTurn(Before(batch, i)) = OpenTurn(Before(batch, i - 1)) \cup {batch[i - 1]}
      /\ ToSet(Before(batch, i)) = ToSet(Before(batch, i - 1)) \cup {batch[i - 1]}
  BY <1>6, <1>7, <1>8, TurnGrows, OneMoreIs
<1>10. {batch[j] : j \in 1..(i - 1)} = {batch[j] : j \in 1..((i - 1) - 1)} \cup {batch[i - 1]}
  <2>1. \A j \in 1..(i - 1) : j \in 1..((i - 1) - 1) \/ j = i - 1
    BY <1>1, <1>3
  <2>2. \A j \in 1..((i - 1) - 1) : j \in 1..(i - 1)
    BY <1>1, <1>3
  <2>3. i - 1 \in 1..(i - 1)
    BY <1>5
  <2>. QED BY <2>1, <2>2, <2>3
<1>11. Holds(i)
  BY <1>6, <1>9, <1>10
<1>. QED BY <1>3, <1>11

-----------------------------------------------------------------------------
(* The records of a running session *)

\* No text has characters of more than one byte.
OneByteTexts == WideText = {FALSE}

\* A running session that may write: what it knows of the file.
LEMMA RunningIs ==
  ASSUME JournalInv, NEW p \in Process, AssertOwned(p), ~proc[p].failed
  PROVE  /\ proc[p].at = "ready" /\ Seen(p) = file /\ end = "clean"
         /\ ~exists => file = <<>> /\ confirmed = {} /\ executed = {}
         /\ exists => file # <<>> /\ Base = file /\ Sound(file, executed)
         /\ exists => executed \subseteq CallsIn(ToSet(file))
         /\ ToSet(file) \subseteq confirmed \cup {Header}
<1>1. /\ proc[p].at = "ready" /\ Seen(p) = file
      /\ exists => file # <<>> /\ end = "clean"
      /\ ~exists => file = <<>> /\ end = "clean" /\ confirmed = {}
      /\ ToSet(file) \subseteq confirmed \cup {Header}
  BY DEF JournalInv, OwnersKnow, FileIsSound, AssertOwned, Seen
<1>2. CallsIn({}) = {}
  BY DEF CallsIn
<1>3. ~exists => executed = {}
  BY <1>1, <1>2 DEF JournalInv, ConfirmedStays
<1>4. exists => CallsIn(confirmed) \subseteq CallsIn(ToSet(file))
  BY DEF JournalInv, ConfirmedStays, CallsIn
<1>5. exists => file # <<>> /\ Base = file /\ Sound(file, executed)
  BY <1>1 DEF Base, JournalInv, FileIsSound
<1>. QED BY <1>1, <1>3, <1>4, <1>5, exists \in BOOLEAN DEF JournalInv, JournalShape, ConfirmedStays

\* In a turn the file is there, and what it says can be used.
LEMMA InTurnIs ==
  ASSUME JournalInv, NEW p \in Process, InTurn(p), ~proc[p].failed
  PROVE  /\ proc[p].at = "ready" /\ Seen(p) = file /\ TurnOpen(file) /\ exists
         /\ Base = file /\ Sound(file, executed) /\ file \in Seq(Record)
         /\ executed \subseteq CallsIn(ToSet(file))
<1>1. TurnOpen(file) /\ Seen(p) = file /\ AssertOwned(p)
  BY RunningIs DEF InTurn
<1>2. file # <<>>
  BY <1>1 DEF TurnOpen
<1>. QED BY <1>1, <1>2, RunningIs DEF JournalInv, JournalShape

\* A poisoned journal writes nothing.
LEMMA WritesAreNotFailed ==
  ASSUME NEW p, NEW batch, Write(p, batch)
  PROVE  ~proc[p].failed
BY DEF Write, AppendAll, FailAppend, CrashAppend, MayWrite

\* startTurn() keeps the invariant: the turn and its user message.
LEMMA StartTurnKeeps ==
  ASSUME OneByteTexts, JournalInv, NEW p \in Process, StartTurn(p)
  PROVE  JournalInv'
<1>1. PICK w \in WideText :
        WriteEntries(p, <<[Entry("turn_start") EXCEPT !.turn = Fresh], [Entry("message") EXCEPT !.wide = w]>>)
  BY DEF StartTurn
<1>. DEFINE start == [Entry("turn_start") EXCEPT !.turn = Fresh]
            message == [Entry("message") EXCEPT !.wide = w]
            es == <<start, message>>
            batch == Chained(file, es)
<1>2. AssertOwned(p) /\ ~TurnOpen(Seen(p)) /\ ~proc[p].failed
  BY <1>1, WritesAreNotFailed DEF StartTurn, BetweenTurns, WriteEntries
<1>3. Seen(p) = file /\ proc[p].at = "ready"
  BY <1>2, RunningIs
<1>4. /\ start \in Record /\ start.type = "turn_start" /\ start.calls = {} /\ ~start.wide
      /\ message \in Record /\ message.type = "message" /\ message.calls = {} /\ ~message.wide
  BY FreshIs DEF OneByteTexts, Entry, Blank, Record, Types
<1>5. Write(p, batch)
  BY <1>1, <1>3 DEF WriteEntries
<1>. HIDE DEF start, message
<1>6. es \in Seq(Record) /\ Len(es) = 2 /\ es # <<>> /\ es[1] = start /\ es[2] = message
  BY <1>4
<1>. HIDE DEF es
<1>7. /\ batch \in Seq(Record) /\ Len(batch) = 2
      /\ batch[1] = [start EXCEPT !.id = Fresh + 1 - 1,
                                 !.parent = IF 1 = 1 THEN TailId(file) ELSE Fresh + 1 - 2]
  <2>1. 1 \in 1..Len(es)
    BY <1>6
  <2>. QED BY <1>6, <2>1, ChainedIs
<1>8. batch[1].type = "turn_start"
  BY <1>4, <1>7 DEF Record
<1>. HIDE DEF batch
<1>9. ~TurnOpen(Base)
  BY <1>2, <1>3, BaseIs
<1>10. Allowed(Before(batch, 1), start, executed)
  <2>1. Before(batch, 1) = Base
    BY <1>7, BeforeIs
  <2>. QED BY <1>4, <1>9, <2>1 DEF Allowed, MessageTypes
<1>11. Allowed(Before(batch, 2), message, executed)
  <2>1. OneMore(Before(batch, 1), Before(batch, 1 + 1), batch[1])
    <3>1. 1 \in 1..(Len(batch) - 1) /\ batch \in Seq(Record)
      BY <1>7
    <3>. QED BY <3>1, BeforeIs
  <2>2. TurnOpen(Before(batch, 2))
    <3>1. 1 + 1 = 2
      OBVIOUS
    <3>. QED BY <1>8, <2>1, <3>1, TurnStarts
  <2>. QED BY <1>4, <2>2 DEF Allowed, MessageTypes
<1>12. \A i \in 1..Len(es) : i = 1 \/ i = 2
  BY <1>6
<1>13. GoodBatch(batch)
  <2>1. \A i \in 1..Len(es) : Allowed(Before(batch, i), es[i], executed)
    BY <1>6, <1>10, <1>11, <1>12
  <2>. QED BY <1>6, <2>1, EntriesAreGood DEF batch
<1>. QED BY <1>3, <1>5, <1>13, WriteKeeps

\* appendMessage() of an assistant message keeps the invariant.
LEMMA AppendAssistantKeeps ==
  ASSUME JournalInv, NEW p \in Process, AppendAssistant(p)
  PROVE  JournalInv'
<1>1. PICK cs \in SUBSET (Call \ CallsIn(ToSet(file) \cup ToSet(Seen(p)))) :
        WriteEntry(p, [Entry("assistant") EXCEPT !.calls = cs])
  BY DEF AppendAssistant
<1>. DEFINE e == [Entry("assistant") EXCEPT !.calls = cs]
<1>2. InTurn(p) /\ ~proc[p].failed
  BY <1>1, WritesAreNotFailed DEF AppendAssistant, WriteEntry, WriteEntries
<1>3. /\ e \in Record /\ e.type = "assistant" /\ e.calls = cs /\ ~e.wide
  BY <1>1 DEF Entry, Blank, Record, Types
<1>4. cs \cap (executed \cup CallsIn(ToSet(file))) = {}
  BY <1>1, <1>2, InTurnIs DEF CallsIn
<1>5. Write(p, Chained(file, <<e>>))
  BY <1>1, <1>2, InTurnIs DEF WriteEntry, WriteEntries
<1>. HIDE DEF e
<1>6. Allowed(file, e, executed)
  BY <1>2, <1>3, <1>4, InTurnIs DEF Allowed, MessageTypes
<1>. QED BY <1>2, <1>3, <1>5, <1>6, InTurnIs, EntryIsGood, WriteKeeps

\* appendTodoState() keeps the invariant.
LEMMA AppendTodoStateKeeps ==
  ASSUME JournalInv, NEW p \in Process, AppendTodoState(p)
  PROVE  JournalInv'
<1>1. PICK c \in (Unresolved(Seen(p)) \cap executed) \ AcceptedIn(ToSet(Seen(p))) :
        WriteEntry(p, [Entry("todo_state") EXCEPT !.call = c])
  BY DEF AppendTodoState
<1>. DEFINE e == [Entry("todo_state") EXCEPT !.call = c]
<1>2. InTurn(p) /\ ~proc[p].failed
  BY <1>1, WritesAreNotFailed DEF AppendTodoState, WriteEntry, WriteEntries
<1>3. c \in Call
  BY <1>1 DEF JournalInv, JournalShape
<1>4. /\ e \in Record /\ e.type = "todo_state" /\ e.call = c /\ e.calls = {} /\ ~e.wide
  BY <1>3 DEF Entry, Blank, Record, Types
<1>5. Write(p, Chained(file, <<e>>))
  BY <1>1, <1>2, InTurnIs DEF WriteEntry, WriteEntries
<1>. HIDE DEF e
<1>6. c \in (Unresolved(file) \cap executed) \ AcceptedIn(ToSet(file))
  BY <1>1, <1>2, InTurnIs
<1>7. Allowed(file, e, executed)
  BY <1>2, <1>4, <1>6, InTurnIs DEF Allowed, MessageTypes
<1>. QED BY <1>2, <1>4, <1>5, <1>7, InTurnIs, EntryIsGood, WriteKeeps

\* A call without result whose list was stored has run, in this turn.
LEMMA AcceptedHaveRun ==
  ASSUME NEW s, NEW ran, Sound(s, ran), NEW c \in Unresolved(s), c \in AcceptedIn(ToSet(s))
  PROVE  c \in ran /\ c \in AcceptedIn(OpenTurn(s))
<1>1. s \in Seq(Record) /\ CallsAreSaid(s) /\ TodosAreSaid(s, ran)
  BY DEF Sound
<1>2. c # NoCall /\ c \in AcceptedIn(OpenTurn(s))
  BY <1>1, UnresolvedIs
<1>3. PICK j \in DOMAIN s : s[j].type = "todo_state" /\ s[j].call = c
  BY DEF AcceptedIn, ToSet
<1>. QED BY <1>1, <1>2, <1>3 DEF TodosAreSaid

\* appendMessage() of a tool result keeps the invariant.
LEMMA AppendResultKeeps ==
  ASSUME JournalInv, NEW p \in Process, AppendResult(p)
  PROVE  JournalInv'
<1>1. PICK c \in Unresolved(Seen(p)) :
        WriteEntry(p, [Entry("result") EXCEPT !.call = c,
          !.status = IF c \in executed
                        /\ (c \in TodoCall => c \in AcceptedIn(OpenTurn(Seen(p))))
                     THEN "ok" ELSE "error"])
  BY DEF AppendResult
<1>. DEFINE status == IF c \in executed /\ (c \in TodoCall => c \in AcceptedIn(OpenTurn(file)))
                      THEN "ok" ELSE "error"
            e == [Entry("result") EXCEPT !.call = c, !.status = status]
<1>2. InTurn(p) /\ ~proc[p].failed
  BY <1>1, WritesAreNotFailed DEF AppendResult, WriteEntry, WriteEntries
<1>3. c \in Unresolved(file) /\ c \in Call
  BY <1>1, <1>2, InTurnIs, UnresolvedIs DEF Sound
<1>4. status \in {"ok", "error"}
  OBVIOUS
<1>5. Write(p, Chained(file, <<e>>))
  BY <1>1, <1>2, InTurnIs DEF WriteEntry, WriteEntries
<1>6. status = "ok" => c \in executed
  OBVIOUS
<1>7. c \in TodoCall \cap AcceptedIn(ToSet(file)) => status = "ok"
  <2>1. c \in AcceptedIn(ToSet(file)) => c \in executed /\ c \in AcceptedIn(OpenTurn(file))
    BY <1>2, <1>3, InTurnIs, AcceptedHaveRun
  <2>. QED BY <2>1
<1>. HIDE DEF status
<1>8. /\ e \in Record /\ e.type = "result" /\ e.call = c /\ e.status = status
      /\ e.calls = {} /\ ~e.wide
  BY <1>3, <1>4 DEF Entry, Blank, Record, Types
<1>. HIDE DEF e
<1>9. Allowed(file, e, executed)
  BY <1>2, <1>3, <1>4, <1>6, <1>7, <1>8, InTurnIs DEF Allowed, MessageTypes
<1>. QED BY <1>2, <1>5, <1>8, <1>9, InTurnIs, EntryIsGood, WriteKeeps

\* appendCompaction() keeps the invariant.
LEMMA AppendCompactionKeeps ==
  ASSUME JournalInv, NEW p \in Process, AppendCompaction(p)
  PROVE  JournalInv'
<1>1. PICK id \in MessageIds(Seen(p)) :
        WriteEntry(p, [Entry("context_compaction") EXCEPT !.covers = id])
  BY DEF AppendCompaction
<1>. DEFINE e == [Entry("context_compaction") EXCEPT !.covers = id]
<1>2. AssertOwned(p) /\ ~proc[p].failed
  BY <1>1, WritesAreNotFailed DEF AppendCompaction, WriteEntry, WriteEntries
<1>3. Seen(p) = file /\ proc[p].at = "ready" /\ id \in MessageIds(file)
  BY <1>1, <1>2, RunningIs
<1>4. file # <<>> /\ file \in Seq(Record)
  BY <1>3 DEF MessageIds, ToSet, JournalInv, JournalShape
<1>5. Base = file
  BY <1>4 DEF Base
<1>6. id \in Nat
  <2>1. PICK r \in ToSet(file) : r.id = id
    BY <1>3 DEF MessageIds
  <2>2. r \in Record
    BY <1>4, <2>1 DEF ToSet
  <2>. QED BY <2>1, <2>2 DEF Record
<1>7. /\ e \in Record /\ e.type = "context_compaction" /\ e.covers = id /\ e.calls = {} /\ ~e.wide
  BY <1>6 DEF Entry, Blank, Record, Types
<1>8. Write(p, Chained(file, <<e>>))
  BY <1>1, <1>3 DEF WriteEntry, WriteEntries
<1>. HIDE DEF e
<1>9. Allowed(file, e, executed)
  BY <1>3, <1>7 DEF Allowed, MessageTypes
<1>. QED BY <1>3, <1>5, <1>7, <1>8, <1>9, EntryIsGood, WriteKeeps

\* endTurn() keeps the invariant.
LEMMA EndTurnKeeps ==
  ASSUME JournalInv, NEW p \in Process, EndTurn(p)
  PROVE  JournalInv'
<1>. DEFINE e == [Entry("turn_end") EXCEPT !.turn = TurnId(file)]
<1>1. InTurn(p) /\ ~proc[p].failed
  BY WritesAreNotFailed DEF EndTurn, WriteEntry, WriteEntries
<1>2. Seen(p) = file /\ TurnOpen(file) /\ Base = file /\ proc[p].at = "ready" /\ file \in Seq(Record)
  BY <1>1, InTurnIs
<1>3. TurnId(file) \in Nat /\ TurnId(file) = file[Opened(file)].turn
  <2>1. file[Opened(file)] \in Record
    BY <1>2, OpenedIs
  <2>. QED BY <2>1 DEF TurnId, Record
<1>4. /\ e \in Record /\ e.type = "turn_end" /\ e.turn = TurnId(file) /\ e.calls = {} /\ ~e.wide
  BY <1>3 DEF Entry, Blank, Record, Types
<1>5. Write(p, Chained(file, <<e>>)) /\ Unresolved(file) \cap executed = {}
  BY <1>2 DEF EndTurn, WriteEntry, WriteEntries
<1>. HIDE DEF e
<1>6. Allowed(file, e, executed)
  BY <1>2, <1>3, <1>4, <1>5 DEF Allowed, MessageTypes
<1>. QED BY <1>2, <1>4, <1>5, <1>6, EntryIsGood, WriteKeeps

\* Two records that differ in a field apart from those named here.
Alike(x, r) ==
  /\ x \in Record /\ x.type = r.type /\ x.wide = r.wide /\ x.calls = r.calls
  /\ x.call = r.call /\ x.id = r.id /\ x.parent = r.parent

\* A record is given its turn.
LEMMA TurnChanges ==
  ASSUME NEW r \in Record, NEW n \in Nat
  PROVE  Alike([r EXCEPT !.turn = n], r)
BY DEF Record, Alike

\* A compaction is given the message it covers.
LEMMA CoversChange ==
  ASSUME NEW r \in Record, NEW n \in Nat
  PROVE  Alike([r EXCEPT !.covers = n], r)
BY DEF Record, Alike

\* A text of one-byte characters stays one.
LEMMA TextIsNarrow ==
  ASSUME NEW r \in Record, ~r.wide
  PROVE  Alike([r EXCEPT !.wide = FALSE], r)
<1>1. r.wide \in BOOLEAN
  BY DEF Record
<1>2. r.wide = FALSE
  BY <1>1
<1>. QED BY <1>2 DEF Record, Alike

\* What a fork inherited: five records of one closed turn.
LEMMA SnapshotIs ==
  ASSUME OneByteTexts, JournalInv, file = <<>>, NEW w \in WideText, NEW b, b = Snapshot(w)
  PROVE  /\ b \in Seq(Record) /\ Len(b) = 5 /\ b # <<>>
         /\ \A i \in 1..5 :
              /\ b[i].id = Fresh + i - 1
              /\ b[i].parent = IF i = 1 THEN TailId(file) ELSE Fresh + i - 2
              /\ ~b[i].wide /\ b[i].calls = {} /\ b[i].call = NoCall
         /\ b[1].type = "turn_start" /\ b[1].turn = Fresh
         /\ b[2].type = "message"
         /\ b[3].type = "context_compaction" /\ b[3].covers = b[2].id
         /\ b[4].type = "todo_state"
         /\ b[5].type = "turn_end" /\ b[5].turn = Fresh
<1>. DEFINE types == <<"turn_start", "message", "context_compaction", "todo_state", "turn_end">>
            es == <<Entry("turn_start"), Entry("message"), Entry("context_compaction"),
                    Entry("todo_state"), Entry("turn_end")>>
            entries == Chained(<<>>, es)
<1>0. w = FALSE
  BY DEF OneByteTexts
<1>1. \A t \in Types : /\ Entry(t) \in Record /\ Entry(t).type = t /\ ~Entry(t).wide
                       /\ Entry(t).calls = {} /\ Entry(t).call = NoCall
  BY DEF Entry, Blank, Record
<1>2. /\ es \in Seq(Record) /\ Len(es) = 5 /\ es # <<>>
      /\ \A i \in 1..5 : /\ es[i] \in Record /\ es[i].type = types[i] /\ ~es[i].wide
                         /\ es[i].calls = {} /\ es[i].call = NoCall
  <2>1. /\ Entry("turn_start") \in Record /\ Entry("message") \in Record
        /\ Entry("context_compaction") \in Record /\ Entry("todo_state") \in Record
        /\ Entry("turn_end") \in Record
    BY <1>1 DEF Types
  <2>2. es \in Seq(Record) /\ Len(es) = 5 /\ es # <<>>
    BY <2>1
  <2>3. \A i \in 1..5 : es[i] = Entry(types[i]) /\ types[i] \in Types
    BY DEF Types
  <2>. HIDE DEF es, types
  <2>. QED BY <1>1, <2>2, <2>3
<1>3. b = [i \in 1..Len(entries) |->
             CASE entries[i].type \in {"turn_start", "turn_end"} ->
                    [entries[i] EXCEPT !.turn = Fresh]
               [] entries[i].type = "message" -> [entries[i] EXCEPT !.wide = w]
               [] entries[i].type = "context_compaction" ->
                    [entries[i] EXCEPT !.covers = entries[2].id]
               [] OTHER -> entries[i]]
  BY DEF Snapshot
<1>. HIDE DEF es
<1>4. /\ entries \in Seq(Record) /\ Len(entries) = 5
      /\ \A i \in 1..5 :
           /\ entries[i] = [es[i] EXCEPT !.id = Fresh + i - 1,
                                         !.parent = IF i = 1 THEN TailId(file) ELSE Fresh + i - 2]
           /\ entries[i].id = Fresh + i - 1
           /\ entries[i].parent = IF i = 1 THEN TailId(file) ELSE Fresh + i - 2
  <2>1. entries = Chained(file, es)
    OBVIOUS
  <2>. HIDE DEF entries
  <2>2. entries \in Seq(Record) /\ Len(entries) = 5
    BY <1>2, <2>1, ChainedIs
  <2>. QED BY <1>2, <2>1, <2>2, ChainedIs
<1>. HIDE DEF entries
<1>5. \A i \in 1..5 : /\ entries[i] \in Record /\ entries[i].type = types[i] /\ ~entries[i].wide
                      /\ entries[i].calls = {} /\ entries[i].call = NoCall
  <2>. SUFFICES ASSUME NEW i \in 1..5
                PROVE  /\ entries[i] \in Record /\ entries[i].type = types[i] /\ ~entries[i].wide
                       /\ entries[i].calls = {} /\ entries[i].call = NoCall
    OBVIOUS
  <2>1. entries[i] \in Record
    BY <1>4, ElementOfSeq
  <2>. DEFINE id == Fresh + i - 1
              parent == IF i = 1 THEN TailId(file) ELSE Fresh + i - 2
  <2>2. es[i] \in Record /\ entries[i] = [es[i] EXCEPT !.id = id, !.parent = parent]
    BY <1>2, <1>4
  <2>. HIDE DEF id, parent
  <2>3. /\ entries[i].type = es[i].type /\ entries[i].wide = es[i].wide
        /\ entries[i].calls = es[i].calls /\ entries[i].call = es[i].call
    BY <2>2 DEF Record
  <2>. QED BY <1>2, <2>1, <2>3
<1>6. Fresh \in Nat
  BY FreshIs
<1>7. \A i \in 1..5 :
        b[i] = CASE types[i] \in {"turn_start", "turn_end"} -> [entries[i] EXCEPT !.turn = Fresh]
                 [] types[i] = "message" -> [entries[i] EXCEPT !.wide = w]
                 [] types[i] = "context_compaction" -> [entries[i] EXCEPT !.covers = entries[2].id]
                 [] OTHER -> entries[i]
  BY <1>3, <1>4, <1>5
<1>8. /\ b[1] = [entries[1] EXCEPT !.turn = Fresh]
      /\ b[2] = [entries[2] EXCEPT !.wide = w]
      /\ b[3] = [entries[3] EXCEPT !.covers = entries[2].id]
      /\ b[4] = entries[4]
      /\ b[5] = [entries[5] EXCEPT !.turn = Fresh]
  BY <1>7
<1>9. /\ types[1] = "turn_start" /\ types[2] = "message" /\ types[3] = "context_compaction"
      /\ types[4] = "todo_state" /\ types[5] = "turn_end"
  OBVIOUS
<1>. HIDE DEF types
<1>10. \A i \in 1..5 : /\ b[i] \in Record /\ b[i].type = types[i] /\ ~b[i].wide
                       /\ b[i].calls = {} /\ b[i].call = NoCall
                       /\ b[i].id = entries[i].id /\ b[i].parent = entries[i].parent
  <2>1. \A i \in 1..5 : i = 1 \/ i = 2 \/ i = 3 \/ i = 4 \/ i = 5
    OBVIOUS
  <2>. DEFINE Same(i) == /\ b[i] \in Record /\ b[i].type = types[i] /\ ~b[i].wide
                         /\ b[i].calls = {} /\ b[i].call = NoCall
                         /\ b[i].id = entries[i].id /\ b[i].parent = entries[i].parent
  <2>2. Same(1)
    <3>1. entries[1] \in Record /\ b[1] = [entries[1] EXCEPT !.turn = Fresh]
      BY <1>5, <1>8
    <3>2. Alike(b[1], entries[1])
      BY <1>6, <3>1, TurnChanges
    <3>. QED BY <1>5, <3>2 DEF Alike
  <2>3. Same(2)
    <3>1. entries[2] \in Record /\ b[2] = [entries[2] EXCEPT !.wide = w]
      BY <1>5, <1>8
    <3>2. Alike([entries[2] EXCEPT !.wide = FALSE], entries[2])
      <4>1. ~entries[2].wide
        BY <1>5
      <4>. QED BY <3>1, <4>1, TextIsNarrow
    <3>3. Alike(b[2], entries[2])
      BY <1>0, <3>1, <3>2
    <3>. QED BY <1>5, <3>3 DEF Alike
  <2>4. Same(3)
    <3>1. entries[3] \in Record /\ b[3] = [entries[3] EXCEPT !.covers = entries[2].id]
      BY <1>5, <1>8
    <3>2. entries[2].id \in Nat
      <4>1. entries[2] \in Record
        BY <1>5
      <4>. QED BY <4>1 DEF Record
    <3>3. Alike([entries[3] EXCEPT !.covers = entries[2].id], entries[3])
      BY <3>1, <3>2, CoversChange
    <3>4. Alike(b[3], entries[3])
      BY <3>1, <3>3
    <3>. QED BY <1>5, <3>4 DEF Alike
  <2>5. Same(4)
    BY <1>5, <1>8
  <2>6. Same(5)
    <3>1. entries[5] \in Record /\ b[5] = [entries[5] EXCEPT !.turn = Fresh]
      BY <1>5, <1>8
    <3>2. Alike(b[5], entries[5])
      BY <1>6, <3>1, TurnChanges
    <3>. QED BY <1>5, <3>2 DEF Alike
  <2>. QED BY <2>1, <2>2, <2>3, <2>4, <2>5, <2>6
<1>11. b[1].turn = Fresh /\ b[5].turn = Fresh /\ b[3].covers = b[2].id
  <2>1. entries[1] \in Record /\ entries[2] \in Record /\ entries[3] \in Record /\ entries[5] \in Record
    BY <1>5
  <2>. QED BY <1>8, <2>1 DEF Record
<1>12. b \in Seq(Record) /\ Len(b) = 5 /\ b # <<>>
  <2>. DEFINE e(i) == CASE entries[i].type \in {"turn_start", "turn_end"} ->
                             [entries[i] EXCEPT !.turn = Fresh]
                        [] entries[i].type = "message" -> [entries[i] EXCEPT !.wide = w]
                        [] entries[i].type = "context_compaction" ->
                             [entries[i] EXCEPT !.covers = entries[2].id]
                        [] OTHER -> entries[i]
  <2>1. b = [i \in 1..5 |-> e(i)]
    BY <1>3, <1>4
  <2>. HIDE DEF e
  <2>2. \A i \in 1..5 : e(i) \in Record
    BY <1>10, <2>1
  <2>. QED BY <2>1, <2>2
<1>. QED BY <1>4, <1>9, <1>10, <1>11, <1>12

\* appendSnapshot() keeps the invariant: the first records of a fork.
LEMMA AppendSnapshotKeeps ==
  ASSUME OneByteTexts, JournalInv, NEW p \in Process, AppendSnapshot(p)
  PROVE  JournalInv'
<1>1. PICK w \in WideText : Write(p, Snapshot(w))
  BY DEF AppendSnapshot
<1>. DEFINE b == Snapshot(w)
<1>2. AssertOwned(p) /\ proc[p].fork /\ MayWrite(p) /\ proc[p].at = "ready" /\ ~proc[p].failed
  BY <1>1 DEF AppendSnapshot, BetweenTurns, AssertOwned, Write, AppendAll, FailAppend, CrashAppend, MayWrite
<1>3. ~exists /\ file = <<>> /\ executed = {}
  <2>1. ~exists
    BY <1>2 DEF MayWrite, JournalInv, OwnersKnow
  <2>. QED BY <1>2, <2>1, RunningIs
<1>4. /\ b \in Seq(Record) /\ Len(b) = 5 /\ b # <<>>
      /\ \A i \in 1..5 :
           /\ b[i].id = Fresh + i - 1
           /\ b[i].parent = IF i = 1 THEN TailId(file) ELSE Fresh + i - 2
           /\ ~b[i].wide /\ b[i].calls = {} /\ b[i].call = NoCall
      /\ b[1].type = "turn_start" /\ b[1].turn = Fresh
      /\ b[2].type = "message"
      /\ b[3].type = "context_compaction" /\ b[3].covers = b[2].id
      /\ b[4].type = "todo_state"
      /\ b[5].type = "turn_end" /\ b[5].turn = Fresh
  <2>2. PICK x : x = b
    OBVIOUS
  <2>3. x = Snapshot(w)
    BY <2>2
  <2>4. /\ x \in Seq(Record) /\ Len(x) = 5 /\ x # <<>>
        /\ \A i \in 1..5 :
             /\ x[i].id = Fresh + i - 1
             /\ x[i].parent = IF i = 1 THEN TailId(file) ELSE Fresh + i - 2
             /\ ~x[i].wide /\ x[i].calls = {} /\ x[i].call = NoCall
        /\ x[1].type = "turn_start" /\ x[1].turn = Fresh
        /\ x[2].type = "message"
        /\ x[3].type = "context_compaction" /\ x[3].covers = x[2].id
        /\ x[4].type = "todo_state"
        /\ x[5].type = "turn_end" /\ x[5].turn = Fresh
    BY <1>1, <1>3, <2>3, SnapshotIs
  <2>. QED BY <2>2, <2>4
<1>. HIDE DEF b
<1>5. ~TurnOpen(Before(b, 1))
  <2>1. Before(b, 1) = <<Header>>
    BY <1>3, <1>4, BeforeIs DEF Base
  <2>. QED BY <2>1, HeaderIs
<1>6. /\ OneMore(Before(b, 1), Before(b, 2), b[1]) /\ OneMore(Before(b, 2), Before(b, 3), b[2])
      /\ OneMore(Before(b, 3), Before(b, 4), b[3]) /\ OneMore(Before(b, 4), Before(b, 5), b[4])
  <2>1. \A i \in 1..4 : OneMore(Before(b, i), Before(b, i + 1), b[i])
    <3>1. 1..(Len(b) - 1) = 1..4
      BY <1>4
    <3>. QED BY <1>4, <3>1, BeforeIs
  <2>2. /\ OneMore(Before(b, 1), Before(b, 1 + 1), b[1]) /\ OneMore(Before(b, 2), Before(b, 2 + 1), b[2])
        /\ OneMore(Before(b, 3), Before(b, 3 + 1), b[3]) /\ OneMore(Before(b, 4), Before(b, 4 + 1), b[4])
    BY <2>1
  <2>3. 1 + 1 = 2 /\ 2 + 1 = 3 /\ 3 + 1 = 4 /\ 4 + 1 = 5
    OBVIOUS
  <2>. QED BY <2>2, <2>3
<1>. DEFINE o == Len(Before(b, 2))
<1>7. /\ TurnOpen(Before(b, 2)) /\ Opened(Before(b, 2)) = o
      /\ o \in 1..Len(Before(b, 2)) /\ Before(b, 2)[o] = b[1]
  <2>1. TurnOpen(Before(b, 2)) /\ Opened(Before(b, 2)) = o
    BY <1>4, <1>6, TurnStarts
  <2>2. Len(Before(b, 1)) \in Nat /\ Len(Before(b, 2)) = Len(Before(b, 1)) + 1 /\ Before(b, 2)[o] = b[1]
    BY <1>6, OneMoreIs DEF OneMore
  <2>. QED BY <2>1, <2>2
<1>. HIDE DEF o
<1>8. \A i \in 2..4 :
        OneMore(Before(b, i), Before(b, i + 1), b[i]) /\ b[i].type \notin Markers
  <2>1. 2 + 1 = 3 /\ 3 + 1 = 4 /\ 4 + 1 = 5 /\ \A i \in 2..4 : i = 2 \/ i = 3 \/ i = 4
    OBVIOUS
  <2>. QED BY <1>4, <1>6, <2>1 DEF Markers
<1>9. ASSUME NEW u, NEW v, NEW r, OneMore(u, v, r), r.type \notin Markers,
             TurnOpen(u), Opened(u) = o, o \in 1..Len(u), u[o] = b[1]
      PROVE  TurnOpen(v) /\ Opened(v) = o /\ o \in 1..Len(v) /\ v[o] = b[1]
  <2>1. TurnOpen(v) /\ Opened(v) = o
    BY <1>9, TurnGrows
  <2>2. Len(u) \in Nat /\ Len(v) = Len(u) + 1 /\ v[o] = u[o]
    BY <1>9, OneMoreIs DEF OneMore
  <2>. QED BY <1>9, <2>1, <2>2
<1>10. TurnOpen(Before(b, 3)) /\ Opened(Before(b, 3)) = o /\ o \in 1..Len(Before(b, 3)) /\ Before(b, 3)[o] = b[1]
  BY <1>4, <1>6, <1>7, <1>9 DEF Markers
<1>11. TurnOpen(Before(b, 4)) /\ Opened(Before(b, 4)) = o /\ o \in 1..Len(Before(b, 4)) /\ Before(b, 4)[o] = b[1]
  BY <1>4, <1>6, <1>9, <1>10 DEF Markers
<1>12. TurnOpen(Before(b, 5)) /\ Opened(Before(b, 5)) = o /\ Before(b, 5)[o] = b[1]
  BY <1>4, <1>6, <1>9, <1>11 DEF Markers
<1>13. b[2].id \in MessageIds(Before(b, 3))
  <2>1. b[2] \in ToSet(Before(b, 3))
    BY <1>6, OneMoreIs
  <2>. QED BY <1>4, <2>1 DEF MessageIds, MessageTypes
<1>14. \A i \in 1..5 : Allowed(Before(b, i), b[i], executed)
  <2>1. Allowed(Before(b, 1), b[1], executed)
    BY <1>4, <1>5 DEF Allowed, MessageTypes
  <2>2. Allowed(Before(b, 2), b[2], executed)
    BY <1>4, <1>7 DEF Allowed, MessageTypes
  <2>3. Allowed(Before(b, 3), b[3], executed)
    BY <1>4, <1>13 DEF Allowed, MessageTypes
  <2>4. Allowed(Before(b, 4), b[4], executed)
    BY <1>4, <1>11 DEF Allowed, MessageTypes
  <2>5. Allowed(Before(b, 5), b[5], executed)
    BY <1>3, <1>4, <1>12 DEF Allowed, MessageTypes
  <2>6. \A i \in 1..5 : i = 1 \/ i = 2 \/ i = 3 \/ i = 4 \/ i = 5
    OBVIOUS
  <2>. QED BY <2>1, <2>2, <2>3, <2>4, <2>5, <2>6
<1>15. GoodBatch(b)
  BY <1>4, <1>14 DEF GoodBatch, Before
<1>. QED BY <1>1, <1>2, <1>15, WriteKeeps DEF b

-----------------------------------------------------------------------------
(* The recovery of an interrupted turn *)

\* SetToSeq lists every element of a finite set once.
LEMMA SetToSeqIs ==
  ASSUME NEW U, IsFiniteSet(U), NEW f, f = SetToSeq(U)
  PROVE  /\ Cardinality(U) \in Nat /\ f \in [1..Cardinality(U) -> U]
         /\ \A i, j \in 1..Cardinality(U) : f[i] = f[j] => i = j
         /\ \A c \in U : \E i \in 1..Cardinality(U) : f[i] = c
         /\ Len(f) = Cardinality(U)
<1>. DEFINE n == Cardinality(U)
<1>1. n \in Nat /\ ExistsBijection(1..n, U)
  BY FS_CardinalityType
<1>2. PICK g : g \in Bijection(1..n, U)
  BY <1>1 DEF ExistsBijection
<1>3. g \in [1..n -> U] /\ IsInjective(g)
  BY <1>2 DEF Bijection, Injection
<1>4. f \in [1..n -> U] /\ IsInjective(f)
  <2>1. f = CHOOSE x \in [1..n -> U] : IsInjective(x)
    BY DEF SetToSeq
  <2>. QED BY <1>3, <2>1
<1>. HIDE DEF n
<1>5. f \in Injection(1..n, U)
  BY <1>4 DEF Injection
<1>6. IsFiniteSet(1..n) /\ Cardinality(1..n) = n
  <2>1. 0 \in Int /\ 1 \in Int /\ n \in Int
    BY <1>1
  <2>2. IsFiniteSet(1..n) /\ Cardinality(1..n) = IF 1 > n THEN 0 ELSE n - 1 + 1
    BY <2>1, FS_Interval
  <2>. QED BY <1>1, <2>2
<1>7. f \in Surjection(1..n, U)
  <2>1. Cardinality(1..n) = Cardinality(U) <=> f \in Surjection(1..n, U)
    BY <1>5, FS_Injection
  <2>. QED BY <1>6, <2>1 DEF n
<1>8. \A c \in U : \E i \in 1..n : f[i] = c
  BY <1>7 DEF Surjection
<1>9. \A i, j \in 1..n : f[i] = f[j] => i = j
  BY <1>4 DEF IsInjective
<1>10. Len(f) = n
  BY <1>1, <1>4
<1>. QED BY <1>1, <1>4, <1>8, <1>9, <1>10 DEF n

\* The records with which a load closes the open turn of s: k results, for the
\* calls that f lists, the recovery message, and the end of the turn.
Recovers(s, es, k, f) ==
  /\ k \in Nat /\ f \in [1..k -> Unresolved(s)]
  /\ \A i, j \in 1..k : f[i] = f[j] => i = j
  /\ \A c \in Unresolved(s) : \E i \in 1..k : f[i] = c
  /\ es \in Seq(Record) /\ Len(es) = k + 2
  /\ \A i \in 1..k :
       /\ es[i].type = "result" /\ es[i].call = f[i] /\ es[i].calls = {} /\ ~es[i].wide
       /\ es[i].status = IF f[i] \in TodoCall \cap AcceptedIn(OpenTurn(s)) THEN "ok" ELSE "unknown"
  /\ es[k + 1].type = "recovery" /\ es[k + 1].calls = {} /\ ~es[k + 1].wide
  /\ es[k + 2].type = "turn_end" /\ es[k + 2].calls = {} /\ ~es[k + 2].wide
  /\ es[k + 2].turn = s[Opened(s)].turn

\* The records that RecoveryOf() makes.
LEMMA RecoveryIs ==
  ASSUME NEW s \in Seq(Record), TurnOpen(s), Unresolved(s) \subseteq Call,
         NEW es, es = RecoveryOf(s)
  PROVE  \E k, f : Recovers(s, es, k, f)
<1>. DEFINE U == Unresolved(s)
            f == SetToSeq(U)
            k == Cardinality(U)
            status(c) == IF c \in TodoCall \cap AcceptedIn(OpenTurn(s)) THEN "ok" ELSE "unknown"
            r(c) == [Entry("result") EXCEPT !.call = c, !.status = status(c)]
            fin == [Entry("turn_end") EXCEPT !.turn = TurnId(s)]
<1>1. IsFiniteSet(U)
  BY SessionJournalAssumption, FS_Subset
<1>2. PICK g : g = f
  OBVIOUS
<1>3. /\ k \in Nat /\ g \in [1..k -> U] /\ Len(g) = k
      /\ \A i, j \in 1..k : g[i] = g[j] => i = j
      /\ \A c \in U : \E i \in 1..k : g[i] = c
  <2>. HIDE DEF U
  <2>1. g = SetToSeq(U)
    BY <1>2
  <2>. QED BY <1>1, <2>1, SetToSeqIs
<1>4. es = [i \in 1..Len(f) |-> r(f[i])] \o <<Entry("recovery"), fin>>
  BY DEF RecoveryOf
<1>5. es = [i \in 1..k |-> r(g[i])] \o <<Entry("recovery"), fin>>
  BY <1>2, <1>3, <1>4
<1>6. \A c : status(c) \in {"ok", "unknown"}
  OBVIOUS
<1>. HIDE DEF status
<1>7. ASSUME NEW c \in U
      PROVE  /\ r(c) \in Record /\ r(c).type = "result" /\ r(c).call = c /\ r(c).calls = {} /\ ~r(c).wide
             /\ r(c).status = status(c)
  <2>1. c \in Call /\ status(c) \in {"ok", "unknown"}
    BY <1>6
  <2>. QED BY <2>1 DEF Entry, Blank, Record, Types
<1>8. /\ Entry("recovery") \in Record /\ Entry("recovery").type = "recovery"
      /\ Entry("recovery").calls = {} /\ ~Entry("recovery").wide
  BY DEF Entry, Blank, Record, Types
<1>9. /\ fin \in Record /\ fin.type = "turn_end" /\ fin.calls = {} /\ ~fin.wide
      /\ fin.turn = s[Opened(s)].turn
  <2>1. s[Opened(s)] \in Record
    BY OpenedIs
  <2>2. TurnId(s) \in Nat /\ TurnId(s) = s[Opened(s)].turn
    BY <2>1 DEF TurnId, Record
  <2>. QED BY <2>2 DEF Entry, Blank, Record, Types
<1>. HIDE DEF r, fin, f, U, k
<1>10. PICK a : a = [i \in 1..k |-> r(g[i])]
  OBVIOUS
<1>11. a \in Seq(Record) /\ Len(a) = k /\ \A i \in 1..k : a[i] = r(g[i])
  BY <1>3, <1>7, <1>10
<1>12. PICK d : d = <<Entry("recovery"), fin>>
  OBVIOUS
<1>13. d \in Seq(Record) /\ Len(d) = 2 /\ d[1] = Entry("recovery") /\ d[2] = fin
  BY <1>8, <1>9, <1>12
<1>14. es = a \o d
  BY <1>5, <1>10, <1>12
<1>15. /\ es \in Seq(Record) /\ Len(es) = k + 2
       /\ \A i \in 1..k : es[i] = r(g[i])
       /\ es[k + 1] = Entry("recovery") /\ es[k + 2] = fin
  <2>1. 1 \in 1..Len(d) /\ 2 \in 1..Len(d)
    BY <1>13
  <2>2. a \in Seq(Record) /\ d \in Seq(Record)
    BY <1>11, <1>13
  <2>3. /\ a \o d \in Seq(Record) /\ Len(a \o d) = Len(a) + Len(d)
        /\ \A i \in 1..Len(a) : (a \o d)[i] = a[i]
        /\ \A i \in 1..Len(d) : (a \o d)[Len(a) + i] = d[i]
    BY <2>2, ConcatIs
  <2>4. /\ es \in Seq(Record) /\ Len(es) = k + 2 /\ \A i \in 1..k : es[i] = a[i]
        /\ es[k + 1] = d[1] /\ es[k + 2] = d[2]
    BY <1>11, <1>13, <1>14, <2>1, <2>3
  <2>. QED BY <1>11, <1>13, <2>4
<1>16. \A i \in 1..k :
         /\ es[i].type = "result" /\ es[i].call = g[i] /\ es[i].calls = {} /\ ~es[i].wide
         /\ es[i].status = status(g[i])
  BY <1>3, <1>7, <1>15
<1>17. Recovers(s, es, k, g)
  BY <1>3, <1>8, <1>9, <1>15, <1>16 DEF Recovers, status, U
<1>. QED BY <1>17

\* The records of a recovery may follow the journal of the interrupted turn.
LEMMA RecoveryIsGood ==
  ASSUME JournalInv, file # <<>>, TurnOpen(file)
  PROVE  GoodBatch(Chained(file, RecoveryOf(file)))
<1>. DEFINE U == Unresolved(file)
<1>0. PICK es : es = RecoveryOf(file)
  OBVIOUS
<1>1. /\ file \in Seq(Record) /\ Base = file /\ Sound(file, executed)
      /\ CallsAreSaid(file)
  BY DEF JournalInv, JournalShape, FileIsSound, Base, Sound
<1>2. U \subseteq Call /\ \A c \in U : c \notin AnsweredIn(OpenTurn(file))
  BY <1>1, UnresolvedIs DEF Unresolved
<1>. HIDE DEF U
<1>2a. PICK k \in Nat : \E f : Recovers(file, es, k, f)
  <2>1. PICK k, f : Recovers(file, es, k, f)
    BY <1>0, <1>1, <1>2, RecoveryIs DEF U
  <2>. QED BY <2>1 DEF Recovers
<1>3. PICK f : Recovers(file, es, k, f)
  BY <1>2a
<1>4. /\ k \in Nat /\ f \in [1..k -> U]
      /\ \A i, j \in 1..k : f[i] = f[j] => i = j
      /\ \A c \in U : \E i \in 1..k : f[i] = c
      /\ es \in Seq(Record) /\ Len(es) = k + 2
      /\ \A i \in 1..k :
          /\ es[i].type = "result" /\ es[i].call = f[i] /\ es[i].calls = {} /\ ~es[i].wide
          /\ es[i].status = IF f[i] \in TodoCall \cap AcceptedIn(OpenTurn(file)) THEN "ok" ELSE "unknown"
      /\ es[k + 1].type = "recovery" /\ es[k + 1].calls = {} /\ ~es[k + 1].wide
      /\ es[k + 2].type = "turn_end" /\ es[k + 2].calls = {} /\ ~es[k + 2].wide
      /\ es[k + 2].turn = file[Opened(file)].turn
  BY <1>3 DEF Recovers, U
<1>5. PICK batch : batch = Chained(file, es)
  OBVIOUS
<1>6. es # <<>> /\ es \in Seq(Record) /\ Len(es) = k + 2
  BY <1>4
<1>7. /\ batch \in Seq(Record) /\ Len(batch) = k + 2
      /\ \A i \in 1..(k + 2) : batch[i].type = es[i].type /\ batch[i].calls = es[i].calls
                               /\ batch[i].call = es[i].call
  <2>1. /\ batch \in Seq(Record) /\ Len(batch) = k + 2
        /\ \A i \in 1..(k + 2) :
             batch[i] = [es[i] EXCEPT !.id = Fresh + i - 1,
                                      !.parent = IF i = 1 THEN TailId(file) ELSE Fresh + i - 2]
    BY <1>5, <1>6, ChainedIs
  <2>. SUFFICES ASSUME NEW i \in 1..(k + 2)
                PROVE  batch[i].type = es[i].type /\ batch[i].calls = es[i].calls
                       /\ batch[i].call = es[i].call
    BY <2>1
  <2>2. es[i] \in Record
    BY <1>6
  <2>. DEFINE id == Fresh + i - 1
              parent == IF i = 1 THEN TailId(file) ELSE Fresh + i - 2
  <2>3. batch[i] = [es[i] EXCEPT !.id = id, !.parent = parent]
    BY <2>1
  <2>. HIDE DEF id, parent
  <2>. QED BY <2>2, <2>3 DEF Record
<1>8. \A i \in 1..(k + 2) : i \in 1..k \/ i = k + 1 \/ i = k + 2
  OBVIOUS
<1>9. \A j \in 1..(k + 1) : batch[j].type \notin Markers /\ batch[j].calls = {}
  <2>1. \A j \in 1..(k + 1) : j \in 1..(k + 2) /\ (j \in 1..k \/ j = k + 1)
    OBVIOUS
  <2>. QED BY <1>4, <1>7, <2>1 DEF Markers
<1>10. \A i \in 1..(k + 2) :
         /\ TurnOpen(Before(batch, i)) /\ Opened(Before(batch, i)) = Opened(file)
         /\ OpenTurn(Before(batch, i)) = OpenTurn(file) \cup {batch[j] : j \in 1..(i - 1)}
         /\ ToSet(Before(batch, i)) = ToSet(file) \cup {batch[j] : j \in 1..(i - 1)}
  <2>1. k + 2 \in 1..Len(batch) /\ (k + 2) - 1 = k + 1
    BY <1>7
  <2>2. \A j \in 1..((k + 2) - 1) : batch[j].type \notin Markers
    BY <1>9, <2>1
  <2>. QED BY <1>1, <1>7, <2>1, <2>2, TurnGoesOn
\* The calls that are left after i - 1 records.
<1>11. ASSUME NEW i \in 1..(k + 2)
       PROVE  \A c : c \in Unresolved(Before(batch, i)) <=>
                       c \in U /\ \A j \in 1..(i - 1) : ~(j \in 1..k /\ f[j] = c)
  <2>. DEFINE new == {batch[j] : j \in 1..(i - 1)}
  <2>1. OpenTurn(Before(batch, i)) = OpenTurn(file) \cup new
    BY <1>10
  <2>2. \A j \in 1..(i - 1) : j \in 1..(k + 1) /\ j \in 1..(k + 2) /\ (j \in 1..k \/ j = k + 1)
    OBVIOUS
  <2>3. CallsIn(OpenTurn(file) \cup new) = CallsIn(OpenTurn(file))
    BY <1>9, <2>2 DEF CallsIn
  <2>4. \A c : c \in AnsweredIn(OpenTurn(file) \cup new) <=>
                 c \in AnsweredIn(OpenTurn(file)) \/ \E j \in 1..(i - 1) : j \in 1..k /\ f[j] = c
    <3>1. \A j \in 1..(i - 1) : batch[j].type = "result" <=> j \in 1..k
      BY <1>4, <1>7, <2>2
    <3>2. \A j \in 1..(i - 1) : j \in 1..k => batch[j].call = f[j]
      BY <1>4, <1>7, <2>2
    <3>3. \A c : c \in AnsweredIn(OpenTurn(file) \cup new) <=>
                   \/ c \in AnsweredIn(OpenTurn(file))
                   \/ \E j \in 1..(i - 1) : batch[j].type = "result" /\ batch[j].call = c
      BY DEF AnsweredIn
    <3>. QED BY <3>1, <3>2, <3>3
  <2>. HIDE DEF new
  <2>. QED BY <2>1, <2>3, <2>4 DEF Unresolved, U
<1>12. ASSUME NEW i \in 1..(k + 2)
       PROVE  \A c : c \in AcceptedIn(ToSet(Before(batch, i))) <=> c \in AcceptedIn(ToSet(file))
  <2>. DEFINE new == {batch[j] : j \in 1..(i - 1)}
  <2>1. ToSet(Before(batch, i)) = ToSet(file) \cup new
    BY <1>10
  <2>2. \A j \in 1..(i - 1) : batch[j].type # "todo_state"
    <3>1. \A j \in 1..(i - 1) : j \in 1..(k + 2) /\ (j \in 1..k \/ j = k + 1)
      OBVIOUS
    <3>. QED BY <1>4, <1>7, <3>1
  <2>. QED BY <2>1, <2>2 DEF AcceptedIn
<1>13. ASSUME NEW i \in 1..k
       PROVE  Allowed(Before(batch, i), es[i], executed)
  <2>1. i \in 1..(k + 2) /\ f[i] \in U
    BY <1>4
  <2>2. f[i] \in Unresolved(Before(batch, i))
    <3>1. \A j \in 1..(i - 1) : ~(j \in 1..k /\ f[j] = f[i])
      <4>1. \A j \in 1..(i - 1) : j # i
        OBVIOUS
      <4>. QED BY <1>4, <4>1
    <3>. QED BY <1>11, <2>1, <3>1
  <2>3. f[i] \in AcceptedIn(ToSet(file)) => f[i] \in executed /\ f[i] \in AcceptedIn(OpenTurn(file))
    BY <1>1, <2>1, AcceptedHaveRun DEF U
  <2>4. AcceptedIn(OpenTurn(file)) \subseteq AcceptedIn(ToSet(file))
    <3>1. OpenTurn(file) \subseteq ToSet(file)
      <4>1. OpenTurn(file) = {file[x] : x \in Opened(file)..Len(file)} /\ Opened(file) \in 1..Len(file)
        BY <1>1, OpenedIs
      <4>. QED BY <1>1, <4>1 DEF ToSet
    <3>. QED BY <3>1 DEF AcceptedIn
  <2>5. /\ es[i].status = "ok" => f[i] \in executed
        /\ f[i] \in TodoCall \cap AcceptedIn(ToSet(file)) => es[i].status = "ok"
        /\ es[i].status # ""
    BY <1>4, <2>3, <2>4
  <2>6. f[i] \in AcceptedIn(ToSet(Before(batch, i))) <=> f[i] \in AcceptedIn(ToSet(file))
    BY <1>12, <2>1
  <2>7. /\ es[i].type = "result" /\ es[i].call = f[i] /\ es[i].calls = {} /\ ~es[i].wide
    BY <1>4
  <2>8. TurnOpen(Before(batch, i))
    BY <1>10, <2>1
  <2>. QED BY <2>2, <2>5, <2>6, <2>7, <2>8 DEF Allowed, MessageTypes
<1>14. \A i \in {k + 1, k + 2} : i \in 1..(k + 2) /\ Unresolved(Before(batch, i)) = {}
  <2>. SUFFICES ASSUME NEW i \in {k + 1, k + 2}
                PROVE  i \in 1..(k + 2) /\ Unresolved(Before(batch, i)) = {}
    OBVIOUS
  <2>1. i \in 1..(k + 2) /\ \A j \in 1..k : j \in 1..(i - 1)
    OBVIOUS
  <2>. QED BY <1>4, <1>11, <2>1
<1>15. Allowed(Before(batch, k + 1), es[k + 1], executed)
  BY <1>4, <1>10, <1>14 DEF Allowed, MessageTypes
<1>16. Allowed(Before(batch, k + 2), es[k + 2], executed)
  <2>1. k + 2 \in 1..Len(batch) /\ Opened(file) \in 1..Len(file)
    BY <1>1, <1>7, OpenedIs
  <2>2. Before(batch, k + 2)[Opened(file)] = file[Opened(file)]
    BY <1>1, <1>7, <2>1, BeforeIs
  <2>. QED BY <1>4, <1>7, <1>10, <1>14, <2>1, <2>2 DEF Allowed, MessageTypes
<1>17. \A i \in 1..Len(es) : Allowed(Before(Chained(file, es), i), es[i], executed)
  BY <1>5, <1>6, <1>8, <1>13, <1>15, <1>16
<1>18. GoodBatch(Chained(file, es))
  BY <1>6, <1>17, EntriesAreGood
<1>. QED BY <1>0, <1>18

\* The owner has its session ready: it knows the file, all of it confirmed.
LEMMA OwnerGoesOn ==
  ASSUME JournalInv, NEW p \in Process, proc[p].at \in Owning,
         NEW x \in ProcStates, proc' = [proc EXCEPT ![p] = x],
         x.at = "ready", x.seen = file', x.created, ~x.failed, ~x.fork, ~x.lost,
         lock' = lock, stale' = stale, executed' = executed,
         exists', ~joined', file' # <<>>, end' = "clean", file' \in Seq(Record), Sound(file', executed),
         confirmed' \subseteq Record, confirmed' \subseteq ToSet(file'), confirmed \subseteq confirmed',
         ToSet(file') \subseteq confirmed' \cup {Header},
         exists' \in BOOLEAN,
         NEW b \in Nat, \A r \in ToSet(file') \cup confirmed' : r.id < b
  PROVE  JournalInv'
<1>1. /\ JournalShape /\ ~stale /\ lock = p /\ ConfirmedStays
      /\ \A q \in Process : q # p =>
           proc[q].at \in {"off", "found"} /\ proc[q] = [Off EXCEPT !.at = proc[q].at]
  <2>1. ~stale
    BY SessionJournalAssumption DEF JournalInv, OneOwner
  <2>. QED BY <2>1, OthersAreOff DEF JournalInv, OneOwner
<1>2. /\ proc'[p] = x /\ \A q \in Process : q # p => proc'[q] = proc[q]
      /\ proc' \in [Process -> ProcStates]
  BY <1>1 DEF JournalShape
<1>3. JournalShape'
  BY <1>1, <1>2 DEF JournalShape, Ends
<1>4. \A q \in Process : q # p =>
        /\ proc'[q].at \in {"off", "found"} /\ proc'[q] = [Off EXCEPT !.at = proc'[q].at]
        /\ proc'[q].seen = <<>> /\ ~proc'[q].lost /\ ~proc'[q].fork
  BY <1>1, <1>2 DEF Off
<1>5. OneOwner'
  BY <1>1, <1>2, <1>4 DEF OneOwner, Owning
<1>6. OwnersKnow'
  <2>. SUFFICES ASSUME NEW q \in Process
                PROVE  /\ proc'[q].fork => ~proc'[q].created /\ proc'[q].seen = <<>>
                       /\ proc'[q].at # "repaired"
                       /\ proc'[q].at = "ready" /\ ~proc'[q].failed =>
                            /\ proc'[q].created = exists' /\ proc'[q].seen = file'
                            /\ exists' => file' # <<>> /\ end' = "clean"
                            /\ ~exists' => confirmed' = {}
                            /\ ToSet(file') \subseteq confirmed' \cup {Header}
    BY Zenon DEF OwnersKnow
  <2>0. exists' = TRUE /\ x.created = TRUE
    BY DEF ProcStates
  <2>1. CASE q = p
    BY <1>2, <2>0, <2>1
  <2>2. CASE q # p
    BY <1>4, <2>2
  <2>. QED BY <2>1, <2>2
<1>7. IdsAreBounded'
  <2>1. ToSet(<<>>) = {}
    BY DEF ToSet
  <2>2. \A q \in Process : \A r \in ToSet(proc'[q].seen) : r.id < b
    BY <1>2, <1>4, <2>1
  <2>. QED BY <2>2 DEF IdsAreBounded, IdsBelow
<1>8. FileIsSound'
  BY DEF FileIsSound
<1>9. ConfirmedStays'
  <2>1. CallsIn(confirmed) \subseteq CallsIn(confirmed')
    BY DEF CallsIn
  <2>. QED BY <1>1, <2>1 DEF ConfirmedStays
<1>. QED BY <1>3, <1>5, <1>6, <1>7, <1>8, <1>9 DEF JournalInv

\* A process that has repaired the tail and not yet closed an interrupted turn.
LEMMA RepairedIs ==
  ASSUME JournalInv, NEW p \in Process, proc[p].at = "repaired"
  PROVE  /\ exists /\ file # <<>> /\ end = "clean" /\ proc[p].seen = file /\ Seen(p) = file
         /\ proc[p].created /\ ~proc[p].failed /\ ~proc[p].fork /\ ~proc[p].lost
         /\ MayWrite(p) /\ Released(p) = Free /\ lock = p /\ proc[p].at \in Owning
         /\ proc[p] \in ProcStates /\ file \in Seq(Record) /\ Sound(file, executed)
         /\ confirmed \subseteq ToSet(file) /\ confirmed \subseteq Record
<1>1. /\ exists /\ file # <<>> /\ end = "clean" /\ proc[p].seen = file
      /\ proc[p].created /\ ~proc[p].failed /\ ~proc[p].fork
  BY DEF JournalInv, OwnersKnow
<1>2. ~proc[p].lost /\ lock = p /\ proc[p].at \in Owning
  BY DEF JournalInv, OneOwner, Owning
<1>3. proc[p] \in ProcStates /\ exists \in BOOLEAN /\ file \in Seq(Record) /\ confirmed \subseteq Record
  BY DEF JournalInv, JournalShape
<1>4. MayWrite(p)
  <2>1. proc[p].created \in BOOLEAN
    BY <1>3 DEF ProcStates
  <2>. QED BY <1>1, <1>3, <2>1 DEF MayWrite
<1>5. Sound(file, executed) /\ confirmed \subseteq ToSet(file)
  BY <1>1 DEF JournalInv, FileIsSound, ConfirmedStays
<1>. QED BY <1>1, <1>2, <1>3, <1>4, <1>5 DEF Released, Seen

\* Any part of the recovery that reaches the file leaves it sound.
LEMMA RecoveryIsWritten ==
  ASSUME JournalInv, NEW p \in Process, proc[p].at = "repaired", TurnOpen(file),
         NEW batch, batch = Chained(file, RecoveryOf(file)),
         NEW n, NEW rest, WriteFile(batch, n, rest)
  PROVE  /\ exists' = TRUE /\ ~joined' /\ end' \in Ends /\ file' \in Seq(Record)
         /\ file' # <<>> /\ Sound(file', executed) /\ confirmed \subseteq ToSet(file')
         /\ n = Len(batch) => end' = "clean"
         /\ \E b \in Nat : \A r \in ToSet(file') \cup confirmed : r.id < b
<1>1. GoodBatch(batch) /\ MayWrite(p) /\ proc[p].created /\ file # <<>> /\ end = "clean"
  BY RepairedIs, RecoveryIsGood
<1>2. /\ batch \in Seq(Record) /\ batch # <<>> /\ Content(p, batch) = batch
      /\ \A k \in 0..Len(batch) : Len(file) + k # 0 =>
           Sound(SubSeq(file \o batch, 1, Len(file) + k), executed)
  <2>1. Content(p, batch) = batch
    BY <1>1, WriterIs
  <2>. QED BY <1>1, <2>1, WriterIs
<1>3. /\ exists' = TRUE /\ ~joined' /\ end' \in Ends
      /\ file' \in Seq(Record) /\ (file' # <<>> => Sound(file', executed))
      /\ ToSet(file) \subseteq ToSet(file') /\ ToSet(file') \subseteq ToSet(file) \cup ToSet(batch)
      /\ n = Len(batch) => file' = file \o batch /\ end' = "clean"
  BY <1>1, <1>2, WriteIs
<1>4. file' # <<>>
  <2>1. file[1] \in ToSet(file)
    <3>1. 1 \in DOMAIN file
      BY <1>1, RepairedIs
    <3>. QED BY <3>1 DEF ToSet
  <2>2. ToSet(<<>>) = {}
    BY DEF ToSet
  <2>. QED BY <1>3, <2>1, <2>2
<1>5. PICK b \in Nat : IdsBelow(b) /\ Header.id < b /\ \A r \in ToSet(batch) : r.id < b
  BY <1>1, BatchIds
<1>6. \A r \in ToSet(file') \cup confirmed : r.id < b
  BY <1>3, <1>5 DEF IdsBelow
<1>7. confirmed \subseteq ToSet(file')
  BY <1>3, RepairedIs
<1>. QED BY <1>3, <1>4, <1>6, <1>7

\* The rest of a load keeps the invariant, however much of the recovery is written.
LEMMA FinishOpenKeeps ==
  ASSUME JournalInv, NEW p \in Process, FinishOpen(p)
  PROVE  JournalInv'
<1>. DEFINE batch == Chained(file, RecoveryOf(file))
<1>1. proc[p].at = "repaired"
  BY DEF FinishOpen
<1>2. /\ exists /\ file # <<>> /\ end = "clean" /\ proc[p].seen = file /\ Seen(p) = file
      /\ proc[p].created /\ ~proc[p].failed /\ ~proc[p].fork /\ ~proc[p].lost
      /\ Released(p) = Free /\ lock = p /\ proc[p].at \in Owning
      /\ proc[p] \in ProcStates /\ file \in Seq(Record) /\ Sound(file, executed)
      /\ confirmed \subseteq ToSet(file) /\ confirmed \subseteq Record
  BY <1>1, RepairedIs
<1>3. CASE ~TurnOpen(file)
  <2>1. /\ proc' = [proc EXCEPT ![p].at = "ready"]
        /\ confirmed' = confirmed \cup (ToSet(file) \ {Header})
        /\ UNCHANGED <<exists, file, end, joined, lock, stale, executed>>
    BY <1>2, <1>3 DEF FinishOpen, Header
  <2>. DEFINE x == [proc[p] EXCEPT !.at = "ready"]
  <2>2. x \in ProcStates /\ proc' = [proc EXCEPT ![p] = x]
    BY <1>2, <2>1 DEF ProcStates
  <2>3. /\ x.at = "ready" /\ x.seen = file /\ x.created /\ ~x.failed /\ ~x.fork /\ ~x.lost
    BY <1>2 DEF ProcStates
  <2>. HIDE DEF x
  <2>4. ~joined /\ exists \in BOOLEAN
    BY DEF JournalInv, FileIsSound, JournalShape
  <2>5. ToSet(file) \subseteq Record
    BY <1>2 DEF ToSet
  <2>6. PICK b \in Nat : IdsBelow(b)
    BY DEF JournalInv, IdsAreBounded
  <2>7. \A r \in ToSet(file') \cup confirmed' : r.id < b
    BY <2>1, <2>6 DEF IdsBelow
  <2>8. /\ confirmed' \subseteq Record /\ confirmed' \subseteq ToSet(file') /\ confirmed \subseteq confirmed'
        /\ ToSet(file') \subseteq confirmed' \cup {Header}
    BY <1>2, <2>1, <2>5
  <2>9. /\ exists' /\ ~joined' /\ file' # <<>> /\ end' = "clean" /\ file' \in Seq(Record)
        /\ Sound(file', executed) /\ exists' \in BOOLEAN /\ x.seen = file'
        /\ lock' = lock /\ stale' = stale /\ executed' = executed
    BY <1>2, <2>1, <2>3, <2>4
  <2>. QED BY <1>2, <2>2, <2>3, <2>7, <2>8, <2>9, OwnerGoesOn
<1>4. ASSUME TurnOpen(file),
             WriteFile(batch, Len(batch), "clean"),
             IF joined' \/ ~Readable(file')
             THEN /\ proc' = [proc EXCEPT ![p] = Off]
                  /\ lock' = Released(p)
                  /\ UNCHANGED confirmed
             ELSE /\ proc' = [proc EXCEPT ![p].at = "ready", ![p].seen = file']
                  /\ confirmed' = confirmed \cup (ToSet(file') \ {Header})
                  /\ UNCHANGED lock,
             UNCHANGED <<stale, executed>>
      PROVE  JournalInv'
  <2>. HIDE DEF batch
  <2>1. /\ exists' = TRUE /\ ~joined' /\ end' = "clean" /\ file' \in Seq(Record)
        /\ file' # <<>> /\ Sound(file', executed) /\ confirmed \subseteq ToSet(file')
        /\ \E b \in Nat : \A r \in ToSet(file') \cup confirmed : r.id < b
    BY <1>1, <1>4, RecoveryIsWritten DEF batch
  <2>2. Readable(file')
    BY <2>1 DEF Sound
  <2>3. /\ proc' = [proc EXCEPT ![p].at = "ready", ![p].seen = file']
        /\ confirmed' = confirmed \cup (ToSet(file') \ {Header})
        /\ UNCHANGED lock
    BY <1>4, <2>1, <2>2
  <2>. DEFINE x == [proc[p] EXCEPT !.at = "ready", !.seen = file']
  <2>4. x \in ProcStates /\ proc' = [proc EXCEPT ![p] = x]
    BY <1>2, <2>1, <2>3 DEF ProcStates
  <2>5. /\ x.at = "ready" /\ x.seen = file' /\ x.created /\ ~x.failed /\ ~x.fork /\ ~x.lost
    BY <1>2 DEF ProcStates
  <2>. HIDE DEF x
  <2>6. ToSet(file') \subseteq Record
    BY <2>1 DEF ToSet
  <2>7. PICK b \in Nat : \A r \in ToSet(file') \cup confirmed : r.id < b
    BY <2>1
  <2>8. \A r \in ToSet(file') \cup confirmed' : r.id < b
    BY <2>3, <2>7
  <2>9. /\ confirmed' \subseteq Record /\ confirmed' \subseteq ToSet(file') /\ confirmed \subseteq confirmed'
        /\ ToSet(file') \subseteq confirmed' \cup {Header}
    BY <1>2, <2>1, <2>3, <2>6
  <2>10. lock' = lock /\ stale' = stale /\ executed' = executed /\ exists' /\ exists' \in BOOLEAN
    BY <1>4, <2>1, <2>3
  <2>. QED BY <1>2, <2>1, <2>4, <2>5, <2>8, <2>9, <2>10, OwnerGoesOn
<1>5. ASSUME TurnOpen(file), NEW n, NEW rest, WriteFile(batch, n, rest),
             proc' = [proc EXCEPT ![p] = Off], lock' \in {Free, Dead},
             UNCHANGED <<stale, confirmed, executed>>
      PROVE  JournalInv'
  <2>. HIDE DEF batch
  <2>1. /\ exists' = TRUE /\ ~joined' /\ end' \in Ends /\ file' \in Seq(Record)
        /\ file' # <<>> /\ Sound(file', executed) /\ confirmed \subseteq ToSet(file')
        /\ \E b \in Nat : \A r \in ToSet(file') \cup confirmed : r.id < b
    BY <1>1, <1>5, RecoveryIsWritten DEF batch
  <2>2. FileIsSound'
    BY <1>5, <2>1 DEF FileIsSound
  <2>3. ConfirmedStays'
    BY <1>5, <2>1 DEF ConfirmedStays, JournalInv
  <2>4. PICK b \in Nat : \A r \in ToSet(file') \cup confirmed' : r.id < b
    BY <1>5, <2>1
  <2>5. /\ stale' = stale /\ executed' = executed /\ confirmed' \subseteq Record /\ exists' \in BOOLEAN
    BY <1>2, <1>5, <2>1
  <2>. QED BY <1>2, <1>5, <2>1, <2>2, <2>3, <2>4, <2>5, OwnerGoesOff
<1>6. CASE TurnOpen(file)
  <2>1. \/ /\ WriteFile(batch, Len(batch), "clean")
           /\ IF joined' \/ ~Readable(file')
              THEN /\ proc' = [proc EXCEPT ![p] = Off]
                   /\ lock' = Released(p)
                   /\ UNCHANGED confirmed
              ELSE /\ proc' = [proc EXCEPT ![p].at = "ready", ![p].seen = file']
                   /\ confirmed' = confirmed \cup (ToSet(file') \ {Header})
                   /\ UNCHANGED lock
           /\ UNCHANGED <<stale, executed>>
        \/ /\ \E n \in 0..Len(batch) - 1, rest \in Ends : WriteFile(batch, n, rest)
           /\ proc' = [proc EXCEPT ![p] = Off] /\ lock' = Released(p)
           /\ UNCHANGED <<stale, confirmed, executed>>
        \/ CrashAppend(p, batch)
    BY <1>2, <1>6 DEF FinishOpen, Header
  <2>2. Content(p, batch) = batch
    BY <1>2 DEF Content
  <2>. HIDE DEF batch
  <2>3. CASE CrashAppend(p, batch)
    <3>1. PICK n, rest : WriteFile(batch, n, rest)
      BY <2>2, <2>3 DEF CrashAppend
    <3>2. /\ proc' = [proc EXCEPT ![p] = Off] /\ lock' = Dead
          /\ UNCHANGED <<stale, confirmed, executed>>
      BY <1>2, <2>3 DEF CrashAppend
    <3>. QED BY <1>5, <1>6, <3>1, <3>2
  <2>. QED BY <1>2, <1>4, <1>5, <1>6, <2>1, <2>3
<1>. QED BY <1>3, <1>6

-----------------------------------------------------------------------------
(* The life of a process *)

\* Without wide texts the length in characters is the length in bytes, and the
\* repair of a tail leaves every record.
LEMMA RepairKeepsRecords ==
  ASSUME JournalInv
  PROVE  Repaired.file = file /\ Repaired.end = "clean"
<1>1. file \in Seq(Record) /\ Len(file) \in Nat /\ end \in Ends
  BY DEF JournalInv, JournalShape
<1>2. CASE end # "cut"
  <2>1. Repaired = [file |-> file, end |-> "clean"]
    BY <1>1, <1>2 DEF Repaired, Ends
  <2>. QED BY <2>1
<1>3. CASE end = "cut"
  <2>. DEFINE n == Len(file)
              S == {i \in 0..n : BytesOf(i) <= CharsOf(n)}
  <2>1. \A i \in 0..n : BytesOf(i) = 2 * i
    <3>. SUFFICES ASSUME NEW i \in 0..n PROVE BytesOf(i) = 2 * i
      OBVIOUS
    <3>1. \A j \in 1..i : j \in DOMAIN file /\ file # <<>>
      BY <1>1
    <3>2. \A j \in 1..i : ~file[j].wide
      BY <3>1 DEF JournalInv, FileIsSound, Sound, CallsAreSaid
    <3>3. {j \in 1..i : file[j].wide} = {}
      BY <3>2
    <3>4. Cardinality({j \in 1..i : file[j].wide}) = 0
      BY <3>3, FS_EmptySet
    <3>5. BytesOf(i) = CharsOf(i) + 2 * 0
      BY <3>4 DEF BytesOf
    <3>. QED BY <1>1, <3>5 DEF CharsOf
  <2>2. CharsOf(n) = 2 * n /\ n \in Nat
    BY <1>1 DEF CharsOf
  <2>. HIDE DEF n
  <2>3. n \in 0..n /\ 0 \in 0..n
    BY <2>2
  <2>4. S \subseteq Nat /\ 0 \in S /\ n \in S /\ \A x \in S : x <= n
    BY <2>1, <2>2, <2>3
  <2>. HIDE DEF S
  <2>5. Max(S) \in S /\ \A x \in S : x <= Max(S)
    BY <2>2, <2>4, Maximum
  <2>6. Max(S) = n
    <3>1. Max(S) \in Nat /\ Max(S) <= n
      BY <2>4, <2>5
    <3>2. n <= Max(S)
      BY <2>4, <2>5
    <3>. QED BY <2>2, <3>1, <3>2
  <2>7. CharsOf(n) - BytesOf(n) = 0
    BY <2>1, <2>2, <2>3
  <2>8. TruncatedTo(CharsOf(n)) = [file |-> SubSeq(file, 1, n), end |-> "clean"]
    BY <2>6, <2>7 DEF TruncatedTo, S, n
  <2>9. SubSeq(file, 1, n) = file
    BY <1>1, SubSeqFull DEF n
  <2>10. Repaired = TruncatedTo(CharsOf(n))
    BY <1>3 DEF Repaired, n
  <2>. QED BY <2>8, <2>9, <2>10
<1>. QED BY <1>2, <1>3

\* A process without the session open starts, gives up, or takes the lock.
LEMMA ProcMoves ==
  ASSUME JournalInv, NEW p \in Process, proc[p].at \in {"off", "found"},
         NEW at \in {"off", "found", "locked"}, proc' = [proc EXCEPT ![p] = [Off EXCEPT !.at = at]],
         UNCHANGED <<exists, file, end, joined, confirmed, executed>>,
         lock' \in Process \cup {Free, Dead}, stale' \in BOOLEAN, stale' => lock' = Dead,
         at = "locked" => lock' = p,
         \A q \in Process : q # p /\ proc[q].at \in Owning => lock' = q
  PROVE  JournalInv'
<1>. DEFINE x == [Off EXCEPT !.at = at]
<1>1. /\ x \in ProcStates /\ x.at = at /\ x.seen = <<>> /\ ~x.created /\ ~x.failed /\ ~x.lost /\ ~x.fork
      /\ x = [Off EXCEPT !.at = x.at]
  <2>1. x.at = at
    BY DEF Off
  <2>2. x.seen = <<>> /\ ~x.created /\ ~x.failed /\ ~x.lost /\ ~x.fork
    BY DEF Off
  <2>3. Off \in ProcStates
    BY DEF Off, ProcStates
  <2>4. at \in {"off", "found", "locked", "repaired", "ready"}
    OBVIOUS
  <2>5. x \in ProcStates
    BY <2>3, <2>4 DEF ProcStates
  <2>. QED BY <2>1, <2>2, <2>5
<1>. HIDE DEF x
<1>2. JournalShape /\ OneOwner /\ OwnersKnow /\ IdsAreBounded /\ FileIsSound /\ ConfirmedStays
  BY DEF JournalInv
<1>3. /\ proc'[p] = x /\ \A q \in Process : q # p => proc'[q] = proc[q]
      /\ proc' \in [Process -> ProcStates]
  BY <1>1, <1>2 DEF JournalShape, x
<1>4. JournalShape'
  BY <1>2, <1>3 DEF JournalShape
<1>5. FileIsSound' /\ ConfirmedStays'
  BY <1>2 DEF FileIsSound, ConfirmedStays
<1>6. OneOwner'
  <2>. SUFFICES ASSUME NEW q \in Process
                PROVE  /\ proc'[q].at \in Owning => lock' = q
                       /\ ~proc'[q].lost
                       /\ proc'[q].at \in {"off", "found", "locked"} => proc'[q] = [Off EXCEPT !.at = proc'[q].at]
    BY Zenon DEF OneOwner
  <2>1. CASE q = p
    BY <1>1, <1>3, <2>1 DEF Owning
  <2>2. CASE q # p
    BY <1>2, <1>3, <2>2 DEF OneOwner
  <2>. QED BY <2>1, <2>2
<1>7. OwnersKnow'
  <2>. SUFFICES ASSUME NEW q \in Process
                PROVE  /\ proc'[q].fork => ~proc'[q].created /\ proc'[q].seen = <<>>
                       /\ proc'[q].at = "repaired" =>
                            /\ exists /\ file # <<>> /\ end = "clean" /\ proc'[q].seen = file
                            /\ proc'[q].created /\ ~proc'[q].failed /\ ~proc'[q].fork
                       /\ proc'[q].at = "ready" /\ ~proc'[q].failed =>
                            /\ proc'[q].created = exists /\ proc'[q].seen = file
                            /\ exists => file # <<>> /\ end = "clean"
                            /\ ~exists => confirmed = {}
                            /\ ToSet(file) \subseteq confirmed \cup {Header}
    BY Zenon DEF OwnersKnow
  <2>1. CASE q = p
    BY <1>1, <1>3, <2>1
  <2>2. CASE q # p
    BY <1>2, <1>3, <2>2 DEF OwnersKnow
  <2>. QED BY <2>1, <2>2
<1>8. IdsAreBounded'
  <2>1. PICK b \in Nat : IdsBelow(b)
    BY <1>2 DEF IdsAreBounded
  <2>2. ToSet(<<>>) = {}
    BY DEF ToSet
  <2>3. \A q \in Process : \A r \in ToSet(proc'[q].seen) : r.id < b
    BY <1>1, <1>3, <2>1, <2>2 DEF IdsBelow
  <2>. QED BY <2>1, <2>3 DEF IdsAreBounded, IdsBelow
<1>. QED BY <1>4, <1>5, <1>6, <1>7, <1>8 DEF JournalInv

\* Who may take the lock finds no owner.
LEMMA NobodyOwns ==
  ASSUME JournalInv, Acquirable
  PROVE  \A q \in Process :
           /\ proc[q].at \in {"off", "found"} /\ proc[q] = [Off EXCEPT !.at = proc[q].at]
           /\ proc[q].seen = <<>> /\ ~proc[q].lost /\ ~proc[q].fork
<1>1. lock \in {Free, Dead}
  BY DEF Acquirable, JournalInv, OneOwner
<1>. SUFFICES ASSUME NEW q \in Process
              PROVE  /\ proc[q].at \in {"off", "found"} /\ proc[q] = [Off EXCEPT !.at = proc[q].at]
                     /\ proc[q].seen = <<>> /\ ~proc[q].lost /\ ~proc[q].fork
  OBVIOUS
<1>2. proc[q].at \notin Owning
  BY <1>1, SessionJournalAssumption DEF JournalInv, OneOwner
<1>3. proc[q].at \in {"off", "found"}
  BY <1>2 DEF JournalInv, JournalShape, ProcStates, Owning
<1>4. proc[q] = [Off EXCEPT !.at = proc[q].at]
  BY <1>3 DEF JournalInv, OneOwner
<1>. QED BY <1>3, <1>4 DEF Off

\* The listing keeps the invariant.
LEMMA FindSessionKeeps ==
  ASSUME JournalInv, NEW p \in Process, FindSession(p)
  PROVE  JournalInv'
<1>1. /\ proc[p].at = "off" /\ proc' = [proc EXCEPT ![p].at = "found"]
      /\ UNCHANGED <<exists, file, end, joined, lock, stale, confirmed, executed>>
  BY DEF FindSession
<1>2. proc[p] = [Off EXCEPT !.at = "off"]
  BY <1>1 DEF JournalInv, OneOwner
<1>3. proc' = [proc EXCEPT ![p] = [Off EXCEPT !.at = "found"]]
  <2>1. [proc[p] EXCEPT !.at = "found"] = [Off EXCEPT !.at = "found"]
    BY <1>2 DEF Off
  <2>. QED BY <1>1, <2>1
<1>4. /\ lock \in Process \cup {Free, Dead} /\ stale \in BOOLEAN /\ (stale => lock = Dead)
      /\ \A q \in Process : proc[q].at \in Owning => lock = q
  BY DEF JournalInv, JournalShape, OneOwner
<1>. QED BY <1>1, <1>3, <1>4, ProcMoves

\* Taking the lock, or being refused it, keeps the invariant.
LEMMA AcquireOwnershipKeeps ==
  ASSUME JournalInv, NEW p \in Process, AcquireOwnership(p)
  PROVE  JournalInv'
<1>1. proc[p].at = "found" /\ UNCHANGED <<exists, file, end, joined, confirmed, executed>>
  BY DEF AcquireOwnership
<1>2. proc[p] = [Off EXCEPT !.at = "found"]
  BY <1>1 DEF JournalInv, OneOwner
<1>3. CASE Acquirable
  <2>1. lock' = p /\ stale' = FALSE /\ proc' = [proc EXCEPT ![p].at = "locked"]
    BY <1>3 DEF AcquireOwnership
  <2>2. proc' = [proc EXCEPT ![p] = [Off EXCEPT !.at = "locked"]]
    <3>1. [proc[p] EXCEPT !.at = "locked"] = [Off EXCEPT !.at = "locked"]
      BY <1>2 DEF Off
    <3>. QED BY <2>1, <3>1
  <2>3. \A q \in Process : proc[q].at \notin Owning
    BY <1>3, NobodyOwns DEF Owning
  <2>. QED BY <1>1, <2>1, <2>2, <2>3, ProcMoves
<1>4. CASE ~Acquirable
  <2>1. lock' = lock /\ stale' = stale /\ proc' = [proc EXCEPT ![p] = Off]
    BY <1>4 DEF AcquireOwnership
  <2>2. proc' = [proc EXCEPT ![p] = [Off EXCEPT !.at = "off"]]
    <3>1. Off = [Off EXCEPT !.at = "off"]
      BY DEF Off
    <3>. QED BY <2>1, <3>1
  <2>3. /\ lock \in Process \cup {Free, Dead} /\ stale \in BOOLEAN /\ (stale => lock = Dead)
        /\ \A q \in Process : proc[q].at \in Owning => lock = q
    BY DEF JournalInv, JournalShape, OneOwner
  <2>. QED BY <1>1, <2>1, <2>2, <2>3, ProcMoves
<1>. QED BY <1>3, <1>4

\* The owner goes off and leaves the records alone.
LEMMA OwnerLeaves ==
  ASSUME JournalInv, NEW p \in Process, proc[p].at \in Owning,
         proc' = [proc EXCEPT ![p] = Off], lock' \in {Free, Dead},
         end' \in {end, "clean"}, UNCHANGED <<exists, file, joined, stale, confirmed, executed>>
  PROVE  JournalInv'
<1>1. PICK b \in Nat : IdsBelow(b)
  BY DEF JournalInv, IdsAreBounded
<1>2. \A r \in ToSet(file') \cup confirmed' : r.id < b
  BY <1>1 DEF IdsBelow
<1>3. FileIsSound' /\ ConfirmedStays'
  BY DEF JournalInv, FileIsSound, ConfirmedStays
<1>4. exists' \in BOOLEAN /\ end' \in Ends /\ file' \in Seq(Record) /\ confirmed' \subseteq Record
  BY DEF JournalInv, JournalShape, Ends
<1>. QED BY <1>2, <1>3, <1>4, OwnerGoesOff

\* A crash keeps the invariant: the lock of the dead stays behind.
LEMMA CrashKeeps ==
  ASSUME JournalInv, NEW p \in Process, Crash(p)
  PROVE  JournalInv'
<1>1. /\ proc[p].at # "off" /\ proc' = [proc EXCEPT ![p] = Off]
      /\ lock' = (IF lock = p THEN Dead ELSE lock)
      /\ UNCHANGED <<exists, file, end, joined, stale, confirmed, executed>>
  BY DEF Crash
<1>2. CASE proc[p].at \in Owning
  <2>1. lock' = Dead
    BY <1>1, <1>2 DEF JournalInv, OneOwner
  <2>. QED BY <1>1, <1>2, <2>1, OwnerLeaves
<1>3. CASE proc[p].at \notin Owning
  <2>1. proc[p].at = "found"
    BY <1>1, <1>3 DEF JournalInv, JournalShape, ProcStates, Owning
  <2>2. proc' = [proc EXCEPT ![p] = [Off EXCEPT !.at = "off"]]
    <3>1. Off = [Off EXCEPT !.at = "off"]
      BY DEF Off
    <3>. QED BY <1>1, <3>1
  <2>3. /\ lock \in Process \cup {Free, Dead} /\ stale \in BOOLEAN /\ (stale => lock = Dead)
        /\ \A q \in Process : proc[q].at \in Owning => lock = q
    BY DEF JournalInv, JournalShape, OneOwner
  <2>4. /\ lock' \in Process \cup {Free, Dead} /\ stale' \in BOOLEAN /\ (stale' => lock' = Dead)
        /\ \A q \in Process : q # p /\ proc[q].at \in Owning => lock' = q
    BY <1>1, <2>3
  <2>. QED BY <1>1, <2>1, <2>2, <2>4, ProcMoves
<1>. QED BY <1>2, <1>3

\* The end of a session keeps the invariant.
LEMMA DisposeKeeps ==
  ASSUME JournalInv, NEW p \in Process, Dispose(p)
  PROVE  JournalInv'
<1>1. /\ proc[p].at \in Owning /\ proc' = [proc EXCEPT ![p] = Off] /\ lock' = Released(p)
      /\ UNCHANGED <<exists, file, end, joined, stale, confirmed, executed>>
  BY DEF Dispose, Release, Owning
<1>2. Released(p) = Free
  BY DEF JournalInv, OneOwner, Released
<1>. QED BY <1>1, <1>2, OwnerLeaves

\* The repair of the tail keeps the invariant.
LEMMA RepairTailKeeps ==
  ASSUME JournalInv, NEW p \in Process, RepairTail(p)
  PROVE  JournalInv'
<1>1. proc[p].at = "locked" /\ proc[p].at \in Owning
  BY DEF RepairTail, Owning
<1>2. Released(p) = Free /\ proc[p] = [Off EXCEPT !.at = "locked"]
  BY <1>1 DEF JournalInv, OneOwner, Released
<1>3. CASE ~exists
  <2>1. Release(p)
    BY <1>3 DEF RepairTail
  <2>. QED BY <1>1, <1>2, <2>1, OwnerLeaves DEF Release
<1>4. CASE exists
  <2>1. /\ file' = file /\ end' = "clean"
        /\ UNCHANGED <<exists, joined, stale, confirmed, executed>>
    BY <1>4, RepairKeepsRecords DEF RepairTail
  <2>2. CASE ~(~joined /\ Readable(file))
    <3>1. proc' = [proc EXCEPT ![p] = Off] /\ lock' = Released(p)
      BY <1>4, <2>2 DEF RepairTail
    <3>. QED BY <1>1, <1>2, <2>1, <3>1, OwnerLeaves
  <2>3. CASE ~joined /\ Readable(file)
    <3>1. /\ proc' = [proc EXCEPT ![p].at = "repaired", ![p].seen = file, ![p].created = TRUE]
          /\ lock' = lock
      BY <1>4, <2>3 DEF RepairTail
    <3>. DEFINE x == [Off EXCEPT !.at = "repaired", !.seen = file, !.created = TRUE]
    <3>2. proc' = [proc EXCEPT ![p] = x]
      <4>1. [proc[p] EXCEPT !.at = "repaired", !.seen = file, !.created = TRUE] = x
        BY <1>2 DEF Off
      <4>. QED BY <3>1, <4>1
    <3>3. JournalShape /\ OneOwner /\ OwnersKnow /\ FileIsSound /\ ConfirmedStays /\ lock = p
      BY <1>1 DEF JournalInv, OneOwner
    <3>4. /\ x \in ProcStates /\ x.at = "repaired" /\ x.seen = file /\ x.created
          /\ ~x.failed /\ ~x.lost /\ ~x.fork
      BY <3>3 DEF Off, ProcStates, JournalShape
    <3>. HIDE DEF x
    <3>5. /\ proc'[p] = x /\ \A q \in Process : q # p => proc'[q] = proc[q]
          /\ proc' \in [Process -> ProcStates]
      BY <3>2, <3>3, <3>4 DEF JournalShape
    <3>6. JournalShape'
      BY <2>1, <3>1, <3>3, <3>5 DEF JournalShape, Ends
    <3>7. FileIsSound' /\ ConfirmedStays'
      BY <2>1, <3>3 DEF FileIsSound, ConfirmedStays
    <3>8. OneOwner'
      BY <2>1, <3>1, <3>3, <3>4, <3>5 DEF OneOwner
    <3>9. file # <<>>
      BY <2>3 DEF Readable
    <3>10. \A q \in Process : q # p =>
             /\ proc'[q].at \in {"off", "found"} /\ ~proc'[q].fork
      BY <1>1, <3>5, OthersAreOff DEF Off
    <3>11. OwnersKnow'
      <4>. SUFFICES ASSUME NEW q \in Process
                    PROVE  /\ ~proc'[q].fork /\ proc'[q].at # "ready"
                           /\ proc'[q].at = "repaired" =>
                                /\ exists' /\ file' # <<>> /\ end' = "clean" /\ proc'[q].seen = file'
                                /\ proc'[q].created /\ ~proc'[q].failed /\ ~proc'[q].fork
        BY Zenon DEF OwnersKnow
      <4>1. CASE q = p
        BY <1>4, <2>1, <3>4, <3>5, <3>9, <4>1
      <4>2. CASE q # p
        BY <3>10, <4>2
      <4>. QED BY <4>1, <4>2
    <3>12. IdsAreBounded'
      <4>1. PICK b \in Nat : IdsBelow(b)
        BY DEF JournalInv, IdsAreBounded
      <4>2. \A q \in Process : \A r \in ToSet(proc'[q].seen) : r.id < b
        BY <3>4, <3>5, <4>1 DEF IdsBelow
      <4>3. \A r \in ToSet(file') \cup confirmed' : r.id < b
        BY <2>1, <4>1 DEF IdsBelow
      <4>. QED BY <4>2, <4>3 DEF IdsAreBounded, IdsBelow
    <3>. QED BY <3>6, <3>7, <3>8, <3>11, <3>12 DEF JournalInv
  <2>. QED BY <2>2, <2>3
<1>. QED BY <1>3, <1>4 DEF JournalInv, JournalShape

\* A new session keeps the invariant: it has no file yet.
LEMMA CreateSessionKeeps ==
  ASSUME JournalInv, NEW p \in Process, CreateSession(p)
  PROVE  JournalInv'
<1>1. PICK fork \in BOOLEAN : proc' = [proc EXCEPT ![p] = [Off EXCEPT !.at = "ready", !.fork = fork]]
  BY DEF CreateSession
<1>2. /\ ~exists /\ confirmed = {} /\ lock' = p /\ stale' = FALSE
      /\ \A q \in Process : proc[q].at = "off"
      /\ UNCHANGED <<exists, file, end, joined, confirmed, executed>>
  BY DEF CreateSession
<1>. DEFINE x == [Off EXCEPT !.at = "ready", !.fork = fork]
<1>3. /\ x \in ProcStates /\ x.at = "ready" /\ x.seen = <<>> /\ x.created = FALSE
      /\ ~x.failed /\ ~x.lost
  <2>1. Off \in ProcStates
    BY DEF Off, ProcStates
  <2>2. x \in ProcStates
    BY <2>1 DEF ProcStates
  <2>. QED BY <2>2 DEF Off
<1>4. /\ JournalShape /\ OneOwner /\ OwnersKnow /\ IdsAreBounded /\ FileIsSound /\ ConfirmedStays
      /\ file = <<>> /\ exists = FALSE
  BY <1>2 DEF JournalInv, FileIsSound, JournalShape
<1>. HIDE DEF x
<1>5. /\ proc'[p] = x /\ \A q \in Process : q # p => proc'[q] = proc[q]
      /\ proc' \in [Process -> ProcStates]
  BY <1>1, <1>3, <1>4 DEF JournalShape, x
<1>6. \A q \in Process : q # p =>
        /\ proc'[q].at = "off" /\ proc'[q] = [Off EXCEPT !.at = proc'[q].at]
        /\ proc'[q].seen = <<>> /\ ~proc'[q].lost /\ ~proc'[q].fork
  BY <1>2, <1>4, <1>5 DEF OneOwner, Off
<1>7. JournalShape'
  BY <1>2, <1>4, <1>5 DEF JournalShape
<1>8. FileIsSound' /\ ConfirmedStays'
  BY <1>2, <1>4 DEF FileIsSound, ConfirmedStays
<1>9. OneOwner'
  <2>. SUFFICES ASSUME NEW q \in Process
                PROVE  /\ proc'[q].at \in Owning => lock' = q
                       /\ ~proc'[q].lost
                       /\ proc'[q].at \in {"off", "found", "locked"} => proc'[q] = [Off EXCEPT !.at = proc'[q].at]
    BY <1>2, Zenon DEF OneOwner
  <2>1. CASE q = p
    BY <1>2, <1>3, <1>5, <2>1
  <2>2. CASE q # p
    BY <1>6, <2>2 DEF Owning
  <2>. QED BY <2>1, <2>2
<1>10. ToSet(<<>>) = {}
  BY DEF ToSet
<1>11. OwnersKnow'
  <2>. SUFFICES ASSUME NEW q \in Process
                PROVE  /\ proc'[q].fork => ~proc'[q].created /\ proc'[q].seen = <<>>
                       /\ proc'[q].at # "repaired"
                       /\ proc'[q].at = "ready" /\ ~proc'[q].failed =>
                            /\ proc'[q].created = exists' /\ proc'[q].seen = file'
                            /\ exists' => file' # <<>> /\ end' = "clean"
                            /\ ~exists' => confirmed' = {}
                            /\ ToSet(file') \subseteq confirmed' \cup {Header}
    BY Zenon DEF OwnersKnow
  <2>1. CASE q = p
    BY <1>2, <1>3, <1>4, <1>5, <1>10, <2>1
  <2>2. CASE q # p
    BY <1>6, <2>2
  <2>. QED BY <2>1, <2>2
<1>12. IdsAreBounded'
  <2>1. PICK b \in Nat : IdsBelow(b)
    BY <1>4 DEF IdsAreBounded
  <2>2. \A q \in Process : \A r \in ToSet(proc'[q].seen) : r.id < b
    BY <1>3, <1>5, <1>6, <1>10
  <2>3. \A r \in ToSet(file') \cup confirmed' : r.id < b
    BY <1>2, <2>1 DEF IdsBelow
  <2>. QED BY <2>2, <2>3 DEF IdsAreBounded, IdsBelow
<1>. QED BY <1>7, <1>8, <1>9, <1>11, <1>12 DEF JournalInv

\* A call without result may run: what the journal says stays true.
LEMMA SoundRuns ==
  ASSUME NEW s, NEW ran, Sound(s, ran), NEW c \in Unresolved(s)
  PROVE  Sound(s, ran \cup {c})
<1>1. /\ s \in Seq(Record) /\ Readable(s) /\ CallsAreSaid(s) /\ TurnsAreEnded(s)
      /\ ResultsAreSaid(s, ran) /\ TodosAreSaid(s, ran)
  BY DEF Sound
<1>2. ResultsAreSaid(s, ran \cup {c})
  BY <1>1 DEF ResultsAreSaid
<1>3. TodosAreSaid(s, ran \cup {c})
  BY <1>1 DEF TodosAreSaid
<1>. QED BY <1>1, <1>2, <1>3 DEF Sound

\* Running a call keeps the invariant: its message is in the file.
LEMMA ExecuteToolKeeps ==
  ASSUME JournalInv, NEW p \in Process, ExecuteTool(p)
  PROVE  JournalInv'
<1>1. /\ InTurn(p) /\ ~proc[p].failed
      /\ UNCHANGED <<exists, file, end, joined, lock, stale, proc, confirmed>>
  BY DEF ExecuteTool
<1>2. /\ Seen(p) = file /\ TurnOpen(file) /\ exists /\ Sound(file, executed)
      /\ file \in Seq(Record) /\ CallsAreSaid(file)
  BY <1>1, InTurnIs DEF Sound
<1>3. PICK c \in Unresolved(file) \ executed : executed' = executed \cup {c}
  BY <1>2 DEF ExecuteTool
<1>4. c \in Call /\ c \in CallsIn(ToSet(file))
  BY <1>2, UnresolvedIs
<1>5. c \in CallsIn(confirmed)
  <2>1. ToSet(file) \subseteq confirmed \cup {Header} /\ Header.calls = {}
    BY <1>1, RunningIs, HeaderIs DEF InTurn
  <2>. QED BY <1>4, <2>1 DEF CallsIn
<1>6. Sound(file, executed')
  BY <1>2, <1>3, SoundRuns
<1>7. JournalShape'
  BY <1>1, <1>3, <1>4 DEF JournalInv, JournalShape
<1>8. FileIsSound'
  BY <1>1, <1>6 DEF JournalInv, FileIsSound
<1>9. ConfirmedStays'
  BY <1>1, <1>3, <1>5 DEF JournalInv, ConfirmedStays
<1>10. OneOwner' /\ OwnersKnow' /\ IdsAreBounded'
  BY <1>1 DEF JournalInv, OneOwner, OwnersKnow, IdsAreBounded, IdsBelow
<1>. QED BY <1>7, <1>8, <1>9, <1>10 DEF JournalInv

\* A deletion keeps the invariant: it finds no owner.
LEMMA DeleteSessionKeeps ==
  ASSUME JournalInv, NEW p \in Process, DeleteSession(p)
  PROVE  JournalInv'
<1>1. /\ Acquirable /\ exists' = FALSE /\ file' = <<>> /\ end' = "clean" /\ joined' = FALSE
      /\ lock' = Free /\ stale' = FALSE /\ proc' = [proc EXCEPT ![p] = Off]
      /\ UNCHANGED <<confirmed, executed>>
  BY DEF DeleteSession
<1>2. /\ JournalShape /\ ConfirmedStays /\ IdsAreBounded
  BY DEF JournalInv
<1>3. Off \in ProcStates /\ Off.at = "off" /\ Off.seen = <<>> /\ ~Off.lost /\ ~Off.fork
      /\ Off = [Off EXCEPT !.at = Off.at]
  BY DEF Off, ProcStates
<1>4. /\ proc'[p] = Off /\ \A q \in Process : q # p => proc'[q] = proc[q]
      /\ proc' \in [Process -> ProcStates]
  BY <1>1, <1>2, <1>3 DEF JournalShape
<1>5. \A q \in Process :
        /\ proc'[q].at \in {"off", "found"} /\ proc'[q] = [Off EXCEPT !.at = proc'[q].at]
        /\ proc'[q].seen = <<>> /\ ~proc'[q].lost /\ ~proc'[q].fork
  <2>1. \A q \in Process :
          /\ proc[q].at \in {"off", "found"} /\ proc[q] = [Off EXCEPT !.at = proc[q].at]
          /\ proc[q].seen = <<>> /\ ~proc[q].lost /\ ~proc[q].fork
    BY <1>1, NobodyOwns
  <2>. TAKE q \in Process
  <2>2. CASE q = p
    BY <1>3, <1>4, <2>2
  <2>3. CASE q # p
    BY <1>4, <2>1, <2>3
  <2>. QED BY <2>2, <2>3
<1>6. ToSet(<<>>) = {} /\ <<>> \in Seq(Record)
  BY DEF ToSet
<1>7. JournalShape'
  BY <1>1, <1>2, <1>4, <1>6 DEF JournalShape, Ends
<1>8. FileIsSound' /\ ConfirmedStays'
  BY <1>1, <1>2 DEF FileIsSound, ConfirmedStays
<1>9. OneOwner'
  BY <1>1, <1>5 DEF OneOwner, Owning
<1>10. OwnersKnow'
  BY <1>5 DEF OwnersKnow
<1>11. IdsAreBounded'
  <2>1. PICK b \in Nat : IdsBelow(b)
    BY <1>2 DEF IdsAreBounded
  <2>2. \A r \in ToSet(file') \cup confirmed' : r.id < b
    BY <1>1, <1>6, <2>1 DEF IdsBelow
  <2>3. \A q \in Process : ToSet(proc'[q].seen) = {}
    BY <1>5, <1>6
  <2>. QED BY <2>2, <2>3 DEF IdsAreBounded, IdsBelow
<1>. QED BY <1>7, <1>8, <1>9, <1>10, <1>11 DEF JournalInv

\* The locks of processes that live do not expire.
LEMMA ExpireKeeps ==
  ASSUME JournalInv, ~MaySuspend, Expire
  PROVE  JournalInv'
<1>1. /\ lock = Dead /\ stale' = TRUE
      /\ UNCHANGED <<exists, file, end, joined, lock, proc, confirmed, executed>>
  BY DEF Expire
<1>. QED BY <1>1 DEF JournalInv, JournalShape, FileIsSound, ConfirmedStays, OneOwner,
                      OwnersKnow, IdsAreBounded, IdsBelow

\* The timer of an owner keeps the invariant: the lock is its own.
LEMMA RefreshKeeps ==
  ASSUME JournalInv, NEW p \in Process, Refresh(p)
  PROVE  JournalInv'
<1>1. lock = p
  BY DEF Refresh, JournalInv, OneOwner, Owning
<1>2. /\ stale' = FALSE
      /\ UNCHANGED <<exists, file, end, joined, lock, proc, confirmed, executed>>
  BY <1>1 DEF Refresh
<1>. QED BY <1>2 DEF JournalInv, JournalShape, FileIsSound, ConfirmedStays, OneOwner,
                      OwnersKnow, IdsAreBounded, IdsBelow

\* The invariant holds before the session is created.
LEMMA InitKeeps ==
  ASSUME Init
  PROVE  JournalInv
<1>1. /\ exists = FALSE /\ file = <<>> /\ end = "clean" /\ joined = FALSE
      /\ lock = Free /\ stale = FALSE /\ proc = [p \in Process |-> Off]
      /\ confirmed = {} /\ executed = {}
  BY DEF Init
<1>2. Off \in ProcStates /\ Off.at = "off" /\ Off.seen = <<>> /\ ~Off.lost /\ ~Off.fork
      /\ Off = [Off EXCEPT !.at = Off.at]
  BY DEF Off, ProcStates
<1>3. \A q \in Process : proc[q] = Off
  BY <1>1
<1>4. ToSet(<<>>) = {} /\ <<>> \in Seq(Record)
  BY DEF ToSet
<1>5. JournalShape
  BY <1>1, <1>2, <1>4 DEF JournalShape, Ends
<1>6. FileIsSound /\ ConfirmedStays
  BY <1>1 DEF FileIsSound, ConfirmedStays
<1>7. OneOwner
  BY <1>1, <1>2, <1>3 DEF OneOwner, Owning
<1>8. OwnersKnow
  BY <1>2, <1>3 DEF OwnersKnow
<1>9. IdsAreBounded
  <2>1. IdsBelow(0)
    BY <1>1, <1>2, <1>3, <1>4 DEF IdsBelow
  <2>. QED BY <2>1 DEF IdsAreBounded
<1>. QED BY <1>5, <1>6, <1>7, <1>8, <1>9 DEF JournalInv

\* Every step of the model keeps the invariant.
LEMMA NextKeeps ==
  ASSUME OneByteTexts, ~MaySuspend, JournalInv, [Next]_vars
  PROVE  JournalInv'
<1>1. CASE UNCHANGED vars
  BY <1>1 DEF vars, JournalInv, JournalShape, FileIsSound, ConfirmedStays, OneOwner,
              OwnersKnow, IdsAreBounded, IdsBelow
<1>2. CASE Expire
  BY <1>2, ExpireKeeps
<1>3. ASSUME NEW p \in Process,
             \/ CreateSession(p) \/ FindSession(p) \/ AcquireOwnership(p)
             \/ RepairTail(p) \/ FinishOpen(p) \/ AppendSnapshot(p) \/ StartTurn(p)
             \/ AppendAssistant(p) \/ ExecuteTool(p) \/ AppendTodoState(p)
             \/ AppendResult(p) \/ AppendCompaction(p) \/ EndTurn(p)
             \/ Dispose(p) \/ DeleteSession(p) \/ Crash(p) \/ Refresh(p)
      PROVE  JournalInv'
  <2>1. CASE CreateSession(p)     BY <2>1, CreateSessionKeeps
  <2>2. CASE FindSession(p)       BY <2>2, FindSessionKeeps
  <2>3. CASE AcquireOwnership(p)  BY <2>3, AcquireOwnershipKeeps
  <2>4. CASE RepairTail(p)        BY <2>4, RepairTailKeeps
  <2>5. CASE FinishOpen(p)        BY <2>5, FinishOpenKeeps
  <2>6. CASE AppendSnapshot(p)    BY <2>6, AppendSnapshotKeeps
  <2>7. CASE StartTurn(p)         BY <2>7, StartTurnKeeps
  <2>8. CASE AppendAssistant(p)   BY <2>8, AppendAssistantKeeps
  <2>9. CASE ExecuteTool(p)       BY <2>9, ExecuteToolKeeps
  <2>10. CASE AppendTodoState(p)  BY <2>10, AppendTodoStateKeeps
  <2>11. CASE AppendResult(p)     BY <2>11, AppendResultKeeps
  <2>12. CASE AppendCompaction(p) BY <2>12, AppendCompactionKeeps
  <2>13. CASE EndTurn(p)          BY <2>13, EndTurnKeeps
  <2>14. CASE Dispose(p)          BY <2>14, DisposeKeeps
  <2>15. CASE DeleteSession(p)    BY <2>15, DeleteSessionKeeps
  <2>16. CASE Crash(p)            BY <2>16, CrashKeeps
  <2>17. CASE Refresh(p)          BY <2>17, RefreshKeeps
  <2>. QED BY <1>3, <2>1, <2>2, <2>3, <2>4, <2>5, <2>6, <2>7, <2>8, <2>9, <2>10, <2>11,
               <2>12, <2>13, <2>14, <2>15, <2>16, <2>17
<1>. QED BY <1>1, <1>2, <1>3 DEF Next

-----------------------------------------------------------------------------
(* What the invariant says *)

\* The journal survives, by the invariant.
LEMMA SurvivesFollows ==
  ASSUME JournalInv
  PROVE  JournalSurvives
<1>1. SessionStaysReadable
  BY DEF SessionStaysReadable, JournalInv, FileIsSound, Sound
<1>2. NothingConfirmedIsLost
  BY DEF NothingConfirmedIsLost, JournalInv, ConfirmedStays
<1>3. WriterKnowsTheFile
  BY DEF WriterKnowsTheFile, JournalInv, OwnersKnow, AssertOwned, MayWrite, Seen
<1>. QED BY <1>1, <1>2, <1>3 DEF JournalSurvives

\* The recovery is truthful, by the invariant.
LEMMA TruthFollows ==
  ASSUME JournalInv
  PROVE  RecoveryIsTruthful
<1>. DEFINE At(type) == {i \in 1..Len(file) : file[i].type = type}
            Results(c) == {i \in At("result") : file[i].call = c}
            Closed(i) == \E e \in At("turn_end") : e > i
            Recovered(i) == \E r \in At("recovery") :
                              r > i /\ \A e \in At("turn_end") : e > i => e > r
<1>1. file \in Seq(Record) /\ Len(file) \in Nat /\ DOMAIN file = 1..Len(file)
  BY DEF JournalInv, JournalShape
<1>2. file # <<>> => /\ Sound(file, executed) /\ CallsAreSaid(file) /\ ResultsAreSaid(file, executed)
                     /\ TodosAreSaid(file, executed)
  BY DEF JournalInv, FileIsSound, Sound
<1>3. ASSUME NEW i \in At("assistant"), NEW c \in file[i].calls
      PROVE  /\ Cardinality(Results(c)) <= 1
             /\ Closed(i) /\ (c \in executed \/ Recovered(i)) => Results(c) # {}
  <2>1. i \in DOMAIN file /\ i \in Nat /\ file # <<>>
    BY <1>1
  <2>2. /\ CallsAreSaid(file) /\ ResultsAreSaid(file, executed)
    BY <1>2, <2>1
  <2>3. Cardinality(Results(c)) <= 1
    <3>1. PICK R : R = Results(c)
      OBVIOUS
    <3>2. \A j, k \in R : j = k
      BY <1>1, <2>2, <3>1 DEF ResultsAreSaid
    <3>3. R = {} \/ \E j : R = {j}
      BY <3>2
    <3>4. Cardinality(R) = 0 \/ Cardinality(R) = 1
      BY <3>3, FS_EmptySet, FS_Singleton
    <3>. HIDE DEF Results
    <3>. QED BY <3>1, <3>4
  <2>4. c \in AnsweredIn(ToSet(file)) => Results(c) # {}
    <3>1. ASSUME c \in AnsweredIn(ToSet(file)) PROVE Results(c) # {}
      <4>1. PICK j \in DOMAIN file : file[j].type = "result" /\ file[j].call = c
        BY <3>1 DEF AnsweredIn, ToSet
      <4>2. j \in Results(c)
        BY <1>1, <4>1
      <4>. QED BY <4>2
    <3>. QED BY <3>1
  <2>5. ASSUME Closed(i), Recovered(i) PROVE c \in AnsweredIn(ToSet(file))
    <3>1. PICK r \in At("recovery") : r > i /\ \A e \in At("turn_end") : e > i => e > r
      BY <2>5
    <3>2. /\ r \in DOMAIN file /\ file[r].type = "recovery" /\ i < r
          /\ \A e \in DOMAIN file : file[e].type = "turn_end" /\ i < e => r < e
      BY <1>1, <2>1, <3>1
    <3>. QED BY <2>1, <2>2, <3>2 DEF ResultsAreSaid
  <2>6. ASSUME Closed(i), c \in executed PROVE c \in AnsweredIn(ToSet(file))
    <3>1. PICK e \in DOMAIN file : file[e].type = "turn_end" /\ i < e
      BY <1>1, <2>1, <2>6
    <3>2. c \in CallsIn(ToSet(file))
      BY <2>1 DEF CallsIn, ToSet
    <3>3. c \in AnsweredIn(ToSet(file)) \cup Unresolved(file)
      BY <2>2, <2>6, <3>2 DEF ResultsAreSaid
    <3>4. ASSUME c \in Unresolved(file) PROVE FALSE
      <4>1. TurnOpen(file) /\ \E k \in DOMAIN file : Opened(file) <= k /\ c \in file[k].calls
        BY <1>1, <2>2, <3>4, UnresolvedIs
      <4>2. Opened(file) <= i
        BY <2>1, <2>2, <4>1 DEF CallsAreSaid
      <4>3. Opened(file) \in 1..Len(file) /\ Opens(file, Opened(file))
        BY <1>1, <4>1, OpenedIs
      <4>4. e \in (Opened(file) + 1)..Len(file)
        BY <1>1, <2>1, <3>1, <4>2, <4>3
      <4>. QED BY <3>1, <4>3, <4>4 DEF Opens
    <3>. QED BY <3>3, <3>4
  <2>. QED BY <2>3, <2>4, <2>5, <2>6
<1>4. CallsAreAnsweredOnce
  BY <1>3 DEF CallsAreAnsweredOnce
<1>5. AcceptedTodosStand
  <2>. SUFFICES ASSUME NEW r \in ToSet(file), r.type = "result"
                PROVE  /\ r.call \in TodoCall \cap AcceptedIn(ToSet(file)) => r.status = "ok"
                       /\ r.status = "ok" => r.call \in executed
    BY DEF AcceptedTodosStand
  <2>1. PICK j \in DOMAIN file : file[j] = r
    BY DEF ToSet
  <2>2. file # <<>>
    BY <1>1, <2>1
  <2>. QED BY <1>2, <2>1, <2>2 DEF TodosAreSaid
<1>. QED BY <1>4, <1>5 DEF RecoveryIsTruthful

\* The types, by the invariant.
LEMMA TypesFollow ==
  ASSUME JournalInv, joined \in BOOLEAN
  PROVE  JournalTypeOK
<1>1. \A r \in ToSet(file) : r.type = "result" => r.call # NoCall /\ r.status # ""
  <2>. SUFFICES ASSUME NEW r \in ToSet(file), r.type = "result"
                PROVE  r.call # NoCall /\ r.status # ""
    OBVIOUS
  <2>1. PICK j \in DOMAIN file : file[j] = r
    BY DEF ToSet
  <2>2. file # <<>>
    BY <2>1 DEF JournalInv, JournalShape
  <2>3. CallsAreSaid(file)
    BY <2>2 DEF JournalInv, FileIsSound, Sound
  <2>. QED BY <2>1, <2>3 DEF CallsAreSaid
<1>. QED BY <1>1 DEF JournalTypeOK, JournalInv, JournalShape, ProcStates

-----------------------------------------------------------------------------
(* The lock *)

\* What a process does to a write's file is no matter to its lock.
Shaped(x) == x \in [at : {x.at}, seen : {x.seen}, created : {x.created}, failed : {x.failed},
                    lost : {x.lost}, fork : {x.fork}]

\* Whoever has the session open holds its lock, which no other process may take.
LockInv ==
  /\ proc = [p \in Process |-> proc[p]] /\ joined \in BOOLEAN
  /\ stale => lock = Dead
  /\ \A p \in Process :
       /\ Shaped(proc[p]) /\ ~proc[p].lost
       /\ proc[p].at \in Owning => lock = p

\* A step of p: the processes that own the session still hold its lock.
LEMMA LockStays ==
  ASSUME LockInv, NEW p \in Process, NEW x, Shaped(x), proc' = [proc EXCEPT ![p] = x], ~x.lost,
         joined' \in BOOLEAN, stale' => lock' = Dead,
         x.at \in Owning => lock' = p,
         \A q \in Process : q # p /\ proc[q].at \in Owning => lock' = q
  PROVE  LockInv'
<1>1. /\ proc'[p] = x /\ \A q \in Process : q # p => proc'[q] = proc[q]
      /\ proc' = [q \in Process |-> proc'[q]]
  BY DEF LockInv
<1>. SUFFICES ASSUME NEW q \in Process
              PROVE  /\ Shaped(proc'[q]) /\ ~proc'[q].lost
                     /\ proc'[q].at \in Owning => lock' = q
  BY <1>1 DEF LockInv, Shaped
<1>2. CASE q = p
  BY <1>1, <1>2
<1>3. CASE q # p
  BY <1>1, <1>3 DEF LockInv
<1>. QED BY <1>2, <1>3

\* A process that is off, or has just created the session.
LEMMA OffIsShaped ==
  /\ Shaped(Off) /\ Off.at = "off" /\ Off.lost = FALSE
  /\ \A v : Shaped([Off EXCEPT !.at = "ready", !.fork = v])
           /\ [Off EXCEPT !.at = "ready", !.fork = v].lost = FALSE
BY DEF Shaped, Off

\* The owner of the lock is the only process that has the session open.
LEMMA OwnerIsAlone ==
  ASSUME LockInv
  PROVE  /\ \A p \in Process : proc[p].at \in Owning =>
              /\ lock = p /\ ~stale /\ ~proc[p].lost /\ Released(p) = Free
              /\ \A q \in Process : q # p => proc[q].at \notin Owning
         /\ Acquirable => \A q \in Process : proc[q].at \notin Owning
<1>1. \A p \in Process : proc[p].at \in Owning => lock = p /\ ~proc[p].lost
  BY DEF LockInv
<1>2. \A p \in Process : proc[p].at \in Owning => ~stale
  BY <1>1, SessionJournalAssumption DEF LockInv
<1>3. Acquirable => lock \notin Process
  BY SessionJournalAssumption DEF Acquirable, LockInv
<1>. QED BY <1>1, <1>2, <1>3 DEF Released

\* A write leaves the lock with its owner, or with the dead.
LEMMA WriteKeepsLock ==
  ASSUME LockInv, NEW p \in Process, NEW batch, Write(p, batch)
  PROVE  LockInv'
<1>1. joined' \in BOOLEAN
  BY DEF Write, AppendAll, FailAppend, CrashAppend, WriteFile
<1>2. Shaped(proc[p]) /\ ~proc[p].lost /\ (proc[p].at \in Owning => lock = p)
      /\ (stale => lock = Dead) /\ \A q \in Process : proc[q].at \in Owning => lock = q
  BY DEF LockInv
<1>3. CASE AppendAll(p, batch)
  <2>. DEFINE s == proc[p].seen \o Content(p, batch)
              x == [proc[p] EXCEPT !.seen = s, !.created = TRUE, !.fork = FALSE]
  <2>1. proc' = [proc EXCEPT ![p] = x] /\ lock' = lock /\ stale' = stale
    BY <1>3 DEF AppendAll
  <2>. HIDE DEF s
  <2>2. Shaped(x) /\ x.at = proc[p].at /\ x.lost = proc[p].lost
    BY <1>2 DEF Shaped
  <2>. HIDE DEF x
  <2>. QED BY <1>1, <1>2, <2>1, <2>2, LockStays
<1>4. CASE FailAppend(p, batch)
  <2>. DEFINE x == [proc[p] EXCEPT !.failed = TRUE]
  <2>1. proc' = [proc EXCEPT ![p] = x] /\ lock' = lock /\ stale' = stale
    BY <1>4 DEF FailAppend
  <2>2. Shaped(x) /\ x.at = proc[p].at /\ x.lost = proc[p].lost
    BY <1>2 DEF Shaped
  <2>. HIDE DEF x
  <2>. QED BY <1>1, <1>2, <2>1, <2>2, LockStays
<1>5. CASE CrashAppend(p, batch)
  <2>1. proc' = [proc EXCEPT ![p] = Off] /\ lock' = (IF lock = p THEN Dead ELSE lock) /\ stale' = stale
    BY <1>5 DEF CrashAppend
  <2>2. /\ stale' => lock' = Dead
        /\ \A q \in Process : q # p /\ proc[q].at \in Owning => lock' = q
    BY <1>2, <2>1
  <2>. QED BY <1>1, <2>1, <2>2, OffIsShaped, LockStays DEF Owning
<1>. QED BY <1>3, <1>4, <1>5 DEF Write

\* The owner gives the session up.
LEMMA OffKeepsLock ==
  ASSUME LockInv, NEW p \in Process, proc[p].at \in Owning, proc' = [proc EXCEPT ![p] = Off],
         stale' = stale, joined' \in BOOLEAN
  PROVE  LockInv'
<1>1. ~stale /\ \A q \in Process : q # p => proc[q].at \notin Owning
  BY OwnerIsAlone
<1>. QED BY <1>1, OffIsShaped, LockStays DEF Owning

\* The rest of a load leaves the lock with its owner, or gives it up.
LEMMA FinishOpenKeepsLock ==
  ASSUME LockInv, NEW p \in Process, FinishOpen(p)
  PROVE  LockInv'
<1>1. proc[p].at \in Owning /\ proc[p].at = "repaired"
  BY DEF FinishOpen, Owning
<1>2. Shaped(proc[p]) /\ ~proc[p].lost /\ lock = p /\ ~stale
      /\ \A q \in Process : q # p => proc[q].at \notin Owning
  BY <1>1, OwnerIsAlone DEF LockInv
<1>. DEFINE batch == Chained(Seen(p), RecoveryOf(Seen(p)))
<1>3. CASE ~TurnOpen(Seen(p))
  <2>. DEFINE x == [proc[p] EXCEPT !.at = "ready"]
  <2>1. proc' = [proc EXCEPT ![p] = x] /\ lock' = lock /\ stale' = stale /\ joined' \in BOOLEAN
    BY <1>3 DEF FinishOpen, LockInv
  <2>2. Shaped(x) /\ x.lost = proc[p].lost
    BY <1>2 DEF Shaped
  <2>. HIDE DEF x
  <2>. QED BY <1>2, <2>1, <2>2, LockStays
<1>4. CASE TurnOpen(Seen(p))
  <2>1. \/ /\ WriteFile(batch, Len(batch), "clean")
           /\ \/ proc' = [proc EXCEPT ![p] = Off]
              \/ /\ proc' = [proc EXCEPT ![p].at = "ready", ![p].seen = file']
                 /\ UNCHANGED lock
           /\ UNCHANGED stale
        \/ /\ \E n \in 0..Len(batch) - 1, rest \in Ends : WriteFile(batch, n, rest)
           /\ proc' = [proc EXCEPT ![p] = Off] /\ UNCHANGED stale
        \/ CrashAppend(p, batch)
    BY <1>4 DEF FinishOpen
  <2>. HIDE DEF batch
  <2>2. joined' \in BOOLEAN
    BY <2>1 DEF WriteFile, CrashAppend
  <2>3. CASE proc' = [proc EXCEPT ![p] = Off] /\ UNCHANGED stale
    BY <1>1, <2>2, <2>3, OffKeepsLock
  <2>4. CASE /\ proc' = [proc EXCEPT ![p].at = "ready", ![p].seen = file']
             /\ UNCHANGED <<lock, stale>>
    <3>. DEFINE x == [proc[p] EXCEPT !.at = "ready", !.seen = file']
    <3>1. proc' = [proc EXCEPT ![p] = x]
      BY <2>4
    <3>2. Shaped(x) /\ x.lost = proc[p].lost
      BY <1>2 DEF Shaped
    <3>. HIDE DEF x
    <3>. QED BY <1>2, <2>2, <2>4, <3>1, <3>2, LockStays
  <2>. QED BY <2>1, <2>3, <2>4 DEF CrashAppend
<1>. QED BY <1>3, <1>4

\* The repair leaves the lock with its owner, or gives it up.
LEMMA RepairTailKeepsLock ==
  ASSUME LockInv, NEW p \in Process, RepairTail(p)
  PROVE  LockInv'
<1>1. proc[p].at \in Owning /\ joined' \in BOOLEAN /\ stale' = stale
  BY DEF RepairTail, Release, LockInv, Owning
<1>2. Shaped(proc[p]) /\ ~proc[p].lost /\ lock = p /\ ~stale
      /\ \A q \in Process : q # p => proc[q].at \notin Owning
  BY <1>1, OwnerIsAlone DEF LockInv
<1>3. \/ proc' = [proc EXCEPT ![p] = Off]
      \/ /\ proc' = [proc EXCEPT ![p].at = "repaired", ![p].seen = file, ![p].created = TRUE]
         /\ lock' = lock
  BY DEF RepairTail, Release
<1>4. CASE proc' = [proc EXCEPT ![p] = Off]
  BY <1>1, <1>4, OffKeepsLock
<1>5. CASE /\ proc' = [proc EXCEPT ![p].at = "repaired", ![p].seen = file, ![p].created = TRUE]
           /\ lock' = lock
  <2>. DEFINE x == [proc[p] EXCEPT !.at = "repaired", !.seen = file, !.created = TRUE]
  <2>1. proc' = [proc EXCEPT ![p] = x]
    BY <1>5
  <2>2. Shaped(x) /\ x.lost = proc[p].lost
    BY <1>2 DEF Shaped
  <2>. HIDE DEF x
  <2>. QED BY <1>1, <1>2, <1>5, <2>1, <2>2, LockStays
<1>. QED BY <1>3, <1>4, <1>5

\* Every step leaves the lock with whoever has the session open.
LEMMA LockNextKeeps ==
  ASSUME ~MaySuspend, LockInv, [Next]_vars
  PROVE  LockInv'
<1>1. CASE UNCHANGED vars
  BY <1>1 DEF vars, LockInv
<1>2. CASE Expire
  <2>1. lock = Dead /\ UNCHANGED <<joined, lock, proc>>
    BY <1>2 DEF Expire
  <2>. QED BY <2>1 DEF LockInv
<1>3. ASSUME NEW p \in Process,
             \/ CreateSession(p) \/ FindSession(p) \/ AcquireOwnership(p)
             \/ RepairTail(p) \/ FinishOpen(p) \/ AppendSnapshot(p) \/ StartTurn(p)
             \/ AppendAssistant(p) \/ ExecuteTool(p) \/ AppendTodoState(p)
             \/ AppendResult(p) \/ AppendCompaction(p) \/ EndTurn(p)
             \/ Dispose(p) \/ DeleteSession(p) \/ Crash(p) \/ Refresh(p)
      PROVE  LockInv'
  <2>0. Shaped(proc[p]) /\ ~proc[p].lost /\ joined \in BOOLEAN /\ (stale => lock = Dead)
        /\ \A q \in Process : proc[q].at \in Owning => lock = q
    BY DEF LockInv
  <2>1. CASE CreateSession(p)
    <3>1. PICK fork : proc' = [proc EXCEPT ![p] = [Off EXCEPT !.at = "ready", !.fork = fork]]
      BY <2>1 DEF CreateSession
    <3>2. /\ \A q \in Process : proc[q].at = "off"
          /\ lock' = p /\ stale' = FALSE /\ joined' = joined
      BY <2>1 DEF CreateSession
    <3>3. \A q \in Process : proc[q].at \notin Owning
      BY <3>2 DEF Owning
    <3>. DEFINE x == [Off EXCEPT !.at = "ready", !.fork = fork]
    <3>4. Shaped(x) /\ ~x.lost
      BY OffIsShaped
    <3>. HIDE DEF x
    <3>5. proc' = [proc EXCEPT ![p] = x]
      BY <3>1 DEF x
    <3>. QED BY <2>0, <3>2, <3>3, <3>4, <3>5, LockStays
  <2>2. CASE FindSession(p)
    <3>. DEFINE x == [proc[p] EXCEPT !.at = "found"]
    <3>1. /\ proc' = [proc EXCEPT ![p] = x] /\ UNCHANGED <<joined, lock, stale>>
      BY <2>2 DEF FindSession
    <3>2. Shaped(x) /\ x.lost = proc[p].lost /\ x.at \notin Owning
      BY <2>0 DEF Shaped, Owning
    <3>. HIDE DEF x
    <3>. QED BY <2>0, <3>1, <3>2, LockStays
  <2>3. CASE AcquireOwnership(p) /\ Acquirable
    <3>. DEFINE x == [proc[p] EXCEPT !.at = "locked"]
    <3>1. /\ proc' = [proc EXCEPT ![p] = x] /\ lock' = p /\ stale' = FALSE /\ joined' = joined
      BY <2>3 DEF AcquireOwnership
    <3>2. Shaped(x) /\ x.lost = proc[p].lost
      BY <2>0 DEF Shaped
    <3>3. \A q \in Process : proc[q].at \notin Owning
      BY <2>3, OwnerIsAlone
    <3>. HIDE DEF x
    <3>. QED BY <2>0, <3>1, <3>2, <3>3, LockStays
  <2>4. CASE AcquireOwnership(p) /\ ~Acquirable
    <3>1. proc' = [proc EXCEPT ![p] = Off] /\ UNCHANGED <<joined, lock, stale>>
      BY <2>4 DEF AcquireOwnership
    <3>. QED BY <2>0, <3>1, OffIsShaped, LockStays DEF Owning
  <2>5. CASE RepairTail(p)        BY <2>5, RepairTailKeepsLock
  <2>6. CASE FinishOpen(p)        BY <2>6, FinishOpenKeepsLock
  <2>7. CASE \/ AppendSnapshot(p) \/ StartTurn(p) \/ AppendAssistant(p) \/ AppendTodoState(p)
             \/ AppendResult(p) \/ AppendCompaction(p) \/ EndTurn(p)
    <3>1. \E batch : Write(p, batch)
      BY <2>7 DEF AppendSnapshot, StartTurn, AppendAssistant, AppendTodoState, AppendResult,
                  AppendCompaction, EndTurn, WriteEntry, WriteEntries
    <3>. QED BY <3>1, WriteKeepsLock
  <2>8. CASE ExecuteTool(p)
    <3>1. UNCHANGED <<joined, lock, stale, proc>>
      BY <2>8 DEF ExecuteTool
    <3>. QED BY <3>1 DEF LockInv
  <2>9. CASE Dispose(p)
    <3>1. /\ proc[p].at \in Owning /\ proc' = [proc EXCEPT ![p] = Off] /\ UNCHANGED <<joined, stale>>
      BY <2>9 DEF Dispose, Release, Owning
    <3>. QED BY <2>0, <3>1, OffKeepsLock
  <2>10. CASE DeleteSession(p)
    <3>1. /\ Acquirable /\ proc' = [proc EXCEPT ![p] = Off] /\ joined' = FALSE /\ stale' = FALSE
      BY <2>10 DEF DeleteSession
    <3>2. \A q \in Process : proc[q].at \notin Owning
      BY <3>1, OwnerIsAlone
    <3>. QED BY <3>1, <3>2, OffIsShaped, LockStays DEF Owning
  <2>11. CASE Crash(p)
    <3>1. /\ proc' = [proc EXCEPT ![p] = Off] /\ lock' = (IF lock = p THEN Dead ELSE lock)
          /\ UNCHANGED <<joined, stale>>
      BY <2>11 DEF Crash
    <3>2. /\ stale' => lock' = Dead
          /\ \A q \in Process : q # p /\ proc[q].at \in Owning => lock' = q
      BY <2>0, <3>1
    <3>. QED BY <2>0, <3>1, <3>2, OffIsShaped, LockStays DEF Owning
  <2>12. CASE Refresh(p)
    <3>1. lock = p
      BY <2>0, <2>12 DEF Refresh, Owning
    <3>2. stale' = FALSE /\ UNCHANGED <<joined, lock, proc>>
      BY <2>12, <3>1 DEF Refresh
    <3>. QED BY <3>2 DEF LockInv
  <2>. QED BY <1>3, <2>1, <2>2, <2>3, <2>4, <2>5, <2>6, <2>7, <2>8, <2>9, <2>10, <2>11, <2>12
<1>. QED BY <1>1, <1>2, <1>3 DEF Next

\* Nobody has the session open in the beginning.
LEMMA LockInit == ASSUME Init PROVE LockInv
<1>1. joined = FALSE /\ stale = FALSE /\ proc = [p \in Process |-> Off]
  BY DEF Init
<1>. QED BY <1>1, OffIsShaped DEF LockInv, Owning

-----------------------------------------------------------------------------
(* The theorems *)

\* Whoever appends a record holds the lock of the session: as long as no live
\* process is suspended for longer than a lock lasts (writeJournal, lockSync).
THEOREM LockHeld ==
  ASSUME ~MaySuspend
  PROVE  Spec => AppendsHoldTheLock
<1>1. Init => LockInv
  BY LockInit
<1>2. LockInv /\ [Next]_vars => LockInv'
  BY LockNextKeeps
<1>3. LockInv /\ [Next]_vars =>
        [\A p \in Process :
           AssertOwned(p) /\ proc'[p].seen # proc[p].seen /\ proc'[p].at = "ready"
             => lock = p]_vars
  BY DEF LockInv, AssertOwned, Owning
<1>. QED BY <1>1, <1>2, <1>3, PTL DEF Spec, AppendsHoldTheLock

\* The journal survives whatever crashes and fails in the middle of a write, and
\* its recovery tells the truth, for any number of processes, calls and records:
\* if a text's length in characters is its length in bytes, and no live process
\* is suspended for longer than its lock lasts.
THEOREM JournalSafe ==
  ASSUME OneByteTexts, ~MaySuspend
  PROVE  Spec => []JournalIsSafe
<1>1. Init => JournalInv /\ LockInv
  BY InitKeeps, LockInit
<1>2. (JournalInv /\ LockInv) /\ [Next]_vars => (JournalInv /\ LockInv)'
  BY NextKeeps, LockNextKeeps
<1>3. JournalInv /\ LockInv => JournalIsSafe
  BY SurvivesFollows, TruthFollows, TypesFollow DEF LockInv, JournalIsSafe
<1>. QED BY <1>1, <1>2, <1>3, PTL DEF Spec

-----------------------------------------------------------------------------

HostRecords ==
  [session : ArtifactSessions \cup {NoArtifactSession},
   at : {"idle", "saving", "saved", "forking", "deleting", "down"},
   refs : SUBSET ArtifactIds, pending : BOOLEAN, running : BOOLEAN,
   id : {0} \cup ArtifactIds, target : ArtifactSessions \cup {NoArtifactSession},
   left : SUBSET ArtifactIds, copies : SUBSET ArtifactIds]
SweepRecords ==
  [at : {"none", "listed", "sweeping", "reading", "done"},
   journals : SUBSET ArtifactSessions, left : SUBSET ArtifactSessions,
   session : ArtifactSessions \cup {NoArtifactSession},
   refs : SUBSET ArtifactIds, owed : SUBSET ArtifactIds]
FileRecords == [of : ArtifactSessions \cup {NoArtifactSession},
                state : {"none", "partial", "whole", "removed"}, aged : BOOLEAN]
JournalRecords == [exists : BOOLEAN, refs : SUBSET ArtifactIds]

ArtifactsTyped ==
  /\ artifactDir \in [ArtifactSessions -> {"none", "fresh", "aged"}]
  /\ artifactFile \in [ArtifactIds -> FileRecords]
  /\ artifactJournal \in [ArtifactSessions -> JournalRecords]
  /\ artifactLife \in [ArtifactSessions -> {"new", "used", "deleting", "deleted"}]
  /\ artifactHost \in [ArtifactProcs -> HostRecords]
  /\ artifactSweep \in [ArtifactProcs -> SweepRecords]
  /\ artifactDays \in 0..MaxDaysPassed

Sweeping(p) == artifactSweep[p].at \in {"listed", "sweeping", "reading"}
Over(s) == artifactLife[s] \in {"deleting", "deleted"}

\* A session is open in one process.
OpenOnce ==
  \A p, q \in ArtifactProcs :
    p # q /\ artifactHost[p].session # NoArtifactSession =>
      artifactHost[p].session # artifactHost[q].session

\* What a process knows of the session it has open; one whose directory has
\* aged has a journal, unless its fork is overdue.
OpenIsSound(p) ==
  LET h == artifactHost[p]
      s == h.session
  IN  /\ h.running => s # NoArtifactSession
      /\ h.at # "forking" => h.copies = {}
      /\ s # NoArtifactSession =>
           /\ artifactLife[s] = "used"
           /\ h.running => artifactJournal[s].exists
           /\ artifactJournal[s].exists => h.refs \subseteq artifactJournal[s].refs
           /\ ~artifactJournal[s].exists /\ artifactDir[s] # "none" => h.pending
           /\ artifactDir[s] = "aged" => artifactJournal[s].exists \/ s \in overdue
      /\ \A i \in h.refs : artifactFile[i].state # "none" /\ (s \notin overdue => Stored(i, s))

\* A file that is being saved is young, and nobody's yet.
SaveIsSound(p) ==
  LET h == artifactHost[p]
      f == artifactFile[h.id]
  IN  h.at \in {"saving", "saved"} =>
        /\ h.running /\ h.id \in ArtifactIds /\ h.session \in ArtifactSessions
        /\ artifactDir[h.session] = "fresh"
        /\ f.of = h.session /\ ~f.aged
        /\ f.state = IF h.at = "saving" THEN "partial" ELSE "whole"
        /\ h.id \notin h.refs /\ h.id \notin artifactJournal[h.session].refs

\* The copies of a fork are complete, in a directory of its own.
ForkIsSound(p) ==
  LET h == artifactHost[p]
  IN  h.at = "forking" =>
        /\ h.target \in ArtifactSessions
        /\ artifactLife[h.target] = "used" /\ ~artifactJournal[h.target].exists
        /\ artifactDir[h.target] = "fresh"
        /\ \A i \in h.copies : Stored(i, h.target)
        /\ \A q \in ArtifactProcs :
             /\ artifactHost[q].session # h.target
             /\ q # p /\ artifactHost[q].at = "forking" => artifactHost[q].target # h.target

\* What is being deleted is not used again.
DeletionIsSound(p) ==
  LET h == artifactHost[p]
  IN  h.at = "deleting" => h.target \in ArtifactSessions /\ Over(h.target)

\* What a cleanup in progress goes by is still so.
SweepIsSound(p) ==
  LET w == artifactSweep[p]
  IN  Sweeping(p) =>
        /\ artifactHost[p].at = "idle"
        /\ \A s \in w.journals : artifactJournal[s].exists \/ Over(s)
        /\ \A s \in ArtifactSessions \ (w.journals \cup overdue) :
             artifactDir[s] = "aged" => ~artifactJournal[s].exists
        /\ w.at = "reading" =>
             /\ w.session \in w.journals
             /\ \A i \in artifactJournal[w.session].refs : i \in w.refs \/ ~artifactFile[i].aged

\* What a cleanup has still to take away, it will.
Owed(p, i) ==
  LET w == artifactSweep[p]
      f == artifactFile[i]
  IN  \/ f.state = "removed"
      \/ f.of \in overdue
      \/ /\ w.at \in {"sweeping", "reading"} /\ f.of \in w.left
         /\ IF f.of \in w.journals THEN f.aged /\ i \notin artifactJournal[f.of].refs
            ELSE artifactDir[f.of] = "aged"
      \/ w.at = "reading" /\ f.of = w.session /\ f.aged /\ i \notin w.refs
OwedIsSound(p) ==
  \A i \in artifactSweep[p].owed : artifactFile[i].state # "none" /\ Owed(p, i)

\* What a session has at each point of its life.
SessionIsSound(s) ==
  /\ ~artifactJournal[s].exists => artifactJournal[s].refs = {}
  /\ artifactJournal[s].exists => artifactLife[s] = "used"
  /\ artifactLife[s] = "new" => artifactDir[s] = "none"
  /\ artifactLife[s] = "deleted" \/ artifactDir[s] = "none" => FilesOf(s) = {}
  /\ \A i \in artifactJournal[s].refs : artifactFile[i].state # "none" /\ (s \notin overdue => Stored(i, s))

\* A file is some session's.
FilesAreHeld == \A i \in ArtifactIds : artifactFile[i].state # "none" => artifactFile[i].of \in ArtifactSessions

HostIsSound(p) == OpenIsSound(p) /\ SaveIsSound(p) /\ ForkIsSound(p) /\ DeletionIsSound(p)
CleanupIsSound(p) == SweepIsSound(p) /\ OwedIsSound(p)

ArtifactInv ==
  /\ ArtifactsTyped /\ OpenOnce /\ FilesAreHeld
  /\ \A p \in ArtifactProcs : HostIsSound(p) /\ CleanupIsSound(p)
  /\ \A s \in ArtifactSessions : SessionIsSound(s)

LEMMA ArtifactTypings ==
  ASSUME ArtifactsTyped
  PROVE  /\ \A q \in ArtifactProcs :
              /\ artifactHost[q].refs \subseteq ArtifactIds /\ artifactHost[q].copies \subseteq ArtifactIds
              /\ artifactHost[q].session \in ArtifactSessions \cup {NoArtifactSession}
              /\ artifactSweep[q].owed \subseteq ArtifactIds
              /\ artifactSweep[q].journals \subseteq ArtifactSessions
         /\ \A s \in ArtifactSessions : artifactJournal[s].refs \subseteq ArtifactIds
         /\ \A i \in ArtifactIds : artifactFile[i] \in FileRecords
  BY DEF ArtifactsTyped, HostRecords, SweepRecords, JournalRecords

\* What a step of p about session s does to a file, and to the session.
FileMoves(i, s) ==
  \/ artifactFile'[i] = artifactFile[i]
  \/ artifactFile[i].state = "none" /\ s \in ArtifactSessions /\ artifactFile'[i].of = s /\ ~artifactFile'[i].aged
  \/ /\ artifactFile[i].of = s /\ artifactFile'[i].of = s /\ artifactFile'[i].aged = artifactFile[i].aged
     /\ artifactFile[i].state \in {"partial", "whole"} /\ artifactFile'[i].state \in {"whole", "removed"}
SessionMoves(s) ==
  /\ Over(s) => Over(s)' /\ artifactJournal'[s] = artifactJournal[s]
  /\ artifactJournal[s].exists => artifactJournal'[s].exists \/ Over(s)'
  /\ artifactJournal'[s].exists /\ artifactDir[s] = "aged" => artifactJournal[s].exists \/ s \in overdue
  /\ artifactDir'[s] = "aged" => artifactDir[s] = "aged"
  /\ artifactDir[s] = "aged" =>
       \/ artifactDir'[s] = "aged" \/ artifactJournal[s].exists
       \/ \A i \in FilesOf(s) : artifactFile'[i].state = "removed"
  /\ artifactJournal[s].exists =>
       \A i \in artifactJournal'[s].refs : i \in artifactJournal[s].refs \/ ~artifactFile[i].aged
OthersStay(p) ==
  \A q \in ArtifactProcs \ {p} : artifactHost'[q] = artifactHost[q] /\ artifactSweep'[q] = artifactSweep[q]

\* A step of p that nobody else notices: the session it is about is open in no
\* other process, and no fork goes there but p's.
Moves(p, s) ==
  /\ UNCHANGED overdue /\ OthersStay(p)
  /\ \A t \in ArtifactSessions \ {s} :
       artifactDir'[t] = artifactDir[t] /\ artifactJournal'[t] = artifactJournal[t] /\ artifactLife'[t] = artifactLife[t]
  /\ \A i \in ArtifactIds : FileMoves(i, s)
  /\ s \in ArtifactSessions =>
       /\ SessionMoves(s)
       /\ \A q \in ArtifactProcs \ {p} :
            /\ artifactHost[q].session # s
            /\ artifactHost[q].at = "forking" => artifactHost[q].target # s
  /\ artifactHost'[p].session \in {NoArtifactSession, artifactHost[p].session, s}
  /\ artifactHost'[p].at = "forking" =>
       \/ artifactHost'[p].target = s
       \/ artifactHost[p].at = "forking" /\ artifactHost'[p].target = artifactHost[p].target

LEMMA OthersKeep ==
  ASSUME ArtifactInv, NEW p \in ArtifactProcs, NEW s \in ArtifactSessions \cup {NoArtifactSession}, Moves(p, s),
         NEW q \in ArtifactProcs \ {p}, ArtifactsTyped'
  PROVE  HostIsSound(q)' /\ CleanupIsSound(q)'
<1>1. /\ HostIsSound(q) /\ CleanupIsSound(q) /\ ArtifactsTyped /\ OpenOnce /\ HostIsSound(p)
      /\ artifactHost'[q] = artifactHost[q] /\ artifactSweep'[q] = artifactSweep[q] /\ UNCHANGED overdue
  BY DEF ArtifactInv, Moves, OthersStay
<1>2. /\ artifactHost[q].refs \subseteq ArtifactIds /\ artifactHost[q].copies \subseteq ArtifactIds
      /\ artifactHost[q].session \in ArtifactSessions \cup {NoArtifactSession}
      /\ artifactSweep[q].owed \subseteq ArtifactIds /\ artifactSweep[q].journals \subseteq ArtifactSessions
      /\ \A t \in ArtifactSessions : artifactJournal[t].refs \subseteq ArtifactIds
  BY <1>1, ArtifactTypings
<1>3. \A i \in ArtifactIds :
        /\ artifactFile[i].state # "none" =>
             artifactFile'[i].state # "none" /\ artifactFile'[i].of = artifactFile[i].of /\ artifactFile'[i].aged = artifactFile[i].aged
        /\ artifactFile[i].state = "removed" => artifactFile'[i].state = "removed"
        /\ artifactFile'[i].aged => artifactFile[i].aged
        /\ artifactFile[i].state # "none" =>
             artifactFile'[i] = artifactFile[i] \/ (artifactFile[i].of = s /\ s \in ArtifactSessions)
  BY DEF Moves, FileMoves, ArtifactInv, FilesAreHeld
<1>4. \A t \in ArtifactSessions :
        t # s => artifactDir'[t] = artifactDir[t] /\ artifactJournal'[t] = artifactJournal[t] /\ artifactLife'[t] = artifactLife[t]
  BY DEF Moves
<1>5. s \in ArtifactSessions =>
        SessionMoves(s) /\ artifactHost[q].session # s /\ (artifactHost[q].at = "forking" => artifactHost[q].target # s)
  BY DEF Moves
<1>6. OpenIsSound(q)'
  BY <1>1, <1>2, <1>3, <1>4, <1>5, ArtifactAssumption DEF HostIsSound, OpenIsSound, Stored
<1>7. SaveIsSound(q)'
  BY <1>1, <1>3, <1>4, <1>5, ArtifactAssumption DEF HostIsSound, SaveIsSound
<1>8. ForkIsSound(q)'
  <2>1. artifactHost[q].at = "forking" =>
          /\ artifactHost'[p].session # artifactHost[q].target
          /\ artifactHost'[p].at = "forking" => artifactHost'[p].target # artifactHost[q].target
    BY <1>1, <1>5, ArtifactAssumption DEF HostIsSound, ForkIsSound, Moves
  <2>2. \A r \in ArtifactProcs \ {p} : artifactHost'[r] = artifactHost[r]
    BY DEF Moves, OthersStay
  <2>. QED BY <1>1, <1>2, <1>3, <1>4, <1>5, <2>1, <2>2, ArtifactAssumption DEF HostIsSound, ForkIsSound, Stored
<1>9. DeletionIsSound(q)'
  BY <1>1, <1>4, <1>5 DEF HostIsSound, DeletionIsSound, Over, SessionMoves
<1>10. SweepIsSound(q)'
  <2>. SUFFICES ASSUME Sweeping(q) PROVE SweepIsSound(q)'
    BY <1>1 DEF SweepIsSound, Sweeping
  <2>1. \A t \in artifactSweep[q].journals : artifactJournal'[t].exists \/ Over(t)'
    BY <1>1, <1>2, <1>4, <1>5 DEF CleanupIsSound, SweepIsSound, SessionMoves, Over
  <2>2. \A t \in ArtifactSessions \ (artifactSweep[q].journals \cup overdue) :
          artifactDir'[t] = "aged" => ~artifactJournal'[t].exists
    <3>. SUFFICES ASSUME NEW t \in ArtifactSessions \ (artifactSweep[q].journals \cup overdue), artifactDir'[t] = "aged"
                  PROVE  ~artifactJournal'[t].exists
      OBVIOUS
    <3>1. artifactDir[t] = "aged" => ~artifactJournal[t].exists
      BY <1>1 DEF CleanupIsSound, SweepIsSound
    <3>2. t = s => SessionMoves(s)
      BY <1>5
    <3>. QED BY <1>4, <3>1, <3>2 DEF SessionMoves
  <2>3. artifactSweep[q].at = "reading" =>
          \A i \in artifactJournal'[artifactSweep[q].session].refs : i \in artifactSweep[q].refs \/ ~artifactFile'[i].aged
    <3>. DEFINE t == artifactSweep[q].session
    <3>. SUFFICES ASSUME artifactSweep[q].at = "reading", NEW i \in artifactJournal'[t].refs, i \notin artifactSweep[q].refs
                  PROVE  ~artifactFile'[i].aged
      OBVIOUS
    <3>1. /\ t \in ArtifactSessions /\ (artifactJournal[t].exists \/ Over(t))
          /\ \A j \in artifactJournal[t].refs : j \in artifactSweep[q].refs \/ ~artifactFile[j].aged
      BY <1>1, <1>2 DEF CleanupIsSound, SweepIsSound, Sweeping
    <3>2. t = s => SessionMoves(s)
      BY <1>5, <3>1
    <3>. HIDE DEF t
    <3>3. i \in artifactJournal[t].refs \/ ~artifactFile[i].aged
      BY <1>4, <3>1, <3>2 DEF SessionMoves
    <3>4. i \in ArtifactIds
      BY <3>1 DEF ArtifactsTyped, JournalRecords
    <3>. QED BY <1>3, <3>1, <3>3, <3>4
  <2>. QED BY <1>1, <2>1, <2>2, <2>3 DEF CleanupIsSound, SweepIsSound, Sweeping
<1>11. OwedIsSound(q)'
  <2>. SUFFICES ASSUME NEW i \in artifactSweep[q].owed PROVE artifactFile'[i].state # "none" /\ Owed(q, i)'
    BY <1>1 DEF OwedIsSound
  <2>1. i \in ArtifactIds /\ artifactFile[i].state # "none" /\ Owed(q, i) /\ artifactFile[i].of \in ArtifactSessions
    BY <1>1, <1>2 DEF CleanupIsSound, OwedIsSound, ArtifactInv, FilesAreHeld
  <2>2. CASE artifactFile[i].of # s
    BY <1>1, <1>3, <1>4, <2>1, <2>2 DEF Owed
  <2>3. CASE artifactFile[i].of = s
    <3>1. SessionMoves(s) /\ s \in ArtifactSessions
      BY <1>5, <2>1, <2>3
    <3>2. artifactFile'[i].of = s /\ artifactFile'[i].aged = artifactFile[i].aged /\ artifactFile'[i].state # "none"
      BY <1>3, <2>1, <2>3
    <3>3. artifactFile[i].state = "removed" => artifactFile'[i].state = "removed"
      BY <1>3, <2>1
    <3>4. artifactFile[i].state # "removed" => i \in FilesOf(s)
      BY <2>1, <2>3, ArtifactTypings, <1>1 DEF FilesOf, FileRecords
    <3>5. CASE artifactSweep[q].at \in {"sweeping", "reading"} /\ s \in artifactSweep[q].left /\ s \in artifactSweep[q].journals
               /\ artifactFile[i].aged /\ i \notin artifactJournal[s].refs
      <4>1. artifactJournal[s].exists \/ Over(s)
        BY <1>1, <3>5 DEF CleanupIsSound, SweepIsSound, Sweeping
      <4>2. i \notin artifactJournal'[s].refs
        BY <3>1, <3>5, <4>1 DEF SessionMoves
      <4>. QED BY <1>1, <3>2, <3>5, <4>2 DEF Owed
    <3>6. CASE artifactSweep[q].at \in {"sweeping", "reading"} /\ s \in artifactSweep[q].left /\ s \notin artifactSweep[q].journals
               /\ artifactDir[s] = "aged" /\ s \notin overdue
      <4>1. ~artifactJournal[s].exists
        BY <1>1, <3>1, <3>6 DEF CleanupIsSound, SweepIsSound, Sweeping
      <4>. QED BY <1>1, <3>1, <3>2, <3>3, <3>4, <3>6, <4>1 DEF Owed, SessionMoves
    <3>. QED BY <1>1, <2>1, <2>3, <3>2, <3>3, <3>5, <3>6 DEF Owed
  <2>. QED BY <2>2, <2>3
<1>. QED BY <1>6, <1>7, <1>8, <1>9, <1>10, <1>11 DEF HostIsSound, CleanupIsSound

LEMMA MovesKeep ==
  ASSUME ArtifactInv, NEW p \in ArtifactProcs, NEW s \in ArtifactSessions \cup {NoArtifactSession}, Moves(p, s),
         ArtifactsTyped', HostIsSound(p)', CleanupIsSound(p)', s \in ArtifactSessions => SessionIsSound(s)'
  PROVE  ArtifactInv'
<1>1. ArtifactsTyped /\ OpenOnce /\ FilesAreHeld
  BY DEF ArtifactInv
<1>2. artifactHost'[p].session \in ArtifactSessions \cup {NoArtifactSession}
  BY DEF ArtifactsTyped, HostRecords
<1>3. ASSUME NEW q \in ArtifactProcs PROVE HostIsSound(q)' /\ CleanupIsSound(q)'
  BY OthersKeep
<1>4. OpenOnce'
  BY <1>1, <1>2 DEF Moves, OthersStay, OpenOnce
<1>5. FilesAreHeld'
  BY <1>1 DEF Moves, FileMoves, FilesAreHeld
<1>6. ASSUME NEW t \in ArtifactSessions PROVE SessionIsSound(t)'
  <2>1. CASE t = s
    BY <2>1
  <2>2. CASE t # s
    <3>1. SessionIsSound(t) /\ UNCHANGED overdue /\ artifactJournal[t].refs \subseteq ArtifactIds
      BY <1>1, ArtifactTypings DEF ArtifactInv, Moves
    <3>2. artifactDir'[t] = artifactDir[t] /\ artifactJournal'[t] = artifactJournal[t] /\ artifactLife'[t] = artifactLife[t]
      BY <2>2 DEF Moves
    <3>3. \A i \in ArtifactIds :
            /\ artifactFile[i].of = t /\ artifactFile[i].state # "none" => artifactFile'[i] = artifactFile[i]
            /\ artifactFile[i].state # "none" => artifactFile'[i].state # "none"
            /\ artifactFile'[i].of = t /\ artifactFile'[i].state # "none" => artifactFile'[i] = artifactFile[i]
      BY <2>2 DEF Moves, FileMoves
    <3>. QED BY <3>1, <3>2, <3>3 DEF SessionIsSound, FilesOf, Stored
  <2>. QED BY <2>1, <2>2
<1>. QED BY <1>3, <1>4, <1>5, <1>6 DEF ArtifactInv

\* The process that moves has no cleanup under way, and waits for its user.
LEMMA HostKeeps ==
  ASSUME ArtifactInv, NEW p \in ArtifactProcs, NEW s \in ArtifactSessions \cup {NoArtifactSession}, Moves(p, s),
         ArtifactsTyped', s \in ArtifactSessions => SessionIsSound(s)', HostIsSound(p)',
         artifactSweep'[p] = artifactSweep[p], ~Sweeping(p)
  PROVE  ArtifactInv'
<1>1. SweepIsSound(p)'
  BY DEF SweepIsSound, Sweeping
<1>2. OwedIsSound(p)'
  <2>1. OwedIsSound(p) /\ artifactSweep[p].owed \subseteq ArtifactIds /\ UNCHANGED overdue
    BY ArtifactTypings DEF ArtifactInv, CleanupIsSound, Moves
  <2>2. \A i \in ArtifactIds :
          /\ artifactFile[i].state # "none" => artifactFile'[i].state # "none" /\ artifactFile'[i].of = artifactFile[i].of
          /\ artifactFile[i].state = "removed" => artifactFile'[i].state = "removed"
    BY DEF Moves, FileMoves
  <2>. QED BY <2>1, <2>2 DEF OwedIsSound, Owed, Sweeping
<1>. QED BY <1>1, <1>2, MovesKeep DEF CleanupIsSound

LEMMA HostRests ==
  ASSUME ArtifactInv, NEW p \in ArtifactProcs, NEW s \in ArtifactSessions \cup {NoArtifactSession}, Moves(p, s),
         ArtifactsTyped', s \in ArtifactSessions => SessionIsSound(s)', OpenIsSound(p)',
         artifactSweep'[p] = artifactSweep[p], ~Sweeping(p), artifactHost'[p].at = "idle"
  PROVE  ArtifactInv'
<1>1. HostIsSound(p)'
  BY DEF HostIsSound, SaveIsSound, ForkIsSound, DeletionIsSound
<1>. QED BY <1>1, HostKeeps

LEMMA SweepMoves ==
  ASSUME ArtifactInv, NEW p \in ArtifactProcs, OthersStay(p), artifactSweep' \in [ArtifactProcs -> SweepRecords],
         UNCHANGED <<artifactDir, artifactFile, artifactJournal, artifactHost, artifactLife, artifactDays, overdue>>,
         CleanupIsSound(p)'
  PROVE  ArtifactInv'
<1>1. ArtifactsTyped /\ HostIsSound(p)
  BY DEF ArtifactInv
<1>2. ArtifactsTyped'
  BY <1>1 DEF ArtifactsTyped
<1>3. HostIsSound(p)'
  BY <1>1 DEF HostIsSound, OpenIsSound, SaveIsSound, ForkIsSound, DeletionIsSound, Over, Stored
<1>4. Moves(p, NoArtifactSession)
  BY ArtifactAssumption, <1>3 DEF Moves, FileMoves
<1>. QED BY <1>2, <1>3, <1>4, ArtifactAssumption, MovesKeep

LEMMA SweepListsKeeps ==
  ASSUME ArtifactInv, NEW p \in ArtifactProcs, SweepLists(p)
  PROVE  ArtifactInv'
<1>. DEFINE w == artifactSweep[p]
<1>1. /\ ArtifactsTyped /\ SweepIsSound(p) /\ w.at = "listed" /\ FilesAreHeld
      /\ \A s \in ArtifactSessions : SessionIsSound(s)
  BY DEF ArtifactInv, CleanupIsSound, SweepLists
<1>2. PICK owed \in SUBSET ArtifactIds :
        /\ artifactSweep' = [artifactSweep EXCEPT ![p] = [w EXCEPT !.at = "sweeping",
               !.left = {s \in ArtifactSessions : artifactDir[s] # "none"}, !.owed = owed]]
        /\ \A i \in owed : \E s \in ArtifactSessions :
             /\ i \in FilesOf(s)
             /\ IF s \in w.journals THEN artifactFile[i].aged /\ i \notin artifactJournal[s].refs
                ELSE artifactDir[s] = "aged"
  <2>. DEFINE old(s) == IF s \in w.journals
                        THEN {i \in FilesOf(s) : artifactFile[i].aged /\ i \notin artifactJournal[s].refs}
                        ELSE IF artifactDir[s] = "aged" THEN FilesOf(s) ELSE {}
  <2>1. UNION {old(s) : s \in ArtifactSessions} \in SUBSET ArtifactIds
    BY DEF FilesOf
  <2>2. artifactSweep' = [artifactSweep EXCEPT ![p] = [w EXCEPT !.at = "sweeping",
          !.left = {s \in ArtifactSessions : artifactDir[s] # "none"}, !.owed = UNION {old(s) : s \in ArtifactSessions}]]
    BY <1>1 DEF SweepLists, ArtifactsTyped, SweepRecords
  <2>3. \A i \in UNION {old(s) : s \in ArtifactSessions} : \E s \in ArtifactSessions : i \in old(s)
    OBVIOUS
  <2>. QED BY <2>1, <2>2, <2>3
<1>3. /\ artifactSweep'[p].at = "sweeping" /\ artifactSweep'[p].journals = w.journals /\ artifactSweep'[p].owed = owed
      /\ artifactSweep'[p].left = {s \in ArtifactSessions : artifactDir[s] # "none"}
      /\ artifactSweep' \in [ArtifactProcs -> SweepRecords] /\ OthersStay(p)
      /\ UNCHANGED <<artifactDir, artifactFile, artifactJournal, artifactHost, artifactLife, artifactDays, overdue>>
  <2>. DEFINE left == {s \in ArtifactSessions : artifactDir[s] # "none"}
  <2>1. left \in SUBSET ArtifactSessions /\ w \in SweepRecords
    BY <1>1 DEF ArtifactsTyped
  <2>2. artifactSweep' = [artifactSweep EXCEPT ![p] = [w EXCEPT !.at = "sweeping", !.left = left, !.owed = owed]]
    BY <1>2
  <2>. HIDE DEF left
  <2>3. /\ artifactSweep'[p].at = "sweeping" /\ artifactSweep'[p].journals = w.journals
        /\ artifactSweep'[p].owed = owed /\ artifactSweep'[p].left = left
        /\ artifactSweep' \in [ArtifactProcs -> SweepRecords]
    BY <1>1, <2>1, <2>2 DEF ArtifactsTyped, SweepRecords
  <2>. QED BY <1>1, <2>2, <2>3 DEF left, OthersStay, SweepLists, ArtifactsTyped
<1>4. SweepIsSound(p)'
  BY <1>1, <1>3 DEF SweepIsSound, Sweeping, Over
<1>5. OwedIsSound(p)'
  BY <1>1, <1>2, <1>3 DEF OwedIsSound, Owed, FilesOf, SessionIsSound
<1>. QED BY <1>3, <1>4, <1>5, SweepMoves DEF CleanupIsSound

LEMMA SweepReadsKeeps ==
  ASSUME ArtifactInv, NEW p \in ArtifactProcs, NEW s \in ArtifactSessions, SweepReads(p, s)
  PROVE  ArtifactInv'
<1>. DEFINE w == artifactSweep[p]  x == artifactSweep'[p]
<1>1. /\ ArtifactsTyped /\ SweepIsSound(p) /\ OwedIsSound(p) /\ FilesAreHeld /\ w.owed \subseteq ArtifactIds
      /\ w.at = "sweeping" /\ s \in w.left /\ s \in w.journals
  BY ArtifactTypings DEF ArtifactInv, CleanupIsSound, SweepReads
<1>2. /\ x.journals = w.journals /\ x.left = w.left \ {s}
      /\ IF artifactJournal[s].exists /\ artifactDir[s] # "none"
         THEN x.at = "reading" /\ x.session = s /\ x.refs = artifactJournal[s].refs /\ x.owed = w.owed
         ELSE x.at = "sweeping" /\ x.owed = w.owed \ FilesOf(s)
      /\ artifactSweep' \in [ArtifactProcs -> SweepRecords] /\ OthersStay(p)
      /\ UNCHANGED <<artifactDir, artifactFile, artifactJournal, artifactHost, artifactLife, artifactDays, overdue>>
  <2>1. CASE artifactJournal[s].exists /\ artifactDir[s] # "none"
    BY <1>1, <2>1 DEF SweepReads, ArtifactsTyped, SweepRecords, JournalRecords, OthersStay
  <2>2. CASE ~(artifactJournal[s].exists /\ artifactDir[s] # "none")
    BY <1>1, <2>2 DEF SweepReads, ArtifactsTyped, SweepRecords, OthersStay
  <2>. QED BY <2>1, <2>2
<1>3. SweepIsSound(p)'
  BY <1>1, <1>2 DEF SweepIsSound, Sweeping, Over
<1>4. OwedIsSound(p)'
  BY <1>1, <1>2, ArtifactTypings DEF OwedIsSound, Owed, FilesOf, FileRecords
<1>. QED BY <1>2, <1>3, <1>4, SweepMoves DEF CleanupIsSound

LEMMA SweepLeavesDirectory ==
  ASSUME ArtifactInv, NEW p \in ArtifactProcs, NEW s \in ArtifactSessions, SweepDirectory(p, s), ~Expired(s)
  PROVE  ArtifactInv'
<1>. DEFINE w == artifactSweep[p]  x == artifactSweep'[p]
<1>1. /\ ArtifactsTyped /\ SweepIsSound(p) /\ OwedIsSound(p) /\ w.owed \subseteq ArtifactIds
      /\ w.at = "sweeping" /\ s \notin w.journals /\ artifactDir[s] # "aged"
  BY ArtifactTypings DEF ArtifactInv, CleanupIsSound, SweepDirectory, Expired
<1>2. /\ x.journals = w.journals /\ x.left = w.left \ {s} /\ x.at = "sweeping" /\ x.owed = w.owed
      /\ artifactSweep' \in [ArtifactProcs -> SweepRecords] /\ OthersStay(p)
      /\ UNCHANGED <<artifactDir, artifactFile, artifactJournal, artifactHost, artifactLife, artifactDays, overdue>>
  BY <1>1 DEF SweepDirectory, ArtifactsTyped, SweepRecords, OthersStay
<1>3. SweepIsSound(p)'
  BY <1>1, <1>2 DEF SweepIsSound, Sweeping, Over
<1>4. OwedIsSound(p)'
  BY <1>1, <1>2 DEF OwedIsSound, Owed
<1>. QED BY <1>2, <1>3, <1>4, SweepMoves DEF CleanupIsSound

LEMMA SweepEndsKeeps ==
  ASSUME ArtifactInv, NEW p \in ArtifactProcs, SweepEnds(p)
  PROVE  ArtifactInv'
<1>. DEFINE w == artifactSweep[p]  x == artifactSweep'[p]
<1>1. ArtifactsTyped /\ OwedIsSound(p) /\ w.at = "sweeping" /\ w.left = {}
  BY DEF ArtifactInv, CleanupIsSound, SweepEnds
<1>2. /\ x.at = "done" /\ x.owed = w.owed
      /\ artifactSweep' \in [ArtifactProcs -> SweepRecords] /\ OthersStay(p)
      /\ UNCHANGED <<artifactDir, artifactFile, artifactJournal, artifactHost, artifactLife, artifactDays, overdue>>
  BY <1>1 DEF SweepEnds, ArtifactsTyped, SweepRecords, OthersStay
<1>3. CleanupIsSound(p)'
  BY <1>1, <1>2 DEF CleanupIsSound, SweepIsSound, OwedIsSound, Owed, Sweeping
<1>. QED BY <1>2, <1>3, SweepMoves

\* Files of s go that no one counts on, maybe with its directory.
LEMMA SweepRemoves ==
  ASSUME ArtifactInv, NEW p \in ArtifactProcs, NEW s \in ArtifactSessions, NEW gone \in SUBSET FilesOf(s),
         artifactFile' = Removed(artifactFile, gone),
         \/ UNCHANGED artifactDir
         \/ /\ artifactDir[s] = "aged" /\ gone = FilesOf(s)
            /\ artifactDir' = [artifactDir EXCEPT ![s] = "none"],
         UNCHANGED <<artifactJournal, artifactHost, artifactLife, artifactDays, overdue>>,
         OthersStay(p), artifactSweep' \in [ArtifactProcs -> SweepRecords], CleanupIsSound(p)',
         s \notin overdue => \A i \in artifactJournal[s].refs : i \notin gone,
         \A q \in ArtifactProcs :
           /\ artifactHost[q].session = s /\ s \notin overdue => \A i \in artifactHost[q].refs : i \notin gone
           /\ artifactHost[q].session = s /\ artifactDir[s] = "aged" => artifactJournal[s].exists \/ s \in overdue
           /\ artifactHost[q].at \in {"saving", "saved"} => artifactHost[q].id \notin gone
           /\ artifactHost[q].at = "forking" => artifactHost[q].target # s
  PROVE  ArtifactInv'
<1>1. ArtifactsTyped /\ OpenOnce /\ FilesAreHeld
  BY DEF ArtifactInv
<1>2. \A i \in ArtifactIds :
        /\ artifactFile'[i].of = artifactFile[i].of /\ artifactFile'[i].aged = artifactFile[i].aged
        /\ artifactFile'[i].state = IF i \in gone THEN "removed" ELSE artifactFile[i].state
        /\ i \notin gone => artifactFile'[i] = artifactFile[i]
        /\ i \in gone => artifactFile[i].of = s /\ artifactFile[i].state \in {"partial", "whole"}
        /\ artifactFile[i].of = s /\ artifactFile[i].state \in {"partial", "whole"} => i \in FilesOf(s)
  BY <1>1 DEF Removed, ArtifactsTyped, FileRecords, FilesOf
<1>3. \A t \in ArtifactSessions :
        \/ artifactDir'[t] = artifactDir[t]
        \/ t = s /\ artifactDir[s] = "aged" /\ artifactDir'[s] = "none" /\ gone = FilesOf(s)
  BY <1>1 DEF ArtifactsTyped
<1>4. ArtifactsTyped'
  <2>1. artifactFile' \in [ArtifactIds -> FileRecords]
    BY <1>1 DEF Removed, ArtifactsTyped, FileRecords
  <2>. QED BY <1>1, <2>1 DEF ArtifactsTyped
<1>5. ASSUME NEW q \in ArtifactProcs PROVE HostIsSound(q)' /\ CleanupIsSound(q)'
  <2>1. /\ HostIsSound(q) /\ CleanupIsSound(q) /\ artifactHost[q].refs \subseteq ArtifactIds
        /\ artifactHost[q].copies \subseteq ArtifactIds /\ artifactSweep[q].owed \subseteq ArtifactIds
        /\ artifactHost[q].session \in ArtifactSessions \cup {NoArtifactSession}
        /\ artifactSweep[q].journals \subseteq ArtifactSessions
        /\ \A t \in ArtifactSessions : artifactJournal[t].refs \subseteq ArtifactIds
    BY <1>1, ArtifactTypings DEF ArtifactInv
  <2>2. OpenIsSound(q)'
    BY <1>2, <1>3, <2>1, ArtifactAssumption DEF HostIsSound, OpenIsSound, Stored
  <2>3. SaveIsSound(q)'
    BY <1>2, <1>3, <2>1 DEF HostIsSound, SaveIsSound
  <2>4. ForkIsSound(q)'
    BY <1>2, <1>3, <2>1 DEF HostIsSound, ForkIsSound, Stored
  <2>5. DeletionIsSound(q)'
    BY <2>1 DEF HostIsSound, DeletionIsSound, Over
  <2>6. CASE q # p
    <3>1. artifactSweep'[q] = artifactSweep[q]
      BY <2>6 DEF OthersStay
    <3>2. SweepIsSound(q)'
      BY <1>2, <1>3, <2>1, <3>1 DEF CleanupIsSound, SweepIsSound, Sweeping, Over
    <3>3. OwedIsSound(q)'
      <4>1. \A i \in artifactSweep[q].owed : i \in ArtifactIds /\ artifactFile[i].state # "none" /\ Owed(q, i)
        BY <2>1 DEF CleanupIsSound, OwedIsSound
      <4>. QED BY <1>1, <1>2, <1>3, <3>1, <4>1 DEF OwedIsSound, Owed, FilesAreHeld, ArtifactsTyped, FileRecords
    <3>. QED BY <2>2, <2>3, <2>4, <2>5, <3>2, <3>3 DEF HostIsSound, CleanupIsSound
  <2>. QED BY <2>2, <2>3, <2>4, <2>5, <2>6 DEF HostIsSound
<1>6. ASSUME NEW t \in ArtifactSessions PROVE SessionIsSound(t)'
  <2>1. SessionIsSound(t) /\ artifactJournal[t].refs \subseteq ArtifactIds
    BY <1>1, ArtifactTypings DEF ArtifactInv
  <2>. QED BY <1>2, <1>3, <2>1 DEF SessionIsSound, FilesOf, Stored
<1>7. OpenOnce' /\ FilesAreHeld'
  BY <1>1, <1>2 DEF OpenOnce, FilesAreHeld
<1>. QED BY <1>4, <1>5, <1>6, <1>7 DEF ArtifactInv

LEMMA SweepDirectoryKeeps ==
  ASSUME ArtifactInv, NEW p \in ArtifactProcs, NEW s \in ArtifactSessions, SweepDirectory(p, s), Expired(s)
  PROVE  ArtifactInv'
<1>. DEFINE w == artifactSweep[p]  x == artifactSweep'[p]
<1>1. /\ ArtifactsTyped /\ SweepIsSound(p) /\ OwedIsSound(p) /\ w.owed \subseteq ArtifactIds
      /\ w.at = "sweeping" /\ s \notin w.journals /\ artifactDir[s] = "aged" /\ SessionIsSound(s) /\ FilesAreHeld
      /\ \A q \in ArtifactProcs : HostIsSound(q)
      /\ s \notin overdue => ~artifactJournal[s].exists
  BY ArtifactTypings DEF ArtifactInv, CleanupIsSound, SweepDirectory, Expired, SweepIsSound, Sweeping
<1>2. /\ x.journals = w.journals /\ x.left = w.left \ {s} /\ x.at = "sweeping" /\ x.owed = w.owed
      /\ artifactSweep' \in [ArtifactProcs -> SweepRecords] /\ OthersStay(p)
  BY <1>1 DEF SweepDirectory, ArtifactsTyped, SweepRecords, OthersStay
<1>3. /\ UNCHANGED <<artifactJournal, artifactHost, artifactLife, artifactDays, overdue>>
      /\ artifactDir' = [artifactDir EXCEPT ![s] = "none"] /\ artifactFile' = Removed(artifactFile, FilesOf(s))
  BY DEF SweepDirectory
<1>4. SweepIsSound(p)'
  BY <1>1, <1>2, <1>3 DEF SweepIsSound, Sweeping, Over, ArtifactsTyped
<1>5. OwedIsSound(p)'
  <2>1. \A i \in ArtifactIds :
          /\ artifactFile'[i].of = artifactFile[i].of /\ artifactFile'[i].aged = artifactFile[i].aged
          /\ artifactFile'[i].state = IF i \in FilesOf(s) THEN "removed" ELSE artifactFile[i].state
          /\ artifactFile[i].of = s /\ artifactFile[i].state # "none" => artifactFile'[i].state = "removed"
    BY <1>1, <1>3 DEF Removed, ArtifactsTyped, FileRecords, FilesOf
  <2>2. \A t \in ArtifactSessions \ {s} : artifactDir'[t] = artifactDir[t]
    BY <1>1, <1>3 DEF ArtifactsTyped
  <2>3. \A i \in w.owed : i \in ArtifactIds /\ artifactFile[i].state # "none" /\ Owed(p, i)
    BY <1>1 DEF OwedIsSound
  <2>. QED BY <1>1, <1>2, <1>3, <2>1, <2>2, <2>3 DEF OwedIsSound, Owed, FilesAreHeld
<1>6. \A q \in ArtifactProcs :
        /\ artifactHost[q].session = s => s \in overdue
        /\ artifactHost[q].at \in {"saving", "saved"} => artifactHost[q].id \notin FilesOf(s)
        /\ artifactHost[q].at = "forking" => artifactHost[q].target # s
  BY <1>1, ArtifactAssumption DEF HostIsSound, OpenIsSound, SaveIsSound, ForkIsSound, FilesOf
<1>7. s \notin overdue => \A i \in artifactJournal[s].refs : i \notin FilesOf(s)
  BY <1>1 DEF SessionIsSound
<1>8. CleanupIsSound(p)' /\ FilesOf(s) \in SUBSET FilesOf(s) /\ OthersStay(p)
      /\ artifactSweep' \in [ArtifactProcs -> SweepRecords] /\ artifactDir[s] = "aged"
  BY <1>1, <1>2, <1>4, <1>5 DEF CleanupIsSound
<1>9. \A q \in ArtifactProcs :
        /\ artifactHost[q].session = s /\ s \notin overdue => \A i \in artifactHost[q].refs : i \notin FilesOf(s)
        /\ artifactHost[q].session = s /\ artifactDir[s] = "aged" => artifactJournal[s].exists \/ s \in overdue
  BY <1>6
<1>. HIDE DEF w, x
<1>. QED BY <1>3, <1>6, <1>7, <1>8, <1>9, SweepRemoves

LEMMA SweepFilesKeeps ==
  ASSUME ArtifactInv, NEW p \in ArtifactProcs, SweepFiles(p)
  PROVE  ArtifactInv'
<1>. DEFINE w == artifactSweep[p]  x == artifactSweep'[p]  s == w.session  gone == Unreferenced(p)
<1>1. /\ ArtifactsTyped /\ SweepIsSound(p) /\ OwedIsSound(p) /\ w.owed \subseteq ArtifactIds
      /\ w.at = "reading" /\ s \in w.journals /\ s \in ArtifactSessions /\ SessionIsSound(s) /\ FilesAreHeld
      /\ artifactJournal[s].exists \/ Over(s)
      /\ \A q \in ArtifactProcs : HostIsSound(q)
      /\ artifactJournal[s].refs \subseteq ArtifactIds
      /\ \A i \in artifactJournal[s].refs : i \in w.refs \/ ~artifactFile[i].aged
  BY ArtifactTypings DEF ArtifactInv, CleanupIsSound, SweepFiles, SweepIsSound, Sweeping
<1>2. /\ x.journals = w.journals /\ x.left = w.left /\ x.at = "sweeping" /\ x.owed = w.owed
      /\ artifactSweep' \in [ArtifactProcs -> SweepRecords] /\ OthersStay(p)
  BY <1>1 DEF SweepFiles, ArtifactsTyped, SweepRecords, OthersStay
<1>3. /\ UNCHANGED <<artifactDir, artifactJournal, artifactHost, artifactLife, artifactDays, overdue>>
      /\ artifactFile' = Removed(artifactFile, gone)
  BY DEF SweepFiles
<1>4. SweepIsSound(p)'
  BY <1>1, <1>2, <1>3 DEF SweepIsSound, Sweeping, Over
<1>5. OwedIsSound(p)'
  <2>1. \A i \in ArtifactIds :
          /\ artifactFile'[i].of = artifactFile[i].of /\ artifactFile'[i].aged = artifactFile[i].aged
          /\ artifactFile'[i].state = IF i \in gone THEN "removed" ELSE artifactFile[i].state
          /\ (artifactFile[i].of = s /\ artifactFile[i].aged /\ i \notin w.refs /\ artifactFile[i].state # "none")
               => artifactFile'[i].state = "removed"
    BY <1>1, <1>3 DEF Removed, ArtifactsTyped, FileRecords, FilesOf, Unreferenced
  <2>2. \A i \in w.owed : i \in ArtifactIds /\ artifactFile[i].state # "none" /\ Owed(p, i)
    BY <1>1 DEF OwedIsSound
  <2>. QED BY <1>1, <1>2, <1>3, <2>1, <2>2 DEF OwedIsSound, Owed
<1>6. /\ gone \in SUBSET FilesOf(s) /\ \A i \in artifactJournal[s].refs : i \notin gone
      /\ \A i \in gone : artifactFile[i].of = s /\ artifactFile[i].aged
  BY <1>1 DEF Unreferenced, FilesOf
<1>7. \A q \in ArtifactProcs :
        /\ artifactHost[q].session = s => artifactJournal[s].exists /\ \A i \in artifactHost[q].refs : i \notin gone
        /\ artifactHost[q].at \in {"saving", "saved"} => artifactHost[q].id \notin gone
        /\ artifactHost[q].at = "forking" => artifactHost[q].target # s
  BY <1>1, <1>6, ArtifactAssumption DEF HostIsSound, OpenIsSound, SaveIsSound, ForkIsSound, Over
<1>. HIDE DEF gone, s
<1>. QED BY <1>1, <1>2, <1>3, <1>4, <1>5, <1>6, <1>7, SweepRemoves DEF CleanupIsSound

\* Only what p does changes: it is idle again, or in the session it forked.
LEMMA HostAlone ==
  ASSUME ArtifactInv, NEW p \in ArtifactProcs, OthersStay(p), artifactHost' \in [ArtifactProcs -> HostRecords],
         UNCHANGED <<artifactDir, artifactFile, artifactJournal, artifactSweep, artifactLife, artifactDays, overdue>>,
         ~Sweeping(p), artifactHost'[p].at = "idle", OpenIsSound(p)',
         \/ artifactHost'[p].session \in {NoArtifactSession, artifactHost[p].session}
         \/ artifactHost[p].at = "forking" /\ artifactHost'[p].session = artifactHost[p].target
  PROVE  ArtifactInv'
<1>1. ArtifactsTyped /\ HostIsSound(p) /\ \A s \in ArtifactSessions : SessionIsSound(s)
  BY DEF ArtifactInv
<1>2. ArtifactsTyped'
  BY <1>1 DEF ArtifactsTyped
<1>3. CASE artifactHost'[p].session \in {NoArtifactSession, artifactHost[p].session}
  <2>1. Moves(p, NoArtifactSession)
    BY <1>3, ArtifactAssumption DEF Moves, FileMoves
  <2>. QED BY <1>2, <2>1, HostRests, ArtifactAssumption
<1>4. CASE artifactHost[p].at = "forking" /\ artifactHost'[p].session = artifactHost[p].target
  <2>1. PICK s \in ArtifactSessions :
        /\ s = artifactHost[p].target
        /\ \A q \in ArtifactProcs \ {p} :
             artifactHost[q].session # s /\ (artifactHost[q].at = "forking" => artifactHost[q].target # s)
    BY <1>1, <1>4 DEF HostIsSound, ForkIsSound
  <2>2. Moves(p, s)
    BY <1>4, <2>1 DEF Moves, FileMoves, SessionMoves, Over
  <2>3. SessionIsSound(s)'
    BY <1>1 DEF SessionIsSound, FilesOf, Stored
  <2>. QED BY <1>2, <2>1, <2>2, <2>3, HostRests
<1>. QED BY <1>3, <1>4

LEMMA HostChanges ==
  ASSUME ArtifactsTyped, NEW p \in ArtifactProcs, NEW g \in HostRecords,
         artifactHost' = [artifactHost EXCEPT ![p] = g], UNCHANGED artifactSweep
  PROVE  artifactHost'[p] = g /\ artifactHost' \in [ArtifactProcs -> HostRecords] /\ OthersStay(p)
  BY DEF ArtifactsTyped, OthersStay

\* A process that is at work, or free, has no cleanup under way.
LEMMA NoCleanup ==
  ASSUME ArtifactInv, NEW p \in ArtifactProcs, artifactHost[p].at # "idle" \/ HostIsFree(p)
  PROVE  ~Sweeping(p)
  BY DEF ArtifactInv, CleanupIsSound, SweepIsSound, Sweeping, HostIsFree

LEMMA LeaveSessionKeeps ==
  ASSUME ArtifactInv, NEW p \in ArtifactProcs, LeaveSession(p)
  PROVE  ArtifactInv'
<1>. DEFINE h == artifactHost[p]  g == IdleHost
<1>1. ArtifactsTyped /\ HostIsSound(p) /\ HostIsFree(p)
  BY DEF ArtifactInv, LeaveSession
<1>2. /\ g \in HostRecords /\ artifactHost' = [artifactHost EXCEPT ![p] = g]
      /\ g.at = "idle" /\ g.session = NoArtifactSession /\ g.refs = {} /\ g.copies = {} /\ ~g.running
      /\ UNCHANGED <<artifactDir, artifactFile, artifactJournal, artifactSweep, artifactLife, artifactDays, overdue>>
  BY <1>1, ArtifactAssumption DEF LeaveSession, ArtifactsTyped, HostRecords, IdleHost, HostIsSound,
     ForkIsSound, Rewritten
<1>. HIDE DEF g
<1>3. artifactHost'[p] = g /\ artifactHost' \in [ArtifactProcs -> HostRecords] /\ OthersStay(p)
  BY <1>1, <1>2, HostChanges
<1>4. OpenIsSound(p)'
  BY <1>2, <1>3 DEF OpenIsSound
<1>. QED BY <1>1, <1>2, <1>3, <1>4, NoCleanup, HostAlone

LEMMA EndsRunKeeps ==
  ASSUME ArtifactInv, NEW p \in ArtifactProcs, EndsRun(p)
  PROVE  ArtifactInv'
<1>. DEFINE h == artifactHost[p]  g == [h EXCEPT !.running = FALSE]
<1>1. ArtifactsTyped /\ HostIsSound(p) /\ HostIsFree(p) /\ h.at = "idle"
  BY DEF ArtifactInv, EndsRun, HostIsFree
<1>2. /\ g \in HostRecords /\ artifactHost' = [artifactHost EXCEPT ![p] = g]
      /\ g.at = "idle" /\ g.session = h.session /\ g.refs = h.refs /\ g.copies = h.copies
      /\ ~g.running /\ g.pending = h.pending
      /\ UNCHANGED <<artifactDir, artifactFile, artifactJournal, artifactSweep, artifactLife, artifactDays, overdue>>
  BY <1>1, ArtifactAssumption DEF EndsRun, ArtifactsTyped, HostRecords, IdleHost, HostIsSound, ForkIsSound,
     Rewritten
<1>. HIDE DEF g
<1>3. artifactHost'[p] = g /\ artifactHost' \in [ArtifactProcs -> HostRecords] /\ OthersStay(p)
  BY <1>1, <1>2, HostChanges
<1>4. OpenIsSound(p)'
  BY <1>1, <1>2, <1>3 DEF HostIsSound, OpenIsSound, Stored
<1>. QED BY <1>1, <1>2, <1>3, <1>4, NoCleanup, HostAlone

LEMMA ResultIsLost ==
  ASSUME ArtifactInv, NEW p \in ArtifactProcs, ResultCommitted(p, FALSE)
  PROVE  ArtifactInv'
<1>. DEFINE h == artifactHost[p]  g == [h EXCEPT !.at = "idle", !.id = 0, !.running = FALSE]
<1>1. ArtifactsTyped /\ HostIsSound(p) /\ h.at = "saved"
  BY DEF ArtifactInv, ResultCommitted
<1>2. /\ g \in HostRecords /\ artifactHost' = [artifactHost EXCEPT ![p] = g]
      /\ g.at = "idle" /\ g.session = h.session /\ g.refs = h.refs /\ g.copies = h.copies
      /\ ~g.running /\ g.pending = h.pending
      /\ UNCHANGED <<artifactDir, artifactFile, artifactJournal, artifactSweep, artifactLife, artifactDays, overdue>>
  BY <1>1, ArtifactAssumption DEF ResultCommitted, ArtifactsTyped, HostRecords, IdleHost, HostIsSound,
     ForkIsSound, Rewritten
<1>. HIDE DEF g
<1>3. artifactHost'[p] = g /\ artifactHost' \in [ArtifactProcs -> HostRecords] /\ OthersStay(p)
  BY <1>1, <1>2, HostChanges
<1>4. OpenIsSound(p)'
  BY <1>1, <1>2, <1>3 DEF HostIsSound, OpenIsSound, Stored
<1>. QED BY <1>1, <1>2, <1>3, <1>4, NoCleanup, HostAlone

LEMMA ForkEndsKeeps ==
  ASSUME ArtifactInv, NEW p \in ArtifactProcs, ForkEnds(p)
  PROVE  ArtifactInv'
<1>. DEFINE h == artifactHost[p]  g == [IdleHost EXCEPT !.session = h.target, !.refs = Rewritten(h), !.pending = TRUE]
<1>1. ArtifactsTyped /\ HostIsSound(p) /\ h.at = "forking"
  BY DEF ArtifactInv, ForkEnds
<1>2. /\ g \in HostRecords /\ artifactHost' = [artifactHost EXCEPT ![p] = g]
      /\ g.at = "idle" /\ g.session = h.target /\ g.refs = h.copies /\ g.copies = {} /\ ~g.running /\ g.pending
      /\ UNCHANGED <<artifactDir, artifactFile, artifactJournal, artifactSweep, artifactLife, artifactDays, overdue>>
  BY <1>1, ArtifactAssumption DEF ForkEnds, ArtifactsTyped, HostRecords, IdleHost, HostIsSound, ForkIsSound,
     Rewritten
<1>. HIDE DEF g
<1>3. artifactHost'[p] = g /\ artifactHost' \in [ArtifactProcs -> HostRecords] /\ OthersStay(p)
  BY <1>1, <1>2, HostChanges
<1>4. OpenIsSound(p)'
  BY <1>1, <1>2, <1>3 DEF HostIsSound, OpenIsSound, ForkIsSound, Stored
<1>. QED BY <1>1, <1>2, <1>3, <1>4, NoCleanup, HostAlone

LEMMA ForkIsLeft ==
  ASSUME ArtifactInv, NEW p \in ArtifactProcs, ForkFails(p, FALSE)
  PROVE  ArtifactInv'
<1>. DEFINE h == artifactHost[p]  g == [IdleHost EXCEPT !.session = h.session, !.refs = h.refs, !.pending = h.pending]
<1>1. ArtifactsTyped /\ HostIsSound(p) /\ h.at = "forking"
  BY DEF ArtifactInv, ForkFails
<1>2. /\ g \in HostRecords /\ artifactHost' = [artifactHost EXCEPT ![p] = g]
      /\ g.at = "idle" /\ g.session = h.session /\ g.refs = h.refs /\ g.copies = {} /\ ~g.running /\ g.pending = h.pending
      /\ UNCHANGED <<artifactDir, artifactFile, artifactJournal, artifactSweep, artifactLife, artifactDays, overdue>>
  BY <1>1, ArtifactAssumption DEF ForkFails, ArtifactsTyped, HostRecords, IdleHost, HostIsSound, ForkIsSound,
     Rewritten
<1>. HIDE DEF g
<1>3. artifactHost'[p] = g /\ artifactHost' \in [ArtifactProcs -> HostRecords] /\ OthersStay(p)
  BY <1>1, <1>2, HostChanges
<1>4. OpenIsSound(p)'
  BY <1>1, <1>2, <1>3 DEF HostIsSound, OpenIsSound, Stored
<1>. QED BY <1>1, <1>2, <1>3, <1>4, NoCleanup, HostAlone

LEMMA FilesAreLeft ==
  ASSUME ArtifactInv, NEW p \in ArtifactProcs, DeleteFiles(p, FALSE)
  PROVE  ArtifactInv'
<1>. DEFINE h == artifactHost[p]  g == [h EXCEPT !.at = "idle", !.target = NoArtifactSession]
<1>1. ArtifactsTyped /\ HostIsSound(p) /\ h.at = "deleting"
  BY DEF ArtifactInv, DeleteFiles
<1>2. /\ g \in HostRecords /\ artifactHost' = [artifactHost EXCEPT ![p] = g]
      /\ g.at = "idle" /\ g.session = h.session /\ g.refs = h.refs /\ g.copies = h.copies
      /\ g.running = h.running /\ g.pending = h.pending
      /\ UNCHANGED <<artifactDir, artifactFile, artifactJournal, artifactSweep, artifactLife, artifactDays, overdue>>
  BY <1>1, ArtifactAssumption DEF DeleteFiles, ArtifactsTyped, HostRecords, IdleHost, HostIsSound,
     ForkIsSound, Rewritten
<1>. HIDE DEF g
<1>3. artifactHost'[p] = g /\ artifactHost' \in [ArtifactProcs -> HostRecords] /\ OthersStay(p)
  BY <1>1, <1>2, HostChanges
<1>4. OpenIsSound(p)'
  BY <1>1, <1>2, <1>3 DEF HostIsSound, OpenIsSound, Stored
<1>. QED BY <1>1, <1>2, <1>3, <1>4, NoCleanup, HostAlone

LEMMA SweepStartsKeeps ==
  ASSUME ArtifactInv, NEW p \in ArtifactProcs, SweepStarts(p)
  PROVE  ArtifactInv'
<1>. DEFINE journals == {s \in ArtifactSessions : artifactJournal[s].exists}
<1>1. ArtifactsTyped /\ journals \in SUBSET ArtifactSessions
  BY DEF ArtifactInv
<1>2. /\ artifactHost' = [artifactHost EXCEPT ![p] = IdleHost]
      /\ artifactSweep' = [artifactSweep EXCEPT ![p] = [IdleSweep EXCEPT !.at = "listed", !.journals = journals]]
      /\ UNCHANGED <<artifactDir, artifactFile, artifactJournal, artifactLife, artifactDays, overdue>>
  BY DEF SweepStarts
<1>3. \A s \in ArtifactSessions : s \in journals <=> artifactJournal[s].exists
  OBVIOUS
<1>. HIDE DEF journals
<1>4. IdleHost \in HostRecords /\ [IdleSweep EXCEPT !.at = "listed", !.journals = journals] \in SweepRecords
  BY <1>1 DEF IdleHost, HostRecords, IdleSweep, SweepRecords
<1>5. ArtifactsTyped' /\ artifactHost'[p] = IdleHost
  BY <1>1, <1>2, <1>4 DEF ArtifactsTyped
<1>6. /\ artifactSweep'[p].at = "listed" /\ artifactSweep'[p].journals = journals /\ artifactSweep'[p].owed = {}
      /\ OthersStay(p)
  BY <1>1, <1>2 DEF ArtifactsTyped, OthersStay, IdleSweep
<1>7. CleanupIsSound(p)'
  BY <1>1, <1>2, <1>3, <1>5, <1>6 DEF CleanupIsSound, SweepIsSound, OwedIsSound, Sweeping, IdleHost
<1>8. HostIsSound(p)'
  BY <1>5 DEF HostIsSound, OpenIsSound, SaveIsSound, ForkIsSound, DeletionIsSound, IdleHost
<1>9. Moves(p, NoArtifactSession)
  BY <1>2, <1>5, <1>6, ArtifactAssumption DEF Moves, FileMoves, IdleHost
<1>. QED BY <1>5, <1>7, <1>8, <1>9, ArtifactAssumption, MovesKeep

LEMMA ArtifactCrashKeeps ==
  ASSUME ArtifactInv, NEW p \in ArtifactProcs, ArtifactCrash(p)
  PROVE  ArtifactInv'
<1>. DEFINE g == [IdleHost EXCEPT !.at = "down"]
<1>1. ArtifactsTyped
  BY DEF ArtifactInv
<1>2. /\ artifactHost' = [artifactHost EXCEPT ![p] = g] /\ artifactSweep' = [artifactSweep EXCEPT ![p] = IdleSweep]
      /\ UNCHANGED <<artifactDir, artifactFile, artifactJournal, artifactLife, artifactDays, overdue>>
  BY DEF ArtifactCrash
<1>3. /\ g \in HostRecords /\ IdleSweep \in SweepRecords
      /\ g.session = NoArtifactSession /\ g.at = "down" /\ g.refs = {} /\ g.copies = {} /\ ~g.running
  BY DEF IdleHost, HostRecords, IdleSweep, SweepRecords
<1>. HIDE DEF g
<1>4. /\ ArtifactsTyped' /\ artifactHost'[p] = g /\ artifactSweep'[p] = IdleSweep /\ OthersStay(p)
  BY <1>1, <1>2, <1>3 DEF ArtifactsTyped, OthersStay
<1>5. CleanupIsSound(p)'
  BY <1>4 DEF CleanupIsSound, SweepIsSound, OwedIsSound, Sweeping, IdleSweep
<1>6. HostIsSound(p)'
  BY <1>3, <1>4 DEF HostIsSound, OpenIsSound, SaveIsSound, ForkIsSound, DeletionIsSound
<1>7. Moves(p, NoArtifactSession)
  BY <1>2, <1>3, <1>4, ArtifactAssumption DEF Moves, FileMoves
<1>. QED BY <1>4, <1>5, <1>6, <1>7, ArtifactAssumption, MovesKeep

LEMMA OnlyHere ==
  ASSUME ArtifactInv, NEW p \in ArtifactProcs, NEW s \in ArtifactSessions, artifactHost[p].session = s
  PROVE  \A q \in ArtifactProcs \ {p} :
           artifactHost[q].session # s /\ (artifactHost[q].at = "forking" => artifactHost[q].target # s)
  BY ArtifactAssumption DEF ArtifactInv, OpenOnce, HostIsSound, ForkIsSound

LEMMA NewIsNowhere ==
  ASSUME ArtifactInv, NEW s \in ArtifactSessions, artifactLife[s] = "new"
  PROVE  /\ \A q \in ArtifactProcs :
              artifactHost[q].session # s /\ (artifactHost[q].at = "forking" => artifactHost[q].target # s)
         /\ artifactDir[s] = "none" /\ ~artifactJournal[s].exists /\ artifactJournal[s].refs = {} /\ FilesOf(s) = {}
<1>1. SessionIsSound(s) /\ \A q \in ArtifactProcs : HostIsSound(q)
  BY DEF ArtifactInv
<1>2. \A q \in ArtifactProcs :
        artifactHost[q].session # s /\ (artifactHost[q].at = "forking" => artifactHost[q].target # s)
  BY <1>1, ArtifactAssumption DEF HostIsSound, OpenIsSound, ForkIsSound
<1>. QED BY <1>1, <1>2 DEF SessionIsSound

LEMMA NextIdIsNew ==
  ASSUME ArtifactInv, NewIds # {}
  PROVE  /\ NextId \in ArtifactIds /\ artifactFile[NextId].state = "none"
         /\ \A q \in ArtifactProcs : NextId \notin artifactHost[q].refs
         /\ \A s \in ArtifactSessions : NextId \notin artifactJournal[s].refs
<1>1. \E m \in NewIds : \A n \in NewIds : m <= n
  <2>. NewIds \subseteq Nat
    BY ArtifactAssumption DEF NewIds, ArtifactIds
  <2>. QED BY LeastNumber
<1>2. NextId \in NewIds
  BY <1>1 DEF NextId, Min
<1>. QED BY <1>2 DEF NewIds, ArtifactInv, HostIsSound, OpenIsSound, SessionIsSound

\* The file n changes, or is made.
LEMMA FileChanges ==
  ASSUME ArtifactsTyped, NEW n \in ArtifactIds, NEW f \in FileRecords, artifactFile' = [artifactFile EXCEPT ![n] = f]
  PROVE  /\ artifactFile' \in [ArtifactIds -> FileRecords] /\ artifactFile'[n] = f
         /\ \A i \in ArtifactIds \ {n} : artifactFile'[i] = artifactFile[i]
  BY DEF ArtifactsTyped

LEMMA FilesGo ==
  ASSUME ArtifactsTyped, NEW s \in ArtifactSessions, artifactFile' = Removed(artifactFile, FilesOf(s))
  PROVE  /\ artifactFile' \in [ArtifactIds -> FileRecords]
         /\ \A i \in ArtifactIds : FileMoves(i, s) /\ (i \in FilesOf(s) => artifactFile'[i].state = "removed")
         /\ FilesOf(s)' = {}
<1>1. \A i \in ArtifactIds :
        artifactFile'[i] = IF i \in FilesOf(s) THEN [artifactFile[i] EXCEPT !.state = "removed"] ELSE artifactFile[i]
  BY DEF Removed
<1>. QED BY <1>1 DEF Removed, FileMoves, FilesOf, ArtifactsTyped, FileRecords
LEMMA StartsRunKeeps ==
  ASSUME ArtifactInv, NEW p \in ArtifactProcs, NEW s \in ArtifactSessions, StartsRun(p), artifactHost[p].session = s
  PROVE  ArtifactInv'
<1>. DEFINE h == artifactHost[p]  g == [h EXCEPT !.running = TRUE, !.pending = FALSE]
            refs == artifactJournal[s].refs \cup h.refs
<1>1. /\ ArtifactsTyped /\ OpenIsSound(p) /\ SessionIsSound(s) /\ HostIsFree(p) /\ h.at = "idle"
      /\ h.refs \subseteq ArtifactIds /\ artifactJournal[s].refs \subseteq ArtifactIds
      /\ \A q \in ArtifactProcs \ {p} :
           artifactHost[q].session # s /\ (artifactHost[q].at = "forking" => artifactHost[q].target # s)
  BY ArtifactTypings, OnlyHere DEF ArtifactInv, HostIsSound, StartsRun, HostIsFree
<1>2. /\ g \in HostRecords /\ artifactHost' = [artifactHost EXCEPT ![p] = g]
      /\ g.session = s /\ g.at = "idle" /\ g.refs = h.refs /\ g.copies = h.copies
  BY <1>1 DEF StartsRun, ArtifactsTyped, HostRecords
<1>3. /\ artifactJournal' = [artifactJournal EXCEPT ![s] = [exists |-> TRUE, refs |-> refs]]
      /\ UNCHANGED <<artifactDir, artifactFile, artifactSweep, artifactLife, artifactDays, overdue>>
  BY <1>1 DEF StartsRun, ArtifactsTyped, JournalRecords
<1>. HIDE DEF g
<1>4. artifactHost'[p] = g /\ artifactHost' \in [ArtifactProcs -> HostRecords] /\ OthersStay(p)
  BY <1>1, <1>2, <1>3, HostChanges
<1>5. /\ artifactJournal' \in [ArtifactSessions -> JournalRecords] /\ artifactJournal'[s].exists
      /\ artifactJournal'[s].refs = refs /\ \A t \in ArtifactSessions \ {s} : artifactJournal'[t] = artifactJournal[t]
  BY <1>1, <1>3 DEF ArtifactsTyped, JournalRecords
<1>6. ArtifactsTyped'
  BY <1>1, <1>3, <1>4, <1>5 DEF ArtifactsTyped
<1>7. SessionMoves(s)
  BY <1>1, <1>3, <1>5, ArtifactAssumption DEF SessionMoves, OpenIsSound, Over
<1>8. Moves(p, s)
  BY <1>1, <1>2, <1>3, <1>4, <1>5, <1>7 DEF Moves, FileMoves
<1>9. SessionIsSound(s)'
  BY <1>1, <1>3, <1>5, ArtifactAssumption DEF SessionIsSound, OpenIsSound, FilesOf, Stored
<1>10. OpenIsSound(p)'
  BY <1>1, <1>2, <1>3, <1>4, <1>5, ArtifactAssumption DEF OpenIsSound, Stored
<1>. QED BY <1>1, <1>2, <1>3, <1>4, <1>6, <1>8, <1>9, <1>10, NoCleanup, HostRests

LEMMA SaveOpensKeeps ==
  ASSUME ArtifactInv, NEW p \in ArtifactProcs, NEW s \in ArtifactSessions, NEW n, SaveOpens(p),
         artifactHost[p].session = s, n = NextId
  PROVE  ArtifactInv'
<1>. DEFINE h == artifactHost[p]  g == [h EXCEPT !.at = "saving", !.id = n]
            f == [of |-> s, state |-> "partial", aged |-> FALSE]
<1>1. /\ ArtifactsTyped /\ OpenIsSound(p) /\ SessionIsSound(s) /\ HostIsFree(p) /\ h.running /\ h.at = "idle"
      /\ n \in ArtifactIds /\ artifactFile[n].state = "none" /\ n \notin h.refs /\ n \notin artifactJournal[s].refs
      /\ h.refs \subseteq ArtifactIds /\ artifactJournal[s].refs \subseteq ArtifactIds
      /\ \A q \in ArtifactProcs \ {p} :
           artifactHost[q].session # s /\ (artifactHost[q].at = "forking" => artifactHost[q].target # s)
  BY ArtifactTypings, OnlyHere, NextIdIsNew DEF ArtifactInv, HostIsSound, SaveOpens, HostIsFree
<1>2. /\ g \in HostRecords /\ artifactHost' = [artifactHost EXCEPT ![p] = g]
      /\ g.session = s /\ g.at = "saving" /\ g.id = n /\ g.refs = h.refs /\ g.copies = h.copies
      /\ g.running /\ g.pending = h.pending
  BY <1>1 DEF SaveOpens, ArtifactsTyped, HostRecords
<1>3. /\ artifactFile' = [artifactFile EXCEPT ![n] = f] /\ f \in FileRecords
      /\ artifactDir' = [artifactDir EXCEPT ![s] = "fresh"]
      /\ UNCHANGED <<artifactJournal, artifactSweep, artifactLife, artifactDays, overdue>>
  BY DEF SaveOpens, FileRecords
<1>. HIDE DEF g
<1>4. artifactHost'[p] = g /\ artifactHost' \in [ArtifactProcs -> HostRecords] /\ OthersStay(p)
  BY <1>1, <1>2, <1>3, HostChanges
<1>5. /\ artifactFile' \in [ArtifactIds -> FileRecords] /\ artifactFile'[n] = f
      /\ \A i \in ArtifactIds \ {n} : artifactFile'[i] = artifactFile[i]
  BY <1>1, <1>3, FileChanges
<1>6. /\ ArtifactsTyped' /\ artifactDir'[s] = "fresh"
      /\ \A t \in ArtifactSessions \ {s} : artifactDir'[t] = artifactDir[t]
  BY <1>1, <1>3, <1>4, <1>5 DEF ArtifactsTyped
<1>7. SessionMoves(s)
  BY <1>1, <1>3, <1>6, ArtifactAssumption DEF SessionMoves, OpenIsSound, Over
<1>8. Moves(p, s)
  BY <1>1, <1>2, <1>3, <1>4, <1>5, <1>6, <1>7 DEF Moves, FileMoves
<1>9. SessionIsSound(s)'
  BY <1>1, <1>3, <1>5, <1>6, ArtifactAssumption DEF SessionIsSound, OpenIsSound, FilesOf, Stored
<1>10. OpenIsSound(p)'
  BY <1>1, <1>2, <1>3, <1>4, <1>5, <1>6, ArtifactAssumption DEF OpenIsSound, Stored
<1>11. HostIsSound(p)'
  BY <1>1, <1>2, <1>3, <1>4, <1>5, <1>6, <1>10 DEF HostIsSound, SaveIsSound, ForkIsSound, DeletionIsSound
<1>. QED BY <1>1, <1>3, <1>6, <1>8, <1>9, <1>11, NoCleanup, HostKeeps

\* What a save has of its file, at its two awaits.
LEMMA SaveHas ==
  ASSUME ArtifactInv, NEW p \in ArtifactProcs, NEW s \in ArtifactSessions, NEW n,
         artifactHost[p].at \in {"saving", "saved"}, artifactHost[p].session = s, n = artifactHost[p].id
  PROVE  /\ ArtifactsTyped /\ OpenIsSound(p) /\ SessionIsSound(s) /\ ~Sweeping(p)
         /\ n \in ArtifactIds /\ n \notin artifactHost[p].refs /\ n \notin artifactJournal[s].refs
         /\ artifactHost[p].running /\ artifactHost[p].copies = {} /\ artifactJournal[s].exists
         /\ artifactDir[s] = "fresh" /\ artifactLife[s] = "used" /\ ~artifactFile[n].aged /\ artifactFile[n].of = s
         /\ artifactFile[n].state = IF artifactHost[p].at = "saving" THEN "partial" ELSE "whole"
         /\ artifactHost[p].refs \subseteq ArtifactIds /\ artifactJournal[s].refs \subseteq ArtifactIds
         /\ \A q \in ArtifactProcs \ {p} :
              artifactHost[q].session # s /\ (artifactHost[q].at = "forking" => artifactHost[q].target # s)
  BY ArtifactTypings, OnlyHere, NoCleanup, ArtifactAssumption DEF ArtifactInv, HostIsSound, OpenIsSound,
     SaveIsSound

\* The file of a save is whole, or removed.
LEMMA SaveMoves ==
  ASSUME ArtifactInv, NEW p \in ArtifactProcs, NEW s \in ArtifactSessions, NEW n, NEW f \in FileRecords, NEW g \in HostRecords,
         artifactHost[p].at \in {"saving", "saved"}, artifactHost[p].session = s, n = artifactHost[p].id,
         artifactFile' = [artifactFile EXCEPT ![n] = f],
         f.of = s, f.aged = artifactFile[n].aged, f.state \in {"whole", "removed"},
         artifactHost' = [artifactHost EXCEPT ![p] = g],
         g.session = s, g.refs = artifactHost[p].refs, g.pending = artifactHost[p].pending,
         g.running = artifactHost[p].running, g.copies = artifactHost[p].copies,
         g.at = "idle" \/ (g.at = "saved" /\ g.id = n /\ f.state = "whole"),
         UNCHANGED <<artifactDir, artifactJournal, artifactSweep, artifactLife, artifactDays, overdue>>
  PROVE  ArtifactInv'
<1>. DEFINE h == artifactHost[p]
<1>1. /\ ArtifactsTyped /\ OpenIsSound(p) /\ SessionIsSound(s) /\ ~Sweeping(p)
      /\ n \in ArtifactIds /\ n \notin h.refs /\ n \notin artifactJournal[s].refs
      /\ h.running /\ artifactDir[s] = "fresh" /\ artifactLife[s] = "used" /\ h.copies = {}
      /\ ~artifactFile[n].aged /\ artifactFile[n].of = s /\ artifactFile[n].state \in {"partial", "whole"}
      /\ h.refs \subseteq ArtifactIds /\ artifactJournal[s].refs \subseteq ArtifactIds
      /\ \A q \in ArtifactProcs \ {p} :
           artifactHost[q].session # s /\ (artifactHost[q].at = "forking" => artifactHost[q].target # s)
  BY SaveHas
<1>3. /\ artifactFile' \in [ArtifactIds -> FileRecords] /\ artifactFile'[n] = f
      /\ \A i \in ArtifactIds \ {n} : artifactFile'[i] = artifactFile[i]
  BY <1>1, FileChanges
<1>4. artifactHost'[p] = g /\ artifactHost' \in [ArtifactProcs -> HostRecords] /\ OthersStay(p)
  BY <1>1, HostChanges
<1>5. ArtifactsTyped'
  BY <1>1, <1>3, <1>4 DEF ArtifactsTyped
<1>6. Moves(p, s)
  BY <1>1, <1>3, <1>4 DEF Moves, FileMoves, SessionMoves, Over
<1>7. SessionIsSound(s)'
  BY <1>1, <1>3 DEF SessionIsSound, FilesOf, Stored
<1>8. OpenIsSound(p)'
  BY <1>1, <1>3, <1>4, ArtifactAssumption DEF OpenIsSound, Stored
<1>9. HostIsSound(p)'
  BY <1>1, <1>3, <1>4, <1>8 DEF HostIsSound, SaveIsSound, ForkIsSound, DeletionIsSound
<1>. QED BY <1>1, <1>5, <1>6, <1>7, <1>9, HostKeeps

LEMMA SaveEnds ==
  ASSUME ArtifactInv, NEW p \in ArtifactProcs, NEW s \in ArtifactSessions, artifactHost[p].session = s,
         NEW ok \in BOOLEAN, SaveWrites(p, ok) \/ SaveIsDiscarded(p)
  PROVE  ArtifactInv'
<1>. DEFINE h == artifactHost[p]
<1>0. PICK n : n = h.id
  OBVIOUS
<1>1. ArtifactsTyped /\ h.at \in {"saving", "saved"}
  BY DEF ArtifactInv, SaveWrites, SaveIsDiscarded
<1>2. n \in ArtifactIds /\ artifactFile[n].of = s
  BY <1>0, <1>1, SaveHas
<1>3. UNCHANGED <<artifactDir, artifactJournal, artifactSweep, artifactLife, artifactDays, overdue>>
  BY DEF SaveWrites, SaveIsDiscarded
<1>. DEFINE state == IF SaveWrites(p, TRUE) THEN "whole" ELSE "removed"
            f == [artifactFile[n] EXCEPT !.state = state]
            g == IF SaveWrites(p, TRUE) THEN [h EXCEPT !.at = "saved"] ELSE [h EXCEPT !.at = "idle", !.id = 0]
<1>4. artifactFile' = [artifactFile EXCEPT ![n] = f] /\ artifactHost' = [artifactHost EXCEPT ![p] = g]
  <2>1. CASE SaveWrites(p, TRUE)
    BY <1>0, <1>1, <1>2, <2>1 DEF SaveWrites, ArtifactsTyped, FileRecords, HostRecords
  <2>2. CASE ~SaveWrites(p, TRUE) /\ SaveWrites(p, FALSE)
    BY <1>0, <1>1, <1>2, <2>2 DEF SaveWrites, ArtifactsTyped, FileRecords, HostRecords
  <2>3. CASE ~SaveWrites(p, TRUE) /\ SaveIsDiscarded(p)
    BY <1>0, <1>1, <1>2, <2>3 DEF SaveIsDiscarded, Removed, ArtifactsTyped, FileRecords, HostRecords
  <2>. QED BY <2>1, <2>2, <2>3
<1>5. f \in FileRecords /\ f.of = s /\ f.aged = artifactFile[n].aged /\ f.state = state
  BY <1>1, <1>2 DEF ArtifactsTyped, FileRecords
<1>6. /\ g \in HostRecords /\ g.session = s /\ g.refs = h.refs /\ g.pending = h.pending /\ g.running = h.running
      /\ g.copies = h.copies /\ (g.at = "idle" \/ (g.at = "saved" /\ g.id = n /\ state = "whole"))
  BY <1>0, <1>1 DEF ArtifactsTyped, HostRecords
<1>7. state \in {"whole", "removed"}
  OBVIOUS
<1>. HIDE DEF g, f, state
<1>. QED BY <1>0, <1>1, <1>3, <1>4, <1>5, <1>6, <1>7, SaveMoves

LEMMA ResultIsCommitted ==
  ASSUME ArtifactInv, NEW p \in ArtifactProcs, NEW s \in ArtifactSessions, artifactHost[p].session = s,
         ResultCommitted(p, TRUE)
  PROVE  ArtifactInv'
<1>. DEFINE h == artifactHost[p]  n == h.id
            g == [h EXCEPT !.at = "idle", !.id = 0, !.refs = h.refs \cup {n}, !.running = TRUE]
            j == [artifactJournal[s] EXCEPT !.refs = artifactJournal[s].refs \cup {n}]
<1>0. artifactHost[p].at = "saved"
  BY DEF ResultCommitted
<1>1. /\ ArtifactsTyped /\ OpenIsSound(p) /\ SessionIsSound(s) /\ ~Sweeping(p) /\ n \in ArtifactIds
      /\ artifactJournal[s].exists /\ h.copies = {} /\ artifactDir[s] = "fresh" /\ artifactLife[s] = "used"
      /\ ~artifactFile[n].aged /\ artifactFile[n].of = s /\ artifactFile[n].state = "whole"
      /\ h.refs \subseteq ArtifactIds /\ artifactJournal[s].refs \subseteq ArtifactIds
      /\ \A q \in ArtifactProcs \ {p} :
           artifactHost[q].session # s /\ (artifactHost[q].at = "forking" => artifactHost[q].target # s)
  BY <1>0, SaveHas
<1>2. /\ g \in HostRecords /\ artifactHost' = [artifactHost EXCEPT ![p] = g]
      /\ g.session = s /\ g.at = "idle" /\ g.refs = h.refs \cup {n} /\ g.copies = {} /\ g.pending = h.pending
  BY <1>1 DEF ResultCommitted, ArtifactsTyped, HostRecords
<1>3. /\ artifactJournal' = [artifactJournal EXCEPT ![s] = j] /\ j \in JournalRecords
      /\ j.exists /\ j.refs = artifactJournal[s].refs \cup {n}
      /\ UNCHANGED <<artifactDir, artifactFile, artifactSweep, artifactLife, artifactDays, overdue>>
  BY <1>1 DEF ResultCommitted, ArtifactsTyped, JournalRecords
<1>. HIDE DEF g, j
<1>4. artifactHost'[p] = g /\ artifactHost' \in [ArtifactProcs -> HostRecords] /\ OthersStay(p)
  BY <1>1, <1>2, <1>3, HostChanges
<1>5. /\ ArtifactsTyped' /\ artifactJournal'[s] = j
      /\ \A t \in ArtifactSessions \ {s} : artifactJournal'[t] = artifactJournal[t]
  BY <1>1, <1>3, <1>4 DEF ArtifactsTyped
<1>6. Moves(p, s)
  BY <1>1, <1>2, <1>3, <1>4, <1>5 DEF Moves, FileMoves, SessionMoves, Over
<1>7. SessionIsSound(s)'
  BY <1>1, <1>3, <1>5 DEF SessionIsSound, FilesOf, Stored
<1>8. OpenIsSound(p)'
  BY <1>1, <1>2, <1>3, <1>4, <1>5, ArtifactAssumption DEF OpenIsSound, Stored
<1>. QED BY <1>1, <1>2, <1>3, <1>4, <1>5, <1>6, <1>7, <1>8, HostRests

LEMMA OpenSessionKeeps ==
  ASSUME ArtifactInv, NEW p \in ArtifactProcs, NEW s \in ArtifactSessions, OpenSession(p, s)
  PROVE  ArtifactInv'
<1>. DEFINE h == artifactHost[p]  g == [h EXCEPT !.session = s, !.refs = artifactJournal[s].refs]
<1>1. /\ ArtifactsTyped /\ HostIsSound(p) /\ SessionIsSound(s) /\ h.at = "idle" /\ ~Over(s)
      /\ h.session = NoArtifactSession /\ ~h.running /\ h.copies = {} /\ artifactJournal[s].refs \subseteq ArtifactIds
      /\ artifactLife[s] = "new" \/ artifactJournal[s].exists
  BY ArtifactTypings DEF ArtifactInv, OpenSession, HostIsFree, HostIsSound, OpenIsSound, Over
<1>2. \A q \in ArtifactProcs \ {p} :
        artifactHost[q].session # s /\ (artifactHost[q].at = "forking" => artifactHost[q].target # s)
  <2>1. CASE artifactLife[s] = "new"
    BY <2>1, NewIsNowhere
  <2>2. CASE artifactLife[s] # "new"
    BY <2>2 DEF OpenSession, OpenElsewhere, ArtifactInv, HostIsSound, ForkIsSound
  <2>. QED BY <2>1, <2>2
<1>3. /\ g \in HostRecords /\ artifactHost' = [artifactHost EXCEPT ![p] = g]
      /\ g.session = s /\ g.at = "idle" /\ g.refs = artifactJournal[s].refs /\ g.copies = {} /\ ~g.running
  BY <1>1 DEF OpenSession, ArtifactsTyped, HostRecords
<1>4. /\ artifactLife' = [artifactLife EXCEPT ![s] = "used"] /\ artifactSweep' = [artifactSweep EXCEPT ![p] = IdleSweep]
      /\ UNCHANGED <<artifactDir, artifactFile, artifactJournal, artifactDays, overdue>> /\ IdleSweep \in SweepRecords
  BY DEF OpenSession, IdleSweep, SweepRecords
<1>. HIDE DEF g
<1>5. /\ ArtifactsTyped' /\ artifactHost'[p] = g /\ OthersStay(p) /\ artifactSweep'[p] = IdleSweep /\ artifactLife'[s] = "used"
      /\ \A t \in ArtifactSessions \ {s} : artifactLife'[t] = artifactLife[t]
  BY <1>1, <1>3, <1>4 DEF ArtifactsTyped, OthersStay
<1>6. Moves(p, s)
  BY <1>1, <1>2, <1>3, <1>4, <1>5 DEF Moves, FileMoves, SessionMoves, Over
<1>7. SessionIsSound(s)'
  BY <1>1, <1>4, <1>5 DEF SessionIsSound, FilesOf, Stored
<1>8. OpenIsSound(p)'
  BY <1>1, <1>3, <1>4, <1>5 DEF OpenIsSound, SessionIsSound, Stored
<1>9. HostIsSound(p)' /\ CleanupIsSound(p)'
  BY <1>3, <1>5, <1>8 DEF HostIsSound, SaveIsSound, ForkIsSound, DeletionIsSound, CleanupIsSound, SweepIsSound,
     OwedIsSound, Sweeping, IdleSweep
<1>. QED BY <1>5, <1>6, <1>7, <1>9, MovesKeep

LEMMA ForkBeginsKeeps ==
  ASSUME ArtifactInv, NEW p \in ArtifactProcs, NEW s \in ArtifactSessions, ForkBegins(p, s)
  PROVE  ArtifactInv'
<1>. DEFINE h == artifactHost[p]
<1>1. /\ ArtifactsTyped /\ HostIsSound(p) /\ SessionIsSound(s) /\ h.at = "idle" /\ HostIsFree(p) /\ artifactLife[s] = "new"
      /\ ~h.running /\ h.copies = {} /\ h.refs \subseteq ArtifactIds
  BY ArtifactTypings DEF ArtifactInv, ForkBegins, HostIsFree, HostIsSound, OpenIsSound
<1>2. /\ \A q \in ArtifactProcs :
           artifactHost[q].session # s /\ (artifactHost[q].at = "forking" => artifactHost[q].target # s)
      /\ artifactDir[s] = "none" /\ ~artifactJournal[s].exists /\ artifactJournal[s].refs = {} /\ FilesOf(s) = {}
  BY <1>1, NewIsNowhere
<1>3. /\ artifactLife' = [artifactLife EXCEPT ![s] = "used"]
      /\ UNCHANGED <<artifactFile, artifactJournal, artifactSweep, artifactDays, overdue>>
      /\ artifactDir' = artifactDir \/ artifactDir' = [artifactDir EXCEPT ![s] = "fresh"]
  BY DEF ForkBegins
<1>4. /\ artifactLife' \in [ArtifactSessions -> {"new", "used", "deleting", "deleted"}] /\ artifactLife'[s] = "used"
      /\ artifactDir' \in [ArtifactSessions -> {"none", "fresh", "aged"}] /\ artifactDir'[s] # "aged"
      /\ \A t \in ArtifactSessions \ {s} : artifactLife'[t] = artifactLife[t] /\ artifactDir'[t] = artifactDir[t]
  BY <1>1, <1>2, <1>3 DEF ArtifactsTyped
<1>5. SessionIsSound(s)'
  BY <1>2, <1>3, <1>4 DEF SessionIsSound, FilesOf
<1>6. SessionMoves(s)
  BY <1>1, <1>2, <1>3, <1>4 DEF SessionMoves, Over
<1>7. CASE h.refs = {} /\ UNCHANGED artifactDir
  <2>. DEFINE g == [h EXCEPT !.session = s, !.pending = TRUE]
  <2>1. /\ g \in HostRecords /\ artifactHost' = [artifactHost EXCEPT ![p] = g]
        /\ g.session = s /\ g.at = "idle" /\ g.refs = {} /\ g.copies = {} /\ ~g.running
    <3>1. artifactHost' = [artifactHost EXCEPT ![p] = g]
      BY <1>1, <1>7 DEF ForkBegins, ArtifactsTyped, HostRecords
    <3>. QED BY <1>1, <1>7, <3>1 DEF ArtifactsTyped, HostRecords
  <2>. HIDE DEF g
  <2>2. artifactHost'[p] = g /\ artifactHost' \in [ArtifactProcs -> HostRecords] /\ OthersStay(p)
    BY <1>1, <1>3, <2>1, HostChanges
  <2>3. ArtifactsTyped'
    BY <1>1, <1>3, <1>4, <2>2 DEF ArtifactsTyped
  <2>4. Moves(p, s)
    BY <1>2, <1>3, <1>4, <1>6, <2>1, <2>2 DEF Moves, FileMoves
  <2>5. OpenIsSound(p)'
    BY <1>2, <1>3, <1>4, <1>7, <2>1, <2>2 DEF OpenIsSound
  <2>. QED BY <1>1, <1>3, <1>5, <2>1, <2>2, <2>3, <2>4, <2>5, NoCleanup, HostRests
<1>8. CASE h.refs # {}
  <2>. DEFINE g == [h EXCEPT !.at = "forking", !.target = s, !.left = h.refs]
  <2>1. /\ g \in HostRecords /\ artifactHost' = [artifactHost EXCEPT ![p] = g]
        /\ g.session = h.session /\ g.at = "forking" /\ g.refs = h.refs /\ g.copies = {} /\ ~g.running
        /\ g.pending = h.pending /\ g.target = s /\ artifactDir'[s] = "fresh"
    <3>1. artifactHost' = [artifactHost EXCEPT ![p] = g] /\ artifactDir'[s] = "fresh"
      BY <1>1, <1>8 DEF ForkBegins, ArtifactsTyped, HostRecords
    <3>. QED BY <1>1, <3>1 DEF ArtifactsTyped, HostRecords
  <2>. HIDE DEF g
  <2>2. artifactHost'[p] = g /\ artifactHost' \in [ArtifactProcs -> HostRecords] /\ OthersStay(p)
    BY <1>1, <1>3, <2>1, HostChanges
  <2>3. ArtifactsTyped'
    BY <1>1, <1>3, <1>4, <2>2 DEF ArtifactsTyped
  <2>4. Moves(p, s)
    BY <1>2, <1>3, <1>4, <1>6, <2>1, <2>2 DEF Moves, FileMoves
  <2>5. OpenIsSound(p)'
    <3>1. h.session \in ArtifactSessions \cup {NoArtifactSession} /\ h.session # s
      BY <1>1, <1>2 DEF ArtifactsTyped, HostRecords
    <3>. QED BY <1>1, <1>3, <1>4, <2>1, <2>2, <3>1 DEF HostIsSound, OpenIsSound, Stored
  <2>6. HostIsSound(p)'
    BY <1>2, <1>3, <1>4, <2>1, <2>2, <2>5 DEF HostIsSound, SaveIsSound, ForkIsSound, DeletionIsSound, OthersStay
  <2>. QED BY <1>1, <1>3, <1>5, <2>3, <2>4, <2>6, NoCleanup, HostKeeps
<1>. QED BY <1>7, <1>8 DEF ForkBegins

\* What a fork has of its target at each copy.
LEMMA ForkHas ==
  ASSUME ArtifactInv, NEW p \in ArtifactProcs, NEW s \in ArtifactSessions,
         artifactHost[p].at = "forking", artifactHost[p].target = s
  PROVE  /\ ArtifactsTyped /\ HostIsSound(p) /\ SessionIsSound(s) /\ ~Sweeping(p) /\ artifactHost[p].session # s
         /\ artifactLife[s] = "used" /\ ~artifactJournal[s].exists /\ artifactJournal[s].refs = {} /\ artifactDir[s] = "fresh"
         /\ artifactHost[p].refs \subseteq ArtifactIds /\ artifactHost[p].copies \subseteq ArtifactIds
         /\ artifactHost[p].session \in ArtifactSessions \cup {NoArtifactSession}
         /\ \A i \in artifactHost[p].copies : Stored(i, s)
         /\ \A q \in ArtifactProcs \ {p} :
              artifactHost[q].session # s /\ (artifactHost[q].at = "forking" => artifactHost[q].target # s)
  BY ArtifactTypings, NoCleanup DEF ArtifactInv, HostIsSound, ForkIsSound, SessionIsSound

LEMMA ForkCopiesKeeps ==
  ASSUME ArtifactInv, NEW p \in ArtifactProcs, NEW s \in ArtifactSessions, NEW n, ForkCopies(p),
         artifactHost[p].target = s, n = NextId
  PROVE  ArtifactInv'
<1>. DEFINE h == artifactHost[p]  g == [h EXCEPT !.left = h.left \ {Min(h.left)}, !.copies = h.copies \cup {n}]
            f == [of |-> s, state |-> "whole", aged |-> FALSE]
<1>1. /\ ArtifactsTyped /\ HostIsSound(p) /\ SessionIsSound(s) /\ ~Sweeping(p) /\ h.session # s /\ h.at = "forking"
      /\ artifactLife[s] = "used" /\ ~artifactJournal[s].exists /\ artifactJournal[s].refs = {} /\ artifactDir[s] = "fresh"
      /\ h.refs \subseteq ArtifactIds /\ h.copies \subseteq ArtifactIds /\ \A i \in h.copies : Stored(i, s)
      /\ \A q \in ArtifactProcs \ {p} :
           artifactHost[q].session # s /\ (artifactHost[q].at = "forking" => artifactHost[q].target # s)
      /\ n \in ArtifactIds /\ artifactFile[n].state = "none" /\ n \notin h.refs
  BY ForkHas, NextIdIsNew DEF ForkCopies
<1>2. /\ g \in HostRecords /\ artifactHost' = [artifactHost EXCEPT ![p] = g]
      /\ g.session = h.session /\ g.at = "forking" /\ g.refs = h.refs /\ g.copies = h.copies \cup {n}
      /\ g.running = h.running /\ g.pending = h.pending /\ g.target = s
  BY <1>1 DEF ForkCopies, ArtifactsTyped, HostRecords
<1>3. /\ artifactFile' = [artifactFile EXCEPT ![n] = f] /\ f \in FileRecords
      /\ UNCHANGED <<artifactDir, artifactJournal, artifactSweep, artifactLife, artifactDays, overdue>>
  BY DEF ForkCopies, FileRecords
<1>. HIDE DEF g
<1>4. artifactHost'[p] = g /\ artifactHost' \in [ArtifactProcs -> HostRecords] /\ OthersStay(p)
  BY <1>1, <1>2, <1>3, HostChanges
<1>5. /\ artifactFile' \in [ArtifactIds -> FileRecords] /\ artifactFile'[n] = f
      /\ \A i \in ArtifactIds \ {n} : artifactFile'[i] = artifactFile[i]
  BY <1>1, <1>3, FileChanges
<1>6. ArtifactsTyped'
  BY <1>1, <1>3, <1>4, <1>5 DEF ArtifactsTyped
<1>7. Moves(p, s)
  BY <1>1, <1>2, <1>3, <1>4, <1>5 DEF Moves, FileMoves, SessionMoves, Over
<1>8. SessionIsSound(s)'
  BY <1>1, <1>3, <1>5 DEF SessionIsSound, FilesOf
<1>9. OpenIsSound(p)'
  BY <1>1, <1>2, <1>3, <1>4, <1>5 DEF HostIsSound, OpenIsSound, Stored
<1>10. HostIsSound(p)'
  BY <1>1, <1>2, <1>3, <1>4, <1>5, <1>9 DEF HostIsSound, SaveIsSound, ForkIsSound, DeletionIsSound, Stored,
     OthersStay
<1>. QED BY <1>1, <1>3, <1>6, <1>7, <1>8, <1>10, HostKeeps

LEMMA ForkIsRolledBack ==
  ASSUME ArtifactInv, NEW p \in ArtifactProcs, NEW s \in ArtifactSessions, ForkFails(p, TRUE), artifactHost[p].target = s
  PROVE  ArtifactInv'
<1>. DEFINE h == artifactHost[p]  g == [IdleHost EXCEPT !.session = h.session, !.refs = h.refs, !.pending = h.pending]
<1>1. /\ ArtifactsTyped /\ HostIsSound(p) /\ SessionIsSound(s) /\ ~Sweeping(p) /\ h.session # s
      /\ artifactLife[s] = "used" /\ ~artifactJournal[s].exists /\ artifactJournal[s].refs = {} /\ artifactDir[s] = "fresh"
      /\ h.refs \subseteq ArtifactIds /\ h.session \in ArtifactSessions \cup {NoArtifactSession}
      /\ \A q \in ArtifactProcs \ {p} :
           artifactHost[q].session # s /\ (artifactHost[q].at = "forking" => artifactHost[q].target # s)
  BY ForkHas DEF ForkFails
<1>2. /\ g \in HostRecords /\ artifactHost' = [artifactHost EXCEPT ![p] = g]
      /\ g.session = h.session /\ g.at = "idle" /\ g.refs = h.refs /\ g.copies = {} /\ ~g.running /\ g.pending = h.pending
  BY <1>1 DEF ForkFails, ArtifactsTyped, HostRecords, IdleHost
<1>3. /\ artifactDir' = [artifactDir EXCEPT ![s] = "none"] /\ artifactFile' = Removed(artifactFile, FilesOf(s))
      /\ UNCHANGED <<artifactJournal, artifactSweep, artifactLife, artifactDays, overdue>>
  BY DEF ForkFails
<1>. HIDE DEF g
<1>4. artifactHost'[p] = g /\ artifactHost' \in [ArtifactProcs -> HostRecords] /\ OthersStay(p)
  BY <1>1, <1>2, <1>3, HostChanges
<1>5. /\ artifactFile' \in [ArtifactIds -> FileRecords] /\ \A i \in ArtifactIds : FileMoves(i, s)
      /\ FilesOf(s)' = {}
  BY <1>1, <1>3, FilesGo
<1>6. /\ ArtifactsTyped' /\ artifactDir'[s] = "none"
      /\ \A t \in ArtifactSessions \ {s} : artifactDir'[t] = artifactDir[t]
  BY <1>1, <1>3, <1>4, <1>5 DEF ArtifactsTyped
<1>7. Moves(p, s)
  BY <1>1, <1>2, <1>3, <1>4, <1>5, <1>6 DEF Moves, SessionMoves, Over
<1>8. SessionIsSound(s)'
  BY <1>1, <1>3, <1>5 DEF SessionIsSound
<1>9. OpenIsSound(p)'
  BY <1>1, <1>2, <1>3, <1>4, <1>5, <1>6 DEF HostIsSound, OpenIsSound, Stored, FileMoves
<1>. QED BY <1>1, <1>2, <1>3, <1>4, <1>6, <1>7, <1>8, <1>9, HostRests

LEMMA DeleteJournalKeeps ==
  ASSUME ArtifactInv, NEW p \in ArtifactProcs, NEW s \in ArtifactSessions, DeleteJournal(p, s)
  PROVE  ArtifactInv'
<1>. DEFINE h == artifactHost[p]  base == IF h.session = s THEN IdleHost ELSE h
            g == [base EXCEPT !.at = "deleting", !.target = s]
            j == [exists |-> FALSE, refs |-> {}]
<1>1. /\ ArtifactsTyped /\ HostIsSound(p) /\ SessionIsSound(s) /\ h.at = "idle" /\ HostIsFree(p)
      /\ ~h.running /\ h.copies = {} /\ h.refs \subseteq ArtifactIds /\ artifactLife[s] = "used"
      /\ h.session \in ArtifactSessions \cup {NoArtifactSession}
      /\ \A q \in ArtifactProcs \ {p} :
           artifactHost[q].session # s /\ (artifactHost[q].at = "forking" => artifactHost[q].target # s)
  BY ArtifactTypings DEF ArtifactInv, DeleteJournal, MayDelete, OpenElsewhere, HostIsFree, HostIsSound,
     OpenIsSound,
     ForkIsSound, SessionIsSound
<1>2. /\ g \in HostRecords /\ artifactHost' = [artifactHost EXCEPT ![p] = g]
      /\ g.at = "deleting" /\ g.target = s /\ ~g.running /\ g.copies = {}
      /\ IF h.session = s THEN g.session = NoArtifactSession /\ g.refs = {}
         ELSE g.session = h.session /\ g.refs = h.refs /\ g.pending = h.pending
  <2>1. CASE h.session = s
    BY <1>1, <2>1 DEF DeleteJournal, ArtifactsTyped, HostRecords, IdleHost
  <2>2. CASE h.session # s
    BY <1>1, <2>2 DEF DeleteJournal, ArtifactsTyped, HostRecords
  <2>. QED BY <2>1, <2>2
<1>3. /\ artifactJournal' = [artifactJournal EXCEPT ![s] = j] /\ j \in JournalRecords
      /\ artifactLife' = [artifactLife EXCEPT ![s] = "deleting"]
      /\ UNCHANGED <<artifactDir, artifactFile, artifactSweep, artifactDays, overdue>>
  BY DEF DeleteJournal, JournalRecords
<1>. HIDE DEF g
<1>4. artifactHost'[p] = g /\ artifactHost' \in [ArtifactProcs -> HostRecords] /\ OthersStay(p)
  BY <1>1, <1>2, <1>3, HostChanges
<1>5. /\ ArtifactsTyped' /\ artifactJournal'[s] = j /\ artifactLife'[s] = "deleting"
      /\ \A t \in ArtifactSessions \ {s} : artifactJournal'[t] = artifactJournal[t] /\ artifactLife'[t] = artifactLife[t]
  BY <1>1, <1>3, <1>4 DEF ArtifactsTyped
<1>6. Moves(p, s)
  BY <1>1, <1>2, <1>3, <1>4, <1>5 DEF Moves, FileMoves, SessionMoves, Over
<1>7. SessionIsSound(s)'
  BY <1>1, <1>3, <1>5 DEF SessionIsSound, FilesOf
<1>8. OpenIsSound(p)'
  BY <1>1, <1>2, <1>3, <1>4, <1>5 DEF HostIsSound, OpenIsSound, Stored
<1>9. HostIsSound(p)'
  BY <1>2, <1>4, <1>5, <1>8 DEF HostIsSound, SaveIsSound, ForkIsSound, DeletionIsSound, Over
<1>. QED BY <1>1, <1>3, <1>5, <1>6, <1>7, <1>9, NoCleanup, HostKeeps

LEMMA FilesAreDeleted ==
  ASSUME ArtifactInv, NEW p \in ArtifactProcs, NEW s \in ArtifactSessions, DeleteFiles(p, TRUE), artifactHost[p].target = s
  PROVE  ArtifactInv'
<1>. DEFINE h == artifactHost[p]  g == [h EXCEPT !.at = "idle", !.target = NoArtifactSession]
<1>1. /\ ArtifactsTyped /\ HostIsSound(p) /\ SessionIsSound(s) /\ h.at = "deleting" /\ Over(s) /\ h.refs \subseteq ArtifactIds
      /\ h.copies = {} /\ h.session \in ArtifactSessions \cup {NoArtifactSession} /\ ~artifactJournal[s].exists
      /\ artifactJournal[s].refs = {}
  BY ArtifactTypings DEF ArtifactInv, DeleteFiles, HostIsSound, OpenIsSound, DeletionIsSound, SessionIsSound,
     Over
<1>2. \A q \in ArtifactProcs :
        artifactHost[q].session # s /\ (artifactHost[q].at = "forking" => artifactHost[q].target # s)
  BY <1>1, ArtifactAssumption DEF ArtifactInv, HostIsSound, OpenIsSound, ForkIsSound, Over
<1>3. /\ g \in HostRecords /\ artifactHost' = [artifactHost EXCEPT ![p] = g]
      /\ g.session = h.session /\ g.at = "idle" /\ g.refs = h.refs /\ g.copies = {}
      /\ g.running = h.running /\ g.pending = h.pending
  <2>1. artifactHost' = [artifactHost EXCEPT ![p] = g]
    BY <1>1 DEF DeleteFiles, ArtifactsTyped, HostRecords
  <2>. QED BY <1>1, <2>1, ArtifactAssumption DEF ArtifactsTyped, HostRecords
<1>4. /\ artifactDir' = [artifactDir EXCEPT ![s] = "none"] /\ artifactFile' = Removed(artifactFile, FilesOf(s))
      /\ artifactLife' = [artifactLife EXCEPT ![s] = "deleted"]
      /\ UNCHANGED <<artifactJournal, artifactSweep, artifactDays, overdue>>
  BY DEF DeleteFiles
<1>. HIDE DEF g
<1>5. artifactHost'[p] = g /\ artifactHost' \in [ArtifactProcs -> HostRecords] /\ OthersStay(p)
  BY <1>1, <1>3, <1>4, HostChanges
<1>6. /\ artifactFile' \in [ArtifactIds -> FileRecords] /\ FilesOf(s)' = {}
      /\ \A i \in ArtifactIds : FileMoves(i, s) /\ (i \in FilesOf(s) => artifactFile'[i].state = "removed")
  BY <1>1, <1>4, FilesGo
<1>7. /\ ArtifactsTyped' /\ artifactDir'[s] = "none" /\ artifactLife'[s] = "deleted"
      /\ \A t \in ArtifactSessions \ {s} : artifactDir'[t] = artifactDir[t] /\ artifactLife'[t] = artifactLife[t]
  BY <1>1, <1>4, <1>5, <1>6 DEF ArtifactsTyped
<1>8. SessionMoves(s)
  BY <1>1, <1>4, <1>6, <1>7 DEF SessionMoves, Over, FilesOf
<1>9. Moves(p, s)
  BY <1>2, <1>3, <1>4, <1>5, <1>6, <1>7, <1>8 DEF Moves
<1>10. SessionIsSound(s)'
  BY <1>1, <1>4, <1>6, <1>7 DEF SessionIsSound
<1>11. OpenIsSound(p)'
  BY <1>1, <1>2, <1>3, <1>4, <1>5, <1>6, <1>7 DEF HostIsSound, OpenIsSound, Stored, FileMoves
<1>. QED BY <1>1, <1>3, <1>4, <1>5, <1>7, <1>9, <1>10, <1>11, NoCleanup, HostRests


\* A day passes while nobody saves, copies, deletes or cleans up.
LEMMA DayPassesKeeps ==
  ASSUME ArtifactInv, DayPasses
  PROVE  ArtifactInv'
<1>1. ArtifactsTyped /\ OpenOnce /\ FilesAreHeld
  BY DEF ArtifactInv
<1>2. UNCHANGED <<artifactJournal, artifactHost, artifactSweep, artifactLife>>
  BY DEF DayPasses
<1>3. /\ \A t \in ArtifactSessions :
           artifactDir'[t] = IF artifactDir[t] = "fresh" THEN "aged" ELSE artifactDir[t]
      /\ \A i \in ArtifactIds : artifactFile'[i].of = artifactFile[i].of /\ artifactFile'[i].state = artifactFile[i].state
      /\ overdue \subseteq overdue'
      /\ \A q \in ArtifactProcs : artifactHost[q].pending => artifactHost[q].session \in overdue'
  BY <1>1 DEF DayPasses, ArtifactsTyped, FileRecords
<1>4. ArtifactsTyped'
  <2>1. artifactDays' \in 0..MaxDaysPassed
    BY <1>1, ArtifactAssumption DEF DayPasses, ArtifactsTyped
  <2>2. artifactFile' \in [ArtifactIds -> FileRecords]
    BY <1>1 DEF DayPasses, ArtifactsTyped, FileRecords
  <2>. QED BY <1>1, <1>2, <2>1, <2>2 DEF DayPasses, ArtifactsTyped
<1>5. ASSUME NEW q \in ArtifactProcs
      PROVE  HostIsSound(q)' /\ CleanupIsSound(q)'
  <2>1. /\ HostIsSound(q) /\ CleanupIsSound(q) /\ artifactHost[q].refs \subseteq ArtifactIds
        /\ artifactSweep[q].owed \subseteq ArtifactIds
        /\ artifactHost[q].session \in ArtifactSessions \cup {NoArtifactSession}
    BY <1>1, ArtifactTypings DEF ArtifactInv
  <2>2. artifactHost[q].at \in {"idle", "down"} /\ ~Sweeping(q)
    BY <2>1 DEF DayPasses, HostIsFree, CleanupIsSound, SweepIsSound, Sweeping
  <2>3. OpenIsSound(q)'
    BY <1>2, <1>3, <2>1, ArtifactAssumption DEF HostIsSound, OpenIsSound, Stored
  <2>4. SaveIsSound(q)' /\ ForkIsSound(q)' /\ DeletionIsSound(q)' /\ SweepIsSound(q)'
    BY <1>2, <2>2 DEF SaveIsSound, ForkIsSound, DeletionIsSound, SweepIsSound, Sweeping
  <2>5. OwedIsSound(q)'
    BY <1>2, <1>3, <2>1, <2>2 DEF CleanupIsSound, OwedIsSound, Owed, Sweeping
  <2>. QED BY <2>3, <2>4, <2>5 DEF HostIsSound, CleanupIsSound
<1>6. ASSUME NEW t \in ArtifactSessions PROVE SessionIsSound(t)'
  <2>1. SessionIsSound(t) /\ artifactJournal[t].refs \subseteq ArtifactIds
    BY <1>1, ArtifactTypings DEF ArtifactInv
  <2>. QED BY <1>2, <1>3, <2>1 DEF SessionIsSound, FilesOf, Stored
<1>7. OpenOnce' /\ FilesAreHeld'
  BY <1>1, <1>2, <1>3 DEF OpenOnce, FilesAreHeld
<1>. QED BY <1>4, <1>5, <1>6, <1>7 DEF ArtifactInv

LEMMA ArtifactStarts == ArtifactInit => ArtifactInv
<1>. SUFFICES ASSUME ArtifactInit PROVE ArtifactInv
  OBVIOUS
<1>1. ArtifactsTyped
  <2>1. artifactHost \in [ArtifactProcs -> HostRecords]
    BY DEF ArtifactInit, IdleHost, HostRecords
  <2>2. artifactSweep \in [ArtifactProcs -> SweepRecords]
    BY DEF ArtifactInit, IdleSweep, SweepRecords
  <2>. QED BY <2>1, <2>2, ArtifactAssumption DEF ArtifactInit, ArtifactsTyped, NoFile, FileRecords,
               JournalRecords
<1>2. OpenOnce /\ FilesAreHeld
  BY DEF ArtifactInit, OpenOnce, FilesAreHeld, IdleHost, NoFile
<1>3. ASSUME NEW p \in ArtifactProcs PROVE HostIsSound(p) /\ CleanupIsSound(p)
  BY DEF ArtifactInit, IdleHost, IdleSweep, HostIsSound, OpenIsSound, SaveIsSound, ForkIsSound, DeletionIsSound,
         CleanupIsSound, SweepIsSound, Sweeping, OwedIsSound
<1>4. ASSUME NEW s \in ArtifactSessions PROVE SessionIsSound(s)
  BY DEF ArtifactInit, SessionIsSound, FilesOf, NoFile
<1>. QED BY <1>1, <1>2, <1>3, <1>4 DEF ArtifactInv

LEMMA ArtifactInvStutters == ArtifactInv /\ UNCHANGED artifactVars => ArtifactInv'
<1>. SUFFICES ASSUME ArtifactInv, UNCHANGED artifactVars PROVE ArtifactInv'
  OBVIOUS
<1>. USE DEF ArtifactInv, artifactVars
<1>1. ArtifactsTyped' /\ OpenOnce' /\ FilesAreHeld'
  BY DEF ArtifactsTyped, OpenOnce, FilesAreHeld
<1>2. ASSUME NEW p \in ArtifactProcs PROVE HostIsSound(p)' /\ CleanupIsSound(p)'
  <2>1. OpenIsSound(p)' /\ SaveIsSound(p)'
    BY DEF HostIsSound, OpenIsSound, SaveIsSound, Stored
  <2>2. ForkIsSound(p)' /\ DeletionIsSound(p)'
    BY DEF HostIsSound, ForkIsSound, Stored, DeletionIsSound, Over
  <2>3. SweepIsSound(p)'
    BY DEF CleanupIsSound, SweepIsSound, Sweeping, Over
  <2>4. OwedIsSound(p)'
    BY DEF CleanupIsSound, OwedIsSound, Owed
  <2>. QED BY <2>1, <2>2, <2>3, <2>4 DEF HostIsSound, CleanupIsSound
<1>3. ASSUME NEW s \in ArtifactSessions PROVE SessionIsSound(s)'
  BY DEF SessionIsSound, FilesOf, Stored
<1>. QED BY <1>1, <1>2, <1>3

LEMMA ArtifactSteps == ArtifactInv /\ [ArtifactNext]_artifactVars => ArtifactInv'
<1>. SUFFICES ASSUME ArtifactInv, ArtifactNext PROVE ArtifactInv'
  BY ArtifactInvStutters
<1>1. CASE DayPasses
  BY <1>1, DayPassesKeeps
<1>2. ASSUME NEW p \in ArtifactProcs,
             \/ SweepStarts(p) \/ SweepLists(p) \/ SweepFiles(p) \/ SweepEnds(p)
             \/ LeaveSession(p) \/ EndsRun(p) \/ ArtifactCrash(p) \/ ForkEnds(p)
      PROVE  ArtifactInv'
  BY <1>2, SweepStartsKeeps, SweepListsKeeps, SweepFilesKeeps, SweepEndsKeeps, LeaveSessionKeeps,
     EndsRunKeeps, ArtifactCrashKeeps, ForkEndsKeeps
<1>3. ASSUME NEW p \in ArtifactProcs, NEW s \in ArtifactSessions,
             \/ SweepDirectory(p, s) \/ SweepReads(p, s) \/ OpenSession(p, s) \/ ForkBegins(p, s)
             \/ DeleteJournal(p, s)
      PROVE  ArtifactInv'
  BY <1>3, SweepDirectoryKeeps, SweepLeavesDirectory, SweepReadsKeeps, OpenSessionKeeps, ForkBeginsKeeps,
     DeleteJournalKeeps
<1>4. \A p \in ArtifactProcs :
        HostIsSound(p) /\ artifactHost[p].session \in ArtifactSessions \cup {NoArtifactSession}
  BY ArtifactTypings DEF ArtifactInv
<1>5. ASSUME NEW p \in ArtifactProcs, NEW ok \in BOOLEAN,
             StartsRun(p) \/ SaveOpens(p) \/ SaveWrites(p, ok) \/ SaveIsDiscarded(p) \/ ResultCommitted(p, ok)
      PROVE  ArtifactInv'
  <2>1. artifactHost[p].session \in ArtifactSessions
    BY <1>4, <1>5 DEF HostIsSound, OpenIsSound, SaveIsSound, StartsRun, SaveOpens, SaveWrites,
       SaveIsDiscarded, ResultCommitted
  <2>2. CASE StartsRun(p) \/ SaveOpens(p) \/ SaveWrites(p, ok) \/ SaveIsDiscarded(p)
    BY <2>1, <2>2, StartsRunKeeps, SaveOpensKeeps, SaveEnds
  <2>3. CASE ResultCommitted(p, TRUE)
    BY <2>1, <2>3, ResultIsCommitted
  <2>4. CASE ResultCommitted(p, FALSE)
    BY <2>4, ResultIsLost
  <2>. QED BY <1>5, <2>2, <2>3, <2>4
<1>6. ASSUME NEW p \in ArtifactProcs, NEW ok \in BOOLEAN, ForkCopies(p) \/ ForkFails(p, ok) \/ DeleteFiles(p, ok)
      PROVE  ArtifactInv'
  <2>1. artifactHost[p].target \in ArtifactSessions
    BY <1>4, <1>6 DEF HostIsSound, ForkIsSound, DeletionIsSound, ForkCopies, ForkFails, DeleteFiles
  <2>2. CASE ForkCopies(p)
    BY <2>1, <2>2, ForkCopiesKeeps
  <2>3. CASE ForkFails(p, TRUE) \/ DeleteFiles(p, TRUE)
    BY <2>1, <2>3, ForkIsRolledBack, FilesAreDeleted
  <2>4. CASE ForkFails(p, FALSE) \/ DeleteFiles(p, FALSE)
    BY <2>4, ForkIsLeft, FilesAreLeft
  <2>. QED BY <1>6, <2>2, <2>3, <2>4
<1>. QED BY <1>1, <1>2, <1>3, <1>5, <1>6 DEF ArtifactNext

LEMMA ArtifactInvSuffices == ArtifactInv => ArtifactsAreSafe
<1>. SUFFICES ASSUME ArtifactInv PROVE ArtifactsAreSafe
  OBVIOUS
<1>1. ArtifactTypeOK
  BY DEF ArtifactInv, ArtifactsTyped, ArtifactTypeOK, HostRecords, SweepRecords, FileRecords, JournalRecords
<1>2. LocatorsResolve
  BY DEF ArtifactInv, HostIsSound, OpenIsSound, SessionIsSound, LocatorsResolve
<1>3. ASSUME NEW p \in ArtifactProcs, artifactSweep[p].at = "done", NEW i \in artifactSweep[p].owed
      PROVE  artifactFile[i].state = "removed" \/ artifactFile[i].of \in overdue
  <2>1. OwedIsSound(p)
    BY DEF ArtifactInv, CleanupIsSound
  <2>. QED BY <1>3, <2>1 DEF OwedIsSound, Owed
<1>4. \A s \in ArtifactSessions : artifactLife[s] = "deleted" => FilesOf(s) = {}
  BY DEF ArtifactInv, SessionIsSound
<1>. QED BY <1>1, <1>2, <1>3, <1>4 DEF ArtifactsAreSafe, OrphansAreCollected

\* The artifacts that sessions rely on stay, and the others do not.
THEOREM ArtifactsAreAlwaysSafe == ArtifactSpec => []ArtifactsAreSafe
<1>1. ArtifactSpec => []ArtifactInv
  BY ArtifactStarts, ArtifactSteps, PTL DEF ArtifactSpec
<1>. QED BY <1>1, ArtifactInvSuffices, PTL
====
