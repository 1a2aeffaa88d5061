------------------------ MODULE SteeringQueueProofs ------------------------
(***************************************************************************)
(* Proofs about SteeringQueue for any set of inputs: nothing offered is    *)
(* lost or duplicated, consume() always finds the item it journaled,       *)
(* steer() callers are told the truth, and the queue implements the        *)
(* delivery contract.                                                      *)
(***************************************************************************)
EXTENDS SteeringQueue, SequenceTheorems, FiniteSetTheorems, TLAPS

-----------------------------------------------------------------------------
(* Lemmas about lanes. *)

\* Membership in a lane, by index.
LEMMA InLane ==
  ASSUME NEW S, NEW s \in Seq(S), NEW e
  PROVE  e \in ToSet(s) <=> \E k \in 1..Len(s) : s[k] = e
BY LenProperties DEF ToSet

\* The members of a lane are what it is a sequence of.
LEMMA LaneMembers ==
  ASSUME NEW S, NEW s \in Seq(S)
  PROVE  ToSet(s) \subseteq S
BY LenProperties, ElementOfSeq DEF ToSet

\* A lane without duplicates, by index.
LEMMA NoDuplicates ==
  ASSUME NEW S, NEW s \in Seq(S)
  PROVE  IsInjective(s) <=> \A a, b \in 1..Len(s) : s[a] = s[b] => a = b
BY LenProperties DEF IsInjective

\* Appending a new item keeps a lane free of duplicates and adds that item.
LEMMA AppendLane ==
  ASSUME NEW S, NEW s \in Seq(S), NEW e \in S
  PROVE  /\ Append(s, e) \in Seq(S)
         /\ ToSet(Append(s, e)) = ToSet(s) \cup {e}
         /\ IsInjective(s) /\ e \notin ToSet(s) => IsInjective(Append(s, e))
         /\ Append(s, e) # <<>>
         /\ s # <<>> => Head(Append(s, e)) = Head(s)
<1> DEFINE t == Append(s, e)
<1>1. /\ t \in Seq(S) /\ t # <<>>
      /\ Len(t) = Len(s) + 1
      /\ \A k \in 1..Len(s) : t[k] = s[k]
      /\ t[Len(s) + 1] = e
  BY AppendProperties
<1>2. Len(s) \in Nat
  BY LenProperties
<1>3. ToSet(t) = ToSet(s) \cup {e}
  <2>1. ASSUME NEW x PROVE x \in ToSet(t) <=> x \in ToSet(s) \/ x = e
    <3>1. x \in ToSet(t) <=> \E k \in 1..Len(t) : t[k] = x
      BY <1>1, InLane
    <3>2. x \in ToSet(s) <=> \E k \in 1..Len(s) : s[k] = x
      BY InLane
    <3> HIDE DEF t
    <3> QED BY <1>1, <1>2, <3>1, <3>2
  <2> QED BY <2>1
<1>4. ASSUME IsInjective(s), e \notin ToSet(s) PROVE IsInjective(t)
  <2>1. \A a, b \in 1..Len(s) : s[a] = s[b] => a = b
    BY <1>4, NoDuplicates
  <2>2. \A k \in 1..Len(s) : s[k] # e
    BY <1>4, InLane
  <2>3. \A a, b \in 1..Len(t) : t[a] = t[b] => a = b
    <3> HIDE DEF t
    <3> QED BY <1>1, <1>2, <2>1, <2>2
  <2> QED BY <1>1, <2>3, NoDuplicates
<1>5. s # <<>> => Head(t) = Head(s)
  BY HeadTailAppend
<1> QED BY <1>1, <1>3, <1>4, <1>5

\* The tail of a lane without duplicates lacks exactly the head.
LEMMA TailLane ==
  ASSUME NEW S, NEW s \in Seq(S), s # <<>>, IsInjective(s)
  PROVE  /\ Tail(s) \in Seq(S)
         /\ Head(s) \in ToSet(s)
         /\ Head(s) \in S
         /\ IsInjective(Tail(s))
         /\ ToSet(Tail(s)) = ToSet(s) \ {Head(s)}
<1> DEFINE t == Tail(s)
<1>1. /\ t \in Seq(S) /\ Head(s) \in S
      /\ Len(t) = Len(s) - 1
      /\ \A k \in 1..Len(t) : t[k] = s[k + 1]
  BY HeadTailProperties
<1>2. Len(s) \in Nat \ {0}
  BY EmptySeq
<1>3. Head(s) = s[1]
  BY <1>2
<1>4. \A a, b \in 1..Len(s) : s[a] = s[b] => a = b
  BY NoDuplicates
<1>5. Head(s) \in ToSet(s)
  BY <1>2, <1>3, InLane
<1> HIDE DEF t
<1>6. \A a, b \in 1..Len(t) : t[a] = t[b] => a = b
  BY <1>1, <1>2, <1>4
<1>7. ASSUME NEW x PROVE x \in ToSet(t) <=> x \in ToSet(s) /\ x # Head(s)
  <2>1. x \in ToSet(t) <=> \E k \in 1..Len(t) : t[k] = x
    BY <1>1, InLane
  <2>2. x \in ToSet(s) <=> \E k \in 1..Len(s) : s[k] = x
    BY InLane
  <2>3. ASSUME NEW k \in 1..Len(t), t[k] = x PROVE x \in ToSet(s) /\ x # Head(s)
    <3>1. k + 1 \in 1..Len(s) /\ k + 1 # 1 /\ 1 \in 1..Len(s)
      BY <1>1, <1>2
    <3> QED BY <1>1, <1>3, <1>4, <2>2, <2>3, <3>1
  <2>4. ASSUME NEW k \in 1..Len(s), s[k] = x, x # Head(s)
        PROVE  \E j \in 1..Len(t) : t[j] = x
    <3>1. k # 1
      BY <1>3, <2>4
    <3>2. k - 1 \in 1..Len(t) /\ (k - 1) + 1 = k
      BY <1>1, <1>2, <3>1
    <3> QED BY <1>1, <2>4, <3>2
  <2> QED BY <2>1, <2>2, <2>3, <2>4
<1>8. ToSet(t) = ToSet(s) \ {Head(s)}
  BY <1>7
<1>9. IsInjective(t)
  BY <1>1, <1>6, NoDuplicates
<1> QED BY <1>1, <1>5, <1>8, <1>9 DEF t

\* Two lanes without common items concatenate to a lane without duplicates.
LEMMA ConcatLane ==
  ASSUME NEW S, NEW s \in Seq(S), NEW t \in Seq(S)
  PROVE  /\ s \o t \in Seq(S)
         /\ ToSet(s \o t) = ToSet(s) \cup ToSet(t)
         /\ IsInjective(s) /\ IsInjective(t) /\ ToSet(s) \cap ToSet(t) = {}
              => IsInjective(s \o t)
<1> DEFINE c == s \o t
<1>1. /\ c \in Seq(S)
      /\ Len(c) = Len(s) + Len(t)
      /\ \A k \in 1..(Len(s) + Len(t)) :
           c[k] = IF k <= Len(s) THEN s[k] ELSE t[k - Len(s)]
  BY ConcatProperties
<1>2. Len(s) \in Nat /\ Len(t) \in Nat
  BY LenProperties
<1> HIDE DEF c
<1>3. ASSUME NEW x PROVE x \in ToSet(c) <=> x \in ToSet(s) \/ x \in ToSet(t)
  <2>1. /\ x \in ToSet(c) <=> \E k \in 1..Len(c) : c[k] = x
        /\ x \in ToSet(s) <=> \E k \in 1..Len(s) : s[k] = x
        /\ x \in ToSet(t) <=> \E k \in 1..Len(t) : t[k] = x
    BY <1>1, InLane
  <2>2. ASSUME NEW k \in 1..Len(c), c[k] = x PROVE x \in ToSet(s) \/ x \in ToSet(t)
    <3>1. CASE k <= Len(s)
      BY <1>1, <1>2, <2>1, <2>2, <3>1
    <3>2. CASE k > Len(s)
      <4>1. k - Len(s) \in 1..Len(t)
        BY <1>1, <1>2, <3>2
      <4> QED BY <1>1, <1>2, <2>1, <2>2, <3>2, <4>1
    <3> QED BY <1>1, <1>2, <3>1, <3>2
  <2>3. ASSUME NEW k \in 1..Len(s), s[k] = x PROVE \E j \in 1..Len(c) : c[j] = x
    BY <1>1, <1>2, <2>3
  <2>4. ASSUME NEW k \in 1..Len(t), t[k] = x PROVE \E j \in 1..Len(c) : c[j] = x
    <3>1. /\ k + Len(s) \in 1..Len(c) /\ ~(k + Len(s) <= Len(s))
          /\ (k + Len(s)) - Len(s) = k
      BY <1>1, <1>2
    <3> QED BY <1>1, <2>4, <3>1
  <2> QED BY <2>1, <2>2, <2>3, <2>4
<1>4. ASSUME IsInjective(s), IsInjective(t), ToSet(s) \cap ToSet(t) = {}
      PROVE  IsInjective(c)
  <2>1. /\ \A a, b \in 1..Len(s) : s[a] = s[b] => a = b
        /\ \A a, b \in 1..Len(t) : t[a] = t[b] => a = b
    BY <1>4, NoDuplicates
  <2>2. \A a \in 1..Len(s), b \in 1..Len(t) : s[a] # t[b]
    BY <1>4, InLane
  <2>3. ASSUME NEW a \in 1..Len(c), NEW b \in 1..Len(c), c[a] = c[b] PROVE a = b
    <3>1. CASE a <= Len(s) /\ b <= Len(s)
      BY <1>1, <1>2, <2>1, <2>3, <3>1
    <3>2. CASE a > Len(s) /\ b > Len(s)
      <4>1. a - Len(s) \in 1..Len(t) /\ b - Len(s) \in 1..Len(t)
        BY <1>1, <1>2, <3>2
      <4>2. t[a - Len(s)] = t[b - Len(s)]
        BY <1>1, <1>2, <2>3, <3>2
      <4> QED BY <1>2, <2>1, <4>1, <4>2
    <3>3. CASE a <= Len(s) /\ b > Len(s)
      <4>1. a \in 1..Len(s) /\ b - Len(s) \in 1..Len(t)
        BY <1>1, <1>2, <3>3
      <4> QED BY <1>1, <1>2, <2>2, <2>3, <3>3, <4>1, SMTT(30)
    <3>4. CASE a > Len(s) /\ b <= Len(s)
      <4>1. b \in 1..Len(s) /\ a - Len(s) \in 1..Len(t)
        BY <1>1, <1>2, <3>4
      <4> QED BY <1>1, <1>2, <2>2, <2>3, <3>4, <4>1
    <3> QED BY <1>1, <1>2, <3>1, <3>2, <3>3, <3>4
  <2> QED BY <1>1, <2>3, NoDuplicates
<1>5. ToSet(c) = ToSet(s) \cup ToSet(t)
  BY <1>3
<1> QED BY <1>1, <1>4, <1>5 DEF c

\* Without an item that is in it, a lane is the same items in the same order,
\* the later ones moved up by one.
LEMMA WithoutIndexes ==
  ASSUME NEW S, NEW s \in Seq(S), NEW e, \E k \in DOMAIN s : s[k] = e
  PROVE  \E p \in 1..Len(s) :
           /\ s[p] = e
           /\ Without(s, e) \in Seq(S)
           /\ Len(Without(s, e)) = Len(s) - 1
           /\ \A k \in 1..(Len(s) - 1) :
                Without(s, e)[k] = IF k < p THEN s[k] ELSE s[k + 1]
<1> DEFINE p == CHOOSE k \in DOMAIN s : s[k] = e
           w == Without(s, e)
           l == SubSeq(s, 1, p - 1)
           r == SubSeq(s, p + 1, Len(s))
<1>1. w = l \o r
  BY DEF Without, RemoveAt
<1>2. p \in 1..Len(s) /\ s[p] = e /\ Len(s) \in Nat \ {0}
  BY LenProperties
<1>4. \A k \in 1..Len(s) : s[k] \in S
  BY ElementOfSeq
<1> HIDE DEF p
<1>5. /\ l \in Seq(S) /\ Len(l) = p - 1
      /\ \A k \in 1..(p - 1) : l[k] = s[k]
  <2>1. /\ 1 \in Int /\ p - 1 \in Int /\ \A k \in 1..(p - 1) : s[k] \in S
    BY <1>2, <1>4
  <2>2. /\ SubSeq(s, 1, p - 1) \in Seq(S)
        /\ Len(SubSeq(s, 1, p - 1)) = IF 1 <= p - 1 THEN p - 1 - 1 + 1 ELSE 0
        /\ \A k \in 1..(p - 1 - 1 + 1) : SubSeq(s, 1, p - 1)[k] = s[1 + k - 1]
    BY <2>1, SubSeqProperties
  <2> QED BY <1>2, <2>2
<1>6. /\ r \in Seq(S) /\ Len(r) = Len(s) - p
      /\ \A k \in 1..(Len(s) - p) : r[k] = s[p + k]
  <2>1. /\ p + 1 \in Int /\ Len(s) \in Int /\ \A k \in (p + 1)..Len(s) : s[k] \in S
    BY <1>2, <1>4
  <2>2. /\ SubSeq(s, p + 1, Len(s)) \in Seq(S)
        /\ Len(SubSeq(s, p + 1, Len(s)))
             = IF p + 1 <= Len(s) THEN Len(s) - (p + 1) + 1 ELSE 0
        /\ \A k \in 1..(Len(s) - (p + 1) + 1) :
             SubSeq(s, p + 1, Len(s))[k] = s[(p + 1) + k - 1]
    BY <2>1, SubSeqProperties
  <2> QED BY <1>2, <2>2
<1> HIDE DEF l, r
<1>7. /\ w \in Seq(S) /\ Len(w) = Len(s) - 1
      /\ \A k \in 1..(Len(s) - 1) : w[k] = IF k < p THEN s[k] ELSE s[k + 1]
  <2>1. /\ l \o r \in Seq(S) /\ Len(l \o r) = Len(l) + Len(r)
        /\ \A k \in 1..(Len(l) + Len(r)) :
             (l \o r)[k] = IF k <= Len(l) THEN l[k] ELSE r[k - Len(l)]
    BY <1>5, <1>6, ConcatProperties
  <2>2. Len(l) + Len(r) = Len(s) - 1
    BY <1>2, <1>5, <1>6
  <2>3. ASSUME NEW k \in 1..(Len(s) - 1)
        PROVE  (l \o r)[k] = IF k < p THEN s[k] ELSE s[k + 1]
    <3>1. CASE k < p
      BY <1>2, <1>5, <2>1, <2>2, <3>1
    <3>2. CASE k >= p
      <4>1. (l \o r)[k] = r[k - (p - 1)]
        BY <1>2, <1>5, <2>1, <2>2, <3>2
      <4>2. k - (p - 1) \in 1..(Len(s) - p) /\ p + (k - (p - 1)) = k + 1
        BY <1>2, <3>2
      <4>3. r[k - (p - 1)] = s[k + 1]
        BY <1>6, <4>2
      <4> QED BY <1>2, <3>2, <4>1, <4>3
    <3>3. k < p \/ k >= p
      BY <1>2
    <3> QED BY <3>1, <3>2, <3>3
  <2> HIDE DEF w
  <2> QED BY <1>1, <2>1, <2>2, <2>3
<1> HIDE DEF w
<1>8. \E q \in 1..Len(s) :
        /\ s[q] = e /\ w \in Seq(S) /\ Len(w) = Len(s) - 1
        /\ \A k \in 1..(Len(s) - 1) : w[k] = IF k < q THEN s[k] ELSE s[k + 1]
  BY <1>2, <1>7
<1> QED BY <1>8 DEF w

\* Removing an item leaves the order of the others.
LEMMA WithoutKeepsOrder ==
  ASSUME NEW S, NEW s \in Seq(S), NEW e,
         NEW j \in DOMAIN Without(s, e), NEW k \in DOMAIN Without(s, e), j < k
  PROVE  \E m, n \in DOMAIN s :
           m < n /\ s[m] = Without(s, e)[j] /\ s[n] = Without(s, e)[k]
<1> DEFINE w == Without(s, e)
<1>1. CASE ~ \E i \in DOMAIN s : s[i] = e
  BY <1>1 DEF Without
<1>2. CASE \E i \in DOMAIN s : s[i] = e
  <2>1. PICK p \in 1..Len(s) :
          /\ w \in Seq(S) /\ Len(w) = Len(s) - 1
          /\ \A i \in 1..(Len(s) - 1) : w[i] = IF i < p THEN s[i] ELSE s[i + 1]
    BY <1>2, WithoutIndexes
  <2> HIDE DEF w
  <2>2. /\ j \in 1..(Len(s) - 1) /\ k \in 1..(Len(s) - 1)
        /\ DOMAIN s = 1..Len(s) /\ Len(s) \in Nat
    BY <2>1, LenProperties DEF w
  <2>3. \E m, n \in DOMAIN s : m < n /\ s[m] = w[j] /\ s[n] = w[k]
    <3>1. CASE k < p
      BY <2>1, <2>2, <3>1, SMTT(30)
    <3>2. CASE j < p /\ ~(k < p)
      <4>1. /\ j \in DOMAIN s /\ k + 1 \in DOMAIN s /\ j < k + 1
            /\ s[j] = w[j] /\ s[k + 1] = w[k]
        BY <2>1, <2>2, <3>2
      <4> QED BY <4>1
    <3>3. CASE ~(j < p)
      <4>1. /\ j + 1 \in DOMAIN s /\ k + 1 \in DOMAIN s /\ j + 1 < k + 1
            /\ ~(k < p)
        BY <2>1, <2>2, <3>3
      <4>2. s[j + 1] = w[j] /\ s[k + 1] = w[k]
        BY <2>1, <2>2, <3>3, <4>1
      <4> QED BY <4>1, <4>2
    <3> QED BY <3>1, <3>2, <3>3
  <2> QED BY <2>3 DEF w
<1> QED BY <1>1, <1>2

\* Removing an item from a lane without duplicates removes it and nothing
\* else; the head stays unless it is the item.
LEMMA WithoutLane ==
  ASSUME NEW S, NEW s \in Seq(S), IsInjective(s), NEW e
  PROVE  /\ Without(s, e) \in Seq(S)
         /\ IsInjective(Without(s, e))
         /\ ToSet(Without(s, e)) = ToSet(s) \ {e}
         /\ s # <<>> /\ Head(s) # e =>
              Without(s, e) # <<>> /\ Head(Without(s, e)) = Head(s)
<1>1. CASE ~ \E k \in DOMAIN s : s[k] = e
  <2>1. Without(s, e) = s
    BY <1>1 DEF Without
  <2>2. e \notin ToSet(s)
    BY <1>1 DEF ToSet
  <2> QED BY <2>1, <2>2
<1>2. CASE \E k \in DOMAIN s : s[k] = e
  <2> DEFINE w == Without(s, e)
  <2>1. PICK p \in 1..Len(s) :
          /\ s[p] = e
          /\ w \in Seq(S) /\ Len(w) = Len(s) - 1
          /\ \A k \in 1..(Len(s) - 1) : w[k] = IF k < p THEN s[k] ELSE s[k + 1]
    BY <1>2, WithoutIndexes
  <2>2. p \in 1..Len(s) /\ s[p] = e /\ Len(s) \in Nat \ {0}
    BY <2>1, LenProperties
  <2>3. \A a, b \in 1..Len(s) : s[a] = s[b] => a = b
    BY NoDuplicates
  <2>7. /\ w \in Seq(S) /\ Len(w) = Len(s) - 1
        /\ \A k \in 1..(Len(s) - 1) : w[k] = IF k < p THEN s[k] ELSE s[k + 1]
    BY <2>1
  <2> HIDE DEF w
  <2>8. IsInjective(w)
    <3>1. ASSUME NEW a \in 1..Len(w), NEW b \in 1..Len(w), w[a] = w[b] PROVE a = b
      <4>1. /\ w[a] = IF a < p THEN s[a] ELSE s[a + 1]
            /\ w[b] = IF b < p THEN s[b] ELSE s[b + 1]
            /\ a \in 1..Len(s) /\ a + 1 \in 1..Len(s)
            /\ b \in 1..Len(s) /\ b + 1 \in 1..Len(s)
        BY <2>2, <2>7
      <4>2. CASE a < p /\ b < p
        BY <2>3, <3>1, <4>1, <4>2
      <4>3. CASE ~(a < p) /\ ~(b < p)
        <5>1. a + 1 = b + 1
          BY <2>3, <3>1, <4>1, <4>3
        <5> QED BY <2>7, <5>1
      <4>4. CASE a < p /\ ~(b < p)
        <5>1. a = b + 1
          BY <2>3, <3>1, <4>1, <4>4
        <5> QED BY <2>2, <4>1, <4>4, <5>1
      <4>5. CASE ~(a < p) /\ b < p
        <5>1. a + 1 = b
          BY <2>3, <3>1, <4>1, <4>5
        <5> QED BY <2>2, <4>1, <4>5, <5>1
      <4> QED BY <4>2, <4>3, <4>4, <4>5
    <3> QED BY <2>7, <3>1, NoDuplicates
  <2>9. ASSUME NEW x PROVE x \in ToSet(w) <=> x \in ToSet(s) /\ x # e
    <3>1. /\ x \in ToSet(w) <=> \E k \in 1..Len(w) : w[k] = x
          /\ x \in ToSet(s) <=> \E k \in 1..Len(s) : s[k] = x
      BY <2>7, InLane
    <3>2. ASSUME NEW k \in 1..Len(w), w[k] = x PROVE x \in ToSet(s) /\ x # e
      <4>1. /\ w[k] = IF k < p THEN s[k] ELSE s[k + 1]
            /\ k \in 1..Len(s) /\ k + 1 \in 1..Len(s)
        BY <2>2, <2>7
      <4> QED BY <2>2, <2>3, <3>1, <3>2, <4>1
    <3>3. ASSUME NEW k \in 1..Len(s), s[k] = x, x # e
          PROVE  \E j \in 1..Len(w) : w[j] = x
      <4>1. k # p
        BY <2>2, <3>3
      <4>2. CASE k < p
        <5>1. k \in 1..(Len(s) - 1)
          BY <2>2, <4>2
        <5> QED BY <2>7, <3>3, <4>2, <5>1
      <4>3. CASE k > p
        <5>1. k - 1 \in 1..(Len(s) - 1) /\ ~(k - 1 < p) /\ (k - 1) + 1 = k
          BY <2>2, <4>3
        <5> QED BY <2>7, <3>3, <5>1
      <4> QED BY <2>2, <4>1, <4>2, <4>3
    <3> QED BY <3>1, <3>2, <3>3
  <2>10. ASSUME s # <<>>, Head(s) # e PROVE w # <<>> /\ Head(w) = Head(s)
    <3>1. Head(s) = s[1] /\ p # 1
      BY <2>2, <2>10
    <3>2. 1 \in 1..Len(w) /\ w[1] = s[1]
      BY <2>2, <2>7, <3>1
    <3>3. w # <<>>
      BY <3>2, EmptySeq
    <3> QED BY <2>7, <3>1, <3>2, <3>3
  <2>11. ToSet(w) = ToSet(s) \ {e}
    BY <2>9
  <2> QED BY <2>7, <2>8, <2>10, <2>11 DEF w
<1> QED BY <1>1, <1>2

\* Nothing of a lane is kept when no item of it is to be preserved.
LEMMA KeptNone ==
  ASSUME NEW S, NEW s \in Seq(S), NEW T, ToSet(s) \cap T = {}
  PROVE  Kept(s, T) = <<>>
<1>1. {k \in DOMAIN s : s[k] \in T} = {}
  BY DEF ToSet
<1>2. 1..Cardinality({}) = {}
  BY FS_EmptySet
<1>3. ItemsAt(s, {}) = <<>>
  BY <1>2 DEF ItemsAt
<1> QED BY <1>1, <1>3 DEF Kept

\* Exactly the head of a lane is kept when only it is to be preserved.
LEMMA KeptHead ==
  ASSUME NEW S, NEW s \in Seq(S), s # <<>>, IsInjective(s)
  PROVE  Kept(s, {Head(s)}) = <<Head(s)>>
<1>1. Len(s) \in Nat \ {0} /\ Head(s) = s[1] /\ DOMAIN s = 1..Len(s)
  BY EmptySeq, LenProperties
<1>2. {k \in DOMAIN s : s[k] \in {Head(s)}} = {1}
  BY <1>1, NoDuplicates
<1>3. Cardinality({1}) = 1
  BY FS_Singleton, Zenon
<1>4. {m \in {1} : m <= 1} = {1} /\ 1..1 = {1}
  OBVIOUS
<1>5. Nth({1}, 1) = 1
  BY <1>3, <1>4 DEF Nth
<1>6. ItemsAt(s, {1}) = <<s[1]>>
  BY <1>3, <1>4, <1>5 DEF ItemsAt
<1> QED BY <1>1, <1>2, <1>6 DEF Kept

\* The empty lane and the lane of one item.
LEMMA SmallLanes ==
  ASSUME NEW S, NEW e \in S
  PROVE  /\ <<>> \in Seq(S) /\ ToSet(<<>>) = {} /\ IsInjective(<<>>)
         /\ <<e>> \in Seq(S) /\ ToSet(<<e>>) = {e} /\ IsInjective(<<e>>)
         /\ <<e>> # <<>> /\ Head(<<e>>) = e
<1>1. <<>> \in Seq(S) /\ Len(<<>>) = 0 /\ <<e>> \in Seq(S) /\ Len(<<e>>) = 1
  OBVIOUS
<1>2. /\ ToSet(<<>>) = {} /\ IsInjective(<<>>)
      /\ ToSet(<<e>>) = {e} /\ IsInjective(<<e>>)
  BY DEF ToSet, IsInjective
<1> QED BY <1>1, <1>2

-----------------------------------------------------------------------------
(* The inductive invariant. *)

\* Nobody asked about an input that was never offered, and the caller of an
\* input that waits in the next-step lane has not been answered yet.
NotAnsweredYet ==
  \A i \in Inputs : /\ fate[i] = "new" => promise[i] = "none"
                    /\ i \in ToSet(nextStep) => promise[i] # "deferred"

QueueInv ==
  /\ QueueTypeOK
  /\ Conserved
  /\ ClaimFindsItsItem
  /\ WaitersAreQueued
  /\ OutcomeIsTruthful
  /\ NotAnsweredYet

\* What the invariant says of the reserved item.
LEMMA ReservedIsHead ==
  ASSUME QueueInv, NEW i \in committing
  PROVE  /\ nextStep # <<>> /\ i = Head(nextStep) /\ committing = {i}
         /\ i \in Inputs /\ i \in ToSet(nextStep) /\ i \notin ToSet(nextTurn)
         /\ fate[i] = "queued"
<1>1. nextStep # <<>> /\ i = Head(nextStep) /\ committing = {i}
  BY DEF QueueInv, ClaimFindsItsItem
<1>2. i \in ToSet(nextStep) /\ i \in Inputs
  BY <1>1, TailLane DEF QueueInv, QueueTypeOK, Conserved, LanesDistinct
<1> QED BY <1>1, <1>2 DEF QueueInv, Conserved, LanesDistinct, Pending

\* The queue starts in the invariant.
LEMMA InitHolds == QueueInit => QueueInv
<1> SUFFICES ASSUME QueueInit PROVE QueueInv
  OBVIOUS
<1>1. <<>> \in Seq(Inputs) /\ ToSet(<<>>) = {} /\ IsInjective(<<>>)
  BY DEF ToSet, IsInjective
<1> QED BY <1>1 DEF QueueInit, QueueInv, QueueTypeOK, Conserved, LanesDistinct,
      Pending, ClaimFindsItsItem, WaitersAreQueued, OutcomeIsTruthful,
      NotAnsweredYet, Promises, Fates, Snapshot

\* A new item is appended to the next-step lane, with or without a caller.
LEMMA OfferStepHolds ==
  ASSUME QueueInv, NEW i \in Inputs, EnqueueStep(i) \/ SteerIntoRun(i)
  PROVE  QueueInv'
<1>1. i \notin ToSet(nextStep) /\ i \notin ToSet(nextTurn)
  BY DEF QueueInv, Conserved, Pending, EnqueueStep, SteerIntoRun
<1>2. /\ nextStep' \in Seq(Inputs) /\ IsInjective(nextStep')
      /\ ToSet(nextStep') = ToSet(nextStep) \cup {i}
      /\ nextStep' # <<>> /\ (nextStep # <<>> => Head(nextStep') = Head(nextStep))
  <2>1. /\ nextStep' = Append(nextStep, i)
        /\ nextStep \in Seq(Inputs) /\ IsInjective(nextStep)
    BY DEF EnqueueStep, SteerIntoRun, QueueInv, QueueTypeOK, Conserved, LanesDistinct
  <2> QED BY <1>1, <2>1, AppendLane
<1>3. nextTurn' = nextTurn /\ committing' = committing
  BY DEF EnqueueStep, SteerIntoRun
<1>4. QueueTypeOK'
  <2>1. view' = Snapshot(nextStep', nextTurn') /\ nextTurn' \in Seq(Inputs)
    BY <1>3 DEF EnqueueStep, SteerIntoRun, Changed, QueueInv, QueueTypeOK
  <2>2. view' \in [nextStep : Seq(Inputs), nextTurn : Seq(Inputs)]
    BY <1>2, <2>1 DEF Snapshot
  <2>3. promise' \in [Inputs -> Promises] /\ fate' \in [Inputs -> Fates]
    BY DEF EnqueueStep, SteerIntoRun, QueueInv, QueueTypeOK, Promises, Fates
  <2> QED BY <1>2, <1>3, <2>1, <2>2, <2>3 DEF QueueInv, QueueTypeOK
<1>5. Conserved' /\ ClaimFindsItsItem'
  BY <1>1, <1>2, <1>3 DEF EnqueueStep, SteerIntoRun, QueueInv, QueueTypeOK,
     Conserved, LanesDistinct, Pending, ClaimFindsItsItem
<1>6. WaitersAreQueued' /\ OutcomeIsTruthful' /\ NotAnsweredYet'
  BY <1>2 DEF EnqueueStep, SteerIntoRun, QueueInv, QueueTypeOK,
     WaitersAreQueued, OutcomeIsTruthful, NotAnsweredYet
<1> QED BY <1>4, <1>5, <1>6 DEF QueueInv

\* A new item is appended to the next-turn lane.
LEMMA OfferTurnHolds ==
  ASSUME QueueInv, NEW i \in Inputs, EnqueueTurn(i) \/ SteerForLater(i)
  PROVE  QueueInv'
<1>1. i \notin ToSet(nextStep) /\ i \notin ToSet(nextTurn)
  BY DEF QueueInv, Conserved, Pending, EnqueueTurn, SteerForLater
<1>2. /\ nextTurn' \in Seq(Inputs) /\ IsInjective(nextTurn')
      /\ ToSet(nextTurn') = ToSet(nextTurn) \cup {i}
  <2>1. /\ nextTurn' = Append(nextTurn, i)
        /\ nextTurn \in Seq(Inputs) /\ IsInjective(nextTurn)
    BY DEF EnqueueTurn, SteerForLater, QueueInv, QueueTypeOK, Conserved, LanesDistinct
  <2> QED BY <1>1, <2>1, AppendLane
<1>3. nextStep' = nextStep /\ committing' = committing
  BY DEF EnqueueTurn, SteerForLater
<1>4. QueueTypeOK'
  <2>1. view' = Snapshot(nextStep', nextTurn') /\ nextStep' \in Seq(Inputs)
    BY <1>3 DEF EnqueueTurn, SteerForLater, Changed, QueueInv, QueueTypeOK
  <2>2. view' \in [nextStep : Seq(Inputs), nextTurn : Seq(Inputs)]
    BY <1>2, <2>1 DEF Snapshot
  <2>3. promise' \in [Inputs -> Promises] /\ fate' \in [Inputs -> Fates]
    BY DEF EnqueueTurn, SteerForLater, QueueInv, QueueTypeOK, Promises, Fates
  <2> QED BY <1>2, <1>3, <2>1, <2>2, <2>3 DEF QueueInv, QueueTypeOK
<1>5. Conserved' /\ ClaimFindsItsItem'
  BY <1>1, <1>2, <1>3 DEF EnqueueTurn, SteerForLater, QueueInv, QueueTypeOK,
     Conserved, LanesDistinct, Pending, ClaimFindsItsItem
<1>6. WaitersAreQueued' /\ OutcomeIsTruthful' /\ NotAnsweredYet'
  BY <1>1, <1>3 DEF EnqueueTurn, SteerForLater, QueueInv, QueueTypeOK,
     WaitersAreQueued, OutcomeIsTruthful, NotAnsweredYet
<1> QED BY <1>4, <1>5, <1>6 DEF QueueInv

\* The oldest next-turn item leaves for a new run.
LEMMA ShiftHolds ==
  ASSUME QueueInv, ShiftNextTurn
  PROVE  QueueInv'
<1> DEFINE h == Head(nextTurn)
<1>1. /\ nextTurn' \in Seq(Inputs) /\ IsInjective(nextTurn')
      /\ ToSet(nextTurn') = ToSet(nextTurn) \ {h}
      /\ h \in ToSet(nextTurn) /\ h \in Inputs
  BY TailLane
  DEF ShiftNextTurn, QueueInv, QueueTypeOK, Conserved, LanesDistinct
<1>2. h \notin ToSet(nextStep) /\ fate[h] = "queued"
  BY <1>1 DEF QueueInv, Conserved, LanesDistinct, Pending
<1>3. /\ nextStep' = nextStep /\ committing' = committing /\ promise' = promise
      /\ fate' = [fate EXCEPT ![h] = "shifted"]
  BY DEF ShiftNextTurn
<1> HIDE DEF h
<1>4. QueueTypeOK'
  BY <1>1, <1>3 DEF ShiftNextTurn, QueueInv, QueueTypeOK, Promises, Fates,
     Changed, Snapshot
<1>5. Conserved' /\ ClaimFindsItsItem'
  BY <1>1, <1>2, <1>3 DEF QueueInv, QueueTypeOK, Conserved, LanesDistinct,
     Pending, ClaimFindsItsItem
<1>6. WaitersAreQueued' /\ OutcomeIsTruthful' /\ NotAnsweredYet'
  BY <1>1, <1>2, <1>3 DEF QueueInv, QueueTypeOK, WaitersAreQueued,
     OutcomeIsTruthful, NotAnsweredYet
<1> QED BY <1>4, <1>5, <1>6 DEF QueueInv

\* An input that is streamed directly never enters the inbox.
LEMMA TakeHolds ==
  ASSUME QueueInv, NEW i \in Inputs, TakeDirectly(i)
  PROVE  QueueInv'
<1>1. UNCHANGED <<nextStep, nextTurn, committing, promise, view>>
  BY DEF TakeDirectly
<1>2. fate[i] = "new" /\ fate' = [fate EXCEPT ![i] = "shifted"]
  BY DEF TakeDirectly
<1>3. QueueTypeOK' /\ Conserved' /\ ClaimFindsItsItem'
  BY <1>1, <1>2 DEF QueueInv, QueueTypeOK, Fates, Conserved, LanesDistinct,
     Pending, ClaimFindsItsItem
<1>4. WaitersAreQueued' /\ OutcomeIsTruthful' /\ NotAnsweredYet'
  BY <1>1, <1>2 DEF QueueInv, QueueTypeOK, WaitersAreQueued, OutcomeIsTruthful,
     NotAnsweredYet
<1> QED BY <1>3, <1>4 DEF QueueInv

\* A settled promise is still a promise.
LEMMA SettledType ==
  ASSUME QueueTypeOK, NEW T, NEW r \in Promises
  PROVE  /\ Settled(T, r) \in [Inputs -> Promises]
         /\ \A j \in Inputs : Settled(T, r)[j] =
              IF j \in T /\ promise[j] = "pending" THEN r ELSE promise[j]
BY DEF Settled, QueueTypeOK

\* An item that is not being journaled is cancelled.
LEMMA CancelHolds ==
  ASSUME QueueInv, NEW i \in Inputs, Cancel(i)
  PROVE  QueueInv'
<1>1. /\ i \notin committing /\ i \in Pending /\ committing' = committing
      /\ nextStep' = Without(nextStep, i) /\ nextTurn' = Without(nextTurn, i)
      /\ promise' = Settled({i}, "deferred")
      /\ fate' = [fate EXCEPT ![i] = "removed"]
      /\ view' = Snapshot(nextStep', nextTurn')
  BY DEF Cancel, Changed
<1>2. /\ nextStep \in Seq(Inputs) /\ IsInjective(nextStep)
      /\ nextTurn \in Seq(Inputs) /\ IsInjective(nextTurn)
  BY DEF QueueInv, QueueTypeOK, Conserved, LanesDistinct
<1>3. /\ nextStep' \in Seq(Inputs) /\ IsInjective(nextStep')
      /\ ToSet(nextStep') = ToSet(nextStep) \ {i}
      /\ nextStep # <<>> /\ Head(nextStep) # i =>
           nextStep' # <<>> /\ Head(nextStep') = Head(nextStep)
      /\ nextTurn' \in Seq(Inputs) /\ IsInjective(nextTurn')
      /\ ToSet(nextTurn') = ToSet(nextTurn) \ {i}
  BY <1>1, <1>2, WithoutLane
<1>4. /\ promise' \in [Inputs -> Promises]
      /\ \A j \in Inputs : promise'[j] =
           IF j \in {i} /\ promise[j] = "pending" THEN "deferred" ELSE promise[j]
  BY <1>1, SettledType DEF QueueInv, Promises
<1>5. QueueTypeOK'
  <2>1. view' \in [nextStep : Seq(Inputs), nextTurn : Seq(Inputs)]
    BY <1>1, <1>3 DEF Snapshot
  <2>2. fate' \in [Inputs -> Fates]
    BY <1>1 DEF QueueInv, QueueTypeOK, Fates
  <2> QED BY <1>1, <1>3, <1>4, <2>1, <2>2 DEF QueueInv, QueueTypeOK
<1>6. Conserved' /\ ClaimFindsItsItem'
  BY <1>1, <1>3 DEF QueueInv, QueueTypeOK, Conserved, LanesDistinct, Pending,
     ClaimFindsItsItem
<1>7. fate[i] = "queued"
  BY <1>1 DEF QueueInv, Conserved
<1>8. WaitersAreQueued' /\ OutcomeIsTruthful' /\ NotAnsweredYet'
  BY <1>1, <1>3, <1>4, <1>7 DEF QueueInv, QueueTypeOK, WaitersAreQueued,
     OutcomeIsTruthful, NotAnsweredYet
<1> QED BY <1>5, <1>6, <1>8 DEF QueueInv

\* clear() leaves the item being journaled, and only it, at the head.
LEMMA ClearedLanes ==
  ASSUME QueueInv
  PROVE  /\ Kept(nextTurn, committing) = <<>>
         /\ committing = {} => Kept(nextStep, committing) = <<>>
         /\ committing # {} => /\ Kept(nextStep, committing) = <<Head(nextStep)>>
                              /\ committing = {Head(nextStep)}
                              /\ Head(nextStep) \in Inputs
<1>1. /\ nextStep \in Seq(Inputs) /\ IsInjective(nextStep)
      /\ nextTurn \in Seq(Inputs) /\ IsInjective(nextTurn)
  BY DEF QueueInv, QueueTypeOK, Conserved, LanesDistinct
<1>2. ToSet(nextTurn) \cap committing = {}
  BY ReservedIsHead
<1>3. Kept(nextTurn, committing) = <<>>
  BY <1>1, <1>2, KeptNone
<1>4. CASE committing = {}
  <2>1. ToSet(nextStep) \cap committing = {}
    BY <1>4
  <2> QED BY <1>1, <1>3, <1>4, <2>1, KeptNone
<1>5. CASE committing # {}
  <2>1. nextStep # <<>> /\ committing = {Head(nextStep)}
    BY <1>5 DEF QueueInv, ClaimFindsItsItem
  <2>2. Kept(nextStep, committing) = <<Head(nextStep)>>
    BY <1>1, <2>1, KeptHead
  <2>3. Head(nextStep) \in Inputs
    BY <1>1, <2>1, TailLane
  <2> QED BY <1>3, <1>5, <2>1, <2>2, <2>3
<1> QED BY <1>4, <1>5

LEMMA ClearHolds ==
  ASSUME QueueInv, Clear
  PROVE  QueueInv'
<1> DEFINE removed == Pending \ committing
<1>1. /\ committing' = committing
      /\ nextStep' = Kept(nextStep, committing)
      /\ nextTurn' = Kept(nextTurn, committing)
      /\ promise' = Settled(removed, "deferred")
      /\ fate' = [i \in Inputs |-> IF i \in removed THEN "removed" ELSE fate[i]]
      /\ view' = Snapshot(nextStep', nextTurn')
  BY DEF Clear, Changed
<1>2. nextTurn' = <<>> /\ nextTurn' \in Seq(Inputs) /\ ToSet(nextTurn') = {}
      /\ IsInjective(nextTurn')
  <2>1. nextTurn' = <<>>
    BY <1>1, ClearedLanes
  <2>2. <<>> \in Seq(Inputs) /\ ToSet(<<>>) = {} /\ IsInjective(<<>>)
    BY DEF ToSet, IsInjective
  <2> QED BY <2>1, <2>2
<1>3. /\ nextStep' \in Seq(Inputs) /\ ToSet(nextStep') = committing
      /\ IsInjective(nextStep')
      /\ committing # {} => /\ nextStep' # <<>> /\ Head(nextStep') = Head(nextStep)
  <2>1. CASE committing = {}
    <3>1. nextStep' = <<>>
      BY <1>1, <2>1, ClearedLanes
    <3>2. <<>> \in Seq(Inputs) /\ ToSet(<<>>) = {} /\ IsInjective(<<>>)
      BY DEF ToSet, IsInjective
    <3> QED BY <2>1, <3>1, <3>2
  <2>2. CASE committing # {}
    <3>1. /\ nextStep' = <<Head(nextStep)>> /\ committing = {Head(nextStep)}
          /\ Head(nextStep) \in Inputs
      BY <1>1, <2>2, ClearedLanes
    <3> QED BY <3>1, SmallLanes
  <2> QED BY <2>1, <2>2
<1>4. committing \subseteq Pending /\ committing \subseteq Inputs
      /\ committing \subseteq ToSet(nextStep)
  BY ReservedIsHead DEF Pending
<1>5. /\ promise' \in [Inputs -> Promises]
      /\ \A j \in Inputs : promise'[j] =
           IF j \in removed /\ promise[j] = "pending" THEN "deferred" ELSE promise[j]
  BY <1>1, SettledType DEF QueueInv, Promises
<1>6. \A i \in Inputs : i \in removed => fate[i] = "queued"
  BY DEF QueueInv, Conserved
<1>7. QueueTypeOK'
  <2>1. view' \in [nextStep : Seq(Inputs), nextTurn : Seq(Inputs)]
    BY <1>1, <1>2, <1>3 DEF Snapshot
  <2>2. fate' \in [Inputs -> Fates]
    BY <1>1 DEF QueueInv, QueueTypeOK, Fates
  <2> QED BY <1>1, <1>2, <1>3, <1>5, <2>1, <2>2 DEF QueueInv, QueueTypeOK
<1>8. \A i \in Inputs : fate'[i] = IF i \in removed THEN "removed" ELSE fate[i]
  BY <1>1
<1>9. Pending' = committing
  BY <1>2, <1>3 DEF Pending
<1>10. Conserved' /\ ClaimFindsItsItem'
  BY <1>1, <1>2, <1>3, <1>4, <1>8, <1>9 DEF QueueInv, Conserved, LanesDistinct,
     ClaimFindsItsItem
<1>11. WaitersAreQueued' /\ OutcomeIsTruthful' /\ NotAnsweredYet'
  BY <1>3, <1>4, <1>5, <1>6, <1>8 DEF QueueInv, WaitersAreQueued,
     OutcomeIsTruthful, NotAnsweredYet, Pending
<1> QED BY <1>7, <1>10, <1>11 DEF QueueInv

\* consume() reserves the head.
LEMMA BeginConsumeHolds ==
  ASSUME QueueInv, BeginConsume
  PROVE  QueueInv'
<1>1. /\ nextStep # <<>> /\ committing' = {Head(nextStep)}
      /\ UNCHANGED <<nextStep, nextTurn, promise, view, fate>>
  BY DEF BeginConsume, Reserve
<1>2. Head(nextStep) \in Inputs
  BY <1>1, TailLane DEF QueueInv, QueueTypeOK, Conserved, LanesDistinct
<1>3. QueueTypeOK' /\ Conserved' /\ ClaimFindsItsItem'
  BY <1>1, <1>2 DEF QueueInv, QueueTypeOK, Conserved, LanesDistinct, Pending,
     ClaimFindsItsItem
<1>4. WaitersAreQueued' /\ OutcomeIsTruthful' /\ NotAnsweredYet'
  BY <1>1 DEF QueueInv, WaitersAreQueued, OutcomeIsTruthful, NotAnsweredYet
<1> QED BY <1>3, <1>4 DEF QueueInv

\* The reserved head is claimed and the next one reserved.
LEMMA CommitWrittenHolds ==
  ASSUME QueueInv, CommitWritten
  PROVE  QueueInv'
<1>1. PICK i \in committing :
        /\ nextStep' = Tail(nextStep)
        /\ committing' = Reserve(nextStep')
        /\ promise' = Settled({i}, "consumed")
        /\ fate' = [fate EXCEPT ![i] = "committed"]
        /\ nextTurn' = nextTurn
        /\ IF committing' = {} THEN Changed ELSE UNCHANGED view
  BY DEF CommitWritten
<1>2. /\ nextStep # <<>> /\ i = Head(nextStep) /\ i \in Inputs
      /\ i \in ToSet(nextStep) /\ i \notin ToSet(nextTurn) /\ fate[i] = "queued"
  BY ReservedIsHead
<1>3. /\ nextStep' \in Seq(Inputs) /\ IsInjective(nextStep')
      /\ ToSet(nextStep') = ToSet(nextStep) \ {i}
  BY <1>1, <1>2, TailLane DEF QueueInv, QueueTypeOK, Conserved, LanesDistinct
<1>4. /\ committing' # {} => nextStep' # <<>> /\ committing' = {Head(nextStep')}
      /\ committing' \subseteq Inputs
  <2>1. CASE nextStep' = <<>>
    BY <1>1, <2>1 DEF Reserve
  <2>2. CASE nextStep' # <<>>
    <3>1. Head(nextStep') \in Inputs
      BY <1>3, <2>2, TailLane
    <3> QED BY <1>1, <2>2, <3>1 DEF Reserve
  <2> QED BY <2>1, <2>2
<1>5. /\ promise' \in [Inputs -> Promises]
      /\ \A j \in Inputs : promise'[j] =
           IF j \in {i} /\ promise[j] = "pending" THEN "consumed" ELSE promise[j]
  BY <1>1, SettledType DEF QueueInv, Promises
<1>6. promise[i] \in {"none", "pending"}
  BY <1>2 DEF QueueInv, QueueTypeOK, Promises, OutcomeIsTruthful, NotAnsweredYet
<1>7. QueueTypeOK'
  <2>1. nextTurn' \in Seq(Inputs)
    BY <1>1 DEF QueueInv, QueueTypeOK
  <2>2. view' \in [nextStep : Seq(Inputs), nextTurn : Seq(Inputs)]
    <3>1. CASE committing' = {}
      <4>1. view' = Snapshot(nextStep', nextTurn')
        BY <1>1, <3>1 DEF Changed
      <4> QED BY <1>3, <2>1, <4>1 DEF Snapshot
    <3>2. CASE committing' # {}
      BY <1>1, <3>2 DEF QueueInv, QueueTypeOK
    <3> QED BY <3>1, <3>2
  <2>3. fate' \in [Inputs -> Fates]
    BY <1>1 DEF QueueInv, QueueTypeOK, Fates
  <2> QED BY <1>3, <1>4, <1>5, <2>1, <2>2, <2>3 DEF QueueTypeOK
<1>8. Conserved' /\ ClaimFindsItsItem'
  BY <1>1, <1>2, <1>3, <1>4 DEF QueueInv, QueueTypeOK, Conserved, LanesDistinct,
     Pending, ClaimFindsItsItem
<1>9. WaitersAreQueued' /\ OutcomeIsTruthful' /\ NotAnsweredYet'
  BY <1>1, <1>2, <1>3, <1>5, <1>6 DEF QueueInv, QueueTypeOK, WaitersAreQueued,
     OutcomeIsTruthful, NotAnsweredYet
<1> QED BY <1>7, <1>8, <1>9 DEF QueueInv

\* The reservation is given up; nothing else changes.
LEMMA CommitFailedHolds ==
  ASSUME QueueInv, CommitFailed
  PROVE  QueueInv'
<1>1. committing' = {} /\ UNCHANGED <<nextStep, nextTurn, promise, view, fate>>
  BY DEF CommitFailed
<1> QED BY <1>1 DEF QueueInv, QueueTypeOK, Conserved, LanesDistinct, Pending,
      ClaimFindsItsItem, WaitersAreQueued, OutcomeIsTruthful, NotAnsweredYet

\* What is left in next-step joins the next-turn tail.
LEMMA DeferHolds ==
  ASSUME QueueInv, DeferPending
  PROVE  QueueInv'
<1>1. /\ committing = {} /\ committing' = {} /\ fate' = fate
      /\ nextStep' = <<>> /\ nextTurn' = nextTurn \o nextStep
      /\ promise' = Settled(ToSet(nextStep), "deferred")
      /\ IF nextStep = <<>> THEN UNCHANGED view ELSE Changed
  BY DEF DeferPending
<1>2. nextStep' \in Seq(Inputs) /\ ToSet(nextStep') = {} /\ IsInjective(nextStep')
  <2>1. <<>> \in Seq(Inputs) /\ ToSet(<<>>) = {} /\ IsInjective(<<>>)
    BY DEF ToSet, IsInjective
  <2> QED BY <1>1, <2>1
<1>3. /\ nextTurn' \in Seq(Inputs) /\ IsInjective(nextTurn')
      /\ ToSet(nextTurn') = ToSet(nextTurn) \cup ToSet(nextStep)
  <2>1. /\ nextStep \in Seq(Inputs) /\ IsInjective(nextStep)
        /\ nextTurn \in Seq(Inputs) /\ IsInjective(nextTurn)
        /\ ToSet(nextTurn) \cap ToSet(nextStep) = {}
    BY DEF QueueInv, QueueTypeOK, Conserved, LanesDistinct
  <2> QED BY <1>1, <2>1, ConcatLane
<1>4. /\ promise' \in [Inputs -> Promises]
      /\ \A j \in Inputs : promise'[j] =
           IF j \in ToSet(nextStep) /\ promise[j] = "pending"
           THEN "deferred" ELSE promise[j]
  BY <1>1, SettledType DEF QueueInv, Promises
<1>5. QueueTypeOK'
  <2>1. view' \in [nextStep : Seq(Inputs), nextTurn : Seq(Inputs)]
    <3>1. CASE nextStep = <<>>
      BY <1>1, <3>1 DEF QueueInv, QueueTypeOK
    <3>2. CASE nextStep # <<>>
      <4>1. view' = Snapshot(nextStep', nextTurn')
        BY <1>1, <3>2 DEF Changed
      <4> QED BY <1>2, <1>3, <4>1 DEF Snapshot
    <3> QED BY <3>1, <3>2
  <2> QED BY <1>1, <1>2, <1>3, <1>4, <2>1 DEF QueueInv, QueueTypeOK
<1>6. Conserved' /\ ClaimFindsItsItem'
  BY <1>1, <1>2, <1>3 DEF QueueInv, Conserved, LanesDistinct, Pending,
     ClaimFindsItsItem
<1>7. \A i \in Inputs : i \in ToSet(nextStep) => fate[i] = "queued"
  BY DEF QueueInv, Conserved, Pending
<1>8. WaitersAreQueued' /\ OutcomeIsTruthful' /\ NotAnsweredYet'
  BY <1>1, <1>2, <1>4, <1>7 DEF QueueInv, WaitersAreQueued, OutcomeIsTruthful,
     NotAnsweredYet
<1> QED BY <1>5, <1>6, <1>8 DEF QueueInv

\* Every step keeps the invariant.
LEMMA StepHolds ==
  ASSUME QueueInv, [QueueNext]_queueVars
  PROVE  QueueInv'
<1>1. CASE UNCHANGED queueVars
  BY <1>1 DEF queueVars, QueueInv, QueueTypeOK, Conserved, LanesDistinct,
     Pending, ClaimFindsItsItem, WaitersAreQueued, OutcomeIsTruthful,
     NotAnsweredYet
<1>2. ASSUME NEW i \in Inputs,
             \/ EnqueueStep(i) \/ EnqueueTurn(i) \/ SteerIntoRun(i)
             \/ SteerForLater(i) \/ TakeDirectly(i) \/ Cancel(i)
      PROVE  QueueInv'
  BY <1>2, OfferStepHolds, OfferTurnHolds, TakeHolds, CancelHolds
<1>3. CASE \/ ShiftNextTurn \/ Clear \/ BeginConsume
           \/ CommitWritten \/ CommitFailed \/ DeferPending
  BY <1>3, ShiftHolds, ClearHolds, BeginConsumeHolds, CommitWrittenHolds,
     CommitFailedHolds, DeferHolds
<1> QED BY <1>1, <1>2, <1>3 DEF QueueNext

-----------------------------------------------------------------------------
(* The theorems. *)

\* The invariant holds in every reachable state, for any set of inputs.
THEOREM Invariance == QueueSpec => []QueueInv
<1>1. QueueInit => QueueInv
  BY InitHolds
<1>2. QueueInv /\ [QueueNext]_queueVars => QueueInv'
  BY StepHolds
<1> QED BY <1>1, <1>2, PTL DEF QueueSpec

\* The variables keep their types (SteeringQueue and AgentInbox).
THEOREM TypeCorrect == QueueSpec => []QueueTypeOK
<1>1. QueueInv => QueueTypeOK
  BY DEF QueueInv
<1> QED BY <1>1, Invariance, PTL

\* Nothing that was offered is lost or duplicated, whatever cancels, clears,
\* commits and deferrals interleave.
THEOREM NothingIsLost == QueueSpec => []Conserved
<1>1. QueueInv => Conserved
  BY DEF QueueInv
<1> QED BY <1>1, Invariance, PTL

\* consume() finds the item it journaled at the head of the lane, so
\* claimNextStep never throws.
THEOREM ClaimSucceeds == QueueSpec => []ClaimFindsItsItem
<1>1. QueueInv => ClaimFindsItsItem
  BY DEF QueueInv
<1> QED BY <1>1, Invariance, PTL

\* The inbox is sound for any set of inputs.
THEOREM QueueSound == QueueSpec => []QueueIsSound
BY TypeCorrect, NothingIsLost, ClaimSucceeds, PTL DEF QueueIsSound

\* A caller of steer() that still waits has its input in the next-step lane.
THEOREM WaitersWaitForSomething == QueueSpec => []WaitersAreQueued
<1>1. QueueInv => WaitersAreQueued
  BY DEF QueueInv
<1> QED BY <1>1, Invariance, PTL

\* A caller of steer() is told what happened.
THEOREM CallersAreToldTheTruth == QueueSpec => []OutcomeIsTruthful
<1>1. QueueInv => OutcomeIsTruthful
  BY DEF QueueInv
<1> QED BY <1>1, Invariance, PTL

\* The item being journaled is beyond cancel() and clear(): its reservation
\* ends in a claim or leaves it queued.
THEOREM ReservedStays == QueueSpec => ReservedIsNeverWithdrawn
<1> DEFINE A == \A i \in committing : fate'[i] \in {"queued", "committed"}
<1>1. ASSUME QueueInv, [QueueNext]_queueVars PROVE [A]_queueVars
  <2>1. SUFFICES ASSUME QueueNext, NEW i \in committing
                 PROVE  fate'[i] \in {"queued", "committed"}
    BY <1>1
  <2>2. /\ i = Head(nextStep) /\ committing = {i} /\ i \in Inputs
        /\ i \notin ToSet(nextTurn) /\ fate[i] = "queued"
        /\ fate \in [Inputs -> Fates]
    BY <1>1, ReservedIsHead DEF QueueInv, QueueTypeOK
  <2>3. ASSUME NEW j \in Inputs,
               \/ EnqueueStep(j) \/ EnqueueTurn(j) \/ SteerIntoRun(j)
               \/ SteerForLater(j) \/ TakeDirectly(j)
        PROVE  fate'[i] = "queued"
    <3>1. fate[j] = "new"
      BY <2>3 DEF EnqueueStep, EnqueueTurn, SteerIntoRun, SteerForLater, TakeDirectly
    <3> QED BY <2>2, <2>3, <3>1 DEF EnqueueStep, EnqueueTurn, SteerIntoRun,
          SteerForLater, TakeDirectly
  <2>4. ASSUME NEW j \in Inputs, Cancel(j) PROVE fate'[i] = "queued"
    BY <2>2, <2>4 DEF Cancel
  <2>5. CASE ShiftNextTurn
    <3>1. Head(nextTurn) \in ToSet(nextTurn)
      BY <1>1, <2>5, TailLane
      DEF ShiftNextTurn, QueueInv, QueueTypeOK, Conserved, LanesDistinct
    <3> QED BY <2>2, <2>5, <3>1 DEF ShiftNextTurn
  <2>6. CASE Clear
    BY <2>2, <2>6 DEF Clear
  <2>7. CASE BeginConsume \/ CommitFailed \/ DeferPending
    BY <2>2, <2>7 DEF BeginConsume, CommitFailed, DeferPending
  <2>8. CASE CommitWritten
    BY <2>2, <2>8 DEF CommitWritten
  <2> QED BY <2>1, <2>3, <2>4, <2>5, <2>6, <2>7, <2>8 DEF QueueNext
<1> QED BY <1>1, Invariance, PTL DEF QueueSpec, ReservedIsNeverWithdrawn

\* Next-turn input stays first in, first out: a step never reorders two items
\* that stay, and whatever it adds goes behind them.
THEOREM NextTurnStaysFifo == QueueSpec => NextTurnIsFifo
<1> DEFINE Earlier(j, k) == \E m, n \in DOMAIN nextTurn :
             m < n /\ nextTurn[m] = nextTurn'[j] /\ nextTurn[n] = nextTurn'[k]
           A == \A j, k \in DOMAIN nextTurn' :
                  j < k /\ nextTurn'[k] \in ToSet(nextTurn) => Earlier(j, k)
<1>1. ASSUME QueueInv, [QueueNext]_queueVars PROVE [A]_queueVars
  <2>1. SUFFICES ASSUME QueueNext, NEW j \in DOMAIN nextTurn',
                        NEW k \in DOMAIN nextTurn',
                        j < k, nextTurn'[k] \in ToSet(nextTurn)
                 PROVE  Earlier(j, k)
    BY <1>1
  <2>2. /\ nextTurn \in Seq(Inputs) /\ nextStep \in Seq(Inputs)
        /\ IsInjective(nextTurn) /\ ToSet(nextStep) \cap ToSet(nextTurn) = {}
        /\ DOMAIN nextTurn = 1..Len(nextTurn) /\ Len(nextTurn) \in Nat
        /\ \A i \in Inputs : fate[i] = "new" => i \notin ToSet(nextTurn)
    BY <1>1, LenProperties DEF QueueInv, QueueTypeOK, Conserved, LanesDistinct, Pending
  <2>3. CASE nextTurn' = nextTurn
    BY <2>1, <2>3
  <2>4. ASSUME NEW t \in Seq(Inputs), nextTurn' = nextTurn \o t,
               ToSet(t) \cap ToSet(nextTurn) = {}
        PROVE  Earlier(j, k)
    <3>1. /\ nextTurn' \in Seq(Inputs) /\ Len(t) \in Nat
          /\ Len(nextTurn') = Len(nextTurn) + Len(t)
          /\ \A i \in 1..(Len(nextTurn) + Len(t)) :
               nextTurn'[i] = IF i <= Len(nextTurn) THEN nextTurn[i]
                                                    ELSE t[i - Len(nextTurn)]
      BY <2>2, <2>4, ConcatProperties, LenProperties
    <3>2. j \in 1..(Len(nextTurn) + Len(t)) /\ k \in 1..(Len(nextTurn) + Len(t))
      BY <3>1, LenProperties
    <3>3. CASE k <= Len(nextTurn)
      BY <2>1, <2>2, <3>1, <3>2, <3>3
    <3>4. CASE k > Len(nextTurn)
      <4>1. k - Len(nextTurn) \in 1..Len(t) /\ nextTurn'[k] = t[k - Len(nextTurn)]
        BY <2>2, <3>1, <3>2, <3>4
      <4>2. nextTurn'[k] \in ToSet(t)
        BY <4>1, InLane
      <4> QED BY <2>1, <2>4, <4>2
    <3> QED BY <2>2, <3>2, <3>3, <3>4
  <2>5. ASSUME NEW i \in Inputs, EnqueueTurn(i) \/ SteerForLater(i)
        PROVE  Earlier(j, k)
    <3>1. fate[i] = "new" /\ nextTurn' = Append(nextTurn, i)
      BY <2>5 DEF EnqueueTurn, SteerForLater
    <3>2. Append(nextTurn, i) = nextTurn \o <<i>>
      BY <2>2
    <3>3. <<i>> \in Seq(Inputs) /\ ToSet(<<i>>) = {i}
      BY SmallLanes
    <3> QED BY <2>2, <2>4, <3>1, <3>2, <3>3
  <2>6. CASE ShiftNextTurn
    <3>1. nextTurn # <<>> /\ nextTurn' = Tail(nextTurn)
      BY <2>6 DEF ShiftNextTurn
    <3>2. /\ nextTurn' \in Seq(Inputs) /\ Len(nextTurn') = Len(nextTurn) - 1
          /\ \A i \in 1..Len(nextTurn') : nextTurn'[i] = nextTurn[i + 1]
      BY <2>2, <3>1, HeadTailProperties
    <3>3. j \in 1..(Len(nextTurn) - 1) /\ k \in 1..(Len(nextTurn) - 1)
      BY <3>2, LenProperties
    <3>4. /\ j + 1 \in DOMAIN nextTurn /\ k + 1 \in DOMAIN nextTurn /\ j + 1 < k + 1
          /\ nextTurn[j + 1] = nextTurn'[j] /\ nextTurn[k + 1] = nextTurn'[k]
      BY <2>1, <2>2, <3>2, <3>3
    <3> QED BY <3>4
  <2>7. ASSUME NEW i \in Inputs, Cancel(i) PROVE Earlier(j, k)
    <3>1. nextTurn' = Without(nextTurn, i)
      BY <2>7 DEF Cancel
    <3> QED BY <2>1, <2>2, <3>1, WithoutKeepsOrder
  <2>8. CASE Clear
    <3>1. nextTurn' = <<>>
      BY <1>1, <2>8, ClearedLanes DEF Clear
    <3> QED BY <2>1, <3>1
  <2>9. CASE DeferPending
    BY <2>2, <2>4, <2>9 DEF DeferPending
  <2>10. ASSUME NEW i \in Inputs, EnqueueStep(i) \/ SteerIntoRun(i) \/ TakeDirectly(i)
         PROVE  nextTurn' = nextTurn
    BY <2>10 DEF EnqueueStep, SteerIntoRun, TakeDirectly
  <2>11. CASE BeginConsume \/ CommitWritten \/ CommitFailed
    BY <2>3, <2>11 DEF BeginConsume, CommitWritten, CommitFailed
  <2> QED BY <2>1, <2>3, <2>5, <2>6, <2>7, <2>8, <2>9, <2>10, <2>11 DEF QueueNext
<1> QED BY <1>1, Invariance, PTL DEF QueueSpec, NextTurnIsFifo

-----------------------------------------------------------------------------
(* SteeringQueue implements the delivery contract of InputDelivery: every
   step of the queue is one step of the contract or changes nothing the
   contract knows of. *)

\* The status of an input, read off where it is.
LEMMA StatusCases ==
  ASSUME NEW f \in [Inputs -> Fates], NEW c, NEW i \in Inputs
  PROVE  /\ StatusAt(f, c, i) = "new" <=> f[i] = "new"
         /\ StatusAt(f, c, i) = "waiting" <=> f[i] = "queued" /\ i \notin c
         /\ StatusAt(f, c, i) = "reserved" <=> f[i] = "queued" /\ i \in c
         /\ StatusAt(f, c, i) = "delivered" <=> f[i] = "committed"
         /\ StatusAt(f, c, i) = "handed" <=> f[i] = "shifted"
         /\ StatusAt(f, c, i) = "withdrawn" <=> f[i] = "removed"
BY DEF StatusAt, Fates

\* The status of an input depends on that input's place alone.
LEMMA StatusSame ==
  ASSUME NEW f \in [Inputs -> Fates], NEW c, NEW g \in [Inputs -> Fates], NEW d,
         NEW i \in Inputs, f[i] = g[i], i \in c <=> i \in d
  PROVE  StatusAt(f, c, i) = StatusAt(g, d, i)
BY DEF StatusAt, Fates

\* Inputs that a step leaves where they are keep their status.
LEMMA OthersKeepStatus ==
  ASSUME fate \in [Inputs -> Fates], fate' \in [Inputs -> Fates], NEW S \in SUBSET Inputs,
         \A j \in Inputs \ S : fate'[j] = fate[j] /\ (j \in committing' <=> j \in committing)
  PROVE  \A j \in Inputs \ S : StatusAt(fate', committing', j) = StatusAt(fate, committing, j)
BY StatusSame

\* The invariant in the terms of the contract: what is reserved is the queued
\* item of `committing`, and there is one at most.
LEMMA Statuses ==
  ASSUME QueueInv
  PROVE  /\ fate \in [Inputs -> Fates] /\ promise \in [Inputs -> Promises]
         /\ \A i \in Inputs : i \in committing => fate[i] = "queued" /\ committing = {i}
         /\ \A i \in Inputs : fate[i] = "new" => promise[i] = "none"
BY ReservedIsHead DEF QueueInv, QueueTypeOK, NotAnsweredYet

-----------------------------------------------------------------------------
LEMMA InitRefines == QueueInit => Delivery!DeliveryInit
<1> SUFFICES ASSUME QueueInit PROVE Delivery!DeliveryInit
  OBVIOUS
<1>1. fate \in [Inputs -> Fates] /\ \A i \in Inputs : fate[i] = "new"
  BY DEF QueueInit, Fates
<1>2. Status = [i \in Inputs |-> "new"]
  <2>1. \A i \in Inputs : StatusAt(fate, committing, i) = "new"
    BY <1>1, StatusCases
  <2> QED BY <2>1 DEF Status
<1> QED BY <1>2 DEF QueueInit, Delivery!DeliveryInit

\* An input is offered to a lane.
LEMMA OfferRefines ==
  ASSUME QueueInv, QueueInv', NEW i \in Inputs,
         \/ EnqueueStep(i) \/ EnqueueTurn(i) \/ SteerIntoRun(i) \/ SteerForLater(i)
  PROVE  Delivery!Offer(i)
<1>1. /\ fate[i] = "new" /\ fate' = [fate EXCEPT ![i] = "queued"]
      /\ committing' = committing
      /\ \/ promise' = promise
         \/ promise' = [promise EXCEPT ![i] = "pending"]
         \/ promise' = [promise EXCEPT ![i] = "deferred"]
  BY DEF EnqueueStep, EnqueueTurn, SteerIntoRun, SteerForLater
<1>2. /\ fate \in [Inputs -> Fates] /\ fate' \in [Inputs -> Fates]
      /\ promise \in [Inputs -> Promises] /\ promise[i] = "none"
      /\ i \notin committing
  BY <1>1, Statuses DEF QueueInv, QueueTypeOK
<1>3. Status[i] = "new"
  BY <1>1, <1>2, StatusCases DEF Status
<1>4. Status' = [Status EXCEPT ![i] = "waiting"]
  <2>1. fate \in [Inputs -> Fates] /\ fate' \in [Inputs -> Fates]
    BY <1>1, <1>2
  <2>2. StatusAt(fate', committing', i) = "waiting"
    BY <1>1, <1>2, <2>1, StatusCases, ZenonT(30)
  <2>3. \A j \in Inputs \ {i} : fate'[j] = fate[j] /\ (j \in committing' <=> j \in committing)
    BY <1>1, <1>2, <2>1
  <2>4. \A j \in Inputs \ {i} :
          StatusAt(fate', committing', j) = StatusAt(fate, committing, j)
    BY <2>1, <2>3, {i} \in SUBSET Inputs, OthersKeepStatus
  <2> QED BY <2>2, <2>4 DEF Status
<1>5. \E r \in {"none", "pending", "deferred"} : promise' = [promise EXCEPT ![i] = r]
  <2>1. promise = [promise EXCEPT ![i] = "none"]
    BY <1>2
  <2> QED BY <1>1, <2>1
<1> QED BY <1>3, <1>4, <1>5 DEF Delivery!Offer

\* An input enters a new run.
LEMMA HandOverRefines ==
  ASSUME QueueInv, QueueInv', NEW i \in Inputs,
         fate[i] \in {"new", "queued"}, i \notin committing, promise[i] # "pending",
         fate' = [fate EXCEPT ![i] = "shifted"],
         committing' = committing, promise' = promise
  PROVE  Delivery!HandOver(i)
<1>1. fate \in [Inputs -> Fates] /\ fate' \in [Inputs -> Fates]
  BY Statuses DEF QueueInv, QueueTypeOK
<1>2. Status[i] \in {"new", "waiting"}
  BY <1>1, StatusCases DEF Status
<1>3. Status' = [Status EXCEPT ![i] = "handed"]
  <2>1. fate \in [Inputs -> Fates] /\ fate' \in [Inputs -> Fates]
    BY <1>1
  <2>2. StatusAt(fate', committing', i) = "handed"
    BY <1>1, <2>1, StatusCases
  <2>3. \A j \in Inputs \ {i} : fate'[j] = fate[j] /\ (j \in committing' <=> j \in committing)
    BY <1>1, <2>1
  <2>4. \A j \in Inputs \ {i} :
          StatusAt(fate', committing', j) = StatusAt(fate, committing, j)
    BY <2>1, <2>3, {i} \in SUBSET Inputs, OthersKeepStatus
  <2> QED BY <2>2, <2>4 DEF Status
<1> QED BY <1>2, <1>3 DEF Delivery!HandOver

\* Waiting inputs are withdrawn and their callers answered.
LEMMA WithdrawRefines ==
  ASSUME QueueInv, QueueInv', NEW T \in SUBSET Inputs, T # {},
         \A i \in T : fate[i] = "queued" /\ i \notin committing,
         \A i \in Inputs : fate'[i] = IF i \in T THEN "removed" ELSE fate[i],
         committing' = committing, promise' = Settled(T, "deferred")
  PROVE  Delivery!Withdraw(T)
<1>1. fate \in [Inputs -> Fates] /\ fate' \in [Inputs -> Fates]
  BY Statuses DEF QueueInv, QueueTypeOK
<1>2. \A i \in T : Status[i] = "waiting"
  BY <1>1, StatusCases DEF Status
<1>3. Status' = [i \in Inputs |-> IF i \in T THEN "withdrawn" ELSE Status[i]]
  <2>1. \A j \in T : StatusAt(fate', committing', j) = "withdrawn"
    BY <1>1, StatusCases
  <2>2. \A j \in Inputs \ T : StatusAt(fate', committing', j) = StatusAt(fate, committing, j)
    BY <1>1, StatusSame
  <2> QED BY <2>1, <2>2 DEF Status
<1>4. Delivery!Answer(T, "deferred")
  BY DEF Delivery!Answer, Settled
<1> QED BY <1>2, <1>3, <1>4 DEF Delivery!Withdraw

\* An item is reserved.
LEMMA ReserveRefines ==
  ASSUME QueueInv, QueueInv', BeginConsume
  PROVE  \E i \in Inputs : Delivery!ReserveOne(i)
<1> DEFINE h == Head(nextStep)
<1>1. /\ committing = {} /\ committing' = {h} /\ nextStep # <<>>
      /\ fate' = fate /\ promise' = promise
  BY DEF BeginConsume, Reserve
<1>2. h \in Inputs /\ fate[h] = "queued" /\ fate \in [Inputs -> Fates]
  <2>1. h \in ToSet(nextStep) /\ h \in Inputs
    BY <1>1, TailLane DEF QueueInv, QueueTypeOK, Conserved, LanesDistinct
  <2> QED BY <2>1 DEF QueueInv, QueueTypeOK, Conserved, Pending
<1> HIDE DEF h
<1>3. Status[h] = "waiting" /\ \A i \in Inputs : Status[i] # "reserved"
  BY <1>1, <1>2, StatusCases DEF Status
<1>4. Status' = [Status EXCEPT ![h] = "reserved"]
  <2>1. fate \in [Inputs -> Fates] /\ fate' \in [Inputs -> Fates]
    BY <1>1, <1>2
  <2>2. StatusAt(fate', committing', h) = "reserved"
    BY <1>1, <1>2, <2>1, StatusCases
  <2>3. \A j \in Inputs \ {h} : fate'[j] = fate[j] /\ (j \in committing' <=> j \in committing)
    BY <1>1, <1>2, <2>1
  <2>4. \A j \in Inputs \ {h} :
          StatusAt(fate', committing', j) = StatusAt(fate, committing, j)
    BY <2>1, <2>3, <1>2, {h} \in SUBSET Inputs, OthersKeepStatus
  <2> QED BY <2>2, <2>4 DEF Status
<1> QED BY <1>1, <1>2, <1>3, <1>4 DEF Delivery!ReserveOne, Delivery!NoneReserved

\* The reserved item is claimed and the next head takes its place.
LEMMA DeliverRefines ==
  ASSUME QueueInv, QueueInv', CommitWritten
  PROVE  \E i \in Inputs : Delivery!Deliver(i)
<1>1. PICK i \in committing :
        /\ nextStep' = Tail(nextStep)
        /\ committing' = Reserve(nextStep')
        /\ promise' = Settled({i}, "consumed")
        /\ fate' = [fate EXCEPT ![i] = "committed"]
  BY DEF CommitWritten
<1>2. /\ committing = {i} /\ i \in Inputs /\ fate[i] = "queued"
      /\ fate \in [Inputs -> Fates] /\ fate' \in [Inputs -> Fates]
  BY ReservedIsHead, Statuses DEF QueueInv, QueueTypeOK
<1>3. /\ \A j \in committing' : /\ j \in Inputs /\ fate'[j] = "queued"
                                /\ committing' = {j}
  BY DEF QueueInv, QueueTypeOK, ClaimFindsItsItem, Conserved, LanesDistinct,
     Pending, ToSet
<1> DEFINE next == committing'
<1>4. \A j \in next : j \in Inputs /\ j # i /\ fate[j] = "queued"
  BY <1>1, <1>2, <1>3
<1>5. /\ Status[i] = "reserved"
      /\ \A j \in next : Status[j] = "waiting" /\ \A k \in next : k = j
  BY <1>2, <1>3, <1>4, StatusCases DEF Status
<1>6. Status' = [j \in Inputs |-> IF j = i THEN "delivered"
                                  ELSE IF j \in next THEN "reserved" ELSE Status[j]]
  <2>1. StatusAt(fate', committing', i) = "delivered"
    <3>1. fate'[i] = "committed"
      BY <1>1, <1>2
    <3> QED BY <1>2, <3>1, StatusCases
  <2>2. \A j \in next : StatusAt(fate', committing', j) = "reserved"
    BY <1>2, <1>3, StatusCases
  <2>3. \A j \in Inputs : j # i /\ j \notin next =>
          fate'[j] = fate[j] /\ (j \in committing' <=> j \in committing)
    BY <1>1, <1>2
  <2>4. \A j \in Inputs : j # i /\ j \notin next =>
          StatusAt(fate', committing', j) = StatusAt(fate, committing, j)
    BY <1>2, <2>3, StatusSame
  <2> HIDE DEF next
  <2> QED BY <1>4, <2>1, <2>2, <2>4 DEF Status
<1>7. next \in SUBSET Inputs
  BY <1>4
<1>8. Delivery!Answer({i}, "consumed")
  BY <1>1 DEF Delivery!Answer, Settled
<1> QED BY <1>2, <1>5, <1>6, <1>7, <1>8 DEF Delivery!Deliver

\* The reservation is given up.
LEMMA ReleaseRefines ==
  ASSUME QueueInv, QueueInv', CommitFailed
  PROVE  \E i \in Inputs : Delivery!Release(i)
<1>1. PICK i \in committing : TRUE
  BY DEF CommitFailed
<1>2. /\ committing = {i} /\ i \in Inputs /\ fate[i] = "queued"
      /\ fate \in [Inputs -> Fates]
  BY <1>1, ReservedIsHead, Statuses
<1>3. committing' = {} /\ fate' = fate /\ promise' = promise
  BY DEF CommitFailed
<1>4. Status[i] = "reserved"
  BY <1>2, StatusCases DEF Status
<1>5. Status' = [Status EXCEPT ![i] = "waiting"]
  <2>1. fate \in [Inputs -> Fates] /\ fate' \in [Inputs -> Fates]
    BY <1>2, <1>3
  <2>2. StatusAt(fate', committing', i) = "waiting"
    BY <1>2, <1>3, <2>1, StatusCases
  <2>3. \A j \in Inputs \ {i} : fate'[j] = fate[j] /\ (j \in committing' <=> j \in committing)
    BY <1>2, <1>3, <2>1
  <2>4. \A j \in Inputs \ {i} :
          StatusAt(fate', committing', j) = StatusAt(fate, committing, j)
    BY <1>2, <2>1, <2>3, {i} \in SUBSET Inputs, OthersKeepStatus
  <2> QED BY <2>2, <2>4 DEF Status
<1> QED BY <1>2, <1>3, <1>4, <1>5 DEF Delivery!Release

\* Leftover steering changes its lane; its callers learn "deferred".
LEMMA DeferRefines ==
  ASSUME QueueInv, DeferPending
  PROVE  \E T \in SUBSET Inputs : Delivery!Defer(T)
<1> DEFINE T == ToSet(nextStep)
<1>1. /\ committing = {} /\ committing' = {} /\ fate' = fate
      /\ promise' = Settled(T, "deferred")
  BY DEF DeferPending
<1>2. T \in SUBSET Inputs
  BY LaneMembers DEF QueueInv, QueueTypeOK
<1>3. \A i \in T : fate[i] = "queued" /\ fate \in [Inputs -> Fates]
  BY <1>2 DEF QueueInv, QueueTypeOK, Conserved, Pending
<1> HIDE DEF T
<1>4. \A i \in T : Status[i] = "waiting"
  BY <1>1, <1>2, <1>3, StatusCases DEF Status
<1>5. Status' = Status
  BY <1>1 DEF Status
<1>6. Delivery!Answer(T, "deferred")
  BY <1>1 DEF Delivery!Answer, Settled
<1> QED BY <1>2, <1>4, <1>5, <1>6 DEF Delivery!Defer

-----------------------------------------------------------------------------
\* Every step of the queue is a step of the contract.
LEMMA StepRefines ==
  ASSUME QueueInv, QueueInv', [QueueNext]_queueVars
  PROVE  [Delivery!DeliveryNext]_<<Status, promise>>
<1>1. CASE UNCHANGED queueVars
  BY <1>1 DEF queueVars, Status
<1>2. ASSUME NEW i \in Inputs,
             \/ EnqueueStep(i) \/ EnqueueTurn(i) \/ SteerIntoRun(i) \/ SteerForLater(i)
      PROVE  Delivery!DeliveryNext
  BY <1>2, OfferRefines DEF Delivery!DeliveryNext
<1>3. ASSUME NEW i \in Inputs, TakeDirectly(i) PROVE Delivery!DeliveryNext
  <2>1. /\ fate[i] = "new" /\ promise[i] = "none" /\ i \notin committing
        /\ fate' = [fate EXCEPT ![i] = "shifted"]
        /\ committing' = committing /\ promise' = promise
    BY <1>3, Statuses DEF TakeDirectly
  <2> QED BY <2>1, HandOverRefines DEF Delivery!DeliveryNext
<1>4. ASSUME NEW i \in Inputs, Cancel(i) PROVE Delivery!DeliveryNext
  <2>1. /\ i \notin committing /\ fate[i] = "queued" /\ committing' = committing
        /\ fate' = [fate EXCEPT ![i] = "removed"]
        /\ promise' = Settled({i}, "deferred") /\ fate \in [Inputs -> Fates]
    BY <1>4, Statuses DEF Cancel, QueueInv, Conserved
  <2>2. \A j \in Inputs : fate'[j] = IF j \in {i} THEN "removed" ELSE fate[j]
    BY <2>1
  <2>3. Delivery!Withdraw({i})
    BY <2>1, <2>2, WithdrawRefines
  <2> QED BY <2>3 DEF Delivery!DeliveryNext
<1>5. CASE ShiftNextTurn
  <2> DEFINE h == Head(nextTurn)
  <2>1. h \in Inputs /\ h \in ToSet(nextTurn)
    BY <1>5, TailLane DEF ShiftNextTurn, QueueInv, QueueTypeOK, Conserved, LanesDistinct
  <2>2. h \notin committing
    BY <2>1, ReservedIsHead
  <2>3. fate[h] = "queued" /\ promise[h] # "pending"
    BY <2>1 DEF QueueInv, Conserved, LanesDistinct, Pending, WaitersAreQueued
  <2>4. /\ fate' = [fate EXCEPT ![h] = "shifted"]
        /\ committing' = committing /\ promise' = promise
    BY <1>5 DEF ShiftNextTurn
  <2> HIDE DEF h
  <2> QED BY <2>1, <2>2, <2>3, <2>4, HandOverRefines DEF Delivery!DeliveryNext
<1>6. CASE Clear
  <2> DEFINE removed == Pending \ committing
  <2>1. /\ removed # {} /\ committing' = committing
        /\ promise' = Settled(removed, "deferred")
        /\ \A i \in Inputs : fate'[i] = IF i \in removed THEN "removed" ELSE fate[i]
    BY <1>6 DEF Clear
  <2>2. removed \in SUBSET Inputs
    BY LaneMembers DEF QueueInv, QueueTypeOK, Pending
  <2>3. \A i \in removed : fate[i] = "queued" /\ i \notin committing
    BY <2>2 DEF QueueInv, Conserved
  <2> HIDE DEF removed
  <2>4. Delivery!Withdraw(removed)
    BY <2>1, <2>2, <2>3, WithdrawRefines
  <2> QED BY <2>2, <2>4 DEF Delivery!DeliveryNext
<1>7. CASE BeginConsume
  BY <1>7, ReserveRefines DEF Delivery!DeliveryNext
<1>8. CASE CommitWritten
  BY <1>8, DeliverRefines DEF Delivery!DeliveryNext
<1>9. CASE CommitFailed
  BY <1>9, ReleaseRefines DEF Delivery!DeliveryNext
<1>10. CASE DeferPending
  BY <1>10, DeferRefines DEF Delivery!DeliveryNext
<1> QED BY <1>1, <1>2, <1>3, <1>4, <1>5, <1>6, <1>7, <1>8, <1>9, <1>10 DEF QueueNext

\* The inbox and its steering queue keep the delivery contract: an input
\* reaches exactly one end, a reserved one is beyond withdrawal, and callers of
\* steer() learn the outcome that happened.
THEOREM Refinement == QueueSpec => DeliversInput
<1>1. QueueInit => Delivery!DeliveryInit
  BY InitRefines
<1>2. QueueInv /\ QueueInv' /\ [QueueNext]_queueVars
        => [Delivery!DeliveryNext]_<<Status, promise>>
  BY StepRefines
<1> QED BY <1>1, <1>2, Invariance, PTL
      DEF QueueSpec, DeliversInput, Delivery!DeliverySpec, Delivery!deliveryVars
=============================================================================
