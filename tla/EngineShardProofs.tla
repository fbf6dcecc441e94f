------------------------- MODULE EngineShardProofs -------------------------
(***************************************************************************)
(* Theorems about EngineShard, for any pool, any amounts and any limit of  *)
(* the lookups: the index is exact, and finding through it is what Pool    *)
(* promises.                                                               *)
(***************************************************************************)
EXTENDS EngineShard, FiniteSetTheorems, SequenceTheorems, TLAPS

\* Every set of natural numbers that is not empty has a least element.
LEMMA LeastNatural ==
  ASSUME NEW S \in SUBSET Nat, S # {}
  PROVE  \E m \in S : \A n \in S : m <= n
<1> DEFINE R == {p \in Nat \X Nat : p[1] < p[2]}
<1>1. IsWellFoundedOn(R, Nat)
  BY NatLessThanWellFounded DEF OpToRel
<1>2. R = {p \in Nat \X Nat : p[1] < p[2]}
  OBVIOUS
<1> HIDE DEF R
<1>3. PICK m \in S : \A n \in S : <<n, m>> \notin R
  BY <1>1, WFMin
<1>4. \A n \in S : m <= n
  <2> SUFFICES ASSUME NEW n \in S, ~(m <= n) PROVE FALSE
    OBVIOUS
  <2>1. <<n, m>> \in Nat \X Nat /\ n < m
    OBVIOUS
  <2>2. <<n, m>> \in R
    BY <1>2, <2>1
  <2>3. QED
    BY <1>3, <2>2
<1>5. QED
  BY <1>4

(***************************************************************************)
(* Sorted lists of needs                                                   *)
(***************************************************************************)
Sorted(s) == \A i, j \in DOMAIN s : i < j => s[i] < s[j]

\* What a sorted list of needs is, spelled out for the provers.
LEMMA SortedFacts ==
  ASSUME NEW s \in Seq(Nat), Sorted(s)
  PROVE  /\ Len(s) \in Nat /\ DOMAIN s = 1..Len(s) /\ \A i \in 1..Len(s) : s[i] \in Nat
         /\ \A i, j \in 1..Len(s) : i < j => s[i] < s[j]
<1>1. Len(s) \in Nat /\ DOMAIN s = 1..Len(s) /\ \A i \in 1..Len(s) : s[i] \in Nat
  BY LenProperties, ElementOfSeq
<1>2. QED
  BY <1>1 DEF Sorted

\* sort.Search splits a sorted list.
LEMMA PositionSplits ==
  ASSUME NEW s \in Seq(Nat), Sorted(s), NEW n \in Nat
  PROVE  /\ Position(s, n) \in 1..(Len(s) + 1)
         /\ \A i \in 1..Len(s) : s[i] < n <=> i < Position(s, n)
<1> DEFINE U == {i \in 1..(Len(s) + 1) : i = Len(s) + 1 \/ ~(s[i] < n)}
<1>1. /\ Len(s) \in Nat /\ DOMAIN s = 1..Len(s) /\ \A i \in 1..Len(s) : s[i] \in Nat
      /\ \A i, j \in 1..Len(s) : i < j => s[i] < s[j]
  BY SortedFacts
<1>2. U \in SUBSET Nat /\ Len(s) + 1 \in U
  BY <1>1
<1>3. PICK p \in U : \A i \in U : p <= i
  BY <1>2, LeastNatural
<1>4. p \in 1..(Len(s) + 1) /\ (p = Len(s) + 1 \/ ~(s[p] < n))
  OBVIOUS
<1>10. \A i \in 1..(Len(s) + 1) : i < p => i \notin U
  BY <1>1, <1>3, <1>4
<1>5. \A i \in 1..Len(s) : s[i] < n <=> i < p
  <2> SUFFICES ASSUME NEW i \in 1..Len(s) PROVE s[i] < n <=> i < p
    OBVIOUS
  <2>1. ASSUME i < p PROVE s[i] < n
    <3>1. i \notin U
      BY <1>1, <1>10, <2>1
    <3>2. QED
      BY <1>1, <3>1
  <2>2. ASSUME ~(i < p) PROVE ~(s[i] < n)
    <3>1. p \in 1..Len(s) /\ ~(s[p] < n)
      BY <1>1, <1>4, <2>2
    <3>2. s[i] \in Nat /\ s[p] \in Nat /\ (p = i \/ s[p] < s[i])
      BY <1>1, <1>4, <2>2, <3>1
    <3>3. QED
      BY <3>1, <3>2
  <2>3. QED
    BY <2>1, <2>2
<1>6. {i \in DOMAIN s : s[i] < n} = 1..(p - 1)
  BY <1>1, <1>4, <1>5
<1>7. Cardinality(1..(p - 1)) = p - 1
  <2>1. p - 1 \in Int /\ p - 1 >= 0
    BY <1>1, <1>4
  <2>2. Cardinality(1..(p - 1)) = IF 1 > p - 1 THEN 0 ELSE (p - 1) - 1 + 1
    BY <2>1, FS_Interval
  <2>3. QED
    BY <2>1, <2>2
<1>8. Position(s, n) = p
  <2>1. Position(s, n) = Cardinality(1..(p - 1)) + 1
    BY <1>6 DEF Position
  <2>2. QED
    BY <1>1, <1>4, <1>7, <2>1
<1>9. QED
  BY <1>4, <1>5, <1>8

\* A need of the list is at its position.
LEMMA PositionFinds ==
  ASSUME NEW s \in Seq(Nat), Sorted(s), NEW n \in ToSet(s)
  PROVE  Position(s, n) \in 1..Len(s) /\ s[Position(s, n)] = n
<1>1. /\ Len(s) \in Nat /\ DOMAIN s = 1..Len(s) /\ \A i \in 1..Len(s) : s[i] \in Nat
      /\ \A i, j \in 1..Len(s) : i < j => s[i] < s[j]
  BY SortedFacts
<1>2. PICK i \in 1..Len(s) : s[i] = n
  BY <1>1 DEF ToSet
<1>3. n \in Nat
  BY <1>1, <1>2
<1> DEFINE p == Position(s, n)
<1>4. p \in 1..(Len(s) + 1) /\ \A j \in 1..Len(s) : s[j] < n <=> j < p
  BY <1>3, PositionSplits
<1> HIDE DEF p
<1>5. p <= i /\ p \in 1..Len(s)
  BY <1>1, <1>2, <1>3, <1>4
<1>6. p < i => s[p] < s[i]
  BY <1>1, <1>5
<1>7. p = i
  BY <1>1, <1>2, <1>3, <1>4, <1>5, <1>6
<1>8. QED
  BY <1>2, <1>5, <1>7 DEF p

\* The elements of a list after an insertion,
LEMMA InsertAtElements ==
  ASSUME NEW T, NEW s \in Seq(T), NEW p \in 1..(Len(s) + 1), NEW e \in T
  PROVE  /\ InsertAt(s, p, e) \in Seq(T) /\ Len(InsertAt(s, p, e)) = Len(s) + 1
         /\ \A i \in 1..(Len(s) + 1) :
              InsertAt(s, p, e)[i] = IF i < p THEN s[i] ELSE IF i = p THEN e ELSE s[i - 1]
<1> DEFINE l == SubSeq(s, 1, p - 1)
           m == <<e>>
           r == SubSeq(s, p, Len(s))
<1>1. Len(s) \in Nat /\ \A i \in 1..Len(s) : s[i] \in T
  BY LenProperties, ElementOfSeq
<1>2. l \in Seq(T) /\ Len(l) = p - 1 /\ \A i \in 1..(p - 1) : l[i] = s[i]
  <2>1. \A i \in 1..(p - 1) : s[i] \in T
    BY <1>1
  <2>2. /\ l \in Seq(T) /\ Len(l) = IF 1 <= p - 1 THEN p - 1 - 1 + 1 ELSE 0
        /\ \A i \in 1..(p - 1 - 1 + 1) : l[i] = s[1 + i - 1]
    BY <1>1, <2>1, SubSeqProperties
  <2>3. QED
    BY <1>1, <2>2
<1>3. r \in Seq(T) /\ Len(r) = Len(s) - p + 1 /\ \A i \in 1..(Len(s) - p + 1) : r[i] = s[p + i - 1]
  <2>1. \A i \in p..Len(s) : s[i] \in T
    BY <1>1
  <2>2. /\ r \in Seq(T) /\ Len(r) = IF p <= Len(s) THEN Len(s) - p + 1 ELSE 0
        /\ \A i \in 1..(Len(s) - p + 1) : r[i] = s[p + i - 1]
    BY <1>1, <2>1, SubSeqProperties
  <2>3. QED
    BY <1>1, <2>2
<1>4. m \in Seq(T) /\ Len(m) = 1 /\ m[1] = e
  OBVIOUS
<1> HIDE DEF l, m, r
<1>5. /\ l \o m \in Seq(T) /\ Len(l \o m) = p
      /\ \A i \in 1..p : (l \o m)[i] = IF i < p THEN s[i] ELSE e
  <2>1. /\ l \o m \in Seq(T) /\ Len(l \o m) = Len(l) + Len(m)
        /\ \A i \in 1..(Len(l) + Len(m)) :
             (l \o m)[i] = IF i <= Len(l) THEN l[i] ELSE m[i - Len(l)]
    BY <1>2, <1>4, ConcatProperties
  <2>2. QED
    BY <1>1, <1>2, <1>4, <2>1
<1> DEFINE q == l \o m
           w == q \o r
<1>6. q \in Seq(T) /\ Len(q) = p /\ \A i \in 1..p : q[i] = IF i < p THEN s[i] ELSE e
  BY <1>5
<1> HIDE DEF q
<1>7. /\ w \in Seq(T) /\ Len(w) = Len(q) + Len(r)
      /\ \A i \in 1..(Len(q) + Len(r)) : w[i] = IF i <= Len(q) THEN q[i] ELSE r[i - Len(q)]
  BY <1>3, <1>6, ConcatProperties
<1> HIDE DEF w
<1>8. /\ Len(q) + Len(r) = Len(s) + 1
      /\ \A i \in 1..(Len(s) + 1) : w[i] = IF i <= p THEN q[i] ELSE r[i - p]
  BY <1>1, <1>3, <1>6, <1>7
<1>9. ASSUME NEW i \in 1..(Len(s) + 1)
      PROVE  w[i] = IF i < p THEN s[i] ELSE IF i = p THEN e ELSE s[i - 1]
  <2>1. CASE i <= p
    <3>1. i \in 1..p
      BY <2>1
    <3>2. w[i] = q[i] /\ q[i] = IF i < p THEN s[i] ELSE e
      BY <1>6, <1>8, <2>1, <3>1
    <3>3. QED
      BY <2>1, <3>1, <3>2
  <2>2. CASE i > p
    <3>1. i - p \in 1..(Len(s) - p + 1) /\ p + (i - p) - 1 = i - 1
      BY <1>1, <2>2
    <3>2. r[i - p] = s[p + (i - p) - 1]
      BY <1>3, <3>1
    <3>3. r[i - p] = s[i - 1]
      BY <3>1, <3>2
    <3>4. ~(i <= p) /\ ~(i < p) /\ i # p
      BY <1>1, <2>2
    <3>5. w[i] = r[i - p]
      BY <1>8, <3>4
    <3>6. QED
      BY <3>3, <3>4, <3>5
  <2>3. QED
    BY <1>1, <2>1, <2>2
<1>10. QED
  BY <1>7, <1>8, <1>9 DEF InsertAt, l, m, r, q, w

\* and after a removal.
LEMMA RemoveAtElements ==
  ASSUME NEW T, NEW s \in Seq(T), NEW p \in 1..Len(s)
  PROVE  /\ RemoveAt(s, p) \in Seq(T) /\ Len(RemoveAt(s, p)) = Len(s) - 1
         /\ \A i \in 1..(Len(s) - 1) : RemoveAt(s, p)[i] = IF i < p THEN s[i] ELSE s[i + 1]
<1> DEFINE l == SubSeq(s, 1, p - 1)
           r == SubSeq(s, p + 1, Len(s))
<1>1. Len(s) \in Nat /\ \A i \in 1..Len(s) : s[i] \in T
  BY LenProperties, ElementOfSeq
<1>2. l \in Seq(T) /\ Len(l) = p - 1 /\ \A i \in 1..(p - 1) : l[i] = s[i]
  <2>1. \A i \in 1..(p - 1) : s[i] \in T
    BY <1>1
  <2>2. /\ l \in Seq(T) /\ Len(l) = IF 1 <= p - 1 THEN p - 1 - 1 + 1 ELSE 0
        /\ \A i \in 1..(p - 1 - 1 + 1) : l[i] = s[1 + i - 1]
    BY <1>1, <2>1, SubSeqProperties
  <2>3. QED
    BY <1>1, <2>2
<1>3. r \in Seq(T) /\ Len(r) = Len(s) - p /\ \A i \in 1..(Len(s) - p) : r[i] = s[p + i]
  <2>1. \A i \in (p + 1)..Len(s) : s[i] \in T
    BY <1>1
  <2>2. /\ r \in Seq(T) /\ Len(r) = IF p + 1 <= Len(s) THEN Len(s) - (p + 1) + 1 ELSE 0
        /\ \A i \in 1..(Len(s) - (p + 1) + 1) : r[i] = s[p + 1 + i - 1]
    BY <1>1, <2>1, SubSeqProperties
  <2>3. QED
    BY <1>1, <2>2
<1> HIDE DEF l, r
<1> DEFINE w == l \o r
<1>4. /\ w \in Seq(T) /\ Len(w) = Len(l) + Len(r)
      /\ \A i \in 1..(Len(l) + Len(r)) : w[i] = IF i <= Len(l) THEN l[i] ELSE r[i - Len(l)]
  BY <1>2, <1>3, ConcatProperties
<1> HIDE DEF w
<1>5. /\ Len(w) = Len(s) - 1
      /\ \A i \in 1..(Len(s) - 1) : w[i] = IF i <= p - 1 THEN l[i] ELSE r[i - (p - 1)]
  BY <1>1, <1>2, <1>3, <1>4
<1>6. ASSUME NEW i \in 1..(Len(s) - 1) PROVE w[i] = IF i < p THEN s[i] ELSE s[i + 1]
  <2>1. CASE i < p
    <3>1. i <= p - 1 /\ i \in 1..(p - 1)
      BY <1>1, <2>1
    <3>2. QED
      BY <1>2, <1>5, <2>1, <3>1
  <2>2. CASE ~(i < p)
    <3>1. i - (p - 1) \in 1..(Len(s) - p) /\ p + (i - (p - 1)) = i + 1 /\ ~(i <= p - 1)
      BY <1>1, <2>2
    <3>2. w[i] = r[i - (p - 1)]
      BY <1>5, <3>1
    <3>3. r[i - (p - 1)] = s[p + (i - (p - 1))]
      BY <1>3, <3>1
    <3>4. QED
      BY <2>2, <3>1, <3>2, <3>3
  <2>3. QED
    BY <2>1, <2>2
<1>7. QED
  BY <1>4, <1>5, <1>6 DEF RemoveAt, l, r, w

\* insertNeed keeps the list sorted and adds its need.
LEMMA InsertNeedSorted ==
  ASSUME NEW s \in Seq(Nat), Sorted(s), NEW n \in Nat
  PROVE  /\ InsertNeed(s, n) \in Seq(Nat) /\ Sorted(InsertNeed(s, n))
         /\ ToSet(InsertNeed(s, n)) = ToSet(s) \cup {n}
<1> DEFINE p == Position(s, n)
           t == InsertAt(s, p, n)
<1>1. /\ Len(s) \in Nat /\ DOMAIN s = 1..Len(s) /\ \A i \in 1..Len(s) : s[i] \in Nat
      /\ \A i, j \in 1..Len(s) : i < j => s[i] < s[j]
  BY SortedFacts
<1>2. p \in 1..(Len(s) + 1) /\ \A i \in 1..Len(s) : s[i] < n <=> i < p
  BY PositionSplits
<1>3. InsertNeed(s, n) = IF p <= Len(s) /\ s[p] = n THEN s ELSE t
  BY DEF InsertNeed
<1> HIDE DEF p
<1>4. CASE p <= Len(s) /\ s[p] = n
  <2>1. InsertNeed(s, n) = s
    BY <1>3, <1>4
  <2>2. n \in ToSet(s)
    BY <1>1, <1>2, <1>4 DEF ToSet
  <2>3. QED
    BY <2>1, <2>2
<1>5. CASE ~(p <= Len(s) /\ s[p] = n)
  <2>1. /\ t \in Seq(Nat) /\ Len(t) = Len(s) + 1
        /\ \A i \in 1..(Len(s) + 1) : t[i] = IF i < p THEN s[i] ELSE IF i = p THEN n ELSE s[i - 1]
    BY <1>2, InsertAtElements
  <2> HIDE DEF t
  <2>2. DOMAIN t = 1..(Len(s) + 1)
    BY <2>1, LenProperties
  <2>3. \A i \in 1..Len(s) : i >= p => s[i] > n
    <3> SUFFICES ASSUME NEW i \in 1..Len(s), i >= p PROVE s[i] > n
      OBVIOUS
    <3>1. p \in 1..Len(s) /\ s[p] > n
      BY <1>1, <1>2, <1>5
    <3>2. s[i] \in Nat /\ s[p] \in Nat /\ (i = p \/ s[p] < s[i])
      BY <1>1, <3>1
    <3>3. QED
      BY <3>1, <3>2
  <2>4. \A i \in 1..(Len(s) + 1) :
          \/ i = p /\ t[i] = n
          \/ i < p /\ i \in 1..Len(s) /\ t[i] = s[i]
          \/ i > p /\ i - 1 \in 1..Len(s) /\ i - 1 >= p /\ t[i] = s[i - 1]
    <3> SUFFICES ASSUME NEW i \in 1..(Len(s) + 1)
                 PROVE  \/ i = p /\ t[i] = n
                        \/ i < p /\ i \in 1..Len(s) /\ t[i] = s[i]
                        \/ i > p /\ i - 1 \in 1..Len(s) /\ i - 1 >= p /\ t[i] = s[i - 1]
      OBVIOUS
    <3>1. \/ i = p
          \/ i < p /\ i \in 1..Len(s)
          \/ i > p /\ i - 1 \in 1..Len(s) /\ i - 1 >= p
      BY <1>1, <1>2
    <3>2. QED
      BY <1>1, <1>2, <2>1, <3>1
  <2>5. \A i \in 1..Len(s) :
          \/ i < p /\ i \in 1..(Len(s) + 1) /\ t[i] = s[i]
          \/ i >= p /\ i + 1 \in 1..(Len(s) + 1) /\ t[i + 1] = s[i]
    <3> SUFFICES ASSUME NEW i \in 1..Len(s)
                 PROVE  \/ i < p /\ i \in 1..(Len(s) + 1) /\ t[i] = s[i]
                        \/ i >= p /\ i + 1 \in 1..(Len(s) + 1) /\ t[i + 1] = s[i]
      OBVIOUS
    <3>1. CASE i < p
      BY <1>1, <1>2, <2>4, <3>1
    <3>2. CASE i >= p
      <4>1. i + 1 \in 1..(Len(s) + 1) /\ i + 1 > p /\ i + 1 - 1 = i
        BY <1>1, <1>2, <3>2
      <4>2. t[i + 1] = s[i + 1 - 1]
        BY <1>2, <2>4, <4>1
      <4>3. QED
        BY <3>2, <4>1, <4>2
    <3>3. QED
      BY <1>2, <3>1, <3>2
  <2>6. Sorted(t)
    <3> SUFFICES ASSUME NEW i \in 1..(Len(s) + 1), NEW j \in 1..(Len(s) + 1), i < j
                 PROVE  t[i] < t[j]
      BY <2>2 DEF Sorted
    <3>1. CASE j < p
      BY <1>1, <1>2, <2>4, <3>1
    <3>2. CASE j = p
      <4>1. i < p /\ i \in 1..Len(s) /\ t[i] = s[i] /\ t[j] = n
        BY <1>1, <1>2, <2>4, <3>2
      <4>2. QED
        BY <1>2, <4>1
    <3>3. CASE j > p
      <4>1. t[j] = s[j - 1] /\ j - 1 \in 1..Len(s) /\ s[j - 1] > n /\ s[j - 1] \in Nat
        BY <1>1, <1>2, <2>3, <2>4, <3>3
      <4>2. CASE i = p
        BY <1>2, <2>4, <4>1, <4>2
      <4>3. CASE i < p
        <5>1. t[i] = s[i] /\ s[i] < n /\ s[i] \in Nat
          BY <1>1, <1>2, <2>4, <4>3
        <5>2. QED
          BY <4>1, <5>1
      <4>4. CASE i > p
        <5>1. t[i] = s[i - 1] /\ i - 1 \in 1..Len(s) /\ i - 1 < j - 1
          BY <1>1, <1>2, <2>4, <4>4
        <5>2. QED
          BY <1>1, <4>1, <5>1
      <4>5. QED
        BY <1>2, <4>2, <4>3, <4>4
    <3>4. QED
      BY <1>2, <3>1, <3>2, <3>3
  <2>7. ASSUME NEW v PROVE v \in ToSet(t) <=> v \in ToSet(s) \cup {n}
    <3>1. \A i \in 1..(Len(s) + 1) : t[i] = n \/ \E j \in 1..Len(s) : t[i] = s[j]
      BY <2>4
    <3>2. t[p] = n /\ \A j \in 1..Len(s) : \E i \in 1..(Len(s) + 1) : t[i] = s[j]
      BY <1>2, <2>4, <2>5
    <3>3. v \in ToSet(t) <=> \E i \in 1..(Len(s) + 1) : t[i] = v
      BY <2>2 DEF ToSet
    <3>4. v \in ToSet(s) <=> \E i \in 1..Len(s) : s[i] = v
      BY <1>1 DEF ToSet
    <3>5. QED
      BY <1>2, <3>1, <3>2, <3>3, <3>4
  <2>8. ToSet(t) = ToSet(s) \cup {n}
    BY <2>7
  <2>9. InsertNeed(s, n) = t
    BY <1>3, <1>5
  <2>10. QED
    BY <2>1, <2>6, <2>8, <2>9
<1>6. QED
  BY <1>4, <1>5

\* Taking a need out of the list leaves the others, sorted.
LEMMA RemoveNeedSorted ==
  ASSUME NEW s \in Seq(Nat), Sorted(s), NEW p \in 1..Len(s)
  PROVE  /\ RemoveAt(s, p) \in Seq(Nat) /\ Sorted(RemoveAt(s, p))
         /\ ToSet(RemoveAt(s, p)) = ToSet(s) \ {s[p]}
<1> DEFINE t == RemoveAt(s, p)
<1>1. /\ Len(s) \in Nat /\ DOMAIN s = 1..Len(s) /\ \A i \in 1..Len(s) : s[i] \in Nat
      /\ \A i, j \in 1..Len(s) : i < j => s[i] < s[j]
  BY SortedFacts
<1>2. /\ t \in Seq(Nat) /\ Len(t) = Len(s) - 1
      /\ \A i \in 1..(Len(s) - 1) : t[i] = IF i < p THEN s[i] ELSE s[i + 1]
  BY RemoveAtElements
<1> HIDE DEF t
<1>3. DOMAIN t = 1..(Len(s) - 1)
  BY <1>2, LenProperties
<1>4. \A i \in 1..(Len(s) - 1) :
        \/ i < p /\ i \in 1..Len(s) /\ t[i] = s[i]
        \/ i >= p /\ i + 1 \in 1..Len(s) /\ t[i] = s[i + 1]
  BY <1>1, <1>2, SMTT(30)
<1>5. \A i \in 1..Len(s) :
        \/ i = p
        \/ i < p /\ i \in 1..(Len(s) - 1) /\ t[i] = s[i]
        \/ i > p /\ i - 1 \in 1..(Len(s) - 1) /\ t[i - 1] = s[i]
  <2> SUFFICES ASSUME NEW i \in 1..Len(s)
               PROVE  \/ i = p
                      \/ i < p /\ i \in 1..(Len(s) - 1) /\ t[i] = s[i]
                      \/ i > p /\ i - 1 \in 1..(Len(s) - 1) /\ t[i - 1] = s[i]
    OBVIOUS
  <2>1. CASE i < p
    BY <1>1, <1>4, <2>1
  <2>2. CASE i > p
    <3>1. i - 1 \in 1..(Len(s) - 1) /\ ~(i - 1 < p) /\ i - 1 + 1 = i
      BY <1>1, <2>2
    <3>2. t[i - 1] = s[i - 1 + 1]
      BY <1>4, <3>1
    <3>3. QED
      BY <2>2, <3>1, <3>2
  <2>3. QED
    BY <1>1, <2>1, <2>2
<1>6. Sorted(t)
  <2> SUFFICES ASSUME NEW i \in 1..(Len(s) - 1), NEW j \in 1..(Len(s) - 1), i < j
               PROVE  t[i] < t[j]
    BY <1>3 DEF Sorted
  <2>1. /\ i \in 1..Len(s) /\ j \in 1..Len(s) /\ i + 1 \in 1..Len(s) /\ j + 1 \in 1..Len(s)
        /\ i < j + 1 /\ i + 1 < j + 1
    BY <1>1
  <2>2. s[i] < s[j] /\ s[i] < s[j + 1] /\ s[i + 1] < s[j + 1]
    BY <1>1, <2>1
  <2>3. \/ t[i] = s[i] /\ t[j] = s[j]
        \/ t[i] = s[i] /\ t[j] = s[j + 1]
        \/ t[i] = s[i + 1] /\ t[j] = s[j + 1]
    BY <1>1, <1>4
  <2>4. QED
    BY <2>2, <2>3
<1>7. \A i \in 1..Len(s) : i # p => s[i] # s[p]
  <2> SUFFICES ASSUME NEW i \in 1..Len(s), i # p PROVE s[i] # s[p]
    OBVIOUS
  <2>1. s[i] \in Nat /\ s[p] \in Nat /\ (s[i] < s[p] \/ s[p] < s[i])
    BY <1>1
  <2>2. QED
    BY <2>1
<1>8. ASSUME NEW v PROVE v \in ToSet(t) <=> v \in ToSet(s) \ {s[p]}
  <2>1. \A i \in 1..(Len(s) - 1) : \E j \in 1..Len(s) : j # p /\ t[i] = s[j]
    BY <1>1, <1>4
  <2>2. \A j \in 1..Len(s) : j # p => \E i \in 1..(Len(s) - 1) : t[i] = s[j]
    BY <1>5
  <2>3. v \in ToSet(t) <=> \E i \in 1..(Len(s) - 1) : t[i] = v
    BY <1>3 DEF ToSet
  <2>4. v \in ToSet(s) <=> \E i \in 1..Len(s) : s[i] = v
    BY <1>1 DEF ToSet
  <2>5. QED
    BY <1>7, <2>1, <2>2, <2>3, <2>4
<1>9. ToSet(t) = ToSet(s) \ {s[p]}
  BY <1>8
<1>10. QED
  BY <1>2, <1>6, <1>9 DEF t


(***************************************************************************)
(* The index                                                               *)
(***************************************************************************)
\* An index that files the baskets of B, each under its need in f.
FilesAll(idx, B, f) ==
  /\ idx.needs \in Seq(Nat) /\ Sorted(idx.needs) /\ ToSet(idx.needs) = DOMAIN idx.buckets
  /\ DOMAIN idx.lookup = B /\ \A b \in B : idx.lookup[b] = f[b]
  /\ DOMAIN idx.buckets = {f[b] : b \in B}
  /\ \A n \in DOMAIN idx.buckets : idx.buckets[n] = {b \in B : f[b] = n}

\* Add files one more basket.
LEMMA FileExact ==
  ASSUME NEW idx, NEW B \in SUBSET Baskets, NEW f \in [Baskets -> Nat],
         NEW g \in [Baskets -> Nat], NEW b \in Baskets, b \notin B,
         FilesAll(idx, B, f), \A c \in B : g[c] = f[c]
  PROVE  FilesAll(FileUnder(idx, b, g[b]), B \cup {b}, g)
<1> DEFINE n == g[b]
           new == FileUnder(idx, b, n)
           known == n \in DOMAIN idx.buckets
<1>1. n \in Nat
  OBVIOUS
<1>2. new.needs = IF known THEN idx.needs ELSE InsertNeed(idx.needs, n)
  BY DEF FileUnder
<1>3. /\ DOMAIN new.buckets = DOMAIN idx.buckets \cup {n}
      /\ \A m \in DOMAIN idx.buckets \cup {n} :
           new.buckets[m] = (IF m \in DOMAIN idx.buckets THEN idx.buckets[m] ELSE {})
                              \cup (IF m = n THEN {b} ELSE {})
  BY DEF FileUnder
<1>4. /\ DOMAIN new.lookup = DOMAIN idx.lookup \cup {b}
      /\ \A c \in DOMAIN idx.lookup \cup {b} :
           new.lookup[c] = IF c = b THEN n ELSE idx.lookup[c]
  BY DEF FileUnder
<1> HIDE DEF new, known
<1>5. /\ new.needs \in Seq(Nat) /\ Sorted(new.needs)
      /\ ToSet(new.needs) = DOMAIN idx.buckets \cup {n}
  <2>1. CASE known
    BY <1>2, <2>1 DEF FilesAll, known
  <2>2. CASE ~known
    <3>1. /\ InsertNeed(idx.needs, n) \in Seq(Nat) /\ Sorted(InsertNeed(idx.needs, n))
          /\ ToSet(InsertNeed(idx.needs, n)) = ToSet(idx.needs) \cup {n}
      BY <1>1, InsertNeedSorted DEF FilesAll
    <3>2. QED
      BY <1>2, <2>2, <3>1 DEF FilesAll
  <2>3. QED
    BY <2>1, <2>2
<1>6. DOMAIN new.lookup = B \cup {b} /\ \A c \in B \cup {b} : new.lookup[c] = g[c]
  BY <1>4 DEF FilesAll
<1>7. DOMAIN new.buckets = {g[c] : c \in B \cup {b}}
  BY <1>3 DEF FilesAll
<1>8. ASSUME NEW m \in DOMAIN new.buckets
      PROVE  new.buckets[m] = {c \in B \cup {b} : g[c] = m}
  <2>1. m \in DOMAIN idx.buckets => idx.buckets[m] = {c \in B : g[c] = m}
    BY DEF FilesAll
  <2>2. m \notin DOMAIN idx.buckets => {c \in B : g[c] = m} = {}
    BY DEF FilesAll
  <2>3. new.buckets[m] = {c \in B : g[c] = m} \cup (IF m = n THEN {b} ELSE {})
    BY <1>3, <2>1, <2>2
  <2>4. QED
    BY <2>3
<1>9. QED
  BY <1>3, <1>5, <1>6, <1>7, <1>8 DEF FilesAll, new

\* Remove, under the need a basket is filed under, takes that basket out.
LEMMA RemoveExact ==
  ASSUME NEW idx, NEW B \in SUBSET Baskets, NEW f \in [Baskets -> Nat], NEW b \in B,
         FilesAll(idx, B, f)
  PROVE  FilesAll(RemoveFromNeed(idx, f[b], b), B \ {b}, f)
<1> DEFINE n == f[b]
           new == RemoveFromNeed(idx, n, b)
           last == idx.buckets[n] \subseteq {b}
           pos == Position(idx.needs, n)
<1>1. n \in DOMAIN idx.buckets /\ idx.buckets[n] = {c \in B : f[c] = n}
  BY DEF FilesAll
<1>2. pos \in 1..Len(idx.needs) /\ idx.needs[pos] = n
  BY <1>1, PositionFinds DEF FilesAll
<1>3. pos <= Len(idx.needs)
  BY <1>2
<1>4. new.needs = IF last THEN RemoveAt(idx.needs, pos) ELSE idx.needs
  BY <1>1, <1>2, <1>3 DEF RemoveFromNeed
<1>5. /\ DOMAIN new.buckets = DOMAIN idx.buckets \ (IF last THEN {n} ELSE {})
      /\ \A m \in DOMAIN new.buckets :
           new.buckets[m] = IF m = n THEN idx.buckets[m] \ {b} ELSE idx.buckets[m]
  BY <1>1 DEF RemoveFromNeed
<1>6. /\ DOMAIN new.lookup = DOMAIN idx.lookup \ {b}
      /\ \A c \in DOMAIN idx.lookup \ {b} : new.lookup[c] = idx.lookup[c]
  BY DEF RemoveFromNeed, Restrict
<1> HIDE DEF new, pos
<1>7. /\ new.needs \in Seq(Nat) /\ Sorted(new.needs)
      /\ ToSet(new.needs) = DOMAIN idx.buckets \ (IF last THEN {n} ELSE {})
  <2>1. CASE last
    <3>1. /\ RemoveAt(idx.needs, pos) \in Seq(Nat) /\ Sorted(RemoveAt(idx.needs, pos))
          /\ ToSet(RemoveAt(idx.needs, pos)) = ToSet(idx.needs) \ {idx.needs[pos]}
      BY <1>2, RemoveNeedSorted DEF FilesAll
    <3>2. QED
      BY <1>2, <1>4, <2>1, <3>1 DEF FilesAll
  <2>2. CASE ~last
    BY <1>4, <2>2 DEF FilesAll
  <2>3. QED
    BY <2>1, <2>2
<1>8. DOMAIN new.lookup = B \ {b} /\ \A c \in B \ {b} : new.lookup[c] = f[c]
  BY <1>6 DEF FilesAll
<1>9. DOMAIN new.buckets = {f[c] : c \in B \ {b}}
  <2>1. last <=> n \notin {f[c] : c \in B \ {b}}
    BY <1>1
  <2>2. DOMAIN idx.buckets = {f[c] : c \in B \ {b}} \cup {n}
    BY DEF FilesAll
  <2>3. QED
    BY <1>5, <2>1, <2>2
<1>10. ASSUME NEW m \in DOMAIN new.buckets
       PROVE  new.buckets[m] = {c \in B \ {b} : f[c] = m}
  <2>1. m \in DOMAIN idx.buckets /\ idx.buckets[m] = {c \in B : f[c] = m}
    BY <1>5 DEF FilesAll
  <2>2. QED
    BY <1>5, <2>1
<1>11. QED
  BY <1>5, <1>7, <1>8, <1>9, <1>10 DEF FilesAll, new

\* What a basket of this pool needs, and the baskets of it: NeedAmount and In.
NeedIn(pool) == [b \in Baskets |-> NeedAmount(b, pool[b].current)]
Held(pool) == {b \in Baskets : pool[b].in}

\* What a basket still needs is a natural number.
LEMMA NeedIsNatural ==
  ASSUME NEW b \in Baskets, NEW n \in Nat
  PROVE  NeedAmount(b, n) \in Nat
BY EngineAssumption DEF NeedAmount

\* The index is exact when it files each basket of the pool under its need.
LEMMA ExactFilesAll ==
  ASSUME TypeOK
  PROVE  IndexExact <=> FilesAll(Index, In, NeedIn(baskets))
<1>1. /\ Index.needs = needs /\ Index.buckets = buckets /\ Index.lookup = lookup
      /\ needs \in Seq(Nat) /\ In \subseteq Baskets
      /\ \A b \in In : NeedIn(baskets)[b] = NeedAmount(b, baskets[b].current)
  BY DEF Index, TypeOK, In, NeedIn
<1>2. ASSUME IndexExact PROVE FilesAll(Index, In, NeedIn(baskets))
  <2>1. /\ DOMAIN lookup = In
        /\ \A b \in In : lookup[b] = NeedIn(baskets)[b]
    BY <1>1, <1>2 DEF IndexExact
  <2>2. DOMAIN buckets = {NeedIn(baskets)[b] : b \in In}
    BY <1>2, <2>1 DEF IndexExact
  <2>3. \A n \in DOMAIN buckets : buckets[n] = {b \in In : NeedIn(baskets)[b] = n}
    BY <1>2, <2>1 DEF IndexExact
  <2>4. Sorted(needs) /\ ToSet(needs) = DOMAIN buckets
    BY <1>2 DEF IndexExact, Sorted
  <2>5. QED
    BY <1>1, <2>1, <2>2, <2>3, <2>4 DEF FilesAll
<1>3. ASSUME FilesAll(Index, In, NeedIn(baskets)) PROVE IndexExact
  <2>1. /\ DOMAIN lookup = In
        /\ \A b \in In : lookup[b] = NeedIn(baskets)[b]
    BY <1>1, <1>3 DEF FilesAll
  <2>2. DOMAIN buckets = {lookup[b] : b \in In}
    BY <1>1, <1>3, <2>1 DEF FilesAll
  <2>3. \A n \in DOMAIN buckets : buckets[n] = {b \in In : lookup[b] = n}
    BY <1>1, <1>3, <2>1 DEF FilesAll
  <2>4. Sorted(needs) /\ ToSet(needs) = DOMAIN buckets
    BY <1>1, <1>3 DEF FilesAll
  <2>5. QED
    BY <1>1, <2>1, <2>2, <2>3, <2>4 DEF IndexExact, Sorted
<1>4. QED
  BY <1>2, <1>3


PoolType(pool) ==
  pool \in [Baskets -> [in : BOOLEAN, current : Nat, deposits : SUBSET Deposits, expire : Nat]]

\* The needs of a pool are natural numbers.
LEMMA NeedsAreNatural ==
  ASSUME NEW pool, PoolType(pool)
  PROVE  /\ NeedIn(pool) \in [Baskets -> Nat] /\ Held(pool) \in SUBSET Baskets
         /\ \A b \in Baskets : NeedIn(pool)[b] = NeedAmount(b, pool[b].current)
<1>1. \A b \in Baskets : pool[b].current \in Nat
  BY DEF PoolType
<1>2. QED
  BY <1>1, NeedIsNatural DEF NeedIn, Held

\* A step that leaves an index filing the new pool leaves IndexExact.
LEMMA BecomesExact ==
  ASSUME NEW idx, PoolType(baskets'), FilesAll(idx, Held(baskets'), NeedIn(baskets')),
         Becomes(idx)
  PROVE  IndexExact'
<1>1. /\ needs' = idx.needs /\ buckets' = idx.buckets /\ lookup' = idx.lookup
      /\ In' = Held(baskets') /\ Held(baskets') \subseteq Baskets
  BY DEF Becomes, In, Held
<1>2. \A b \in Baskets : NeedIn(baskets')[b] = NeedAmount(b, baskets'[b].current)
                           /\ NeedIn(baskets')[b] \in Nat
  BY NeedsAreNatural
<1>3. /\ DOMAIN lookup' = In' /\ \A b \in In' : lookup'[b] = NeedIn(baskets')[b]
      /\ \A b \in In' : lookup'[b] \in Nat
  BY <1>1, <1>2 DEF FilesAll
<1>4. /\ DOMAIN buckets' = {lookup'[b] : b \in In'}
      /\ \A n \in DOMAIN buckets' : buckets'[n] = {b \in In' : lookup'[b] = n}
  BY <1>1, <1>3 DEF FilesAll
<1>5. needs' \in Seq(Nat) /\ Sorted(needs') /\ ToSet(needs') = DOMAIN buckets'
  BY <1>1 DEF FilesAll
<1>6. TypeOK'
  <2>1. DOMAIN buckets' \subseteq Nat /\ \A n \in DOMAIN buckets' : buckets'[n] \subseteq Baskets
    BY <1>1, <1>3, <1>4
  <2>2. QED
    BY <1>1, <1>3, <1>5, <2>1 DEF TypeOK, PoolType
<1>7. \A b \in In' : lookup'[b] = NeedAmount(b, baskets'[b].current)
  BY <1>1, <1>2, <1>3
<1>8. QED
  BY <1>3, <1>4, <1>5, <1>6, <1>7 DEF IndexExact, Sorted

\* What IndexExact says of the pool before a step.
LEMMA ExactBefore ==
  ASSUME IndexExact
  PROVE  /\ PoolType(baskets) /\ FilesAll(Index, Held(baskets), NeedIn(baskets))
         /\ In = Held(baskets) /\ lookup = Index.lookup
<1>1. TypeOK
  BY DEF IndexExact
<1>2. QED
  BY <1>1, ExactFilesAll DEF PoolType, TypeOK, In, Held, Index

\* restoreBasket and createBasketLocked.
LEMMA AddExact ==
  ASSUME IndexExact, NEW b \in Baskets, NEW S \in SUBSET Deposits, NEW e \in Deadlines,
         AddBasket(b, S, e)
  PROVE  IndexExact'
<1> DEFINE n == Total(S)
<1>1. PoolType(baskets) /\ FilesAll(Index, Held(baskets), NeedIn(baskets))
  BY ExactBefore
<1>2. n \in Nat /\ e \in Nat
  BY EngineAssumption
<1>3. /\ ~baskets[b].in
      /\ baskets' = [baskets EXCEPT ![b] =
                      [in |-> TRUE, current |-> n, deposits |-> S, expire |-> e]]
      /\ Becomes(FileUnder(Index, b, NeedAmount(b, n)))
  BY DEF AddBasket
<1> HIDE DEF n
<1>4. PoolType(baskets')
  BY <1>1, <1>2, <1>3 DEF PoolType
<1>5. /\ baskets'[b].current = n /\ baskets'[b].in
      /\ \A c \in Baskets \ {b} : baskets'[c] = baskets[c]
  BY <1>1, <1>3 DEF PoolType
<1>6. Held(baskets') = Held(baskets) \cup {b} /\ b \notin Held(baskets)
  BY <1>3, <1>5 DEF Held
<1>7. /\ NeedIn(baskets')[b] = NeedAmount(b, n)
      /\ \A c \in Held(baskets) : NeedIn(baskets')[c] = NeedIn(baskets)[c]
  BY <1>5, <1>6 DEF NeedIn, Held
<1>8. FilesAll(FileUnder(Index, b, NeedIn(baskets')[b]), Held(baskets) \cup {b}, NeedIn(baskets'))
  <2>1. /\ NeedIn(baskets) \in [Baskets -> Nat] /\ NeedIn(baskets') \in [Baskets -> Nat]
        /\ Held(baskets) \in SUBSET Baskets
    BY <1>1, <1>4, NeedsAreNatural
  <2>2. QED
    BY <1>1, <1>6, <1>7, <2>1, FileExact
<1>9. QED
  BY <1>3, <1>4, <1>6, <1>7, <1>8, BecomesExact

\* RemoveBasket, and the removal of a basket that is full.
LEMMA UnfileExact ==
  ASSUME IndexExact, NEW b \in Baskets, baskets[b].in, Becomes(Unfile(b)),
         baskets' = [baskets EXCEPT ![b] = Out]
  PROVE  IndexExact'
<1>1. PoolType(baskets) /\ FilesAll(Index, Held(baskets), NeedIn(baskets))
  BY ExactBefore
<1>2. b \in Held(baskets) /\ lookup[b] = NeedIn(baskets)[b] /\ b \in DOMAIN lookup
  BY ExactBefore DEF FilesAll, Held, Index
<1>3. Unfile(b) = RemoveFromNeed(Index, NeedIn(baskets)[b], b)
  BY <1>2 DEF Unfile
<1>4. PoolType(baskets')
  BY <1>1 DEF PoolType, Out
<1>5. ~baskets'[b].in /\ \A c \in Baskets \ {b} : baskets'[c] = baskets[c]
  BY <1>1 DEF PoolType, Out
<1>6. Held(baskets') = Held(baskets) \ {b}
  BY <1>5 DEF Held
<1>7. \A c \in Held(baskets) \ {b} : NeedIn(baskets')[c] = NeedIn(baskets)[c]
  BY <1>5 DEF NeedIn, Held
<1>8. FilesAll(Unfile(b), Held(baskets) \ {b}, NeedIn(baskets))
  <2>1. NeedIn(baskets) \in [Baskets -> Nat] /\ Held(baskets) \in SUBSET Baskets
    BY <1>1, NeedsAreNatural
  <2>2. QED
    BY <1>1, <1>2, <1>3, <2>1, RemoveExact
<1>9. FilesAll(Unfile(b), Held(baskets'), NeedIn(baskets'))
  <2>1. {NeedIn(baskets)[c] : c \in Held(baskets) \ {b}} = {NeedIn(baskets')[c] : c \in Held(baskets) \ {b}}
    BY <1>7
  <2>2. \A m : {c \in Held(baskets) \ {b} : NeedIn(baskets)[c] = m}
                 = {c \in Held(baskets) \ {b} : NeedIn(baskets')[c] = m}
    BY <1>7
  <2>3. QED
    BY <1>6, <1>7, <1>8, <2>1, <2>2 DEF FilesAll
<1>10. QED
  BY <1>4, <1>9, BecomesExact

\* ReleaseDeposit and attachDepositLocked: the basket moves to the need it has now.
LEMMA UpdateExact ==
  ASSUME IndexExact, NEW b \in Baskets, NEW current \in Nat, NEW S \in SUBSET Deposits,
         baskets[b].in, Becomes(Update(b, current)),
         baskets' = [baskets EXCEPT ![b].current = current, ![b].deposits = S]
  PROVE  IndexExact'
<1> DEFINE taken == RemoveFromNeed(Index, NeedIn(baskets)[b], b)
<1>1. PoolType(baskets) /\ FilesAll(Index, Held(baskets), NeedIn(baskets))
  BY ExactBefore
<1>2. b \in Held(baskets)
  BY DEF Held
<1>3. PoolType(baskets')
  BY <1>1 DEF PoolType
<1>4. /\ baskets'[b].in /\ baskets'[b].current = current
      /\ \A c \in Baskets \ {b} : baskets'[c] = baskets[c]
  BY <1>1 DEF PoolType
<1>5. Held(baskets') = (Held(baskets) \ {b}) \cup {b} /\ b \notin Held(baskets) \ {b}
  BY <1>2, <1>4 DEF Held
<1>6. /\ NeedIn(baskets')[b] = NeedAmount(b, current)
      /\ \A c \in Held(baskets) \ {b} : NeedIn(baskets')[c] = NeedIn(baskets)[c]
  <2>1. NeedIn(baskets')[b] = NeedAmount(b, baskets'[b].current)
    BY DEF NeedIn
  <2>2. \A c \in Baskets : /\ NeedIn(baskets')[c] = NeedAmount(c, baskets'[c].current)
                           /\ NeedIn(baskets)[c] = NeedAmount(c, baskets[c].current)
    BY DEF NeedIn
  <2>3. ASSUME NEW c \in Held(baskets) \ {b} PROVE NeedIn(baskets')[c] = NeedIn(baskets)[c]
    <3>1. c \in Baskets /\ baskets'[c] = baskets[c]
      BY <1>4 DEF Held
    <3>2. QED
      BY <2>2, <3>1
  <2>4. QED
    BY <1>4, <2>1, <2>3
<1>7. /\ NeedIn(baskets) \in [Baskets -> Nat] /\ NeedIn(baskets') \in [Baskets -> Nat]
      /\ Held(baskets) \in SUBSET Baskets
  BY <1>1, <1>3, NeedsAreNatural
<1>8. FilesAll(taken, Held(baskets) \ {b}, NeedIn(baskets))
  BY <1>1, <1>2, <1>7, RemoveExact
<1>9. Update(b, current) = FileUnder(taken, b, NeedIn(baskets')[b])
  <2>1. NeedIn(baskets)[b] = NeedAmount(b, baskets[b].current)
    BY DEF NeedIn
  <2>2. QED
    BY <1>6, <2>1 DEF Update
<1> HIDE DEF taken
<1>10. FilesAll(FileUnder(taken, b, NeedIn(baskets')[b]), (Held(baskets) \ {b}) \cup {b}, NeedIn(baskets'))
  <2>1. Held(baskets) \ {b} \in SUBSET Baskets
    BY <1>7
  <2>2. QED
    BY <1>5, <1>6, <1>7, <1>8, <2>1, FileExact
<1>11. QED
  BY <1>3, <1>5, <1>9, <1>10, BecomesExact


\* A match that completes or attaches, of any candidate.
LEMMA MatchExact ==
  ASSUME IndexExact, NEW d \in Deposits, MatchComplete(d) \/ MatchAttach(d)
  PROVE  IndexExact'
<1>1. PoolType(baskets) /\ In = Held(baskets) /\ lookup = Index.lookup
  BY ExactBefore
<1>2. \A n \in DOMAIN buckets : buckets[n] \subseteq In
  BY DEF IndexExact
<1>3. ASSUME NEW b \in BestCompletable(Amount[d]) PROVE b \in In
  <2>1. b \in buckets[Amount[d]] /\ Amount[d] \in DOMAIN buckets
    BY <1>3 DEF BestCompletable, FindCompletable
  <2>2. QED
    BY <1>2, <2>1
<1>4. ASSUME NEW b \in BestAcceptable(Amount[d]) PROVE b \in In
  <2>1. b \in AcceptableFound(Amount[d])
    BY <1>4 DEF BestAcceptable, FindAcceptable
  <2>2. PICK i \in Position(needs, Amount[d] + 1)..Len(needs) : b \in buckets[needs[i]]
    BY <2>1 DEF AcceptableFound
  <2>3. Amount[d] + 1 \in Nat /\ Sorted(needs) /\ needs \in Seq(Nat)
    BY EngineAssumption DEF IndexExact, TypeOK, Sorted
  <2>4. Position(needs, Amount[d] + 1) \in 1..(Len(needs) + 1)
    BY <2>3, PositionSplits
  <2>5. Len(needs) \in Nat /\ DOMAIN needs = 1..Len(needs)
    BY <2>3, SortedFacts
  <2>6. i \in DOMAIN needs
    BY <2>4, <2>5
  <2>7. needs[i] \in DOMAIN buckets
    BY <2>6 DEF IndexExact, ToSet
  <2>8. QED
    BY <1>2, <2>2, <2>7
<1>5. CASE MatchComplete(d)
  <2>1. PICK b \in BestCompletable(Amount[d]) :
          Becomes(Unfile(b)) /\ baskets' = [baskets EXCEPT ![b] = Out]
    BY <1>5 DEF MatchComplete
  <2>2. b \in Baskets /\ baskets[b].in
    BY <1>3 DEF In
  <2>3. QED
    BY <2>1, <2>2, UnfileExact
<1>6. CASE MatchAttach(d)
  <2>1. PICK b \in BestAcceptable(Amount[d]) :
          /\ Becomes(Update(b, baskets[b].current + Amount[d]))
          /\ baskets' = [baskets EXCEPT ![b].current = @ + Amount[d], ![b].deposits = @ \cup {d}]
    BY <1>6 DEF MatchAttach
  <2>2. b \in Baskets /\ baskets[b].in
    BY <1>4 DEF In
  <2>3. baskets[b].current + Amount[d] \in Nat /\ baskets[b].deposits \cup {d} \in SUBSET Deposits
    BY <1>1, <2>2, EngineAssumption DEF PoolType
  <2>4. baskets' = [baskets EXCEPT ![b].current = baskets[b].current + Amount[d],
                                   ![b].deposits = baskets[b].deposits \cup {d}]
    BY <1>1, <2>1, <2>2 DEF PoolType
  <2>5. QED
    BY <2>1, <2>2, <2>3, <2>4, UpdateExact
<1>7. QED
  BY <1>5, <1>6

\* Every call leaves the index exact.
LEMMA StepExact ==
  ASSUME IndexExact, [Next]_vars
  PROVE  IndexExact'
<1>1. CASE UNCHANGED <<baskets, index>>
  <2>1. baskets' = baskets /\ needs' = needs /\ buckets' = buckets /\ lookup' = lookup
    BY <1>1 DEF index
  <2>2. PoolType(baskets) /\ FilesAll(Index, Held(baskets), NeedIn(baskets))
    BY ExactBefore
  <2>3. Becomes(Index)
    BY <2>1 DEF Becomes, Index
  <2>4. QED
    BY <2>1, <2>2, <2>3, BecomesExact
<1>2. ASSUME NEW b \in Baskets, NEW S \in SUBSET Deposits, NEW e \in Deadlines, AddBasket(b, S, e)
      PROVE  IndexExact'
  BY <1>2, AddExact
<1>3. ASSUME NEW b \in Baskets, RemoveBasket(b) PROVE IndexExact'
  BY <1>3, UnfileExact DEF RemoveBasket
<1>4. ASSUME NEW b \in Baskets, NEW d \in Deposits, ReleaseDeposit(b, d) PROVE IndexExact'
  <2> DEFINE current == IF baskets[b].current >= Amount[d] THEN baskets[b].current - Amount[d] ELSE 0
  <2>1. PoolType(baskets)
    BY ExactBefore
  <2>2. current \in Nat /\ baskets[b].deposits \ {d} \in SUBSET Deposits
    BY <2>1, EngineAssumption DEF PoolType
  <2>3. /\ baskets[b].in /\ Becomes(Update(b, current))
        /\ baskets' = [baskets EXCEPT ![b].current = current, ![b].deposits = @ \ {d}]
    BY <1>4 DEF ReleaseDeposit
  <2> HIDE DEF current
  <2>4. baskets' = [baskets EXCEPT ![b].current = current,
                                   ![b].deposits = baskets[b].deposits \ {d}]
    BY <2>1, <2>3 DEF PoolType
  <2>5. QED
    BY <2>2, <2>3, <2>4, UpdateExact
<1>5. ASSUME NEW d \in Deposits,
             MatchComplete(d) \/ MatchAttach(d) \/ MatchFailed(d) \/ MatchPending(d)
      PROVE  IndexExact'
  BY <1>1, <1>5, MatchExact DEF MatchFailed, MatchPending
<1>6. QED
  BY <1>1, <1>2, <1>3, <1>4, <1>5 DEF Next, vars

\* The three structures of BucketNeedIndex (buckets, lookup and the sorted needs) agree
\* with the pool after any sequence of calls, for any amounts and any number of baskets.
THEOREM IndexCorrect == Spec => []IndexExact
<1>1. Init => IndexExact
  <2> SUFFICES ASSUME Init PROVE IndexExact
    OBVIOUS
  <2>1. /\ baskets = [b \in Baskets |-> Out] /\ needs = <<>> /\ buckets = <<>> /\ lookup = <<>>
    BY DEF Init
  <2>2. In = {} /\ DOMAIN lookup = {} /\ DOMAIN buckets = {} /\ DOMAIN needs = {}
    BY <2>1 DEF In, Out
  <2>3. TypeOK
    <3>1. baskets \in [Baskets -> [in : BOOLEAN, current : Nat, deposits : SUBSET Deposits,
                                   expire : Nat]]
      BY <2>1 DEF Out
    <3>2. QED
      BY <2>1, <2>2, <3>1 DEF TypeOK
  <2>4. QED
    BY <2>1, <2>2, <2>3 DEF IndexExact, ToSet
<1>2. IndexExact /\ [Next]_vars => IndexExact'
  BY StepExact
<1>3. QED
  BY <1>1, <1>2, PTL DEF Spec


(***************************************************************************)
(* Choosing among finite sets                                              *)
(***************************************************************************)
\* A finite set has a part of each size that comes first in an order of its members.
LEMMA FirstPart ==
  ASSUME NEW S, IsFiniteSet(S), NEW f \in [S -> Nat], NEW k \in 0..Cardinality(S)
  PROVE  \E T \in SUBSET S : Cardinality(T) = k /\ \A b \in T, c \in S \ T : f[b] <= f[c]
<1> DEFINE Part(j, T) == Cardinality(T) = j /\ \A b \in T, c \in S \ T : f[b] <= f[c]
           None == {j \in 0..Cardinality(S) : \A T \in SUBSET S : ~Part(j, T)}
<1>1. Cardinality(S) \in Nat
  BY FS_CardinalityType
<1>2. SUFFICES ASSUME k \in None PROVE FALSE
  OBVIOUS
<1>3. None \in SUBSET Nat /\ None # {}
  BY <1>1, <1>2
<1> HIDE DEF None
<1>4. PICK j \in None : \A i \in None : j <= i
  BY <1>3, LeastNatural
<1>5. j \in 0..Cardinality(S) /\ \A T \in SUBSET S : ~Part(j, T)
  BY DEF None
<1>6. j # 0
  <2>1. Part(0, {})
    BY FS_EmptySet
  <2>2. QED
    BY <1>5, <2>1
<1>7. j - 1 \in 0..Cardinality(S) /\ j - 1 \notin None
  BY <1>1, <1>3, <1>4, <1>5, <1>6
<1>8. PICK T \in SUBSET S : Part(j - 1, T)
  BY <1>7 DEF None
<1>9. IsFiniteSet(T) /\ Cardinality(T) = j - 1
  BY <1>8, FS_Subset
<1>10. S \ T # {}
  <2>1. T # S
    BY <1>1, <1>5, <1>6, <1>9
  <2>2. QED
    BY <2>1
<1> DEFINE V == {f[c] : c \in S \ T}
<1>11. V \in SUBSET Nat /\ V # {}
  BY <1>10
<1> HIDE DEF V
<1>12. PICK m \in V : \A n \in V : m <= n
  BY <1>11, LeastNatural
<1>13. PICK x \in S \ T : m = f[x]
  BY DEF V
<1>14. \A c \in S \ T : f[x] <= f[c]
  BY <1>12, <1>13 DEF V
<1>15. Cardinality(T \cup {x}) = j
  <2>1. Cardinality(T \cup {x}) = Cardinality(T) + 1
    BY <1>9, FS_AddElement
  <2>2. QED
    BY <1>1, <1>5, <1>9, <2>1
<1>16. \A b \in T \cup {x}, c \in S \ (T \cup {x}) : f[b] <= f[c]
  BY <1>8, <1>14
<1>17. Part(j, T \cup {x})
  BY <1>15, <1>16
<1>18. QED
  BY <1>5, <1>17

\* Among the members of a set there is a least one, by three keys in turn.
LEMMA LeastByThree ==
  ASSUME NEW T, T # {}, NEW f \in [T -> Nat], NEW g \in [T -> Nat], NEW h \in [T -> Nat]
  PROVE  \E b \in T : \A c \in T :
           \/ f[b] < f[c]
           \/ f[b] = f[c] /\ (g[b] < g[c] \/ (g[b] = g[c] /\ h[b] <= h[c]))
<1> DEFINE F == {f[c] : c \in T}
<1>1. F \in SUBSET Nat /\ F # {}
  OBVIOUS
<1> HIDE DEF F
<1>2. PICK m1 \in F : \A n \in F : m1 <= n
  BY <1>1, LeastNatural
<1> DEFINE T1 == {c \in T : f[c] = m1}
           G == {g[c] : c \in T1}
<1>3. T1 # {}
  BY DEF F
<1>4. G \in SUBSET Nat /\ G # {}
  BY <1>3
<1> HIDE DEF G
<1>5. PICK m2 \in G : \A n \in G : m2 <= n
  BY <1>4, LeastNatural
<1> DEFINE T2 == {c \in T1 : g[c] = m2}
           H == {h[c] : c \in T2}
<1>6. T2 # {}
  BY DEF G
<1>7. H \in SUBSET Nat /\ H # {}
  BY <1>6
<1> HIDE DEF H
<1>8. PICK m3 \in H : \A n \in H : m3 <= n
  BY <1>7, LeastNatural
<1>9. PICK b \in T2 : h[b] = m3
  BY DEF H
<1>10. b \in T /\ f[b] = m1 /\ g[b] = m2 /\ h[b] = m3
  BY <1>9
<1>11. ASSUME NEW c \in T
       PROVE  \/ f[b] < f[c]
              \/ f[b] = f[c] /\ (g[b] < g[c] \/ (g[b] = g[c] /\ h[b] <= h[c]))
  <2>1. m1 <= f[c] /\ m1 \in Nat /\ f[c] \in Nat
    BY <1>1, <1>2 DEF F
  <2>2. f[c] = m1 => m2 <= g[c] /\ m2 \in Nat /\ g[c] \in Nat
    BY <1>4, <1>5 DEF G
  <2>3. f[c] = m1 /\ g[c] = m2 => m3 <= h[c]
    BY <1>8 DEF H
  <2>4. QED
    BY <1>10, <2>1, <2>2, <2>3
<1>12. QED
  BY <1>10, <1>11


(***************************************************************************)
(* The lookups find what a search of the whole pool would                  *)
(***************************************************************************)
FiniteIn == IsFiniteSet(In)

\* What a lookup returns of those it found: all, or Limit of them.
Cut(S) == IF Cardinality(S) < Limit THEN Cardinality(S) ELSE Limit

\* The limit on candidates leaves at least one of some.
LEMMA CutInRange ==
  ASSUME NEW S, IsFiniteSet(S)
  PROVE  Cut(S) \in 0..Cardinality(S) /\ (S # {} => Cut(S) > 0)
<1>1. Cardinality(S) \in Nat /\ (Cardinality(S) = 0 <=> S = {}) /\ Limit \in Nat \ {0}
  BY FS_CardinalityType, FS_EmptySet, EngineAssumption
<1>2. QED
  BY <1>1 DEF Cut

\* The keys by which candidates are compared are numbers.
LEMMA KeysAreNumbers ==
  ASSUME IndexExact, NEW b \in Baskets
  PROVE  /\ baskets[b].current \in Nat /\ baskets[b].expire \in Nat
         /\ Cardinality(baskets[b].deposits) \in Nat
         /\ Target[b] \in Nat \ {0} /\ Left(b) \in Int
<1>1. baskets[b].current \in Nat /\ baskets[b].expire \in Nat /\ baskets[b].deposits \in SUBSET Deposits
  BY DEF IndexExact, TypeOK
<1>2. Cardinality(baskets[b].deposits) \in Nat
  BY <1>1, EngineAssumption, FS_Subset, FS_CardinalityType
<1>3. QED
  BY <1>1, <1>2, EngineAssumption DEF Left

\* FindCompletable looks at the baskets a deposit of this amount completes.
LEMMA CompletableFound ==
  ASSUME IndexExact, NEW d \in Deposits
  PROVE  FindCompletable(Amount[d]) =
           {T \in SUBSET AbstractPool!Completable(d) :
              Cardinality(T) = Cut(AbstractPool!Completable(d))}
<1> DEFINE a == Amount[d]
           found == {b \in (IF a \in DOMAIN buckets THEN buckets[a] ELSE {}) : CanComplete(b, a)}
<1>1. a \in Nat \ {0}
  BY EngineAssumption
<1>2. AbstractPool!Completable(d) = {b \in In : baskets[b].current + a = Target[b]}
  BY DEF AbstractPool!Completable, In
<1>3. \A b \in In : baskets[b].current + a = Target[b] => a \in DOMAIN buckets /\ b \in buckets[a]
  <2> SUFFICES ASSUME NEW b \in In, baskets[b].current + a = Target[b]
               PROVE  a \in DOMAIN buckets /\ b \in buckets[a]
    OBVIOUS
  <2>1. b \in Baskets
    BY DEF In
  <2>2. NeedAmount(b, baskets[b].current) = a
    BY <1>1, <2>1, KeysAreNumbers DEF NeedAmount
  <2>3. lookup[b] = a
    BY <2>2 DEF IndexExact
  <2>4. QED
    BY <2>3 DEF IndexExact
<1>4. a \in DOMAIN buckets => buckets[a] \subseteq In
  BY DEF IndexExact
<1>5. found = AbstractPool!Completable(d)
  BY <1>2, <1>3, <1>4 DEF CanComplete
<1>6. FindCompletable(a) = {T \in SUBSET found : Cardinality(T) = Cut(found)}
  BY DEF FindCompletable, Cut
<1>7. QED
  BY <1>5, <1>6

\* The position of a basket of the pool in needs is that of what it needs.
LEMMA FiledNeed ==
  ASSUME IndexExact, NEW b \in In
  PROVE  Filed(b) \in 1..Len(needs) /\ needs[Filed(b)] = NeedAmount(b, baskets[b].current)
<1>1. lookup[b] \in ToSet(needs) /\ lookup[b] = NeedAmount(b, baskets[b].current)
  BY DEF IndexExact
<1>2. needs \in Seq(Nat) /\ Sorted(needs)
  BY DEF IndexExact, TypeOK, Sorted
<1>3. DOMAIN needs = 1..Len(needs)
  BY <1>2, SortedFacts
<1>4. \A i \in DOMAIN needs : b \in buckets[needs[i]] <=> needs[i] = lookup[b]
  <2> SUFFICES ASSUME NEW i \in DOMAIN needs
               PROVE  b \in buckets[needs[i]] <=> needs[i] = lookup[b]
    OBVIOUS
  <2>1. needs[i] \in DOMAIN buckets
    BY DEF IndexExact, ToSet
  <2>2. buckets[needs[i]] = {c \in In : lookup[c] = needs[i]}
    BY <2>1 DEF IndexExact
  <2>3. QED
    BY <2>2
<1>5. \E i \in DOMAIN needs : b \in buckets[needs[i]]
  <2>1. PICK i \in DOMAIN needs : needs[i] = lookup[b]
    BY <1>1 DEF ToSet
  <2>2. QED
    BY <1>4, <2>1
<1>6. Filed(b) \in DOMAIN needs /\ b \in buckets[needs[Filed(b)]]
  BY <1>5 DEF Filed
<1>7. QED
  BY <1>1, <1>3, <1>4, <1>6

\* The walk of FindAcceptable meets the baskets that wait after such a deposit.
LEMMA AcceptableIsFound ==
  ASSUME IndexExact, NEW d \in Deposits
  PROVE  /\ AcceptableFound(Amount[d]) = AbstractPool!Acceptable(d)
         /\ \A b \in AbstractPool!Acceptable(d) :
              /\ b \in In /\ Left(b) = NeedAmount(b, baskets[b].current)
              /\ Left(b) \in Nat
<1> DEFINE a == Amount[d]
           p == Position(needs, a + 1)
<1>1. a \in Nat \ {0} /\ a + 1 \in Nat
  BY EngineAssumption
<1>2. needs \in Seq(Nat) /\ Sorted(needs)
  BY DEF IndexExact, TypeOK, Sorted
<1>3. Len(needs) \in Nat /\ DOMAIN needs = 1..Len(needs) /\ \A i \in 1..Len(needs) : needs[i] \in Nat
  BY <1>2, SortedFacts
<1>4. p \in 1..(Len(needs) + 1) /\ \A i \in 1..Len(needs) : needs[i] < a + 1 <=> i < p
  BY <1>1, <1>2, PositionSplits
<1> HIDE DEF p
<1>5. AbstractPool!Acceptable(d) = {b \in In : baskets[b].current + a < Target[b]}
  BY DEF AbstractPool!Acceptable, In
<1>6. ASSUME NEW b \in In
      PROVE  /\ baskets[b].current + a < Target[b] <=> NeedAmount(b, baskets[b].current) >= a + 1
             /\ baskets[b].current + a < Target[b] =>
                  /\ Left(b) = NeedAmount(b, baskets[b].current) /\ Left(b) \in Nat
                  /\ CanAccept(b, a)
  <2>1. b \in Baskets
    BY DEF In
  <2>2. baskets[b].current \in Nat /\ Target[b] \in Nat
    BY <2>1, KeysAreNumbers
  <2>3. QED
    BY <1>1, <2>2 DEF NeedAmount, CanAccept, Left
<1>7. ASSUME NEW b \in AcceptableFound(a) PROVE b \in AbstractPool!Acceptable(d)
  <2>1. PICK i \in p..Len(needs) : b \in buckets[needs[i]]
    BY DEF AcceptableFound, p
  <2>2. i \in 1..Len(needs) /\ ~(i < p)
    BY <1>3, <1>4
  <2>3. needs[i] \in DOMAIN buckets
    BY <1>3, <2>2 DEF IndexExact, ToSet
  <2>4. b \in In /\ lookup[b] = needs[i]
    BY <2>1, <2>3 DEF IndexExact
  <2>5. NeedAmount(b, baskets[b].current) = needs[i] /\ needs[i] \in Nat
    BY <1>3, <2>2, <2>4 DEF IndexExact
  <2>6. needs[i] >= a + 1
    BY <1>1, <1>4, <2>2, <2>5
  <2>7. QED
    BY <1>5, <1>6, <2>4, <2>5, <2>6
<1>8. ASSUME NEW b \in AbstractPool!Acceptable(d) PROVE b \in AcceptableFound(a)
  <2>1. b \in In /\ CanAccept(b, a) /\ NeedAmount(b, baskets[b].current) >= a + 1
    BY <1>5, <1>6
  <2>2. Filed(b) \in 1..Len(needs) /\ needs[Filed(b)] = NeedAmount(b, baskets[b].current)
    BY <2>1, FiledNeed
  <2> DEFINE i == Filed(b)
  <2>3. i \in 1..Len(needs) /\ needs[i] >= a + 1 /\ needs[i] = NeedAmount(b, baskets[b].current)
    BY <2>1, <2>2
  <2> HIDE DEF i
  <2>4. i \in p..Len(needs)
    <3>1. ~(i < p)
      BY <1>1, <1>3, <1>4, <2>3
    <3>2. QED
      BY <1>3, <1>4, <2>3, <3>1
  <2>5. needs[i] \in DOMAIN buckets /\ lookup[b] = needs[i]
    BY <1>3, <2>1, <2>3 DEF IndexExact, ToSet
  <2>6. b \in buckets[needs[i]]
    BY <2>1, <2>5 DEF IndexExact
  <2>7. QED
    BY <2>1, <2>4, <2>6 DEF AcceptableFound, p
<1>9. QED
  BY <1>5, <1>6, <1>7, <1>8


\* Pool counts as EngineShard does.
LEMMA SameCardinality ==
  ASSUME NEW S
  PROVE  AbstractPool!Cardinality(S) = Cardinality(S)
BY DEF AbstractPool!Cardinality, Cardinality

\* Among candidates of which only Cut(S) are looked at, one that no looked-at one is
\* before is among the best of them all.
LEMMA BestOfPart ==
  ASSUME IndexExact, NEW S \in SUBSET Baskets, IsFiniteSet(S), NEW T \in SUBSET S,
         Cardinality(T) = Cut(S), NEW b \in S,
         \A c \in T : ~AbstractPool!Earlier(c, b)
  PROVE  b \in AbstractPool!BestOf(S)
<1> DEFINE E == {c \in S : AbstractPool!Earlier(c, b)}
<1>1. E \in SUBSET (S \ T)
  OBVIOUS
<1> HIDE DEF E
<1>2. /\ IsFiniteSet(S \ T) /\ Cardinality(S \ T) = Cardinality(S) - Cardinality(S \cap T)
      /\ S \cap T = T
  BY FS_Difference
<1>3. Cardinality(E) <= Cardinality(S) - Cut(S)
  <2>1. Cardinality(E) <= Cardinality(S \ T)
    BY <1>1, <1>2, FS_Subset
  <2>2. Cardinality(S \ T) = Cardinality(S) - Cut(S)
    BY <1>2
  <2>3. QED
    BY <2>1, <2>2
<1>4. Cardinality(S) \in Nat /\ Limit \in Nat /\ Cardinality(E) \in Nat
  BY <1>1, <1>2, FS_Subset, FS_CardinalityType, EngineAssumption
<1>5. Cardinality(E) <= (IF Cardinality(S) > Limit THEN Cardinality(S) - Limit ELSE 0)
  BY <1>3, <1>4 DEF Cut
<1>6. QED
  BY <1>5, SameCardinality DEF AbstractPool!BestOf, E

\* Sooner is the negation of Earlier with the arguments exchanged.
LEMMA SoonerNotEarlier ==
  ASSUME IndexExact, NEW b \in Baskets, NEW c \in Baskets
  PROVE  Sooner(b, c) <=> ~AbstractPool!Earlier(c, b)
<1>1. /\ baskets[b].expire \in Nat /\ Cardinality(baskets[b].deposits) \in Nat
      /\ baskets[c].expire \in Nat /\ Cardinality(baskets[c].deposits) \in Nat
  BY KeysAreNumbers
<1>2. QED
  BY <1>1, SameCardinality DEF Sooner, AbstractPool!Earlier

\* bestCompletable finds one of the best baskets that the deposit completes, if any is.
LEMMA CompletableBest ==
  ASSUME IndexExact, FiniteIn, NEW d \in Deposits
  PROVE  /\ BestCompletable(Amount[d]) \subseteq AbstractPool!BestOf(AbstractPool!Completable(d))
         /\ BestCompletable(Amount[d]) = {} => AbstractPool!Completable(d) = {}
<1> DEFINE S == AbstractPool!Completable(d)
<1>1. S \in SUBSET In /\ S \in SUBSET Baskets
  BY DEF AbstractPool!Completable, In
<1>2. IsFiniteSet(S)
  BY <1>1, FS_Subset DEF FiniteIn
<1>3. BestCompletable(Amount[d]) =
        UNION {{b \in T : \A c \in T : Sooner(b, c)} :
                 T \in {T \in SUBSET S : Cardinality(T) = Cut(S)}}
  BY CompletableFound DEF BestCompletable
<1> HIDE DEF S
<1>4. ASSUME NEW b \in BestCompletable(Amount[d]) PROVE b \in AbstractPool!BestOf(S)
  <2>1. PICK T \in SUBSET S : Cardinality(T) = Cut(S) /\ b \in T /\ \A c \in T : Sooner(b, c)
    BY <1>3
  <2>2. \A c \in T : ~AbstractPool!Earlier(c, b)
    BY <1>1, <2>1, SoonerNotEarlier
  <2>3. b \in S
    BY <2>1
  <2>4. QED
    BY <1>1, <1>2, <2>1, <2>2, <2>3, BestOfPart
<1>5. ASSUME S # {} PROVE BestCompletable(Amount[d]) # {}
  <2>1. Cut(S) \in 0..Cardinality(S) /\ Cut(S) > 0
    BY <1>2, <1>5, CutInRange
  <2> DEFINE zero == [c \in S |-> 0]
  <2>2. zero \in [S -> Nat]
    OBVIOUS
  <2> HIDE DEF zero
  <2>3. PICK T \in SUBSET S : Cardinality(T) = Cut(S)
    BY <1>2, <2>1, <2>2, FirstPart
  <2>4. T # {}
    BY <2>1, <2>3, FS_EmptySet
  <2> DEFINE f == [c \in T |-> 0]
             g == [c \in T |-> baskets[c].expire]
             h == [c \in T |-> Cardinality(baskets[c].deposits)]
  <2>5. \A c \in T : c \in Baskets
    BY <1>1
  <2>6. f \in [T -> Nat] /\ g \in [T -> Nat] /\ h \in [T -> Nat]
    BY <2>5, KeysAreNumbers
  <2>7. /\ \A c \in T : f[c] = 0 /\ g[c] = baskets[c].expire
      /\ \A c \in T : h[c] = Cardinality(baskets[c].deposits)
    OBVIOUS
  <2> HIDE DEF f, g, h
  <2>8. PICK b \in T : \A c \in T :
           \/ f[b] < f[c]
           \/ f[b] = f[c] /\ (g[b] < g[c] \/ (g[b] = g[c] /\ h[b] <= h[c]))
    <3>1. \A k1, k2, k3 \in [T -> Nat] : \E b \in T : \A c \in T :
             \/ k1[b] < k1[c]
             \/ k1[b] = k1[c] /\ (k2[b] < k2[c] \/ (k2[b] = k2[c] /\ k3[b] <= k3[c]))
      BY <2>4, LeastByThree
    <3>2. QED
      BY <2>6, <3>1, SMTT(30)
  <2>9. \A c \in T : Sooner(b, c)
    BY <2>7, <2>8 DEF Sooner
  <2>10. QED
    BY <1>3, <2>3, <2>9
<1>6. QED
  BY <1>4, <1>5 DEF S

\* bestAcceptable finds one of the best baskets with the least room, if any waits after
\* the deposit: the buckets it does not reach have more room.
LEMMA AcceptableBest ==
  ASSUME IndexExact, FiniteIn, NEW d \in Deposits
  PROVE  /\ BestAcceptable(Amount[d]) \subseteq AbstractPool!BestOf(AbstractPool!Tightest(d))
         /\ BestAcceptable(Amount[d]) = {} => AbstractPool!Acceptable(d) = {}
<1> DEFINE S == AbstractPool!Acceptable(d)
           W == AbstractPool!Tightest(d)
<1>1. S \in SUBSET In /\ S \in SUBSET Baskets
  BY DEF AbstractPool!Acceptable, In
<1>2. IsFiniteSet(S)
  BY <1>1, FS_Subset DEF FiniteIn
<1>3. \A b \in Baskets : AbstractPool!Left(b) = Left(b)
  BY DEF AbstractPool!Left, Left
<1>4. /\ \A b \in S : Left(b) \in Nat /\ Filed(b) \in Nat
      /\ \A b, c \in S : Filed(b) <= Filed(c) => Left(b) <= Left(c)
  <2>1. needs \in Seq(Nat) /\ Sorted(needs)
    BY DEF IndexExact, TypeOK, Sorted
  <2>2. /\ Len(needs) \in Nat /\ \A i \in 1..Len(needs) : needs[i] \in Nat
        /\ \A i, j \in 1..Len(needs) : i < j => needs[i] < needs[j]
    BY <2>1, SortedFacts
  <2>3. \A b \in S : Filed(b) \in 1..Len(needs) /\ needs[Filed(b)] = Left(b) /\ Left(b) \in Nat
    BY AcceptableIsFound, FiledNeed
  <2> HIDE DEF S
  <2>4. ASSUME NEW b \in S, NEW c \in S, Filed(b) <= Filed(c) PROVE Left(b) <= Left(c)
    <3>1. /\ Filed(b) \in 1..Len(needs) /\ Filed(c) \in 1..Len(needs)
          /\ needs[Filed(b)] = Left(b) /\ needs[Filed(c)] = Left(c)
          /\ Left(b) \in Nat /\ Left(c) \in Nat
      BY <2>3
    <3>2. CASE Filed(b) = Filed(c)
      BY <3>1, <3>2
    <3>3. CASE Filed(b) < Filed(c)
      BY <2>2, <3>1, <3>3
    <3>4. QED
      BY <2>2, <2>4, <3>1, <3>2, <3>3
  <2>5. QED
    BY <2>2, <2>3, <2>4
<1>5. W = {b \in S : \A c \in S : Left(b) <= Left(c)}
  <2>1. W = {b \in S : \A c \in S : AbstractPool!Left(b) <= AbstractPool!Left(c)}
    BY DEF AbstractPool!Tightest
  <2>2. QED
    BY <1>1, <1>3, <2>1
<1>6. BestAcceptable(Amount[d]) =
        UNION {{b \in T : \A c \in T : Left(b) < Left(c) \/ (Left(b) = Left(c) /\ Sooner(b, c))} :
                 T \in {T \in SUBSET S : /\ Cardinality(T) = Cut(S)
                                         /\ \A b \in T, c \in S \ T : Filed(b) <= Filed(c)}}
  BY AcceptableIsFound DEF BestAcceptable, FindAcceptable, Cut
<1> HIDE DEF S, W
<1>7. ASSUME NEW b \in BestAcceptable(Amount[d]) PROVE b \in AbstractPool!BestOf(W)
  <2>1. PICK T \in SUBSET S :
          /\ Cardinality(T) = Cut(S) /\ \A x \in T, c \in S \ T : Filed(x) <= Filed(c)
          /\ b \in T
          /\ \A c \in T : Left(b) < Left(c) \/ (Left(b) = Left(c) /\ Sooner(b, c))
    BY <1>6
  <2>2. \A c \in S : Left(b) <= Left(c)
    <3> SUFFICES ASSUME NEW c \in S PROVE Left(b) <= Left(c)
      OBVIOUS
    <3>1. b \in S /\ Left(b) \in Nat /\ Left(c) \in Nat
      BY <1>4, <2>1
    <3>2. CASE c \in T
      BY <2>1, <3>1, <3>2
    <3>3. CASE c \notin T
      BY <1>4, <2>1, <3>1, <3>3
    <3>4. QED
      BY <3>2, <3>3
  <2>3. b \in W
    BY <1>5, <2>1, <2>2
  <2>4. W \in SUBSET S /\ W \in SUBSET Baskets /\ IsFiniteSet(W)
    BY <1>1, <1>2, <1>5, FS_Subset
  <2> DEFINE V == W \cap T
  <2>5. \A c \in V : ~AbstractPool!Earlier(c, b)
    <3> SUFFICES ASSUME NEW c \in V PROVE ~AbstractPool!Earlier(c, b)
      OBVIOUS
    <3>1. c \in S /\ b \in S /\ Left(c) \in Nat /\ Left(b) \in Nat
      BY <1>4, <2>1
    <3>2. Left(b) = Left(c)
      BY <1>5, <2>2, <3>1
    <3>3. Sooner(b, c)
      BY <2>1, <3>1, <3>2
    <3>4. QED
      BY <1>1, <3>1, <3>3, SoonerNotEarlier
  <2>6. CASE W \subseteq T
    <3>1. V = W
      BY <2>6
    <3>2. {c \in W : AbstractPool!Earlier(c, b)} = {}
      BY <2>5, <3>1
    <3>3. Cardinality(W) \in Nat /\ Limit \in Nat /\ Cardinality({}) = 0
      BY <2>4, FS_CardinalityType, FS_EmptySet, EngineAssumption
    <3>4. Cardinality({c \in W : AbstractPool!Earlier(c, b)}) <=
            (IF Cardinality(W) > Limit THEN Cardinality(W) - Limit ELSE 0)
      BY <3>2, <3>3
    <3>5. QED
      BY <2>3, <3>4, SameCardinality DEF AbstractPool!BestOf
  <2>7. CASE ~(W \subseteq T)
    <3>1. PICK x \in W : x \notin T
      BY <2>7
    <3>2. T \in SUBSET W
      <4> SUFFICES ASSUME NEW c \in T PROVE c \in W
        OBVIOUS
      <4>1. x \in S \ T /\ c \in S
        BY <2>4, <3>1
      <4>2. Left(c) <= Left(x) /\ Left(c) \in Nat /\ Left(x) \in Nat
        BY <1>4, <2>1, <4>1
      <4>3. \A y \in S : Left(x) <= Left(y) /\ Left(y) \in Nat
        BY <1>4, <1>5
      <4>4. \A y \in S : Left(c) <= Left(y)
        BY <4>2, <4>3
      <4>5. QED
        BY <1>5, <4>1, <4>4
    <3>3. Cut(S) = Limit
      <4>1. T # S
        BY <2>4, <3>1
      <4>2. Cardinality(T) # Cardinality(S)
        BY <1>2, <4>1, FS_Subset
      <4>3. QED
        BY <2>1, <4>2 DEF Cut
    <3>4. Cardinality(T) = Limit /\ Cardinality(T) <= Cardinality(W)
      BY <2>1, <2>4, <3>2, <3>3, FS_Subset
    <3>5. Cut(W) = Limit
      <4>1. Cardinality(W) \in Nat /\ Limit \in Nat
        BY <2>4, FS_CardinalityType, EngineAssumption
      <4>2. QED
        BY <3>4, <4>1 DEF Cut
    <3>6. \A c \in T : ~AbstractPool!Earlier(c, b)
      BY <2>5, <3>2
    <3>7. QED
      BY <2>3, <2>4, <3>2, <3>4, <3>5, <3>6, BestOfPart
  <2>8. QED
    BY <2>6, <2>7
<1>8. ASSUME S # {} PROVE BestAcceptable(Amount[d]) # {}
  <2>1. Cut(S) \in 0..Cardinality(S) /\ Cut(S) > 0
    BY <1>2, <1>8, CutInRange
  <2> DEFINE at == [c \in S |-> Filed(c)]
  <2>2. at \in [S -> Nat] /\ \A c \in S : at[c] = Filed(c)
    BY <1>4
  <2> HIDE DEF at
  <2>3. PICK T \in SUBSET S : Cardinality(T) = Cut(S) /\ \A b \in T, c \in S \ T : at[b] <= at[c]
    BY <1>2, <2>1, <2>2, FirstPart
  <2>4. T # {}
    BY <2>1, <2>3, FS_EmptySet
  <2> DEFINE f == [c \in T |-> Left(c)]
             g == [c \in T |-> baskets[c].expire]
             h == [c \in T |-> Cardinality(baskets[c].deposits)]
  <2>5. \A c \in T : c \in Baskets /\ Left(c) \in Nat
    BY <1>1, <1>4
  <2>6. f \in [T -> Nat] /\ g \in [T -> Nat] /\ h \in [T -> Nat]
    BY <2>5, KeysAreNumbers
  <2>7. /\ \A c \in T : f[c] = Left(c) /\ g[c] = baskets[c].expire
        /\ \A c \in T : h[c] = Cardinality(baskets[c].deposits)
    OBVIOUS
  <2> HIDE DEF f, g, h
  <2>8. PICK b \in T : \A c \in T :
           \/ f[b] < f[c]
           \/ f[b] = f[c] /\ (g[b] < g[c] \/ (g[b] = g[c] /\ h[b] <= h[c]))
    <3>1. \A k1, k2, k3 \in [T -> Nat] : \E b \in T : \A c \in T :
             \/ k1[b] < k1[c]
             \/ k1[b] = k1[c] /\ (k2[b] < k2[c] \/ (k2[b] = k2[c] /\ k3[b] <= k3[c]))
      BY <2>4, LeastByThree
    <3>2. QED
      BY <2>6, <3>1, SMTT(30)
  <2>9. \A c \in T : Left(b) < Left(c) \/ (Left(b) = Left(c) /\ Sooner(b, c))
    BY <2>7, <2>8 DEF Sooner
  <2>10. \A x \in T, c \in S \ T : Filed(x) <= Filed(c)
    BY <2>2, <2>3
  <2>11. QED
    BY <1>6, <2>3, <2>9, <2>10
<1>9. QED
  BY <1>7, <1>8 DEF S, W


(***************************************************************************)
(* The refinement                                                          *)
(***************************************************************************)
\* A call changes the record of at most one basket: the pool stays finite.
LEMMA StepFinite ==
  ASSUME IndexExact, FiniteIn, [Next]_vars
  PROVE  FiniteIn'
<1>1. PoolType(baskets)
  BY ExactBefore
<1>2. ASSUME NEW b, \A c \in Baskets \ {b} : baskets'[c] = baskets[c] PROVE FiniteIn'
  <2>1. In' \in SUBSET (In \cup {b})
    BY <1>2 DEF In
  <2>2. IsFiniteSet(In \cup {b})
    BY FS_AddElement DEF FiniteIn
  <2>3. QED
    BY <2>1, <2>2, FS_Subset DEF FiniteIn
<1>3. CASE UNCHANGED baskets
  BY <1>3 DEF FiniteIn, In
<1>4. ASSUME NEW b \in Baskets, NEW S \in SUBSET Deposits, NEW e \in Deadlines, AddBasket(b, S, e)
      PROVE  FiniteIn'
  <2>1. \A c \in Baskets \ {b} : baskets'[c] = baskets[c]
    BY <1>1, <1>4 DEF AddBasket, PoolType
  <2>2. QED
    BY <1>2, <2>1
<1>5. ASSUME NEW b \in Baskets, RemoveBasket(b) PROVE FiniteIn'
  <2>1. \A c \in Baskets \ {b} : baskets'[c] = baskets[c]
    BY <1>1, <1>5 DEF RemoveBasket, PoolType
  <2>2. QED
    BY <1>2, <2>1
<1>6. ASSUME NEW b \in Baskets, NEW d \in Deposits, ReleaseDeposit(b, d) PROVE FiniteIn'
  <2>1. \A c \in Baskets \ {b} : baskets'[c] = baskets[c]
    BY <1>1, <1>6 DEF ReleaseDeposit, PoolType
  <2>2. QED
    BY <1>2, <2>1
<1>7. ASSUME NEW d \in Deposits, MatchComplete(d) PROVE FiniteIn'
  <2>1. PICK b : baskets' = [baskets EXCEPT ![b] = Out]
    BY <1>7 DEF MatchComplete
  <2>2. \A c \in Baskets \ {b} : baskets'[c] = baskets[c]
    BY <1>1, <2>1 DEF PoolType
  <2>3. QED
    BY <1>2, <2>2
<1>8. ASSUME NEW d \in Deposits, MatchAttach(d) PROVE FiniteIn'
  <2>1. PICK b : baskets' = [baskets EXCEPT ![b].current = @ + Amount[d],
                                             ![b].deposits = @ \cup {d}]
    BY <1>8 DEF MatchAttach
  <2>2. \A c \in Baskets \ {b} : baskets'[c] = baskets[c]
    BY <1>1, <2>1 DEF PoolType
  <2>3. QED
    BY <1>2, <2>2
<1>9. ASSUME NEW d \in Deposits, MatchFailed(d) \/ MatchPending(d) PROVE FiniteIn'
  BY <1>3, <1>9 DEF MatchFailed, MatchPending
<1>10. QED
  BY <1>3, <1>4, <1>5, <1>6, <1>7, <1>8, <1>9 DEF Next, vars

\* Every call of the engine is a call of Pool.
LEMMA StepFindsTheBest ==
  ASSUME IndexExact, FiniteIn, [Next]_vars
  PROVE  [AbstractPool!Next]_<<baskets, result>>
<1> USE DEF AbstractPool!NoResult, NoResult, AbstractPool!Out, Out
<1>1. PoolType(baskets)
  BY ExactBefore
<1>2. ASSUME NEW b \in Baskets, NEW S \in SUBSET Deposits, NEW e \in Deadlines, AddBasket(b, S, e)
      PROVE  AbstractPool!Add(b)
  <2>1. /\ ~baskets[b].in /\ result' = NoResult
        /\ baskets' = [baskets EXCEPT ![b] =
             [in |-> TRUE, current |-> Total(S), deposits |-> S, expire |-> e]]
    BY <1>2 DEF AddBasket
  <2>2. baskets'[b] = [in |-> TRUE, current |-> Total(S), deposits |-> S, expire |-> e]
    BY <1>1, <2>1 DEF PoolType
  <2>3. baskets'[b].in
    BY <2>2
  <2>4. baskets' = [baskets EXCEPT ![b] = baskets'[b]]
    BY <2>1, <2>2
  <2>5. result' = AbstractPool!NoResult
    BY <2>1
  <2> HIDE DEF AbstractPool!NoResult, NoResult, AbstractPool!Out, Out
  <2>6. QED
    BY <2>1, <2>3, <2>4, <2>5 DEF AbstractPool!Add
<1>3. ASSUME NEW b \in Baskets, RemoveBasket(b) PROVE AbstractPool!Remove(b)
  BY <1>3 DEF RemoveBasket, AbstractPool!Remove
<1>4. ASSUME NEW b \in Baskets, NEW d \in Deposits, ReleaseDeposit(b, d)
      PROVE  AbstractPool!Release(b, d)
  <2>1. /\ baskets[b].in /\ result' = NoResult
        /\ baskets' = [baskets EXCEPT
             ![b].current = IF baskets[b].current >= Amount[d]
                              THEN baskets[b].current - Amount[d] ELSE 0,
             ![b].deposits = @ \ {d}]
    BY <1>4 DEF ReleaseDeposit
  <2>2. baskets' = [baskets EXCEPT
          ![b].current = IF @ >= Amount[d] THEN @ - Amount[d] ELSE 0, ![b].deposits = @ \ {d}]
    BY <1>1, <2>1 DEF PoolType
  <2>3. QED
    BY <2>1, <2>2 DEF AbstractPool!Release
<1>5. ASSUME NEW d \in Deposits, MatchComplete(d) PROVE AbstractPool!Complete(d)
  <2>1. PICK b \in BestCompletable(Amount[d]) :
          baskets' = [baskets EXCEPT ![b] = Out] /\ result' = MatchResult("matched", d, b)
    BY <1>5 DEF MatchComplete
  <2>2. b \in AbstractPool!BestOf(AbstractPool!Completable(d))
    BY CompletableBest
  <2>3. result' = AbstractPool!Answer("matched", d, b)
    BY <2>1 DEF MatchResult, AbstractPool!Answer
  <2>4. QED
    BY <2>1, <2>2, <2>3 DEF AbstractPool!Complete
<1>6. ASSUME NEW d \in Deposits, MatchAttach(d) PROVE AbstractPool!Attach(d)
  <2>1. PICK b \in BestAcceptable(Amount[d]) :
          /\ baskets' = [baskets EXCEPT ![b].current = @ + Amount[d], ![b].deposits = @ \cup {d}]
          /\ result' = MatchResult("attached", d, b)
    BY <1>6 DEF MatchAttach
  <2>2. b \in AbstractPool!BestOf(AbstractPool!Tightest(d))
    BY AcceptableBest
  <2>3. AbstractPool!Completable(d) = {}
    BY <1>6, CompletableBest DEF MatchAttach
  <2>4. result' = AbstractPool!Answer("attached", d, b)
    BY <2>1 DEF MatchResult, AbstractPool!Answer
  <2>5. QED
    BY <2>1, <2>2, <2>3, <2>4 DEF AbstractPool!Attach
<1>7. ASSUME NEW d \in Deposits, MatchFailed(d) PROVE AbstractPool!Failed
  BY <1>7 DEF MatchFailed, AbstractPool!Failed
<1>8. ASSUME NEW d \in Deposits, MatchPending(d) PROVE AbstractPool!Pending(d)
  BY <1>8, CompletableBest, AcceptableBest DEF MatchPending, AbstractPool!Pending
<1>9. CASE UNCHANGED vars
  BY <1>9 DEF vars
<1>10. QED
  BY <1>2, <1>3, <1>4, <1>5, <1>6, <1>7, <1>8, <1>9 DEF Next, AbstractPool!Next

\* The engine implements Pool: through its index it matches a deposit with a basket that a
\* search of the whole pool would choose, one it fills exactly before any other, then the
\* one with the least room left, and answers pending only when no basket takes it, for
\* any number of baskets and any limit of the lookups.
THEOREM EngineFindsTheBest == Spec => FindsTheBest
<1>1. Init => FiniteIn /\ AbstractPool!Init
  <2> SUFFICES ASSUME Init PROVE FiniteIn /\ AbstractPool!Init
    OBVIOUS
  <2>1. In = {}
    BY DEF Init, In, Out
  <2>2. QED
    BY <2>1, FS_EmptySet
    DEF Init, FiniteIn, AbstractPool!Init, Out, AbstractPool!Out, NoResult, AbstractPool!NoResult
<1>2. IndexExact /\ FiniteIn /\ [Next]_vars => FiniteIn'
  BY StepFinite
<1>3. IndexExact /\ FiniteIn /\ [Next]_vars => [AbstractPool!Next]_<<baskets, result>>
  BY StepFindsTheBest
<1>4. QED
  BY <1>1, <1>2, <1>3, IndexCorrect, PTL DEF Spec, FindsTheBest, AbstractPool!Spec
=============================================================================
