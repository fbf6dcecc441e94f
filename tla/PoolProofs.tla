----------------------------- MODULE PoolProofs -----------------------------
(***************************************************************************)
(* Theorems about the pool and the money of Matching: what one service     *)
(* process guarantees whatever fails and whenever it crashes, and for      *)
(* every number of deposits, baskets and goroutines.                       *)
(***************************************************************************)
EXTENDS MatchingProofs, FiniteSetTheorems

\* The deployment the pool is built for: one process serves the shard.
OneProcess == \A i, j \in Instances : i = j

\* Every commit has been answered so far.  After a lost answer the pool is behind
\* the rows until the process restarts.
NoCommitLost == budget["lost"] = Budget["lost"]

\* The recovery query's limit is no smaller than the number of baskets.
RecoversAll == IsFiniteSet(Baskets) /\ Cardinality(Baskets) <= BasketLimit

MatchedTo(b) == {d \in Deposits : detail[d] = [status |-> "matched", basket |-> b]}

\* The rows of one basket, and the rows of one deposit.
BasketTrue(b) ==
  /\ basket[b].status = "waiting" =>
       basket[b].current = Total(Attached(b)) /\ basket[b].current <= Target[b]
  /\ record[b].deposits = MatchedTo(b)
  /\ record[b].made =>
       record[b].amount = Total(record[b].deposits) /\ record[b].amount <= Target[b]

DepositTrue(d) ==
  /\ detail[d].status = "none" => deposit[d].status \in {"absent", "waiting", "expired"}
  /\ detail[d].status = "attached" =>
       \/ deposit[d].status = "expired"
       \/ deposit[d].status = "locked" /\ deposit[d].basket = detail[d].basket
  /\ detail[d].status = "matched" => deposit[d].status \in {"matched", "expired"}
  /\ detail[d].status = "released" => deposit[d].status = "expired"

Rows == /\ \A b \in Baskets : BasketTrue(b)
        /\ \A d \in Deposits : DepositTrue(d)

\* A basket of the pool is the waiting row, unless the goroutine in the section
\* has committed a release or a close and not yet told the pool.
RowOf(b) == [in |-> TRUE, current |-> basket[b].current, deposits |-> Attached(b)]
Mirrors(i, b) == mem[i][b].in => basket[b].status = "waiting" /\ mem[i][b] = RowOf(b)
Behind(b) == \E p \in Procs : pc[p] \in {"forget", "drop"} /\ job[p].basket = b

IndexingAt(p) ==
  LET b == job[p].basket IN
  pc[p] = "index" =>
    /\ ~mem[Home[p]][b].in
    /\ basket[b].status = "waiting" /\ basket[b].current = 0 /\ Attached(b) = {}

ForgettingAt(p) ==
  LET i == Home[p] b == job[p].basket IN
  pc[p] = "forget" =>
    /\ basket[b].status = "waiting"
    /\ mem[i][b].in => WithoutDeposit(mem[i][b], job[p].deposit) = RowOf(b)

DroppingAt(p) == pc[p] = "drop" => basket[job[p].basket].status # "waiting"

\* While a process recovers, what it listed is still so, because nobody works.
Loading(i) ==
  boot[i] = "loading" => \A b \in load[i].baskets :
    basket[b].status = "waiting" /\ load[i].seen[b] = basket[b].current
Stopped == \A p \in Procs : boot[Home[p]] # "up" => pc[p] = "idle"

Pool ==
  /\ \A i \in Instances, b \in Baskets : Mirrors(i, b) \/ Behind(b)
  /\ \A p \in Procs : IndexingAt(p) /\ ForgettingAt(p) /\ DroppingAt(p)
  /\ \A i \in Instances : Loading(i)
  /\ Stopped

\* A deposit is saved before it is matched.
Saved == \A p \in Procs : pc[p] = "match" => deposit[job[p].deposit].status # "absent"

\* No waiting row is missing from the pool, but one about to be added or loaded.
Listed ==
  \A i \in Instances, b \in Baskets : basket[b].status = "waiting" =>
    /\ boot[i] = "up" => mem[i][b].in \/ \E p \in Procs : pc[p] = "index" /\ job[p].basket = b
    /\ boot[i] = "loading" => mem[i][b].in \/ b \in load[i].baskets

(***************************************************************************)
(* Sums and sets                                                           *)
(***************************************************************************)
LEMMA AddAmount ==
  ASSUME NEW S \in SUBSET Deposits, NEW d \in Deposits \ S
  PROVE  Total(S \cup {d}) = Total(S) + Amount[d]
BY TotalAssumption

\* GREATEST(current - amount, 0) is exact when the amount was part of the sum.
LEMMA TakeAmount ==
  ASSUME NEW S \in SUBSET Deposits, NEW d \in S
  PROVE  Minus(Total(S), Amount[d]) = Total(S \ {d}) /\ Total(S \ {d}) <= Total(S)
<1> DEFINE R == S \ {d}
<1>1. R \in SUBSET Deposits /\ d \in Deposits \ R /\ R \cup {d} = S
  OBVIOUS
<1>2. Total(S) = Total(R) + Amount[d]
  BY <1>1, AddAmount
<1>3. Total(R) \in Nat /\ Amount[d] \in Nat
  BY <1>1, TotalType, AmountAssumption
<1> HIDE DEF R
<1>4. Minus(Total(S), Amount[d]) = Total(R) /\ Total(R) <= Total(S)
  BY <1>2, <1>3 DEF Minus
<1>5. QED
  BY <1>4 DEF R

\* What the transactions do to the sets of attached and matched deposits.
LEMMA AttachSets ==
  ASSUME TypeInv, NEW d \in Deposits, NEW b \in Baskets, NEW n,
         detail[d].status = "none", PersistAttached(d, b, n)
  PROVE  /\ Attached(b)' = Attached(b) \cup {d} /\ d \notin Attached(b)
         /\ \A c \in Baskets : c # b => Attached(c)' = Attached(c)
         /\ \A c \in Baskets : MatchedTo(c)' = MatchedTo(c)
<1>1. detail' = [detail EXCEPT ![d] = [status |-> "attached", basket |-> b]]
  BY DEF PersistAttached
<1>2. QED
  BY <1>1, RowsTyped DEF Attached, MatchedTo, DetailRow

\* Completing a basket turns all that is attached to it into matched.
LEMMA CompletedSets ==
  ASSUME TypeInv, NEW b \in Baskets, NEW S, NEW new \in SUBSET Deposits, NEW n,
         \A x \in new : detail[x].status = "none", PersistCompleted(b, S, n, new)
  PROVE  /\ Attached(b)' = {} /\ MatchedTo(b)' = MatchedTo(b) \cup Attached(b) \cup new
         /\ \A c \in Baskets : c # b =>
              Attached(c)' = Attached(c) /\ MatchedTo(c)' = MatchedTo(c)
<1>1. detail' = [d \in Deposits |-> IF d \in Attached(b) \cup new
                   THEN [status |-> "matched", basket |-> b] ELSE detail[d]]
  BY DEF PersistCompleted, CompletedDetails
<1>2. QED
  BY <1>1, RowsTyped DEF Attached, MatchedTo, DetailRow

\* Releasing a deposit takes it out of what is attached to its basket.
LEMMA ReleasedSets ==
  ASSUME TypeInv, NEW d \in Deposits, NEW b \in Baskets,
         detail' = [detail EXCEPT ![d] = [status |-> "released", basket |-> b]],
         detail[d].status = "attached", detail[d].basket = b
  PROVE  /\ d \in Attached(b) /\ Attached(b)' = Attached(b) \ {d}
         /\ \A c \in Baskets : c # b => Attached(c)' = Attached(c)
         /\ \A c \in Baskets : MatchedTo(c)' = MatchedTo(c)
BY RowsTyped DEF Attached, MatchedTo, DetailRow

\* Expiring a basket leaves nothing attached to it.
LEMMA ExpiredSets ==
  ASSUME TypeInv, NEW b \in Baskets,
         detail' = [d \in Deposits |->
           IF d \in Attached(b) THEN [status |-> "released", basket |-> b] ELSE detail[d]]
  PROVE  /\ Attached(b)' = {}
         /\ \A c \in Baskets : c # b => Attached(c)' = Attached(c)
         /\ \A c \in Baskets : MatchedTo(c)' = MatchedTo(c)
BY RowsTyped DEF Attached, MatchedTo, DetailRow

(***************************************************************************)
(* The rows: what a transaction must be given to keep the money right      *)
(***************************************************************************)
SoundAttach(d, b) ==
  /\ CanAttach(d, b) /\ deposit[d].status # "absent"
  /\ basket[b].current + Amount[d] <= Target[b]
  /\ PersistAttached(d, b, basket[b].current + Amount[d])

SoundComplete(b, new) ==
  /\ CanComplete(b, Attached(b) \cup new)
  /\ \A x \in new : detail[x].status = "none"
  /\ Total(Attached(b) \cup new) <= Target[b]
  /\ PersistCompleted(b, Attached(b) \cup new, Total(Attached(b) \cup new), new)

SoundInsert(b) ==
  /\ basket[b].status = "absent"
  /\ \E e \in Nat :
       basket' = [basket EXCEPT ![b] = [status |-> "waiting", current |-> 0, expire |-> e]]
  /\ UNCHANGED <<deposit, detail, record>>

SoundRelease(d, b) ==
  /\ detail[d].status = "attached" /\ detail[d].basket = b
  /\ deposit' = [deposit EXCEPT ![d] = Timeout(@)]
  /\ detail' = [detail EXCEPT ![d] = [status |-> "released", basket |-> b]]
  /\ basket' = [basket EXCEPT ![b] =
       [status |-> "waiting", current |-> Minus(@.current, Amount[d]), expire |-> @.expire]]
  /\ UNCHANGED record

SoundStep ==
  \/ UNCHANGED db \/ RowSaved \/ RowTimedOut \/ RowsExpired
  \/ \E b \in Baskets : SoundInsert(b)
  \/ \E b \in Baskets, new \in SUBSET Deposits : SoundComplete(b, new)
  \/ \E d \in Deposits, b \in Baskets : SoundAttach(d, b) \/ SoundRelease(d, b)

\* Each transaction keeps the rows true to each other: attaching,
LEMMA AttachRows ==
  ASSUME TypeInv, RowInv, Rows, NEW d \in Deposits, NEW b \in Baskets, SoundAttach(d, b)
  PROVE  Rows'
<1> DEFINE n == basket[b].current + Amount[d]
<1>1. /\ detail[d].status = "none" /\ basket[b].status = "waiting"
      /\ deposit[d].status # "absent" /\ n <= Target[b] /\ PersistAttached(d, b, n)
  BY DEF SoundAttach, CanAttach
<1>2. /\ Attached(b)' = Attached(b) \cup {d} /\ d \notin Attached(b)
      /\ \A c \in Baskets : c # b => Attached(c)' = Attached(c)
      /\ \A c \in Baskets : MatchedTo(c)' = MatchedTo(c)
  BY <1>1, AttachSets
<1>3. /\ record' = record /\ \A c \in Baskets : c # b => basket'[c] = basket[c]
      /\ basket'[b].status = "waiting" /\ basket'[b].current = n
  BY <1>1, RowsTyped DEF PersistAttached
<1>4. ASSUME NEW c \in Baskets PROVE BasketTrue(c)'
  <2>1. CASE c = b
    <3>1. Total(Attached(b))' = n
      <4>1. Attached(b) \in SUBSET Deposits
        BY DEF Attached
      <4>2. Total(Attached(b) \cup {d}) = Total(Attached(b)) + Amount[d]
        BY <1>2, <4>1, AddAmount
      <4>3. basket[b].current = Total(Attached(b))
        BY <1>1 DEF Rows, BasketTrue
      <4>4. QED
        BY <1>2, <4>2, <4>3
    <3>2. QED
      BY <1>1, <1>2, <1>3, <2>1, <3>1 DEF Rows, BasketTrue
  <2>2. CASE c # b
    BY <1>2, <1>3, <2>2 DEF Rows, BasketTrue
  <2>3. QED
    BY <2>1, <2>2
<1>5. ASSUME NEW x \in Deposits PROVE DepositTrue(x)'
  <2>1. CASE x = d
    <3>1. deposit[d].status \in {"waiting", "expired"}
      BY <1>1 DEF Rows, DepositTrue
    <3>2. detail'[d] = [status |-> "attached", basket |-> b]
      BY <1>1, RowsTyped DEF PersistAttached
    <3>3. deposit'[d] = IF deposit[d].status = "waiting"
            THEN [status |-> "locked", basket |-> b, expire |-> deposit[d].expire] ELSE deposit[d]
      BY <1>1, RowsTyped DEF PersistAttached
    <3>4. QED
      BY <2>1, <3>1, <3>2, <3>3 DEF DepositTrue
  <2>2. CASE x # d
    <3>1. detail'[x] = detail[x] /\ deposit'[x] = deposit[x]
      BY <1>1, <2>2, RowsTyped DEF PersistAttached
    <3>2. QED
      BY <3>1 DEF Rows, DepositTrue
  <2>3. QED
    BY <2>1, <2>2
<1>6. QED
  BY <1>4, <1>5 DEF Rows

\* completing,
LEMMA CompleteRows ==
  ASSUME TypeInv, RowInv, Rows, NEW b \in Baskets, NEW new \in SUBSET Deposits,
         SoundComplete(b, new)
  PROVE  Rows'
<1> DEFINE S == Attached(b) \cup new
<1>1. /\ CanComplete(b, S) /\ \A x \in new : detail[x].status = "none"
      /\ Total(S) <= Target[b] /\ PersistCompleted(b, S, Total(S), new)
  BY DEF SoundComplete
<1>2. /\ Attached(b)' = {} /\ MatchedTo(b)' = MatchedTo(b) \cup S
      /\ \A c \in Baskets : c # b => Attached(c)' = Attached(c) /\ MatchedTo(c)' = MatchedTo(c)
  BY <1>1, CompletedSets
<1>3. MatchedTo(b) = {}
  BY <1>1 DEF CanComplete, RowInv, Once, Rows, BasketTrue
<1>4. /\ record' = [record EXCEPT ![b] = [made |-> TRUE, deposits |-> S, amount |-> Total(S)]]
      /\ basket' = [basket EXCEPT ![b] =
           [status |-> "matched", current |-> Total(S), expire |-> @.expire]]
      /\ deposit' = CompletedDeposits(b, S) /\ detail' = CompletedDetails(b, new)
  BY <1>1 DEF PersistCompleted
<1>5. ASSUME NEW c \in Baskets PROVE BasketTrue(c)'
  <2>1. CASE c = b
    <3>1. /\ record'[b] = [made |-> TRUE, deposits |-> S, amount |-> Total(S)]
          /\ basket'[b].status = "matched"
      BY <1>4, RowsTyped
    <3>2. QED
      BY <1>1, <1>2, <1>3, <2>1, <3>1 DEF BasketTrue
  <2>2. CASE c # b
    <3>1. record'[c] = record[c] /\ basket'[c] = basket[c]
      BY <1>4, <2>2, RowsTyped
    <3>2. QED
      BY <1>2, <2>2, <3>1 DEF Rows, BasketTrue
  <2>3. QED
    BY <2>1, <2>2
<1>6. ASSUME NEW x \in Deposits PROVE DepositTrue(x)'
  <2>1. CASE x \in S
    <3>1. deposit[x].status \in {"waiting", "locked", "expired"}
      <4>1. CASE x \in new
        BY <1>1, <4>1 DEF CanComplete, Rows, DepositTrue
      <4>2. CASE x \in Attached(b)
        BY <4>2 DEF Attached, Rows, DepositTrue
      <4>3. QED
        BY <2>1, <4>1, <4>2
    <3>2. detail'[x] = [status |-> "matched", basket |-> b]
      BY <1>4, <2>1 DEF CompletedDetails
    <3>3. deposit'[x] = IF deposit[x].status \in {"waiting", "locked"}
            THEN [status |-> "matched", basket |-> b, expire |-> deposit[x].expire]
            ELSE deposit[x]
      BY <1>4, <2>1 DEF CompletedDeposits
    <3>4. QED
      BY <3>1, <3>2, <3>3 DEF DepositTrue
  <2>2. CASE x \notin S
    <3>1. detail'[x] = detail[x] /\ deposit'[x] = deposit[x]
      BY <1>4, <2>2 DEF CompletedDetails, CompletedDeposits
    <3>2. QED
      BY <3>1 DEF Rows, DepositTrue
  <2>3. QED
    BY <2>1, <2>2
<1>7. QED
  BY <1>5, <1>6 DEF Rows

\* releasing a timed out deposit,
LEMMA ReleaseRows ==
  ASSUME TypeInv, RowInv, Rows, NEW d \in Deposits, NEW b \in Baskets, SoundRelease(d, b)
  PROVE  Rows'
<1> USE DEF SoundRelease
<1>1. /\ d \in Attached(b) /\ Attached(b)' = Attached(b) \ {d}
      /\ \A c \in Baskets : c # b => Attached(c)' = Attached(c)
      /\ \A c \in Baskets : MatchedTo(c)' = MatchedTo(c)
  BY ReleasedSets
<1>2. basket[b].status = "waiting"
  BY DEF RowInv, AttachedOnlyToWaiting
<1>3. /\ record' = record /\ \A c \in Baskets : c # b => basket'[c] = basket[c]
      /\ basket'[b].current = Minus(basket[b].current, Amount[d])
  BY RowsTyped
<1>4. ASSUME NEW c \in Baskets PROVE BasketTrue(c)'
  <2>1. CASE c = b
    <3>1. Attached(b) \in SUBSET Deposits
      BY DEF Attached
    <3>2. /\ Minus(Total(Attached(b)), Amount[d]) = Total(Attached(b) \ {d})
          /\ Total(Attached(b) \ {d}) <= Total(Attached(b))
      BY <1>1, <3>1, TakeAmount
    <3>3. basket[b].current = Total(Attached(b)) /\ Total(Attached(b)) <= Target[b]
      BY <1>2 DEF Rows, BasketTrue
    <3>4. Total(Attached(b)) \in Nat /\ Total(Attached(b) \ {d}) \in Nat /\ Target[b] \in Nat
      BY <3>1, TotalType, AmountAssumption
    <3>5. basket'[b].current = Total(Attached(b)') /\ basket'[b].current <= Target[b]
      BY <1>1, <1>3, <3>2, <3>3, <3>4
    <3>6. QED
      BY <1>1, <1>3, <2>1, <3>5 DEF Rows, BasketTrue
  <2>2. CASE c # b
    BY <1>1, <1>3, <2>2 DEF Rows, BasketTrue
  <2>3. QED
    BY <2>1, <2>2
<1>5. ASSUME NEW x \in Deposits PROVE DepositTrue(x)'
  <2>1. CASE x = d
    <3>1. detail'[d].status = "released" /\ deposit'[d] = Timeout(deposit[d])
      BY RowsTyped
    <3>2. deposit[d].status \in {"locked", "expired"}
      BY DEF Rows, DepositTrue
    <3>3. QED
      BY <2>1, <3>1, <3>2 DEF DepositTrue, Timeout
  <2>2. CASE x # d
    <3>1. detail'[x] = detail[x] /\ deposit'[x] = deposit[x]
      BY <2>2, RowsTyped
    <3>2. QED
      BY <3>1 DEF Rows, DepositTrue
  <2>3. QED
    BY <2>1, <2>2
<1>6. QED
  BY <1>4, <1>5 DEF Rows

\* and expiring a basket.
LEMMA ExpireRows ==
  ASSUME TypeInv, RowInv, Rows, RowsExpired
  PROVE  Rows'
<1>1. PICK b \in Baskets :
        /\ basket[b].status = "waiting"
        /\ basket' = [basket EXCEPT ![b] =
             [status |-> "expired", current |-> @.current, expire |-> @.expire]]
        /\ detail' = [d \in Deposits |->
             IF d \in Attached(b) THEN [status |-> "released", basket |-> b] ELSE detail[d]]
        /\ deposit' = ExpiredWith(b)
        /\ UNCHANGED record
  BY DEF RowsExpired
<1>2. /\ Attached(b)' = {}
      /\ \A c \in Baskets : c # b => Attached(c)' = Attached(c)
      /\ \A c \in Baskets : MatchedTo(c)' = MatchedTo(c)
  BY <1>1, ExpiredSets
<1>3. ASSUME NEW c \in Baskets PROVE BasketTrue(c)'
  <2>1. c # b => basket'[c] = basket[c]
    BY <1>1, RowsTyped
  <2>2. basket'[b].status = "expired"
    BY <1>1, RowsTyped
  <2>3. QED
    BY <1>1, <1>2, <2>1, <2>2 DEF Rows, BasketTrue
<1>4. ASSUME NEW x \in Deposits PROVE DepositTrue(x)'
  <2>1. deposit'[x] = IF deposit[x].basket = b THEN Timeout(deposit[x]) ELSE deposit[x]
    BY <1>1 DEF ExpiredWith
  <2>2. CASE x \in Attached(b)
    <3>1. detail'[x] = [status |-> "released", basket |-> b]
      BY <1>1, <2>2
    <3>2. \/ deposit[x].status = "expired"
          \/ deposit[x].status = "locked" /\ deposit[x].basket = b
      BY <2>2 DEF Attached, Rows, DepositTrue
    <3>3. QED
      BY <2>1, <3>1, <3>2 DEF DepositTrue, Timeout
  <2>3. CASE x \notin Attached(b)
    <3>1. detail'[x] = detail[x]
      BY <1>1, <2>3
    <3>2. CASE deposit'[x] = deposit[x]
      BY <3>1, <3>2 DEF Rows, DepositTrue
    <3>3. CASE deposit'[x] # deposit[x]
      <4>1. deposit[x].status = "locked" /\ deposit[x].basket = b
        BY <2>1, <3>3 DEF Timeout
      <4>2. detail[x].status \in {"none", "attached", "matched", "released"}
        BY RowsTyped DEF DetailRow, DetailStatus
      <4>3. detail[x].status = "attached" /\ detail[x].basket = b
        BY <4>1, <4>2 DEF Rows, DepositTrue
      <4>4. QED
        BY <2>3, <4>3, RowsTyped DEF Attached, DetailRow
    <3>4. QED
      BY <3>2, <3>3
  <2>4. QED
    BY <2>2, <2>3
<1>5. QED
  BY <1>3, <1>4 DEF Rows

\* So does every sound step.
LEMMA RowsStep ==
  ASSUME TypeInv, RowInv, Rows, SoundStep
  PROVE  Rows'
<1>1. CASE UNCHANGED db
  BY <1>1 DEF db, Rows, BasketTrue, DepositTrue, Attached, MatchedTo
<1>2. CASE RowSaved \/ RowTimedOut
  <2>1. UNCHANGED <<basket, detail, record>>
    BY <1>2 DEF RowSaved, RowTimedOut
  <2>2. ASSUME NEW x \in Deposits
        PROVE  \/ deposit'[x] = deposit[x]
               \/ deposit[x].status \in {"absent", "waiting"}
                  /\ deposit'[x].status \in {"waiting", "expired"}
    BY <1>2, RowsTyped DEF RowSaved, RowTimedOut
  <2>3. ASSUME NEW x \in Deposits PROVE DepositTrue(x)'
    BY <2>1, <2>2, RowsTyped DEF Rows, DepositTrue, DetailRow, DetailStatus
  <2>4. ASSUME NEW c \in Baskets PROVE BasketTrue(c)'
    BY <2>1 DEF Rows, BasketTrue, Attached, MatchedTo
  <2>5. QED
    BY <2>3, <2>4 DEF Rows
<1>3. ASSUME NEW b \in Baskets, SoundInsert(b) PROVE Rows'
  <2>1. UNCHANGED <<deposit, detail, record>> /\ basket[b].status = "absent"
    BY <1>3 DEF SoundInsert
  <2>2. Attached(b) = {}
    BY <2>1 DEF RowInv, AttachedOnlyToWaiting, Attached
  <2>3. /\ \A c \in Baskets : c # b => basket'[c] = basket[c]
        /\ basket'[b].current = 0
    BY <1>3, RowsTyped DEF SoundInsert
  <2>4. ASSUME NEW c \in Baskets PROVE BasketTrue(c)'
    <3>1. Attached(c)' = Attached(c) /\ MatchedTo(c)' = MatchedTo(c)
      BY <2>1 DEF Attached, MatchedTo
    <3>2. CASE c = b
      <4>1. Total(Attached(b)') = 0 /\ 0 <= Target[b]
        BY <2>2, <3>1, <3>2, TotalAssumption, AmountAssumption
      <4>2. basket'[b].current = Total(Attached(b)') /\ basket'[b].current <= Target[b]
        BY <2>3, <4>1
      <4>3. QED
        BY <2>1, <3>1, <3>2, <4>2 DEF Rows, BasketTrue
    <3>3. CASE c # b
      BY <2>1, <2>3, <3>1, <3>3 DEF Rows, BasketTrue
    <3>4. QED
      BY <3>2, <3>3
  <2>5. ASSUME NEW x \in Deposits PROVE DepositTrue(x)'
    BY <2>1 DEF Rows, DepositTrue
  <2>6. QED
    BY <2>4, <2>5 DEF Rows
<1>4. QED
  BY <1>1, <1>2, <1>3, AttachRows, CompleteRows, ReleaseRows, ExpireRows DEF SoundStep

(***************************************************************************)
(* The pool: what a step of one goroutine must be shown to keep            *)
(***************************************************************************)
Told == {"index", "forget", "drop"}   \* where the pool is still to be told of a commit

\* What has been told and not applied is told to a goroutine inside the shard lock.
LEMMA ToldInSection == Told \subseteq Critical
BY DEF Told, Critical, HandlerCritical, ScannerCritical

\* A goroutine in a section is the only one there.
LEMMA OnlyOne ==
  ASSUME Holding, NEW p \in Procs, pc[p] \in Critical
  PROVE  \A q \in Procs : q # p => pc[q] \notin Critical
BY DEF Holding

\* A step that leaves the rows and the pools alone.
LEMMA IdleStep ==
  ASSUME TypeInv, Pool, NEW p \in Procs, NEW l, pc' = [pc EXCEPT ![p] = l],
         pc[p] \notin Told, l \notin Told, l # "idle" => boot[Home[p]] = "up",
         \A q \in Procs : q # p => job'[q] = job[q],
         UNCHANGED <<basket, detail, mem, boot, load>>
  PROVE  Pool'
<1>1. \A q \in Procs : pc'[q] = IF q = p THEN l ELSE pc[q]
  BY DEF TypeInv, TypeOK
<1>2. \A b : Attached(b)' = Attached(b)
  BY DEF Attached
<1>3. \A b \in Baskets : RowOf(b)' = RowOf(b)
  BY <1>2 DEF RowOf
<1>4. \A b \in Baskets : Behind(b) => Behind(b)'
  BY <1>1 DEF Behind, Told
<1>5. ASSUME NEW i \in Instances, NEW b \in Baskets PROVE (Mirrors(i, b) \/ Behind(b))'
  BY <1>3, <1>4 DEF Pool, Mirrors
<1>6. ASSUME NEW q \in Procs PROVE (IndexingAt(q) /\ ForgettingAt(q) /\ DroppingAt(q))'
  <2>1. CASE q = p
    BY <1>1, <2>1 DEF IndexingAt, ForgettingAt, DroppingAt, Told
  <2>2. CASE q # p
    <3>1. pc'[q] = pc[q] /\ job'[q] = job[q]
      BY <1>1, <2>2
    <3>2. IndexingAt(q) /\ ForgettingAt(q) /\ DroppingAt(q)
      BY DEF Pool
    <3>3. IndexingAt(q)' /\ DroppingAt(q)'
      BY <1>2, <3>1, <3>2 DEF IndexingAt, DroppingAt
    <3>4. ForgettingAt(q)'
      BY <1>2, <3>1, <3>2 DEF ForgettingAt, RowOf
    <3>5. QED
      BY <3>3, <3>4
  <2>3. QED
    BY <2>1, <2>2
<1>7. ASSUME NEW i \in Instances PROVE Loading(i)'
  BY DEF Pool, Loading
<1>8. Stopped'
  BY <1>1 DEF Pool, Stopped
<1>9. QED
  BY <1>5, <1>6, <1>7, <1>8 DEF Pool

\* A step of the goroutine in the section, at l next.
LEMMA SectionStep ==
  ASSUME TypeInv, Holding, OneProcess, Pool, NEW p \in Procs, pc[p] \in Critical,
         NEW l, pc' = [pc EXCEPT ![p] = l], UNCHANGED <<boot, load>>,
         \A b \in Baskets : Mirrors(Home[p], b)' \/ (l \in {"forget", "drop"} /\ job'[p].basket = b),
         l = "index" => IndexingAt(p)',
         l = "forget" => ForgettingAt(p)',
         l = "drop" => DroppingAt(p)'
  PROVE  Pool'
<1>1. \A q \in Procs : pc'[q] = IF q = p THEN l ELSE pc[q]
  BY DEF TypeInv, TypeOK
<1>2. \A q \in Procs : q # p => pc'[q] \notin Told
  BY <1>1, OnlyOne, ToldInSection
<1>3. Home[p] \in Instances /\ \A i \in Instances : i = Home[p]
  BY InHand DEF OneProcess
<1>4. boot[Home[p]] = "up"
  BY DEF Pool, Stopped, Critical, HandlerCritical, ScannerCritical
<1>5. ASSUME NEW i \in Instances, NEW b \in Baskets PROVE (Mirrors(i, b) \/ Behind(b))'
  <2>1. i = Home[p]
    BY <1>3
  <2>2. Mirrors(Home[p], b)' \/ (l \in {"forget", "drop"} /\ job'[p].basket = b)
    OBVIOUS
  <2>3. QED
    BY <1>1, <2>1, <2>2 DEF Behind
<1>6. ASSUME NEW q \in Procs PROVE (IndexingAt(q) /\ ForgettingAt(q) /\ DroppingAt(q))'
  BY <1>1, <1>2 DEF IndexingAt, ForgettingAt, DroppingAt, Told
<1>7. ASSUME NEW i \in Instances PROVE Loading(i)'
  BY <1>3, <1>4 DEF Loading
<1>8. Stopped'
  BY <1>3, <1>4, InHand DEF Stopped
<1>9. QED
  BY <1>5, <1>6, <1>7, <1>8 DEF Pool

\* In its section, a goroutine that has nothing to tell sees the rows in the pool.
LEMMA PoolSeen ==
  ASSUME Holding, Pool, NEW p \in Procs, pc[p] \in Critical \ {"forget", "drop"},
         NEW b \in Baskets, Home[p] \in Instances
  PROVE  Mirrors(Home[p], b) /\ boot[Home[p]] = "up"
<1>1. \A q \in Procs : pc[q] \notin {"forget", "drop"}
  BY OnlyOne DEF Critical, HandlerCritical, ScannerCritical
<1>2. QED
  BY <1>1 DEF Pool, Behind, Stopped, Critical, HandlerCritical, ScannerCritical

(***************************************************************************)
(* The handlers                                                            *)
(***************************************************************************)
\* What each step is given, and what it keeps.
Trust == TypeInv /\ RowInv /\ Holding /\ OneProcess /\ Rows /\ Pool /\ Saved

\* The arrival of a request touches neither rows nor pool.
LEMMA RequestKeeps ==
  ASSUME Trust, NEW h \in Handlers, Request(h)
  PROVE  Pool' /\ SoundStep
<1>1. h \in Procs
  BY DEF Procs
<1>2. PICK l \in {"lockSubmit", "lockCreate"} : pc' = [pc EXCEPT ![h] = l]
  BY DEF Request, Submit, RequestBasket, Goto
<1>3. /\ pc[h] = "idle" /\ boot[Home[h]] = "up"
      /\ \A q \in Procs : q # h => job'[q] = job[q]
      /\ UNCHANGED <<db, mem, boot, load>>
  BY DEF Request, Submit, RequestBasket, Up, memory, node, Trust, TypeInv, TypeOK
<1>4. Pool'
  BY <1>1, <1>2, <1>3, IdleStep DEF Trust, db, Told
<1>5. QED
  BY <1>3, <1>4 DEF SoundStep

\* The steps of a request that leave the pool alone.
LEMMA ServeIdle ==
  ASSUME Trust, NEW h \in Handlers, SaveDeposit(h) \/ MatchFails(h) \/ MatchPending(h)
  PROVE  Pool' /\ SoundStep
<1>1. h \in Procs
  BY DEF Procs
<1>2. PICK l \in {"match", "unlock"} : pc' = [pc EXCEPT ![h] = l]
  BY DEF SaveDeposit, MatchFails, MatchPending, Goto
<1>3. /\ pc[h] \in {"save", "match"}
      /\ \A q \in Procs : q # h => job'[q] = job[q]
      /\ UNCHANGED <<basket, detail, record, mem, boot, load>>
  BY DEF SaveDeposit, MatchFails, MatchPending, db, memory, node
<1>4. boot[Home[h]] = "up"
  BY <1>1, <1>3 DEF Trust, Pool, Stopped
<1>5. Pool'
  BY <1>1, <1>2, <1>3, <1>4, IdleStep DEF Trust, Told
<1>6. UNCHANGED db \/ RowSaved
  <2>1. CASE SaveDeposit(h)
    <3>1. job[h].deposit \in Deposits
      BY <1>1, <2>1, InHand DEF SaveDeposit, HasDeposit, Trust
    <3>2. [status |-> "waiting", basket |-> NoBasket, expire |-> job[h].expire] \in DepositRow
      BY <1>1, InHand DEF Trust, Job, DepositRow, DepositStatus
    <3>3. QED
      BY <2>1, <3>1, <3>2 DEF SaveDeposit, RowSaved, db
  <2>2. CASE MatchFails(h) \/ MatchPending(h)
    BY <2>2 DEF MatchFails, MatchPending
  <2>3. QED
    BY <2>1, <2>2
<1>7. QED
  BY <1>5, <1>6 DEF SoundStep

\* The pool's basket is the row, so its transaction completes what is attached.
LEMMA CompleteKeeps ==
  ASSUME Trust, NEW h \in Handlers, NEW b \in Baskets, MatchComplete(h, b), ~Spend("lost")
  PROVE  Pool' /\ SoundStep
<1> DEFINE i == Home[h]  d == job[h].deposit
<1>1. h \in Procs /\ pc[h] = "match" /\ d \in Deposits /\ i \in Instances
  BY InHand DEF MatchComplete, HasDeposit, Procs, Trust
<1>2. Mirrors(i, b) /\ \A c \in Baskets : Mirrors(i, c)
  BY <1>1, PoolSeen DEF Trust, Critical, HandlerCritical
<1>3. mem[i][b].in /\ NewCurrent(i, b, d) = Target[b]
  BY DEF MatchComplete, BestCompletable, Completable, NewCurrent
<1>4. /\ basket[b].status = "waiting" /\ mem[i][b].current = basket[b].current
      /\ mem[i][b].deposits = Attached(b)
  BY <1>2, <1>3 DEF Mirrors, RowOf
<1>5. /\ CanComplete(b, Members(i, b, d)) /\ detail[d].status = "none"
      /\ PersistCompleted(b, Members(i, b, d), NewCurrent(i, b, d), {d})
      /\ mem' = [mem EXCEPT ![i][b] = Absent]
      /\ pc' = [pc EXCEPT ![h] = "unlock"] /\ UNCHANGED <<job, boot, load>>
  BY DEF MatchComplete, Goto, node
<1>6. Members(i, b, d) = Attached(b) \cup {d} /\ d \notin Attached(b)
  BY <1>4, <1>5 DEF Members, Attached
<1>7. NewCurrent(i, b, d) = Total(Attached(b) \cup {d})
  <2>1. Attached(b) \in SUBSET Deposits
    BY DEF Attached
  <2>2. Total(Attached(b) \cup {d}) = Total(Attached(b)) + Amount[d]
    BY <1>1, <1>6, <2>1, AddAmount
  <2>3. basket[b].current = Total(Attached(b))
    BY <1>4 DEF Trust, Rows, BasketTrue
  <2>4. QED
    BY <1>4, <2>2, <2>3 DEF NewCurrent
<1> HIDE DEF i, d
<1>8. SoundComplete(b, {d})
  <2>1. Target[b] <= Target[b]
    BY AmountAssumption
  <2>2. QED
    BY <1>3, <1>5, <1>6, <1>7, <2>1 DEF SoundComplete
<1>9. SoundStep
  BY <1>1, <1>8 DEF SoundStep
<1>10. ASSUME NEW c \in Baskets PROVE Mirrors(i, c)'
  <2>1. CASE c = b
    BY <1>1, <1>5, <2>1, RowsTyped DEF Mirrors, Absent, Trust
  <2>2. CASE c # b
    <3>1. Attached(c)' = Attached(c)
      BY <1>1, <1>5, <2>2, CompletedSets DEF Trust
    <3>2. basket'[c] = basket[c]
      BY <1>5, <2>2, RowsTyped DEF PersistCompleted, Trust
    <3>3. mem'[i][c] = mem[i][c]
      BY <1>1, <1>5, <2>2, RowsTyped DEF Trust
    <3>4. QED
      BY <1>2, <3>1, <3>2, <3>3 DEF Mirrors, RowOf
  <2>3. QED
    BY <2>1, <2>2
<1>11. Pool'
  BY <1>1, <1>5, <1>10, SectionStep DEF i, Trust, Critical, HandlerCritical
<1>12. QED
  BY <1>9, <1>11

\* Attaching writes the amount the pool computed, which is the sum of the rows.
LEMMA AttachKeeps ==
  ASSUME Trust, NEW h \in Handlers, NEW b \in Baskets, MatchAttach(h, b), ~Spend("lost")
  PROVE  Pool' /\ SoundStep
<1> DEFINE i == Home[h]  d == job[h].deposit  n == NewCurrent(i, b, d)
<1>1. h \in Procs /\ pc[h] = "match" /\ d \in Deposits /\ i \in Instances
  BY InHand DEF MatchAttach, HasDeposit, Procs, Trust
<1>2. Mirrors(i, b) /\ \A c \in Baskets : Mirrors(i, c)
  BY <1>1, PoolSeen DEF Trust, Critical, HandlerCritical
<1>3. mem[i][b].in /\ n < Target[b]
  BY DEF MatchAttach, BestAcceptable, Acceptable, NewCurrent
<1>4. /\ basket[b].status = "waiting" /\ mem[i][b].current = basket[b].current
      /\ mem[i][b].deposits = Attached(b)
  BY <1>2, <1>3 DEF Mirrors, RowOf
<1>5. /\ CanAttach(d, b) /\ PersistAttached(d, b, n)
      /\ mem' = [mem EXCEPT ![i][b] = [in |-> TRUE, current |-> n, deposits |-> Members(i, b, d)]]
      /\ pc' = [pc EXCEPT ![h] = "unlock"] /\ UNCHANGED <<job, boot, load>>
  BY DEF MatchAttach, Goto, node
<1>6. n = basket[b].current + Amount[d] /\ Members(i, b, d) = Attached(b) \cup {d}
  BY <1>4 DEF NewCurrent, Members
<1>7. n <= Target[b]
  <2>1. n \in Int /\ Target[b] \in Int
    BY <1>1, <1>6, RowsTyped, AmountAssumption DEF Trust, BasketRow
  <2>2. QED
    BY <1>3, <2>1
<1>8. deposit[d].status # "absent"
  BY <1>1 DEF Trust, Saved
<1> HIDE DEF i, d, n
<1>9. SoundAttach(d, b)
  BY <1>5, <1>6, <1>7, <1>8 DEF SoundAttach
<1>10. SoundStep
  BY <1>1, <1>9 DEF SoundStep
<1>11. /\ Attached(b)' = Attached(b) \cup {d}
       /\ \A c \in Baskets : c # b => Attached(c)' = Attached(c)
  BY <1>1, <1>5, AttachSets DEF Trust, CanAttach
<1>12. ASSUME NEW c \in Baskets PROVE Mirrors(i, c)'
  <2>1. CASE c = b
    <3>1. mem'[i][b] = [in |-> TRUE, current |-> n, deposits |-> Members(i, b, d)]
      BY <1>1, <1>5, RowsTyped DEF Trust
    <3>2. basket'[b].status = "waiting" /\ basket'[b].current = n
      BY <1>4, <1>5, RowsTyped DEF PersistAttached, Trust
    <3>3. QED
      BY <1>6, <1>11, <2>1, <3>1, <3>2 DEF Mirrors, RowOf
  <2>2. CASE c # b
    <3>1. basket'[c] = basket[c]
      BY <1>5, <2>2, RowsTyped DEF PersistAttached, Trust
    <3>2. mem'[i][c] = mem[i][c]
      BY <1>1, <1>5, <2>2, RowsTyped DEF Trust
    <3>3. QED
      BY <1>2, <1>11, <2>2, <3>1, <3>2 DEF Mirrors, RowOf
  <2>3. QED
    BY <2>1, <2>2
<1>13. Pool'
  BY <1>1, <1>5, <1>12, SectionStep DEF i, Trust, Critical, HandlerCritical
<1>14. QED
  BY <1>10, <1>13

\* Between the insertion of a basket and its place in the pool, no deposit finds it.
LEMMA InsertKeeps ==
  ASSUME Trust, NEW h \in Handlers, InsertBasket(h), ~Spend("lost")
  PROVE  Pool' /\ SoundStep
<1> DEFINE i == Home[h]  b == job[h].basket
<1>1. h \in Procs /\ pc[h] = "insert" /\ b \in Baskets /\ i \in Instances
  BY InHand DEF InsertBasket, HasBasket, Procs, Trust
<1>2. boot[i] = "up" /\ \A c \in Baskets : Mirrors(i, c)
  BY <1>1, PoolSeen DEF Trust, Critical, HandlerCritical
<1>3. UNCHANGED <<deposit, detail, record, mem, job, boot, load>>
  BY DEF InsertBasket, memory, node
<1>4. CASE UNCHANGED basket /\ pc' = [pc EXCEPT ![h] = "unlock"]
  <2>1. Pool'
    BY <1>1, <1>2, <1>3, <1>4, IdleStep DEF Trust, Told
  <2>2. QED
    BY <1>3, <1>4, <2>1 DEF SoundStep, db
<1>5. CASE /\ basket[b].status = "absent"
           /\ basket' = [basket EXCEPT ![b] =
                [status |-> "waiting", current |-> 0, expire |-> job[h].expire]]
           /\ pc' = [pc EXCEPT ![h] = "index"]
  <2>1. SoundInsert(b)
    BY <1>1, <1>3, <1>5, InHand DEF SoundInsert, Trust, Job
  <2>2. ~mem[i][b].in
    BY <1>1, <1>2, <1>5 DEF Mirrors
  <2>3. \A c : Attached(c)' = Attached(c)
    BY <1>3 DEF Attached
  <2>4. Attached(b) = {}
    BY <1>5 DEF Trust, RowInv, AttachedOnlyToWaiting, Attached
  <2>5. basket'[b] = [status |-> "waiting", current |-> 0, expire |-> job[h].expire]
    BY <1>1, <1>5, RowsTyped DEF Trust
  <2>6. IndexingAt(h)'
    BY <1>3, <2>2, <2>3, <2>4, <2>5 DEF IndexingAt
  <2>7. ASSUME NEW c \in Baskets PROVE Mirrors(i, c)'
    <3>1. CASE c = b
      BY <1>3, <2>2, <3>1 DEF Mirrors
    <3>2. CASE c # b
      <4>1. basket'[c] = basket[c]
        BY <1>5, <3>2, RowsTyped DEF Trust
      <4>2. QED
        BY <1>2, <1>3, <2>3, <4>1 DEF Mirrors, RowOf
    <3>3. QED
      BY <3>1, <3>2
  <2>8. Pool'
    BY <1>1, <1>3, <1>5, <2>6, <2>7, SectionStep DEF Trust, Critical, HandlerCritical
  <2>9. QED
    BY <1>1, <2>1, <2>8 DEF SoundStep
<1>6. QED
  BY <1>4, <1>5 DEF InsertBasket, Goto

\* AddBasket brings the pool up to the row the transaction has just inserted.
LEMMA IndexKeeps ==
  ASSUME Trust, NEW h \in Handlers, AddBasket(h)
  PROVE  Pool' /\ SoundStep
<1> DEFINE i == Home[h]  b == job[h].basket
<1>1. h \in Procs /\ pc[h] = "index" /\ b \in Baskets /\ i \in Instances
  BY InHand DEF AddBasket, HasBasket, Procs, Trust
<1>2. \A c \in Baskets : Mirrors(i, c)
  BY <1>1, PoolSeen DEF Trust, Critical, HandlerCritical
<1>3. /\ UNCHANGED <<db, job, boot, load>> /\ pc' = [pc EXCEPT ![h] = "unlock"]
      /\ mem' = [mem EXCEPT ![i][b] = NewInPool]
  BY DEF AddBasket, Goto, node
<1>4. basket[b].status = "waiting" /\ NewInPool = RowOf(b)
  BY <1>1 DEF Trust, Pool, IndexingAt, RowOf, NewInPool
<1>5. \A c : RowOf(c)' = RowOf(c)
  BY <1>3 DEF RowOf, Attached, db
<1>6. ASSUME NEW c \in Baskets PROVE Mirrors(i, c)'
  <2>1. CASE c = b
    <3>1. mem'[i][b] = NewInPool
      BY <1>1, <1>3, RowsTyped DEF Trust
    <3>2. QED
      BY <1>3, <1>4, <1>5, <2>1, <3>1 DEF Mirrors, db
  <2>2. CASE c # b
    <3>1. mem'[i][c] = mem[i][c]
      BY <1>1, <1>3, <2>2, RowsTyped DEF Trust
    <3>2. QED
      BY <1>2, <1>3, <1>5, <3>1 DEF Mirrors, db
  <2>3. QED
    BY <2>1, <2>2
<1>7. Pool'
  BY <1>1, <1>3, <1>6, SectionStep DEF Trust, Critical, HandlerCritical
<1>8. QED
  BY <1>3, <1>7 DEF SoundStep

\* Every step of a request.
LEMMA ServeKeeps ==
  ASSUME Trust, NEW h \in Handlers, Serve(h), ~Spend("lost")
  PROVE  Pool' /\ SoundStep
BY ServeIdle, CompleteKeeps, AttachKeeps, InsertKeeps, IndexKeeps DEF Serve

(***************************************************************************)
(* The scans                                                               *)
(***************************************************************************)
LEMMA ScanIdle ==
  ASSUME Trust, NEW s \in Scanners,
         \/ ListWaiting(s) \/ ListLocked(s) \/ ListBaskets(s) \/ EndScan(s)
         \/ ReleaseFails(s) \/ CannotComplete(s)
         \/ \E d \in Deposits : ExpireWaiting(s, d) \/ TakeLocked(s, d)
         \/ \E b \in Baskets : TakeBasket(s, b)
  PROVE  Pool' /\ SoundStep
<1>1. s \in Procs /\ pc = [pc EXCEPT ![s] = pc[s]]
  BY DEF Procs, Trust, TypeInv, TypeOK
<1>2. /\ pc[s] \in {"idle", "waiting", "locked", "baskets", "release", "close"}
      /\ pc[s] = "idle" => boot[Home[s]] = "up"
      /\ \E l \in {"idle", "waiting", "locked", "baskets", "lockRelease", "lockClose", "expire",
                   "abort"} : pc' = [pc EXCEPT ![s] = l]
      /\ UNCHANGED <<basket, detail, record, mem, boot, load>>
  <2>1. CASE ListWaiting(s)
    BY <2>1 DEF ListWaiting, Goto, Up, db, memory, node
  <2>2. CASE ListLocked(s)
    BY <2>2 DEF ListLocked, Goto, db, memory, node
  <2>3. CASE ListBaskets(s)
    BY <2>3 DEF ListBaskets, Goto, db, memory, node
  <2>4. CASE EndScan(s)
    BY <2>4 DEF EndScan, Goto, db, memory, node
  <2>5. CASE ReleaseFails(s)
    BY <2>5 DEF ReleaseFails, Goto, db, memory, node
  <2>6. CASE CannotComplete(s)
    BY <2>6 DEF CannotComplete, Goto, db, memory, node
  <2>7. ASSUME NEW d \in Deposits, ExpireWaiting(s, d) PROVE <1>2
    BY <1>1, <2>7 DEF ExpireWaiting, memory, node
  <2>8. ASSUME NEW d \in Deposits, TakeLocked(s, d) PROVE <1>2
    BY <2>8 DEF TakeLocked, Goto, db, memory, node
  <2>9. ASSUME NEW b \in Baskets, TakeBasket(s, b) PROVE <1>2
    BY <2>9 DEF TakeBasket, Goto, db, memory, node
  <2>10. QED
    BY <2>1, <2>2, <2>3, <2>4, <2>5, <2>6, <2>7, <2>8, <2>9
<1>3. \A q \in Procs : q # s => job'[q] = job[q]
  BY DEF ListWaiting, ListLocked, ListBaskets, EndScan, ReleaseFails, CannotComplete,
         ExpireWaiting, TakeLocked, TakeBasket, Trust, TypeInv, TypeOK
<1>4. boot[Home[s]] = "up"
  BY <1>1, <1>2 DEF Trust, Pool, Stopped
<1>5. Pool'
  <2>1. PICK l : pc' = [pc EXCEPT ![s] = l] /\ l \notin Told
    BY <1>2 DEF Told
  <2>2. pc[s] \notin Told
    BY <1>2 DEF Told
  <2>3. QED
    BY <1>1, <1>2, <1>3, <1>4, <2>1, <2>2, IdleStep DEF Trust
<1>6. UNCHANGED db \/ RowTimedOut
  BY DEF ListWaiting, ListLocked, ListBaskets, EndScan, ReleaseFails, CannotComplete,
         ExpireWaiting, TakeLocked, TakeBasket, RowTimedOut
<1>7. QED
  BY <1>5, <1>6 DEF SoundStep

\* Of a goroutine that still has to tell the pool, the other baskets are in the pool.
LEMMA OthersSeen ==
  ASSUME Holding, Pool, NEW p \in Procs, pc[p] \in {"forget", "drop"},
         NEW b \in Baskets, b # job[p].basket, Home[p] \in Instances
  PROVE  Mirrors(Home[p], b)
<1>1. \A q \in Procs : q # p => pc[q] \notin {"forget", "drop"}
  BY OnlyOne DEF Critical, HandlerCritical, ScannerCritical
<1>2. QED
  BY <1>1 DEF Pool, Behind

\* Releasing one deposit leaves the pool behind by exactly that deposit.
LEMMA ReleaseKeeps ==
  ASSUME Trust, NEW s \in Scanners, ReleaseRow(s), ~Spend("lost")
  PROVE  Pool' /\ SoundStep
<1> DEFINE i == Home[s]
<1>1. s \in Procs /\ pc[s] = "release" /\ i \in Instances
  BY InHand DEF ReleaseRow, Procs, Trust
<1>2. PICK d \in Deposits, b \in Baskets :
        d = job[s].deposit /\ b = detail[d].basket /\ basket[b].status = "waiting"
  <2>1. job[s].deposit \in Deposits
    BY <1>1, InHand DEF HasDeposit, Trust
  <2>2. QED
    BY <1>1, <2>1, AttachedTyped DEF ReleaseRow, Trust, RowInv, AttachedOnlyToWaiting
<1>3. \A c \in Baskets : Mirrors(i, c)
  BY <1>1, PoolSeen DEF Trust, Critical, ScannerCritical
<1>4. /\ detail[d].status = "attached"
      /\ deposit' = [deposit EXCEPT ![d] = Timeout(@)]
      /\ detail' = [detail EXCEPT ![d] = [status |-> "released", basket |-> b]]
      /\ basket' = [basket EXCEPT ![b] =
           [status |-> "waiting", current |-> Minus(@.current, Amount[d]), expire |-> @.expire]]
      /\ job' = [job EXCEPT ![s].basket = b]
      /\ pc' = [pc EXCEPT ![s] = "forget"] /\ UNCHANGED <<record, mem, boot, load>>
  BY <1>1, <1>2, RowsTyped DEF ReleaseRow, Goto, memory, node, Trust
<1>5. job'[s].basket = b /\ job'[s].deposit = d
  <2>1. job[s] \in Job /\ job'[s] = [job[s] EXCEPT !.basket = b]
    BY <1>1, <1>4 DEF Trust, TypeInv, TypeOK
  <2>2. QED
    BY <1>2, <2>1 DEF Job
<1>6. SoundRelease(d, b)
  BY <1>2, <1>4 DEF SoundRelease
<1>7. SoundStep
  BY <1>1, <1>2, <1>6 DEF SoundStep
<1>8. /\ Attached(b)' = Attached(b) \ {d}
      /\ \A c \in Baskets : c # b => Attached(c)' = Attached(c)
  BY <1>1, <1>2, <1>4, ReleasedSets DEF Trust
<1>9. ForgettingAt(s)'
  <2>1. /\ basket'[b].status = "waiting"
        /\ basket'[b].current = Minus(basket[b].current, Amount[d])
    BY <1>2, <1>4, RowsTyped DEF Trust
  <2>2. ASSUME mem[i][b].in PROVE WithoutDeposit(mem[i][b], d) = RowOf(b)'
    <3>1. mem[i][b] = RowOf(b)
      BY <1>2, <1>3, <2>2 DEF Mirrors
    <3>2. QED
      BY <1>8, <2>1, <3>1 DEF RowOf, WithoutDeposit
  <2>3. QED
    BY <1>4, <1>5, <2>1, <2>2 DEF ForgettingAt
<1>10. ASSUME NEW c \in Baskets, c # b PROVE Mirrors(i, c)'
  <2>1. basket'[c] = basket[c]
    BY <1>4, <1>10, RowsTyped DEF Trust
  <2>2. QED
    BY <1>3, <1>4, <1>8, <1>10, <2>1 DEF Mirrors, RowOf
<1>11. Pool'
  <2>1. \A c \in Baskets :
          Mirrors(Home[s], c)' \/ ("forget" \in {"forget", "drop"} /\ job'[s].basket = c)
    BY <1>5, <1>10
  <2>2. pc[s] \in Critical
    BY <1>1 DEF Critical, ScannerCritical
  <2>3. QED
    BY <1>1, <1>4, <1>9, <2>1, <2>2, SectionStep DEF Trust
<1>12. QED
  BY <1>7, <1>11

\* The pool forgets the deposit whose release has been committed.
LEMMA ForgetKeeps ==
  ASSUME Trust, NEW s \in Scanners, ForgetDeposit(s)
  PROVE  Pool' /\ SoundStep
<1> DEFINE i == Home[s]  d == job[s].deposit  b == job[s].basket
<1>1. s \in Procs /\ pc[s] = "forget" /\ b \in Baskets /\ i \in Instances
  BY InHand DEF ForgetDeposit, HasBasket, Procs, Trust
<1>2. \A c \in Baskets : c # b => Mirrors(i, c)
  BY <1>1, OthersSeen DEF Trust
<1>3. /\ UNCHANGED <<db, job, boot, load>> /\ pc' = [pc EXCEPT ![s] = "unlock"]
      /\ mem' = [mem EXCEPT ![i][b] = IF @.in THEN WithoutDeposit(@, d) ELSE @]
  BY DEF ForgetDeposit, Goto, node
<1>4. /\ basket[b].status = "waiting"
      /\ mem[i][b].in => WithoutDeposit(mem[i][b], d) = RowOf(b)
  BY <1>1 DEF Trust, Pool, ForgettingAt
<1>5. \A c : RowOf(c)' = RowOf(c)
  BY <1>3 DEF RowOf, Attached, db
<1> HIDE DEF i, d, b
<1>6. ASSUME NEW c \in Baskets PROVE Mirrors(i, c)'
  <2>1. CASE c = b
    <3>1. mem'[i][b] = IF mem[i][b].in THEN WithoutDeposit(mem[i][b], d) ELSE mem[i][b]
      BY <1>1, <1>3, RowsTyped DEF Trust
    <3>2. QED
      BY <1>3, <1>4, <1>5, <2>1, <3>1 DEF Mirrors, db
  <2>2. CASE c # b
    <3>1. mem'[i][c] = mem[i][c]
      BY <1>1, <1>3, <2>2, RowsTyped DEF Trust
    <3>2. QED
      BY <1>2, <1>3, <1>5, <2>2, <3>1 DEF Mirrors, db
  <2>3. QED
    BY <2>1, <2>2
<1>7. Pool'
  BY <1>1, <1>3, <1>6, SectionStep DEF i, Trust, Critical, ScannerCritical
<1>8. QED
  BY <1>3, <1>7 DEF SoundStep

\* Closing a basket, matched or expired, leaves the pool behind by that basket only.
LEMMA CloseKeeps ==
  ASSUME Trust, NEW s \in Scanners, CompletePartial(s) \/ ExpireBasket(s), ~Spend("lost")
  PROVE  Pool' /\ SoundStep
<1> DEFINE i == Home[s]  b == job[s].basket
<1>1. s \in Procs /\ pc[s] \in {"close", "expire"} /\ b \in Baskets /\ i \in Instances
  BY InHand DEF CompletePartial, ExpireBasket, HasBasket, Procs, Trust
<1>2. boot[i] = "up" /\ \A c \in Baskets : Mirrors(i, c)
  BY <1>1, PoolSeen DEF Trust, Critical, ScannerCritical
<1>3. UNCHANGED <<mem, job, boot, load>>
  BY DEF CompletePartial, ExpireBasket, memory, node
<1>4. CASE UNCHANGED db /\ \E l \in {"abort", "unlock"} : pc' = [pc EXCEPT ![s] = l]
  <2>1. Pool'
    BY <1>1, <1>2, <1>3, <1>4, IdleStep DEF Trust, Told, db
  <2>2. QED
    BY <1>4, <2>1 DEF SoundStep
<1>5. ASSUME pc' = [pc EXCEPT ![s] = "drop"], basket'[b].status # "waiting",
             \A c \in Baskets : c # b => Attached(c)' = Attached(c) /\ basket'[c] = basket[c]
      PROVE  Pool'
  <2>1. DroppingAt(s)'
    BY <1>3, <1>5 DEF DroppingAt
  <2>2. \A c \in Baskets :
          Mirrors(Home[s], c)' \/ ("drop" \in {"forget", "drop"} /\ job'[s].basket = c)
    BY <1>2, <1>3, <1>5 DEF Mirrors, RowOf
  <2>3. pc[s] \in Critical
    BY <1>1 DEF Critical, ScannerCritical
  <2>4. QED
    BY <1>1, <1>3, <1>5, <2>1, <2>2, <2>3, SectionStep DEF Trust
<1>6. CASE /\ CanComplete(b, Attached(b))
           /\ PersistCompleted(b, Attached(b), Total(Attached(b)), {})
           /\ pc' = [pc EXCEPT ![s] = "drop"]
  <2>1. Total(Attached(b)) <= Target[b]
    BY <1>1, <1>6 DEF CanComplete, Trust, Rows, BasketTrue
  <2>2. Attached(b) \cup {} = Attached(b) /\ {} \in SUBSET Deposits
    OBVIOUS
  <2> HIDE DEF b
  <2>3. SoundComplete(b, {})
    BY <1>6, <2>1, <2>2 DEF SoundComplete
  <2>4. \A c \in Baskets : c # b => Attached(c)' = Attached(c)
    BY <1>1, <1>6, <2>2, CompletedSets DEF Trust
  <2>5. basket'[b].status # "waiting" /\ \A c \in Baskets : c # b => basket'[c] = basket[c]
    BY <1>1, <1>6, RowsTyped DEF PersistCompleted, Trust
  <2>6. QED
    BY <1>1, <1>5, <1>6, <2>2, <2>3, <2>4, <2>5 DEF SoundStep
<1>7. CASE ExpireBasket(s) /\ pc' = [pc EXCEPT ![s] = "drop"]
  <2>1. /\ basket[b].status = "waiting"
        /\ basket' = [basket EXCEPT ![b] =
             [status |-> "expired", current |-> @.current, expire |-> @.expire]]
        /\ detail' = [d \in Deposits |->
             IF d \in Attached(b) THEN [status |-> "released", basket |-> b] ELSE detail[d]]
        /\ deposit' = ExpiredWith(b) /\ UNCHANGED record
    <3>1. pc'[s] = "drop"
      BY <1>1, <1>7 DEF Trust, TypeInv, TypeOK
    <3>2. ~Goto(s, "unlock") /\ ~Goto(s, "abort")
      BY <1>1, <3>1 DEF Goto, Trust, TypeInv, TypeOK
    <3>3. QED
      BY <1>7, <3>2 DEF ExpireBasket, Closable
  <2>2. RowsExpired
    BY <1>1, <2>1 DEF RowsExpired
  <2>3. \A c \in Baskets : c # b => Attached(c)' = Attached(c)
    BY <1>1, <2>1, ExpiredSets DEF Trust
  <2>4. basket'[b].status # "waiting" /\ \A c \in Baskets : c # b => basket'[c] = basket[c]
    BY <1>1, <2>1, RowsTyped DEF Trust
  <2>5. QED
    BY <1>5, <1>7, <2>2, <2>3, <2>4 DEF SoundStep
<1>8. QED
  BY <1>4, <1>6, <1>7 DEF CompletePartial, ExpireBasket, Goto

\* The pool drops the basket whose end has been committed.
LEMMA DropKeeps ==
  ASSUME Trust, NEW s \in Scanners, DropBasket(s)
  PROVE  Pool' /\ SoundStep
<1> DEFINE i == Home[s]  b == job[s].basket
<1>1. s \in Procs /\ pc[s] = "drop" /\ b \in Baskets /\ i \in Instances
  BY InHand DEF DropBasket, HasBasket, Procs, Trust
<1>2. \A c \in Baskets : c # b => Mirrors(i, c)
  BY <1>1, OthersSeen DEF Trust
<1>3. /\ UNCHANGED <<db, job, boot, load>> /\ pc' = [pc EXCEPT ![s] = "unlock"]
      /\ mem' = [mem EXCEPT ![i][b] = Absent]
  BY DEF DropBasket, Goto, node
<1>4. \A c : RowOf(c)' = RowOf(c)
  BY <1>3 DEF RowOf, Attached, db
<1> HIDE DEF i, b
<1>5. ASSUME NEW c \in Baskets PROVE Mirrors(i, c)'
  <2>1. mem'[i][c] = IF c = b THEN Absent ELSE mem[i][c]
    BY <1>1, <1>3, RowsTyped DEF Trust
  <2>2. QED
    BY <1>2, <1>3, <1>4, <2>1 DEF Mirrors, Absent, db
<1>6. Pool'
  BY <1>1, <1>3, <1>5, SectionStep DEF i, Trust, Critical, ScannerCritical
<1>7. QED
  BY <1>3, <1>6 DEF SoundStep

\* Every step of a scan.
LEMMA ScanKeeps ==
  ASSUME Trust, NEW s \in Scanners, Scan(s), ~Spend("lost")
  PROVE  Pool' /\ SoundStep
BY ScanIdle, ReleaseKeeps, ForgetKeeps, CloseKeeps, DropKeeps DEF Scan

(***************************************************************************)
(* The lock, the clock, and a restart                                      *)
(***************************************************************************)
LEMMA LockKeeps ==
  ASSUME Trust, NEW p \in Procs, Lock(p)
  PROVE  Pool' /\ SoundStep
<1>1. /\ UNCHANGED <<db, mem, boot, load>>
      /\ \A q \in Procs : q # p => job'[q] = job[q]
  BY DEF Lock, Acquire, AcquireFails, Unlock, memory, node, Trust, TypeInv, TypeOK
<1>2. pc[p] \notin Told /\ pc[p] # "idle"
  BY DEF Lock, Acquire, AcquireFails, Unlock, Section, Told
<1>3. PICK l : pc' = [pc EXCEPT ![p] = l] /\ l \notin Told
  <2>1. \A k \in DOMAIN Section : Section[k] \notin Told
    BY DEF Section, Told
  <2>2. AfterUnlock(p) \notin Told
    BY DEF AfterUnlock, Told
  <2>3. CASE Acquire(p)
    <3>1. pc[p] \in DOMAIN Section /\ pc' = [pc EXCEPT ![p] = Section[pc[p]]]
      BY <2>3 DEF Acquire, Goto
    <3>2. Section[pc[p]] \notin Told
      BY <2>1, <3>1
    <3>3. QED
      BY <3>1, <3>2
  <2>4. CASE AcquireFails(p)
    <3>1. pc' = [pc EXCEPT ![p] = "idle"] /\ "idle" \notin Told
      BY <2>4 DEF AcquireFails, Goto, Told
    <3>2. QED
      BY <3>1
  <2>5. CASE Unlock(p)
    BY <2>2, <2>5 DEF Unlock, Goto
  <2>6. QED
    BY <2>3, <2>4, <2>5 DEF Lock
<1>4. boot[Home[p]] = "up"
  BY <1>2 DEF Trust, Pool, Stopped
<1>5. Pool'
  BY <1>1, <1>2, <1>3, <1>4, IdleStep DEF Trust, db
<1>6. QED
  BY <1>1, <1>5 DEF SoundStep

\* A process that is down or recovering has no goroutine, so nothing stands between
\* a commit and its pool.
LEMMA NoneBehind ==
  ASSUME OneProcess, Pool, NEW i \in Instances, boot[i] # "up", TypeInv
  PROVE  /\ \A p \in Procs : pc[p] = "idle" /\ Home[p] = i
         /\ \A b \in Baskets : Mirrors(i, b)
<1>1. \A p \in Procs : pc[p] = "idle" /\ Home[p] = i
  BY InHand DEF OneProcess, Pool, Stopped
<1>2. QED
  BY <1>1 DEF Pool, Behind

\* A crash empties the pool, and the process is no longer up.
LEMMA CrashKeeps ==
  ASSUME Trust, NEW i \in Instances, Crash(i)
  PROVE  Pool' /\ SoundStep
<1>1. \A p \in Procs : Home[p] = i /\ \A j \in Instances : j = i
  BY InHand DEF Trust, OneProcess
<1>2. \A p \in Procs : pc'[p] = "idle"
  BY <1>1 DEF Crash
<1>3. boot'[i] = "down" /\ \A b \in Baskets : mem'[i][b] = Absent
  BY DEF Crash, Trust, TypeInv, TypeOK
<1>4. \A j \in Instances, b \in Baskets : Mirrors(j, b)'
  BY <1>1, <1>3 DEF Mirrors, Absent, Trust, OneProcess
<1>5. \A p \in Procs : (IndexingAt(p) /\ ForgettingAt(p) /\ DroppingAt(p))'
  BY <1>2 DEF IndexingAt, ForgettingAt, DroppingAt
<1>6. \A j \in Instances : Loading(j)'
  BY <1>3 DEF Loading, Trust, OneProcess
<1>7. Pool'
  BY <1>2, <1>4, <1>5, <1>6 DEF Pool, Stopped
<1>8. QED
  BY <1>7 DEF Crash, SoundStep

\* The recovery rebuilds the pool from rows that nobody changes meanwhile.
LEMMA RestartKeeps ==
  ASSUME Trust, NEW i \in Instances, Restart(i)
  PROVE  Pool' /\ SoundStep
<1>1. boot[i] # "up" /\ UNCHANGED <<db, pc, job>>
  BY DEF Restart, ListActive, RestoreBasket, Recovered
<1>2. /\ \A p \in Procs : pc[p] = "idle" /\ Home[p] = i
      /\ \A b \in Baskets : Mirrors(i, b)
      /\ \A j \in Instances : j = i
  BY <1>1, NoneBehind DEF Trust, OneProcess
<1>3. \A b \in Baskets : RowOf(b)' = RowOf(b)
  BY <1>1 DEF RowOf, Attached, db
<1>4. \A p \in Procs : (IndexingAt(p) /\ ForgettingAt(p) /\ DroppingAt(p))'
  BY <1>1, <1>2 DEF IndexingAt, ForgettingAt, DroppingAt
<1>5. Stopped'
  BY <1>1, <1>2 DEF Stopped
<1>6. ASSUME Loading(i)', \A b \in Baskets : Mirrors(i, b)' PROVE Pool'
  <2>1. \A j \in Instances : Loading(j)'
    BY <1>2, <1>6
  <2>2. \A j \in Instances, b \in Baskets : Mirrors(j, b)'
    BY <1>2, <1>6
  <2>3. QED
    BY <1>4, <1>5, <2>1, <2>2 DEF Pool
<1>7. ASSUME ListActive(i) PROVE Pool'
  <2>1. PICK T \in Oldest({b \in Baskets : basket[b].status = "waiting"}, BasketExpire, BasketLimit) :
          load' = [load EXCEPT ![i] =
            [baskets |-> T, seen |-> [b \in Baskets |-> IF b \in T THEN basket[b].current ELSE 0]]]
    BY <1>7 DEF ListActive
  <2>2. T \in SUBSET {b \in Baskets : basket[b].status = "waiting"}
    BY OldestSubset
  <2>3. load'[i] = [baskets |-> T,
                    seen |-> [b \in Baskets |-> IF b \in T THEN basket[b].current ELSE 0]]
    BY <2>1 DEF Trust, TypeInv, TypeOK
  <2>4. Loading(i)'
    BY <1>1, <2>2, <2>3 DEF Loading, db
  <2>5. \A b \in Baskets : Mirrors(i, b)'
    BY <1>1, <1>2, <1>3, <1>7 DEF ListActive, memory, Mirrors, db
  <2>6. QED
    BY <1>6, <2>4, <2>5
<1>8. ASSUME NEW b \in Baskets, RestoreBasket(i, b) PROVE Pool'
  <2>1. b \in load[i].baskets /\ boot[i] = "loading"
    BY <1>8 DEF RestoreBasket, First
  <2>2. basket[b].status = "waiting" /\ load[i].seen[b] = basket[b].current
    BY <2>1 DEF Trust, Pool, Loading
  <2>3. {d \in Deposits : detail[d].basket = b /\ detail[d].status \in {"attached", "matched"}}
          = Attached(b)
    <3>1. record[b].deposits = {}
      BY <2>2 DEF Trust, RowInv, Once
    <3>2. MatchedTo(b) = {}
      BY <3>1 DEF Trust, Rows, BasketTrue
    <3>3. \A d \in Deposits : detail[d] \in DetailRow
      BY RowsTyped DEF Trust
    <3>4. ASSUME NEW d \in Deposits, detail[d].basket = b, detail[d].status = "matched"
          PROVE  FALSE
      BY <3>2, <3>3, <3>4 DEF MatchedTo, DetailRow
    <3>5. QED
      BY <3>3, <3>4 DEF Attached, DetailRow
  <2>4. Restored(i, b) = RowOf(b)
    BY <2>2, <2>3 DEF Restored, RowOf
  <2>5. ASSUME NEW c \in Baskets PROVE Mirrors(i, c)'
    <3>1. mem'[i][c] = IF c = b THEN Restored(i, b) ELSE mem[i][c]
      BY <1>8, RowsTyped DEF RestoreBasket, Trust
    <3>2. QED
      BY <1>1, <1>2, <1>3, <2>2, <2>4, <3>1 DEF Mirrors, db
  <2>6. load'[i].baskets \subseteq load[i].baskets /\ load'[i].seen = load[i].seen
    BY <1>8 DEF RestoreBasket, Trust, TypeInv, TypeOK, Listing
  <2>7. Loading(i)'
    BY <1>1, <2>1, <2>6 DEF Trust, Pool, Loading, db
  <2>8. QED
    BY <1>6, <2>5, <2>7
<1>9. ASSUME Recovered(i) PROVE Pool'
  <2>1. Loading(i)'
    BY <1>9 DEF Recovered, Loading, Trust, TypeInv, TypeOK
  <2>2. \A b \in Baskets : Mirrors(i, b)'
    BY <1>1, <1>2, <1>3, <1>9 DEF Recovered, memory, Mirrors, db
  <2>3. QED
    BY <1>6, <2>1, <2>2
<1>10. QED
  BY <1>1, <1>7, <1>8, <1>9 DEF Restart, SoundStep

\* Saving comes before matching, and no row disappears.
LEMMA SavedStep ==
  ASSUME Trust, [Next]_vars, SoundStep
  PROVE  Saved'
<1> USE RowsTyped DEF Trust
<1>1. ASSUME NEW d \in Deposits, deposit[d].status # "absent" PROVE deposit'[d].status # "absent"
  <2>1. CASE UNCHANGED db \/ RowSaved \/ RowTimedOut \/ \E b \in Baskets : SoundInsert(b)
    BY <1>1, <2>1 DEF db, RowSaved, RowTimedOut, SoundInsert
  <2>2. CASE RowsExpired
    BY <1>1, <2>2 DEF RowsExpired, ExpiredWith, Timeout
  <2>3. ASSUME NEW b \in Baskets, NEW new \in SUBSET Deposits, SoundComplete(b, new)
        PROVE  deposit'[d].status # "absent"
    BY <1>1, <2>3 DEF SoundComplete, PersistCompleted, CompletedDeposits
  <2>4. ASSUME NEW x \in Deposits, NEW b \in Baskets, SoundAttach(x, b) \/ SoundRelease(x, b)
        PROVE  deposit'[d].status # "absent"
    BY <1>1, <2>4 DEF SoundAttach, PersistAttached, SoundRelease, Timeout
  <2>5. QED
    BY <2>1, <2>2, <2>3, <2>4 DEF SoundStep
<1>2. SUFFICES ASSUME NEW p \in Procs, pc'[p] = "match"
               PROVE  deposit'[job'[p].deposit].status # "absent"
  BY DEF Saved
<1>3. CASE pc[p] = "match" /\ job'[p] = job[p]
  <2>1. job[p].deposit \in Deposits
    BY <1>3, InHand DEF HasDeposit
  <2>2. QED
    BY <1>1, <1>3, <2>1 DEF Saved
<1>4. CASE p \in Handlers /\ SaveDeposit(p) /\ pc' = [pc EXCEPT ![p] = "match"]
  <2>1. job[p].deposit \in Deposits /\ job' = job
    BY <1>4, InHand DEF SaveDeposit, HasDeposit
  <2>2. CASE deposit' = [deposit EXCEPT ![job[p].deposit] =
               IF @.status = "absent"
                 THEN [status |-> "waiting", basket |-> NoBasket, expire |-> job[p].expire] ELSE @]
    BY <2>1, <2>2
  <2>3. CASE Goto(p, "unlock")
    BY <1>4, <2>3 DEF Goto, TypeInv, TypeOK
  <2>4. QED
    BY <1>4, <2>2, <2>3 DEF SaveDeposit
<1>5. (pc[p] = "match" /\ job'[p] = job[p])
      \/ (p \in Handlers /\ SaveDeposit(p) /\ pc' = [pc EXCEPT ![p] = "match"])
  <2> USE DEF TypeInv, TypeOK
  <2>1. ASSUME NEW h \in Handlers, Request(h) PROVE <1>5
    BY <1>2, <2>1 DEF Request, Submit, RequestBasket, Goto, Procs
  <2>2. ASSUME NEW h \in Handlers, Serve(h) PROVE <1>5
    <3>1. CASE SaveDeposit(h)
      BY <1>2, <3>1 DEF SaveDeposit, Goto, Procs
    <3>2. CASE MatchFails(h) \/ MatchPending(h) \/ InsertBasket(h) \/ AddBasket(h)
               \/ \E b \in Baskets : MatchComplete(h, b) \/ MatchAttach(h, b)
      BY <1>2, <3>2 DEF MatchFails, MatchPending, InsertBasket, AddBasket, MatchComplete,
                        MatchAttach, Goto, Procs
    <3>3. QED
      BY <2>2, <3>1, <3>2 DEF Serve
  <2>3. ASSUME NEW s \in Scanners, Scan(s) PROVE <1>5
    <3>1. pc'[p] # "match" \/ (pc'[p] = pc[p] /\ job'[p] = job[p])
      <4>1. CASE \E d \in Deposits : ExpireWaiting(s, d)
        BY <4>1 DEF ExpireWaiting
      <4>2. CASE p = s
        BY <2>3, <4>1, <4>2
           DEF Scan, ListWaiting, ListLocked, ListBaskets, EndScan, TakeLocked, TakeBasket,
               ReleaseRow, ReleaseFails, ForgetDeposit, CompletePartial, CannotComplete,
               ExpireBasket, DropBasket, Goto, Procs
      <4>3. CASE p # s
        BY <2>3, <4>1, <4>3
           DEF Scan, ListWaiting, ListLocked, ListBaskets, EndScan, TakeLocked, TakeBasket,
               ReleaseRow, ReleaseFails, ForgetDeposit, CompletePartial, CannotComplete,
               ExpireBasket, DropBasket, Goto, Procs
      <4>4. QED
        BY <4>2, <4>3
    <3>2. QED
      BY <1>2, <3>1
  <2>4. ASSUME NEW q \in Procs, Lock(q) PROVE <1>5
    <3>1. \A k \in DOMAIN Section : Section[k] # "match"
      BY DEF Section
    <3>2. AfterUnlock(q) # "match"
      BY DEF AfterUnlock
    <3>3. QED
      BY <1>2, <2>4, <3>1, <3>2 DEF Lock, Acquire, AcquireFails, Unlock, Goto
  <2>5. ASSUME NEW i \in Instances, Crash(i) \/ Restart(i) PROVE <1>5
    BY <1>2, <2>5 DEF Crash, Restart, ListActive, RestoreBasket, Recovered
  <2>6. CASE LockExpires \/ Tick \/ UNCHANGED vars
    BY <1>2, <2>6 DEF LockExpires, Tick, vars
  <2>7. QED
    BY <2>1, <2>2, <2>3, <2>4, <2>5, <2>6 DEF Next
<1>6. QED
  BY <1>3, <1>4, <1>5

(***************************************************************************)
(* The inductive invariant                                                 *)
(***************************************************************************)
LEMMA EveryStepKeeps ==
  ASSUME Trust, [Next]_vars, ~Spend("lost")
  PROVE  Pool' /\ SoundStep
<1>1. ASSUME NEW h \in Handlers, Request(h) \/ Serve(h) PROVE Pool' /\ SoundStep
  BY <1>1, RequestKeeps, ServeKeeps
<1>2. ASSUME NEW s \in Scanners, Scan(s) PROVE Pool' /\ SoundStep
  BY <1>2, ScanKeeps
<1>3. ASSUME NEW p \in Procs, Lock(p) PROVE Pool' /\ SoundStep
  BY <1>3, LockKeeps
<1>4. ASSUME NEW i \in Instances, Crash(i) \/ Restart(i) PROVE Pool' /\ SoundStep
  BY <1>4, CrashKeeps, RestartKeeps
<1>5. CASE LockExpires \/ Tick \/ UNCHANGED vars
  <2>1. UNCHANGED <<db, mem, pc, job, boot, load>>
    BY <1>5 DEF LockExpires, Tick, vars, memory, node
  <2>2. Pool'
    BY <2>1 DEF Trust, Pool, Mirrors, RowOf, Attached, Behind, IndexingAt, ForgettingAt, DroppingAt,
                Loading, Stopped, db
  <2>3. QED
    BY <2>1, <2>2 DEF SoundStep
<1>6. QED
  BY <1>1, <1>2, <1>3, <1>4, <1>5 DEF Next

\* At first there are no rows and nothing in the pool.
LEMMA InitPool == Init => Rows /\ Pool /\ Saved
<1> SUFFICES ASSUME Init PROVE Rows /\ Pool /\ Saved
  OBVIOUS
<1>1. \A b : Attached(b) = {} /\ MatchedTo(b) = {}
  BY DEF Init, Attached, MatchedTo
<1>2. Rows
  BY <1>1 DEF Init, Rows, BasketTrue, DepositTrue
<1>3. Pool
  BY ProcessAssumption
     DEF Init, Pool, Mirrors, Absent, IndexingAt, ForgettingAt, DroppingAt, Loading, Stopped
<1>4. Saved
  BY DEF Init, Saved
<1>5. QED
  BY <1>2, <1>3, <1>4

Bounded == budget["lost"] <= Budget["lost"]

\* If no commit has been lost after a step, none was before it, nor is one by it.
LEMMA LostStep ==
  ASSUME TypeInv, Bounded, [Next]_vars
  PROVE  Bounded' /\ (NoCommitLost' => NoCommitLost /\ ~Spend("lost"))
<1>1. /\ budget["lost"] \in Nat /\ Budget["lost"] \in Nat
      /\ budget'["lost"] = budget["lost"] \/ (Spend("lost") /\ budget'["lost"] = budget["lost"] - 1)
  BY BudgetStep, BudgetAssumption DEF Fault, Spend, TypeInv, TypeOK
<1>2. Spend("lost") => budget'["lost"] = budget["lost"] - 1
  BY DEF Fault, Spend, TypeInv, TypeOK
<1>3. QED
  BY <1>1, <1>2 DEF Bounded, NoCommitLost

\* The inductive invariant of one process.  Holding gives the section to one
\* goroutine, Pool what that goroutine finds, Rows what its transaction may write.
PoolInv ==
  /\ OneProcess /\ TypeInv /\ RowInv /\ Holding /\ Bounded
  /\ NoCommitLost => Rows /\ Pool /\ Saved

\* The pool keeps mirroring the rows as long as no commit is lost.
LEMMA PoolStep == PoolInv /\ [Next]_vars => PoolInv'
<1> SUFFICES ASSUME PoolInv, [Next]_vars PROVE PoolInv'
  OBVIOUS
<1>1. OneProcess /\ TypeInv /\ RowInv /\ Holding /\ Bounded
  BY DEF PoolInv
<1>2. TypeInv' /\ RowInv' /\ Holding'
  BY <1>1, NextTyped, RowStep, HoldingStep
<1>3. Bounded' /\ (NoCommitLost' => NoCommitLost /\ ~Spend("lost"))
  BY <1>1, LostStep
<1>4. ASSUME NoCommitLost' PROVE (Rows /\ Pool /\ Saved)'
  <2>1. Trust /\ ~Spend("lost")
    BY <1>3, <1>4 DEF PoolInv, Trust
  <2>2. Pool' /\ SoundStep
    BY <2>1, EveryStepKeeps
  <2>3. Rows'
    BY <1>1, <2>1, <2>2, RowsStep DEF Trust
  <2>4. Saved'
    BY <2>1, <2>2, SavedStep
  <2>5. QED
    BY <2>2, <2>3, <2>4
<1>5. OneProcess'
  BY <1>1 DEF OneProcess
<1>6. QED
  BY <1>2, <1>3, <1>4, <1>5 DEF PoolInv

\* The invariant of one process.
LEMMA PoolInvariant == OneProcess /\ Spec => []PoolInv
<1>1. OneProcess /\ Init => PoolInv
  <2>1. Init => Holding
    BY DEF Init, Holding, Critical, HandlerCritical, ScannerCritical
  <2>2. Init => Bounded
    BY BudgetAssumption DEF Init, Bounded, Fault
  <2>3. QED
    BY <2>1, <2>2, InitTyped, InitRows, InitPool DEF PoolInv
<1>2. QED
  BY <1>1, PoolStep, PTL DEF Spec

(***************************************************************************)
(* Theorems about the money and the rows                                   *)
(***************************************************************************)
\* The amounts add up: whatever is attached, released, matched or expired, in any
\* interleaving and across failed statements, crashes and recoveries.
THEOREM LedgerCorrect == OneProcess /\ Spec => [](NoCommitLost => LedgerBalanced)
<1>1. PoolInv => (NoCommitLost => LedgerBalanced)
  BY DEF PoolInv, Rows, BasketTrue, LedgerBalanced
<1>2. QED
  BY <1>1, PoolInvariant, PTL

\* No basket ever gets more than its target.
THEOREM FillCorrect == OneProcess /\ Spec => [](NoCommitLost => NeverOverfilled)
<1>1. ASSUME PoolInv, NoCommitLost PROVE NeverOverfilled
  <2>1. SUFFICES ASSUME NEW b \in Baskets
                 PROVE  Total(Attached(b)) <= Target[b] /\ Total(record[b].deposits) <= Target[b]
    BY DEF NeverOverfilled
  <2>2. BasketTrue(b) /\ RowInv
    BY <1>1 DEF PoolInv, Rows
  <2>3. Total({}) <= Target[b]
    BY TotalAssumption, AmountAssumption
  <2>4. Total(Attached(b)) <= Target[b]
    <3>1. CASE basket[b].status = "waiting"
      BY <2>2, <3>1 DEF BasketTrue
    <3>2. CASE basket[b].status # "waiting"
      <4>1. Attached(b) = {}
        BY <2>2, <3>2 DEF RowInv, AttachedOnlyToWaiting, Attached
      <4>2. QED
        BY <2>3, <4>1
    <3>3. QED
      BY <3>1, <3>2
  <2>5. Total(record[b].deposits) <= Target[b]
    BY <2>2, <2>3 DEF BasketTrue, RowInv, Once
  <2>6. QED
    BY <2>4, <2>5
<1>2. QED
  BY <1>1, PoolInvariant, PTL

\* A locked deposit always has its attached detail, in a basket that still waits.
LEMMA LockedAttached == PoolInv /\ NoCommitLost => NoOrphanedLock
<1> SUFFICES ASSUME PoolInv, NoCommitLost, NEW d \in Deposits, deposit[d].status = "locked"
             PROVE  /\ detail[d] = [status |-> "attached", basket |-> deposit[d].basket]
                    /\ basket[deposit[d].basket].status = "waiting"
  BY DEF NoOrphanedLock
<1>1. detail[d] \in DetailRow
  BY RowsTyped DEF PoolInv
<1>2. DepositTrue(d) /\ AttachedOnlyToWaiting
  BY DEF PoolInv, Rows, RowInv
<1>3. detail[d].status = "attached" /\ detail[d].basket = deposit[d].basket
  BY <1>1, <1>2 DEF DepositTrue, DetailRow, DetailStatus
<1>4. QED
  BY <1>1, <1>2, <1>3 DEF AttachedOnlyToWaiting, DetailRow

\* A locked deposit is attached to a basket that is still waiting, so a scan can release
\* it (expireLockedDeposit).
THEOREM LockedCorrect == OneProcess /\ Spec => [](NoCommitLost => NoOrphanedLock)
BY LockedAttached, PoolInvariant, PTL

\* The records and the details name the same deposits.
THEOREM RecordsCorrect == OneProcess /\ Spec => [](NoCommitLost => RecordsAgree)
<1>1. PoolInv => (NoCommitLost => RecordsAgree)
  BY DEF PoolInv, RowInv, Once, Rows, BasketTrue, MatchedTo, RecordsAgree
<1>2. QED
  BY <1>1, PoolInvariant, PTL

\* Money that was released is expired, and in no record.
THEOREM ReleasedCorrect == OneProcess /\ Spec => [](NoCommitLost => ReleasedNotMatched)
<1>1. ASSUME PoolInv, NoCommitLost PROVE ReleasedNotMatched
  <2>1. SUFFICES ASSUME NEW d \in Deposits, detail[d].status = "released"
                 PROVE  deposit[d].status = "expired" /\ d \notin Recorded
    BY DEF ReleasedNotMatched
  <2>2. deposit[d].status = "expired"
    BY <1>1, <2>1 DEF PoolInv, Rows, DepositTrue
  <2>3. ASSUME NEW b \in Baskets PROVE d \notin record[b].deposits
    <3>1. record[b].deposits = MatchedTo(b)
      BY <1>1 DEF PoolInv, Rows, BasketTrue
    <3>2. detail[d] # [status |-> "matched", basket |-> b]
      BY <2>1
    <3>3. QED
      BY <3>1, <3>2 DEF MatchedTo
  <2>4. QED
    BY <2>2, <2>3 DEF Recorded
<1>2. QED
  BY <1>1, PoolInvariant, PTL

(***************************************************************************)
(* The pool misses no waiting basket                                       *)
(***************************************************************************)
\* A step that adds no waiting row and takes none out of the pool.
LEMMA ListedStays ==
  ASSUME Listed, UNCHANGED <<boot, load>>,
         \A p \in Procs : pc[p] = "index" => pc'[p] = "index" /\ job'[p] = job[p],
         \A b \in Baskets : basket'[b].status = "waiting" => basket[b].status = "waiting",
         \A i \in Instances, b \in Baskets :
           mem[i][b].in /\ basket'[b].status = "waiting" => mem'[i][b].in
  PROVE  Listed'
BY DEF Listed

\* Only its own next step, or a crash, takes a goroutine away from "index".
LEMMA IndexStays ==
  ASSUME TypeInv, NEW q \in Procs, NEW l, pc' = [pc EXCEPT ![q] = l], pc[q] # "index",
         \A p \in Procs : p # q => job'[p] = job[p]
  PROVE  \A p \in Procs : pc[p] = "index" => pc'[p] = "index" /\ job'[p] = job[p]
BY DEF TypeInv, TypeOK

\* A goroutine that moves on elsewhere leaves what is listed as it is.
LEMMA QuietListed ==
  ASSUME Trust, Listed, NEW q \in Procs, NEW l, pc' = [pc EXCEPT ![q] = l], pc[q] # "index",
         \A p \in Procs : p # q => job'[p] = job[p], UNCHANGED <<basket, mem, boot, load>>
  PROVE  Listed'
BY IndexStays, ListedStays DEF Trust

\* A request puts every basket it inserts into the pool before it unlocks.
LEMMA HandlerListed ==
  ASSUME Trust, Listed, ~Spend("lost"), NEW h \in Handlers, Request(h) \/ Serve(h)
  PROVE  Listed'
<1>1. h \in Procs
  BY DEF Procs
<1>2. CASE Request(h)
  <2>1. PICK l : pc' = [pc EXCEPT ![h] = l]
    BY <1>2 DEF Request, Submit, RequestBasket, Goto
  <2>2. /\ pc[h] # "index" /\ UNCHANGED <<basket, mem, boot, load>>
        /\ \A p \in Procs : p # h => job'[p] = job[p]
    BY <1>2 DEF Request, Submit, RequestBasket, db, memory, node, Trust, TypeInv, TypeOK
  <2>3. QED
    BY <1>1, <2>1, <2>2, QuietListed
<1>3. CASE SaveDeposit(h) \/ MatchFails(h) \/ MatchPending(h)
  <2>1. PICK l : pc' = [pc EXCEPT ![h] = l]
    BY <1>3 DEF SaveDeposit, MatchFails, MatchPending, Goto
  <2>2. pc[h] # "index" /\ UNCHANGED <<basket, mem, job, boot, load>>
    BY <1>3 DEF SaveDeposit, MatchFails, MatchPending, db, memory, node
  <2>3. QED
    BY <1>1, <2>1, <2>2, QuietListed
<1>4. ASSUME NEW b \in Baskets, MatchComplete(h, b) \/ MatchAttach(h, b) PROVE Listed'
  <2> DEFINE i == Home[h]
  <2>1. /\ pc[h] # "index" /\ UNCHANGED <<job, boot, load>> /\ pc' = [pc EXCEPT ![h] = "unlock"]
    BY <1>4 DEF MatchComplete, MatchAttach, node, Goto
  <2>2. \A p \in Procs : pc[p] = "index" => pc'[p] = "index" /\ job'[p] = job[p]
    BY <1>1, <2>1, IndexStays DEF Trust
  <2>3. \A c \in Baskets : c # b => basket'[c] = basket[c]
    BY <1>4, RowsTyped
       DEF MatchComplete, MatchAttach, PersistCompleted, PersistAttached, Trust
  <2>4. basket[b].status = "waiting"
    BY <1>4 DEF MatchComplete, MatchAttach, CanComplete, CanAttach
  <2>5. basket'[b].status = "matched" \/ \A j \in Instances : mem[j][b].in => mem'[j][b].in
    <3>1. CASE MatchComplete(h, b)
      BY <3>1, RowsTyped DEF MatchComplete, PersistCompleted, Trust
    <3>2. CASE MatchAttach(h, b)
      BY <3>2, RowsTyped DEF MatchAttach, Trust
    <3>3. QED
      BY <1>4, <3>1, <3>2
  <2>6. \A j \in Instances, c \in Baskets : c # b => mem'[j][c] = mem[j][c]
    BY <1>4, RowsTyped DEF MatchComplete, MatchAttach, Trust
  <2>7. \A c \in Baskets : basket'[c].status = "waiting" => basket[c].status = "waiting"
    BY <2>3, <2>4
  <2>8. \A j \in Instances, c \in Baskets :
          mem[j][c].in /\ basket'[c].status = "waiting" => mem'[j][c].in
    BY <2>5, <2>6
  <2>9. QED
    BY <2>1, <2>2, <2>7, <2>8, ListedStays
<1>5. CASE InsertBasket(h)
  <2>1. /\ pc[h] = "insert" /\ UNCHANGED <<mem, job, boot, load>> /\ job[h].basket \in Baskets
    BY <1>1, <1>5, InHand DEF InsertBasket, memory, node, HasBasket, Trust
  <2>2. CASE UNCHANGED basket /\ pc' = [pc EXCEPT ![h] = "unlock"]
    BY <1>1, <2>1, <2>2, QuietListed
  <2>3. CASE /\ basket' = [basket EXCEPT ![job[h].basket] =
                  [status |-> "waiting", current |-> 0, expire |-> job[h].expire]]
             /\ pc' = [pc EXCEPT ![h] = "index"]
    <3>1. \A c \in Baskets : c # job[h].basket => basket'[c] = basket[c]
      BY <2>3, RowsTyped DEF Trust
    <3>2. pc'[h] = "index" /\ \A p \in Procs : p # h => pc'[p] = pc[p]
      BY <1>1, <2>3 DEF Trust, TypeInv, TypeOK
    <3>3. \A i \in Instances : boot[i] = "up"
      BY <1>1, <2>1, InHand DEF Trust, OneProcess, Pool, Stopped
    <3>4. SUFFICES ASSUME NEW i \in Instances, NEW b \in Baskets, basket'[b].status = "waiting"
                   PROVE  mem[i][b].in \/ \E p \in Procs : pc'[p] = "index" /\ job[p].basket = b
      BY <2>1, <3>3 DEF Listed
    <3>5. CASE b = job[h].basket
      BY <1>1, <3>2, <3>5
    <3>6. CASE b # job[h].basket
      <4>1. mem[i][b].in \/ \E p \in Procs : pc[p] = "index" /\ job[p].basket = b
        BY <3>1, <3>3, <3>4, <3>6 DEF Listed
      <4>2. QED
        BY <2>1, <3>2, <4>1
    <3>7. QED
      BY <3>5, <3>6
  <2>4. QED
    BY <1>5, <2>2, <2>3 DEF InsertBasket, Goto
<1>6. CASE AddBasket(h)
  <2> DEFINE i == Home[h]  b == job[h].basket
  <2>1. /\ pc[h] = "index" /\ UNCHANGED <<basket, job, boot, load>> /\ b \in Baskets
        /\ i \in Instances /\ mem' = [mem EXCEPT ![i][b] = NewInPool]
        /\ pc' = [pc EXCEPT ![h] = "unlock"]
    BY <1>1, <1>6, InHand DEF AddBasket, db, node, HasBasket, Trust, Goto
  <2>2. \A j \in Instances : j = i /\ boot[j] = "up"
    BY <1>1, <2>1, InHand DEF Trust, OneProcess, Pool, Stopped
  <2>3. \A c \in Baskets : mem'[i][c] = IF c = b THEN NewInPool ELSE mem[i][c]
    BY <2>1, RowsTyped DEF Trust
  <2>4. \A p \in Procs : p # h => pc'[p] = pc[p]
    BY <2>1 DEF Trust, TypeInv, TypeOK
  <2>5. SUFFICES ASSUME NEW c \in Baskets, basket'[c].status = "waiting"
                 PROVE  mem'[i][c].in \/ \E p \in Procs : pc'[p] = "index" /\ job[p].basket = c
    BY <2>1, <2>2 DEF Listed
  <2>6. CASE c = b
    BY <2>3, <2>6 DEF NewInPool
  <2>7. CASE c # b
    <3>1. mem[i][c].in \/ \E p \in Procs : pc[p] = "index" /\ job[p].basket = c
      BY <2>1, <2>2, <2>5 DEF Listed
    <3>2. QED
      BY <2>3, <2>4, <2>7, <3>1
  <2>8. QED
    BY <2>6, <2>7
<1>7. QED
  BY <1>2, <1>3, <1>4, <1>5, <1>6 DEF Serve

\* A scan takes a basket out of the pool only once its row has ended.
LEMMA ScannerListed ==
  ASSUME Trust, Listed, ~Spend("lost"), NEW s \in Scanners, Scan(s)
  PROVE  Listed'
<1>1. s \in Procs /\ Home[s] \in Instances
  BY InHand DEF Procs, Trust
<1>2. /\ pc[s] # "index" /\ UNCHANGED <<boot, load>>
      /\ \A p \in Procs : p # s => pc'[p] = pc[p] /\ job'[p] = job[p]
  BY DEF Scan, ListWaiting, ListLocked, ListBaskets, EndScan, ReleaseFails, CannotComplete,
         ExpireWaiting, TakeLocked, TakeBasket, ReleaseRow, ForgetDeposit, CompletePartial,
         ExpireBasket, DropBasket, Goto, node, Trust, TypeInv, TypeOK
<1>3. \A p \in Procs : pc[p] = "index" => pc'[p] = "index" /\ job'[p] = job[p]
  BY <1>2
<1>4. \A b \in Baskets : basket'[b].status = "waiting" => basket[b].status = "waiting"
  <2>1. CASE UNCHANGED basket
    BY <2>1
  <2>2. CASE ReleaseRow(s)
    BY <2>2, RowsTyped DEF ReleaseRow, Trust
  <2>3. CASE CompletePartial(s)
    BY <2>3, RowsTyped DEF CompletePartial, PersistCompleted, Trust, db
  <2>4. CASE ExpireBasket(s)
    BY <2>4, RowsTyped DEF ExpireBasket, Trust, db
  <2>5. QED
    BY <2>1, <2>2, <2>3, <2>4
       DEF Scan, ListWaiting, ListLocked, ListBaskets, EndScan, ReleaseFails, CannotComplete,
           ExpireWaiting, TakeLocked, TakeBasket, ForgetDeposit, DropBasket, db
<1>5. \A i \in Instances, b \in Baskets :
        mem[i][b].in /\ basket'[b].status = "waiting" => mem'[i][b].in
  <2>1. CASE UNCHANGED mem
    BY <2>1
  <2>2. CASE ForgetDeposit(s)
    BY <2>2, RowsTyped DEF ForgetDeposit, WithoutDeposit, Trust
  <2>3. CASE DropBasket(s)
    <3>1. basket[job[s].basket].status # "waiting" /\ UNCHANGED basket
      BY <1>1, <2>3 DEF DropBasket, Trust, Pool, DroppingAt, db
    <3>2. QED
      BY <2>3, <3>1, RowsTyped DEF DropBasket, Trust
  <2>4. QED
    BY <2>1, <2>2, <2>3
       DEF Scan, ListWaiting, ListLocked, ListBaskets, EndScan, ReleaseFails, CannotComplete,
           ExpireWaiting, TakeLocked, TakeBasket, ReleaseRow, CompletePartial, ExpireBasket, memory
<1>6. QED
  BY <1>2, <1>3, <1>4, <1>5, ListedStays

\* The recovery lists every waiting basket when its limit allows for all of them.
LEMMA OldestAll ==
  ASSUME RecoversAll, NEW S \in SUBSET Baskets, NEW e, NEW T \in Oldest(S, e, BasketLimit)
  PROVE  T = S
<1>1. IsFiniteSet(S) /\ Cardinality(S) <= Cardinality(Baskets)
  BY FS_Subset DEF RecoversAll
<1>2. Cardinality(S) \in Nat /\ Cardinality(Baskets) \in Nat
  BY <1>1, FS_CardinalityType DEF RecoversAll
<1>3. Cardinality(S) <= BasketLimit /\ BasketLimit \in Nat
  BY <1>1, <1>2, ProcessAssumption DEF RecoversAll
<1>4. T \in SUBSET S /\ Cardinality(T) = Cardinality(S)
  BY <1>2, <1>3 DEF Oldest
<1>5. QED
  BY <1>1, <1>4, FS_Subset

\* Recovery lists every waiting basket.
LEMMA RestartListed ==
  ASSUME Trust, Listed, RecoversAll, NEW i \in Instances, Crash(i) \/ Restart(i)
  PROVE  Listed'
<1>1. basket' = basket /\ \A j \in Instances : j = i
  BY DEF Crash, Restart, ListActive, RestoreBasket, Recovered, db, Trust, OneProcess
<1>2. SUFFICES ASSUME NEW b \in Baskets, basket[b].status = "waiting"
               PROVE  /\ boot'[i] = "up" => mem'[i][b].in
                      /\ boot'[i] = "loading" => mem'[i][b].in \/ b \in load'[i].baskets
  BY <1>1 DEF Listed
<1> USE DEF Trust, TypeInv, TypeOK
<1>3. CASE Crash(i)
  BY <1>3 DEF Crash
<1>4. CASE ListActive(i)
  <2> DEFINE S == {c \in Baskets : basket[c].status = "waiting"}
  <2>1. PICK T \in Oldest(S, BasketExpire, BasketLimit) :
          load' = [load EXCEPT ![i] =
            [baskets |-> T, seen |-> [c \in Baskets |-> IF c \in T THEN basket[c].current ELSE 0]]]
    BY <1>4 DEF ListActive
  <2>2. T = S
    BY OldestAll
  <2>3. load'[i].baskets = S
    BY <2>1, <2>2
  <2>4. boot'[i] = "loading"
    BY <1>4 DEF ListActive
  <2>5. QED
    BY <1>2, <2>3, <2>4
<1>5. ASSUME NEW c \in Baskets, RestoreBasket(i, c)
      PROVE  boot'[i] = "loading" /\ (mem'[i][b].in \/ b \in load'[i].baskets)
  <2>1. boot[i] = "loading" /\ boot' = boot
    BY <1>5 DEF RestoreBasket
  <2>2. mem[i][b].in \/ b \in load[i].baskets
    BY <1>2, <2>1 DEF Listed
  <2>3. mem'[i][b] = IF b = c THEN Restored(i, c) ELSE mem[i][b]
    BY <1>5, RowsTyped DEF RestoreBasket
  <2>4. load'[i].baskets = load[i].baskets \ {c}
    BY <1>5 DEF RestoreBasket, Listing
  <2>5. QED
    BY <2>1, <2>2, <2>3, <2>4 DEF Restored
<1>6. CASE Recovered(i)
  <2>1. boot[i] = "loading" /\ load[i].baskets = {} /\ mem' = mem /\ boot'[i] = "up"
    BY <1>6 DEF Recovered, memory
  <2>2. QED
    BY <1>2, <2>1 DEF Listed
<1>7. QED
  BY <1>3, <1>4, <1>5, <1>6 DEF Restart

\* No step loses a waiting basket from the pool.
LEMMA ListedStep ==
  ASSUME Trust, Listed, RecoversAll, ~Spend("lost"), [Next]_vars
  PROVE  Listed'
<1>1. ASSUME NEW p \in Procs, Lock(p) PROVE Listed'
  <2>1. PICK l : pc' = [pc EXCEPT ![p] = l]
    BY <1>1 DEF Lock, Acquire, AcquireFails, Unlock, Goto
  <2>2. /\ pc[p] # "index" /\ UNCHANGED <<basket, mem, boot, load>>
        /\ \A q \in Procs : q # p => job'[q] = job[q]
    BY <1>1 DEF Lock, Acquire, AcquireFails, Unlock, Section, db, memory, node,
                Trust, TypeInv, TypeOK
  <2>3. QED
    BY <2>1, <2>2, QuietListed
<1>2. CASE LockExpires \/ Tick \/ UNCHANGED vars
  BY <1>2 DEF LockExpires, Tick, vars, db, memory, node, Listed
<1>3. QED
  BY <1>1, <1>2, HandlerListed, ScannerListed, RestartListed DEF Next

MirrorInv == PoolInv /\ RecoversAll /\ (NoCommitLost => Listed)


\* The invariant of one process that recovers all its baskets.
LEMMA MirrorInvariant == OneProcess /\ RecoversAll /\ Spec => []MirrorInv
<1>1. OneProcess /\ RecoversAll /\ Spec => []PoolInv
  BY PoolInvariant, PTL
<1>2. RecoversAll /\ Init => RecoversAll /\ (NoCommitLost => Listed)
  BY DEF Init, Listed
<1>3. PoolInv /\ (RecoversAll /\ (NoCommitLost => Listed)) /\ [Next]_vars
        => (RecoversAll /\ (NoCommitLost => Listed))'
  <2> SUFFICES ASSUME PoolInv, RecoversAll, NoCommitLost => Listed, [Next]_vars, NoCommitLost'
               PROVE  Listed'
    BY DEF RecoversAll
  <2>1. NoCommitLost /\ ~Spend("lost")
    BY LostStep DEF PoolInv
  <2>2. Trust /\ Listed
    BY <2>1 DEF PoolInv, Trust
  <2>3. QED
    BY <2>1, <2>2, ListedStep
<1>4. QED
  BY <1>1, <1>2, <1>3, PTL DEF Spec, MirrorInv

\* The pool is the waiting rows, at every moment at which no goroutine stands
\* between a commit and its update of the pool.
LEMMA PoolMirrors == MirrorInv /\ NoCommitLost => PoolMirrorsRows
<1> SUFFICES ASSUME MirrorInv, NoCommitLost, NEW i \in Instances, Settled(i), NEW b \in Baskets
             PROVE  IF basket[b].status = "waiting"
                      THEN mem[i][b] = [in |-> TRUE, current |-> basket[b].current,
                                        deposits |-> Attached(b)]
                      ELSE ~mem[i][b].in
  BY DEF PoolMirrorsRows
<1>1. OneProcess /\ Pool /\ Listed /\ TypeInv
  BY DEF MirrorInv, PoolInv
<1>2. boot[i] = "up" /\ \A p \in Procs : pc[p] \notin {"index", "forget", "drop"}
  BY <1>1, InHand DEF OneProcess, Settled
<1>3. Mirrors(i, b)
  BY <1>1, <1>2 DEF Pool, Behind
<1>4. basket[b].status = "waiting" => mem[i][b].in
  BY <1>1, <1>2 DEF Listed
<1>5. QED
  BY <1>3, <1>4 DEF Mirrors, RowOf

\* Once every commit has been applied to it, the pool holds the waiting baskets, with the
\* amounts and the deposits of their rows (MatchDepositWithCommit, restoreBasket).
THEOREM MirrorCorrect ==
  OneProcess /\ RecoversAll /\ Spec => [](NoCommitLost => PoolMirrorsRows)
BY PoolMirrors, MirrorInvariant, PTL

\* Failing statements, lost unlocks, crashes and recoveries leave all of it as it was.
THEOREM FaultCorrect ==
  OneProcess /\ RecoversAll /\ Spec => [](NoCommitLost => FaultSafe)
<1>1. MirrorInv /\ NoCommitLost => FaultSafe
  <2>1. MirrorInv /\ NoCommitLost => LedgerBalanced /\ OneHolder
    BY DEF MirrorInv, PoolInv, Rows, BasketTrue, LedgerBalanced, Holding, OneHolder
  <2>2. MirrorInv => PoolInv
    BY DEF MirrorInv
  <2>3. QED
    BY <2>1, <2>2, PoolMirrors, LockedAttached DEF FaultSafe
<1>2. QED
  BY <1>1, MirrorInvariant, PTL

(***************************************************************************)
(* What the pool is for: finding the best basket                           *)
(***************************************************************************)
NoneCanBeLost == Budget["lost"] = 0

\* In its section, a handler sees every waiting row in its pool.
LEMMA HandlerSees ==
  ASSUME MirrorInv, NoneCanBeLost, NEW h \in Handlers, pc[h] = "match", NEW b \in Baskets,
         basket[b].status = "waiting"
  PROVE  mem[Home[h]][b].in /\ mem[Home[h]][b].current = basket[b].current
<1>1. NoCommitLost
  BY BudgetAssumption
     DEF NoneCanBeLost, NoCommitLost, MirrorInv, PoolInv, Bounded, TypeInv, TypeOK, Fault
<1>2. /\ OneProcess /\ Holding /\ Pool /\ Listed /\ h \in Procs /\ Home[h] \in Instances
      /\ pc[h] \in Critical
  BY <1>1, InHand DEF MirrorInv, PoolInv, Procs, Critical, HandlerCritical
<1>3. Mirrors(Home[h], b) /\ boot[Home[h]] = "up"
  BY <1>2, PoolSeen
<1>4. \A p \in Procs : pc[p] # "index"
  BY <1>2, OnlyOne DEF Critical, HandlerCritical
<1>5. mem[Home[h]][b].in
  BY <1>2, <1>3, <1>4 DEF Listed
<1>6. QED
  BY <1>3, <1>5 DEF Mirrors, RowOf

\* A detail is created as attached by one action only.
LEMMA OnlyAttach ==
  ASSUME TypeInv, [Next]_vars, NEW d \in Deposits,
         detail[d].status = "none", detail'[d].status = "attached"
  PROVE  \E h \in Handlers, b \in Baskets : MatchAttach(h, b) /\ d = job[h].deposit
<1> USE RowsTyped
<1>1. ASSUME NEW h \in Handlers, Serve(h) PROVE \E b \in Baskets : MatchAttach(h, b)
  <2>1. ASSUME NEW b \in Baskets, MatchComplete(h, b) PROVE FALSE
    BY <2>1 DEF MatchComplete, PersistCompleted, CompletedDetails
  <2>2. QED
    BY <1>1, <2>1 DEF Serve, SaveDeposit, MatchFails, MatchPending, InsertBasket, AddBasket, db
<1>2. ASSUME NEW h \in Handlers, NEW b \in Baskets, MatchAttach(h, b) PROVE d = job[h].deposit
  BY <1>2 DEF MatchAttach, PersistAttached
<1>3. ASSUME NEW s \in Scanners, Scan(s) PROVE FALSE
  <2>1. ReleaseRow(s) => FALSE
    BY DEF ReleaseRow
  <2>2. CompletePartial(s) => FALSE
    BY DEF CompletePartial, PersistCompleted, CompletedDetails, db
  <2>3. ExpireBasket(s) => FALSE
    BY DEF ExpireBasket, db
  <2>4. QED
    BY <1>3, <2>1, <2>2, <2>3
       DEF Scan, ListWaiting, ListLocked, ListBaskets, EndScan, ReleaseFails, CannotComplete,
           ExpireWaiting, TakeLocked, TakeBasket, ForgetDeposit, DropBasket, db
<1>4. ASSUME NEW h \in Handlers, Request(h) PROVE FALSE
  BY <1>4 DEF Request, Submit, RequestBasket, db
<1>5. ASSUME NEW p \in Procs, Lock(p) PROVE FALSE
  BY <1>5 DEF Lock, Acquire, AcquireFails, Unlock, db
<1>6. ASSUME NEW i \in Instances, Crash(i) \/ Restart(i) PROVE FALSE
  BY <1>6 DEF Crash, Restart, ListActive, RestoreBasket, Recovered, db
<1>7. CASE LockExpires \/ Tick \/ UNCHANGED vars
  BY <1>7 DEF LockExpires, Tick, vars, db
<1>8. QED
  BY <1>1, <1>2, <1>3, <1>4, <1>5, <1>6, <1>7 DEF Next

\* A deposit is left to wait in a basket only if no waiting basket could be completed.
THEOREM CompletionCorrect ==
  OneProcess /\ RecoversAll /\ NoneCanBeLost /\ Spec => CompletionFirst
<1>1. MirrorInv /\ NoneCanBeLost /\ [Next]_vars =>
        [ \A d \in Deposits : detail[d].status = "none" /\ detail'[d].status = "attached" =>
            \A b \in Baskets : basket[b].status = "waiting" =>
              basket[b].current + Amount[d] # Target[b] ]_vars
  <2> SUFFICES ASSUME MirrorInv, NoneCanBeLost, [Next]_vars, NEW d \in Deposits,
                      detail[d].status = "none", detail'[d].status = "attached",
                      NEW c \in Baskets, basket[c].status = "waiting"
               PROVE  basket[c].current + Amount[d] # Target[c]
    OBVIOUS
  <2>1. PICK h \in Handlers, b \in Baskets : MatchAttach(h, b) /\ d = job[h].deposit
    BY OnlyAttach DEF MirrorInv, PoolInv
  <2>2. pc[h] = "match" /\ Completable(Home[h], d) = {}
    BY <2>1 DEF MatchAttach
  <2>3. mem[Home[h]][c].in /\ mem[Home[h]][c].current = basket[c].current
    BY <2>2, HandlerSees
  <2>4. QED
    BY <2>2, <2>3 DEF Completable
<1>2. QED
  <2>1. NoneCanBeLost => NoneCanBeLost'
    BY DEF NoneCanBeLost
  <2>2. QED
    BY <1>1, <2>1, MirrorInvariant, PTL DEF Spec, CompletionFirst

\* A deposit enters PendingDeposits by one action only.
LEMMA OnlyPending ==
  ASSUME TypeInv, [Next]_vars, NEW i \in Instances, NEW d \in pending'[i] \ pending[i]
  PROVE  \E h \in Handlers : MatchPending(h) /\ i = Home[h] /\ d = job[h].deposit
<1>1. pending' # pending /\ pending \in [Instances -> SUBSET Deposits]
  BY DEF TypeInv, TypeOK
<1>2. ASSUME NEW j \in Instances, Crash(j) PROVE FALSE
  BY <1>1, <1>2 DEF Crash
<1>3. ASSUME NEW h \in Handlers, MatchPending(h) PROVE i = Home[h] /\ d = job[h].deposit
  BY <1>1, <1>3 DEF MatchPending
<1>4. ASSUME NEW h \in Handlers, Request(h) \/ Serve(h) PROVE MatchPending(h)
  BY <1>1, <1>4
     DEF Request, Submit, RequestBasket, Serve, SaveDeposit, MatchFails, MatchComplete, MatchAttach,
         InsertBasket, AddBasket, memory
<1>5. ASSUME NEW s \in Scanners, Scan(s) PROVE FALSE
  BY <1>1, <1>5
     DEF Scan, ListWaiting, ListLocked, ListBaskets, EndScan, ReleaseFails, CannotComplete,
         ExpireWaiting, TakeLocked, TakeBasket, ReleaseRow, ForgetDeposit, CompletePartial,
         ExpireBasket, DropBasket, memory
<1>6. ASSUME NEW p \in Procs, Lock(p) PROVE FALSE
  BY <1>1, <1>6 DEF Lock, Acquire, AcquireFails, Unlock, memory
<1>7. ASSUME NEW j \in Instances, Restart(j) PROVE FALSE
  BY <1>1, <1>7 DEF Restart, ListActive, RestoreBasket, Recovered, memory
<1>8. CASE LockExpires \/ Tick \/ UNCHANGED vars
  BY <1>1, <1>8 DEF LockExpires, Tick, vars, memory
<1>9. QED
  BY <1>2, <1>3, <1>4, <1>5, <1>6, <1>7, <1>8 DEF Next

\* A deposit is left pending only if no waiting basket has room for it.
THEOREM PendingCorrect ==
  OneProcess /\ RecoversAll /\ NoneCanBeLost /\ Spec => PendingWithoutRoom
<1>1. MirrorInv /\ NoneCanBeLost /\ [Next]_vars =>
        [ \A i \in Instances, d \in Deposits, b \in Baskets :
            d \in pending'[i] \ pending[i] /\ basket[b].status = "waiting"
              => basket[b].current + Amount[d] > Target[b] ]_vars
  <2> SUFFICES ASSUME MirrorInv, NoneCanBeLost, [Next]_vars, NEW i \in Instances,
                      NEW d \in Deposits, NEW c \in Baskets, d \in pending'[i] \ pending[i],
                      basket[c].status = "waiting"
               PROVE  basket[c].current + Amount[d] > Target[c]
    OBVIOUS
  <2>1. PICK h \in Handlers : MatchPending(h) /\ i = Home[h] /\ d = job[h].deposit
    BY OnlyPending DEF MirrorInv, PoolInv
  <2>2. pc[h] = "match" /\ Completable(i, d) = {} /\ Acceptable(i, d) = {}
    BY <2>1 DEF MatchPending
  <2>3. mem[i][c].in /\ mem[i][c].current = basket[c].current
    BY <2>1, <2>2, HandlerSees
  <2>4. ~(basket[c].current + Amount[d] = Target[c]) /\ ~(basket[c].current + Amount[d] < Target[c])
    BY <2>2, <2>3 DEF Completable, Acceptable
  <2>5. basket[c].current \in Int /\ Amount[d] \in Int /\ Target[c] \in Int
    BY RowsTyped, AmountAssumption DEF BasketRow, MirrorInv, PoolInv
  <2>6. \A x, y, z \in Int : ~(x + y = z) /\ ~(x + y < z) => x + y > z
    OBVIOUS
  <2>7. QED
    BY <2>4, <2>5, <2>6
<1>2. QED
  <2>1. NoneCanBeLost => NoneCanBeLost'
    BY DEF NoneCanBeLost
  <2>2. QED
    BY <1>1, <2>1, MirrorInvariant, PTL DEF Spec, PendingWithoutRoom

(***************************************************************************)
(* Short records, of any number of instances                               *)
(***************************************************************************)
DueBy(b, t) == basket[b].status # "absent" /\ basket[b].expire <= t

Closing == {"lockClose", "close"}

\* The scans work on listings of rows that were due, and a deadline never moves.
ScanDueAt(s) ==
  /\ scan[s].now <= now
  /\ \A b \in scan[s].listing.baskets : DueBy(b, now)
  /\ pc[s] \in Closing => DueBy(job[s].basket, now)

ScanDue == \A s \in Scanners : ScanDueAt(s)

\* The deadline of a basket is written once.
LEMMA DeadlineStays ==
  ASSUME TypeInv, DbStep, NEW b \in Baskets, basket[b].status # "absent"
  PROVE  basket'[b].status # "absent" /\ basket'[b].expire = basket[b].expire
<1> USE RowsTyped
<1>1. CASE UNCHANGED db \/ RowSaved \/ RowTimedOut
  BY <1>1 DEF db, RowSaved, RowTimedOut
<1>2. CASE RowAttached
  BY <1>2 DEF RowAttached, PersistAttached
<1>3. CASE RowsCompleted
  BY <1>3 DEF RowsCompleted, PersistCompleted
<1>4. CASE RowInserted
  BY <1>4 DEF RowInserted
<1>5. CASE RowReleased
  BY <1>5 DEF RowReleased
<1>6. CASE RowsExpired
  BY <1>6 DEF RowsExpired
<1>7. QED
  BY <1>1, <1>2, <1>3, <1>4, <1>5, <1>6 DEF DbStep

\* The clock moves by one tick, in a step of its own.
LEMMA TimeStep ==
  ASSUME [Next]_vars
  PROVE  now' = now \/ now' = now + 1
<1>1. ASSUME NEW h \in Handlers, Request(h) \/ Serve(h) PROVE now' = now
  BY <1>1 DEF Request, Serve, Submit, RequestBasket, SaveDeposit, MatchFails, MatchPending,
              MatchComplete, MatchAttach, InsertBasket, AddBasket
<1>2. ASSUME NEW s \in Scanners, Scan(s) PROVE now' = now
  BY <1>2 DEF Scan, ListWaiting, ListLocked, ListBaskets, EndScan, ExpireWaiting, TakeLocked,
              TakeBasket, ReleaseRow, ReleaseFails, ForgetDeposit, CompletePartial,
              CannotComplete, ExpireBasket, DropBasket
<1>3. ASSUME NEW p \in Procs, Lock(p) PROVE now' = now
  BY <1>3 DEF Lock, Acquire, AcquireFails, Unlock
<1>4. ASSUME NEW i \in Instances, Crash(i) \/ Restart(i) PROVE now' = now
  BY <1>4 DEF Crash, Restart, ListActive, Recovered, RestoreBasket
<1>5. CASE LockExpires \/ Tick \/ UNCHANGED vars
  BY <1>5 DEF LockExpires, Tick, vars
<1>6. QED
  BY <1>1, <1>2, <1>3, <1>4, <1>5 DEF Next

\* What is due stays due.
LEMMA DueStays ==
  ASSUME TypeInv, [Next]_vars
  PROVE  /\ now \in Nat /\ now' \in Nat /\ now <= now'
         /\ \A b \in Baskets : DueBy(b, now) => DueBy(b, now)'
<1>1. now \in Nat /\ now' \in Nat
  BY TimeAssumption, NextTyped DEF TypeInv, TypeOK
<1>2. now <= now'
  BY <1>1, TimeStep
<1>3. ASSUME NEW b \in Baskets, DueBy(b, now) PROVE DueBy(b, now)'
  <2>1. basket'[b].status # "absent" /\ basket'[b].expire = basket[b].expire
    BY <1>3, EveryDbStep, DeadlineStays DEF DueBy
  <2>2. basket[b].expire \in Nat
    BY RowsTyped DEF BasketRow
  <2>3. QED
    BY <1>1, <1>2, <1>3, <2>1, <2>2 DEF DueBy
<1>4. QED
  BY <1>1, <1>2, <1>3

\* A scanner that only shortens its listing keeps to baskets that are due.
LEMMA DueKeeps ==
  ASSUME TypeInv, [Next]_vars, NEW s \in Scanners, ScanDueAt(s),
         scan'[s].now \in {scan[s].now, now, 0},
         scan'[s].listing.baskets \in SUBSET scan[s].listing.baskets,
         pc'[s] \in Closing => pc[s] \in Closing /\ job'[s] = job[s]
  PROVE  ScanDueAt(s)'
<1>1. scan[s].now \in Nat /\ scan[s].listing.baskets \in SUBSET Baskets
      /\ (pc[s] \in Closing => job[s].basket \in Baskets)
  BY InHand DEF TypeInv, TypeOK, ScanState, Listing, Closing, HasBasket, Procs
<1>2. scan'[s].now <= now'
  BY <1>1, DueStays DEF ScanDueAt
<1>3. QED
  BY <1>1, <1>2, DueStays DEF ScanDueAt

LEMMA NothingScanned == NoScan.now = 0 /\ NoScan.listing.baskets = {}
BY DEF NoScan, NoListing

\* A scan lists what is due by its own clock, which does not run ahead.
LEMMA ScannerDue ==
  ASSUME TypeInv, ScanDue, [Next]_vars, NEW s \in Scanners, Scan(s), NEW t \in Scanners
  PROVE  ScanDueAt(t)'
<1>1. /\ scan \in [Scanners -> ScanState] /\ pc \in [Procs -> HandlerPc \cup ScannerPc]
      /\ job \in [Procs -> Job] /\ s \in Procs /\ t \in Procs /\ ScanDueAt(t) /\ ScanDueAt(s)
      /\ now \in Nat
  BY TimeAssumption DEF TypeInv, TypeOK, Procs, ScanDue
<1>2. CASE t # s
  <2>1. pc'[t] = pc[t]
    BY <1>1, <1>2
       DEF Scan, ListWaiting, ListLocked, ListBaskets, EndScan, ReleaseFails, CannotComplete,
           ExpireWaiting, TakeLocked, TakeBasket, ReleaseRow, ForgetDeposit, CompletePartial,
           ExpireBasket, DropBasket, Goto
  <2>2. job'[t] = job[t]
    BY <1>1, <1>2
       DEF Scan, ListWaiting, ListLocked, ListBaskets, EndScan, ReleaseFails, CannotComplete,
           ExpireWaiting, TakeLocked, TakeBasket, ReleaseRow, ForgetDeposit, CompletePartial,
           ExpireBasket, DropBasket
  <2>3. scan'[t] = scan[t]
    BY <1>1, <1>2
       DEF Scan, ListWaiting, ListLocked, ListBaskets, EndScan, ReleaseFails, CannotComplete,
           ExpireWaiting, TakeLocked, TakeBasket, ReleaseRow, ForgetDeposit, CompletePartial,
           ExpireBasket, DropBasket
  <2>4. QED
    BY <1>1, <2>1, <2>2, <2>3, DueKeeps
<1>3. CASE t = s
  <2>1. CASE ListWaiting(s)
    <3>1. PICK T : scan' = [scan EXCEPT ![s] = [now |-> now, deposits |-> T, listing |-> NoListing]]
      BY <2>1 DEF ListWaiting
    <3>2. scan'[s].now = now /\ scan'[s].listing.baskets = {} /\ pc'[s] = "waiting"
      BY <1>1, <2>1, <3>1 DEF ListWaiting, Goto, NoListing
    <3>3. QED
      BY <1>1, <1>3, <3>2, DueKeeps DEF Closing
  <2>2. CASE ListLocked(s)
    <3>1. scan'[s].now = scan[s].now /\ scan'[s].listing = scan[s].listing /\ pc'[s] = "locked"
      BY <1>1, <2>2 DEF ListLocked, Goto, ScanState
    <3>2. QED
      BY <1>1, <1>3, <3>1, DueKeeps DEF Closing
  <2>3. CASE ListBaskets(s)
    <3>1. PICK T \in Due({b \in Baskets : basket[b].status = "waiting"}, BasketExpire, scan[s].now) :
            scan' = [scan EXCEPT ![s].listing =
              [baskets |-> T, seen |-> [b \in Baskets |-> IF b \in T THEN basket[b].current ELSE 0]]]
      BY <2>3 DEF ListBaskets
    <3>2. T \in SUBSET {x \in {b \in Baskets : basket[b].status = "waiting"} :
                          BasketExpire[x] <= scan[s].now}
      BY DEF Due, Oldest
    <3>3. scan'[s].now = scan[s].now /\ scan'[s].listing.baskets = T /\ pc'[s] = "baskets"
      BY <1>1, <2>3, <3>1 DEF ListBaskets, Goto, ScanState
    <3>4. ASSUME NEW b \in T PROVE b \in Baskets /\ DueBy(b, now)
      <4>1. b \in Baskets /\ basket[b].status = "waiting" /\ basket[b].expire <= scan[s].now
        BY <3>2 DEF BasketExpire
      <4>2. basket[b].expire \in Nat /\ scan[s].now \in Nat /\ scan[s].now <= now
        BY <1>1, <4>1, RowsTyped DEF BasketRow, ScanState, ScanDueAt
      <4>3. QED
        BY <1>1, <4>1, <4>2 DEF DueBy
    <3>5. scan[s].now \in Nat /\ scan[s].now <= now
      BY <1>1 DEF ScanState, ScanDueAt
    <3>6. QED
      BY <1>3, <3>3, <3>4, <3>5, DueStays DEF ScanDueAt, Closing
  <2>4. ASSUME NEW b \in Baskets, TakeBasket(s, b) PROVE ScanDueAt(s)'
    <3>1. b \in scan[s].listing.baskets /\ DueBy(b, now)
      BY <1>1, <2>4 DEF TakeBasket, First, ScanDueAt
    <3>2. /\ scan'[s].now = scan[s].now
          /\ scan'[s].listing.baskets \in SUBSET scan[s].listing.baskets
      BY <1>1, <2>4 DEF TakeBasket, ScanState, Listing
    <3>3. job'[s].basket = b
      BY <1>1, <2>4 DEF TakeBasket, Job
    <3>4. scan[s].now \in Nat /\ scan[s].now <= now
          /\ \A c \in scan[s].listing.baskets : c \in Baskets /\ DueBy(c, now)
      BY <1>1 DEF ScanState, Listing, ScanDueAt
    <3>5. QED
      BY <3>1, <3>2, <3>3, <3>4, DueStays DEF ScanDueAt
  <2>5. CASE ExpireBasket(s) \/ CompletePartial(s) \/ CannotComplete(s) \/ DropBasket(s)
             \/ ReleaseRow(s) \/ ReleaseFails(s) \/ ForgetDeposit(s)
    <3>1. scan' = scan
      BY <2>5 DEF ExpireBasket, CompletePartial, CannotComplete, DropBasket, ReleaseRow,
                  ReleaseFails, ForgetDeposit
    <3>2. pc'[s] \in {"drop", "abort", "unlock", "expire", "forget"}
      BY <1>1, <2>5 DEF ExpireBasket, CompletePartial, CannotComplete, DropBasket, ReleaseRow,
                        ReleaseFails, ForgetDeposit, Goto
    <3>3. QED
      BY <1>1, <1>3, <3>1, <3>2, DueKeeps DEF Closing
  <2>6. ASSUME NEW d \in Deposits, ExpireWaiting(s, d) \/ TakeLocked(s, d) PROVE ScanDueAt(s)'
    <3>1. scan'[s].now = scan[s].now /\ scan'[s].listing = scan[s].listing
      BY <1>1, <2>6 DEF ExpireWaiting, TakeLocked, ScanState
    <3>2. pc'[s] \in {"waiting", "lockRelease"}
      BY <1>1, <2>6 DEF ExpireWaiting, TakeLocked, Goto
    <3>3. QED
      BY <1>1, <3>1, <3>2, DueKeeps DEF Closing
  <2>7. CASE EndScan(s)
    <3>1. scan'[s] = NoScan /\ pc'[s] = "idle"
      BY <1>1, <2>7 DEF EndScan, Goto
    <3>2. QED
      BY <1>1, <1>3, <3>1, DueKeeps, NothingScanned DEF Closing
  <2>8. QED
    BY <1>3, <2>1, <2>2, <2>3, <2>4, <2>5, <2>6, <2>7 DEF Scan
<1>4. QED
  BY <1>2, <1>3

\* No step puts a basket that is not due before a scan.
LEMMA DueStep == TypeInv /\ ScanDue /\ [Next]_vars => ScanDue'
<1> SUFFICES ASSUME TypeInv, ScanDue, [Next]_vars, NEW t \in Scanners PROVE ScanDueAt(t)'
  BY DEF ScanDue
<1>1. /\ scan \in [Scanners -> ScanState] /\ pc \in [Procs -> HandlerPc \cup ScannerPc]
      /\ job \in [Procs -> Job] /\ t \in Procs /\ ScanDueAt(t) /\ t \notin Handlers
  BY ProcessAssumption DEF TypeInv, TypeOK, Procs, ScanDue
<1>2. ASSUME NEW h \in Handlers, Request(h) \/ Serve(h) PROVE ScanDueAt(t)'
  <2>1. scan' = scan /\ pc'[t] = pc[t] /\ job'[t] = job[t]
    <3>1. CASE Request(h)
      BY <1>1, <3>1 DEF Request, Submit, RequestBasket, Goto
    <3>2. CASE Serve(h)
      BY <1>1, <3>2 DEF Serve, SaveDeposit, MatchFails, MatchPending, MatchComplete, MatchAttach,
                        InsertBasket, AddBasket, Goto
    <3>3. QED
      BY <1>2, <3>1, <3>2
  <2>2. QED
    BY <1>1, <2>1, DueKeeps
<1>3. ASSUME NEW p \in Procs, Lock(p) PROVE ScanDueAt(t)'
  <2>1. scan'[t] = scan[t] \/ scan'[t] = NoScan
    BY <1>1, <1>3 DEF Lock, Acquire, AcquireFails, Unlock
  <2>2. CASE Acquire(p)
    <3>1. job' = job /\ pc' = [pc EXCEPT ![p] = Section[pc[p]]] /\ pc[p] \in DOMAIN Section
      BY <2>2 DEF Acquire, Goto
    <3>2. pc'[t] \in Closing => pc[t] \in Closing
      BY <1>1, <3>1 DEF Section, Closing
    <3>3. QED
      BY <1>1, <2>1, <3>1, <3>2, DueKeeps, NothingScanned
  <2>3. CASE AcquireFails(p) \/ Unlock(p)
    <3>1. PICK l \in {"idle", "locked", "baskets"} : pc' = [pc EXCEPT ![p] = l]
      BY <2>3 DEF AcquireFails, Unlock, Goto, AfterUnlock
    <3>2. job' = [job EXCEPT ![p] = NoJob]
      BY <2>3 DEF AcquireFails, Unlock
    <3>3. pc'[t] \in Closing => pc[t] \in Closing /\ job'[t] = job[t]
      BY <1>1, <3>1, <3>2 DEF Closing
    <3>4. QED
      BY <1>1, <2>1, <3>3, DueKeeps, NothingScanned
  <2>4. QED
    BY <1>3, <2>2, <2>3 DEF Lock
<1>4. ASSUME NEW i \in Instances, Crash(i) \/ Restart(i) PROVE ScanDueAt(t)'
  <2>1. scan'[t] = scan[t] \/ scan'[t] = NoScan
    BY <1>1, <1>4 DEF Crash, Restart, ListActive, Recovered, RestoreBasket
  <2>2. pc'[t] \in Closing => pc[t] \in Closing /\ job'[t] = job[t]
    BY <1>1, <1>4 DEF Crash, Restart, ListActive, Recovered, RestoreBasket, Closing
  <2>3. QED
    BY <1>1, <2>1, <2>2, DueKeeps, NothingScanned
<1>5. CASE LockExpires \/ Tick \/ UNCHANGED vars
  BY <1>1, <1>5, DueKeeps DEF LockExpires, Tick, vars
<1>6. QED
  BY <1>2, <1>3, <1>4, <1>5, ScannerDue DEF Next

\* A record is made with the target, or by the close of a basket that was due.
RecordMade(b) ==
  \/ record'[b].amount = Target[b]
  \/ DueBy(b, now) /\ record'[b].amount >= MinAmount(b)

\* A record is made full, or of a basket that is due.
LEMMA RecordStep ==
  ASSUME TypeInv, ScanDue, [Next]_vars, NEW b \in Baskets
  PROVE  record'[b] = record[b] \/ RecordMade(b)
<1> USE RowsTyped
<1>1. ASSUME NEW h \in Handlers, NEW c \in Baskets, MatchComplete(h, c)
      PROVE  record'[b] = record[b] \/ RecordMade(b)
  <2>1. c \in Completable(Home[h], job[h].deposit)
    BY <1>1 DEF MatchComplete, BestCompletable
  <2>2. NewCurrent(Home[h], c, job[h].deposit) = Target[c]
    BY <2>1 DEF Completable, NewCurrent
  <2>3. record' = [record EXCEPT ![c] = [made |-> TRUE,
                     deposits |-> Members(Home[h], c, job[h].deposit), amount |-> Target[c]]]
    BY <1>1, <2>2 DEF MatchComplete, PersistCompleted
  <2>4. QED
    BY <2>3 DEF RecordMade
<1>2. ASSUME NEW s \in Scanners, ClosesWith(s)
      PROVE  record'[b] = record[b] \/ RecordMade(b)
  <2> DEFINE c == job[s].basket
  <2>1. record' = [record EXCEPT ![c] = [made |-> TRUE, deposits |-> Attached(c),
                                         amount |-> Total(Attached(c))]]
    BY <1>2 DEF ClosesWith, PersistCompleted
  <2>2. pc[s] = "close" /\ Total(Attached(c)) >= MinAmount(c)
    BY <1>2 DEF ClosesWith, CompletePartial, PartialEnough
  <2>3. DueBy(c, now)
    BY <2>2 DEF ScanDue, ScanDueAt, Closing
  <2>4. QED
    BY <2>1, <2>2, <2>3 DEF RecordMade
<1>3. QED
  BY <1>1, <1>2, RecordWritten

\* A record names a row that was there, so that its deadline stays.
ShortInv ==
  \A b \in Baskets : record[b].made /\ record[b].amount # Target[b] =>
    DueBy(b, now) /\ record[b].amount >= MinAmount(b)

\* A short record stays one of a basket that was due.
LEMMA ShortStep == TypeInv /\ ScanDue /\ ShortInv /\ [Next]_vars => ShortInv'
<1> SUFFICES ASSUME TypeInv, ScanDue, ShortInv, [Next]_vars, NEW b \in Baskets,
                    record'[b].made, record'[b].amount # Target[b]
             PROVE  DueBy(b, now)' /\ record'[b].amount >= MinAmount(b)
  BY DEF ShortInv, MinAmount
<1>1. DueBy(b, now) /\ record'[b].amount >= MinAmount(b)
  BY RecordStep DEF ShortInv, RecordMade
<1>2. QED
  BY <1>1, DueStays

\* A record short of its target was made of a due basket and reaches the minimum.
THEOREM ShortCorrect == Spec => []ShortOnlyAfterTimeout
<1>1. Init => ScanDue /\ ShortInv
  BY DEF Init, ScanDue, ScanDueAt, NoScan, NoListing, Closing, ShortInv, Procs
<1>2. TypeInv /\ (ScanDue /\ ShortInv) /\ [Next]_vars => (ScanDue /\ ShortInv)'
  BY DueStep, ShortStep
<1>3. ShortInv => ShortOnlyAfterTimeout
  BY DEF ShortInv, ShortOnlyAfterTimeout, DueBy
<1>4. QED
  BY <1>1, <1>2, <1>3, RowInvariant, PTL DEF Spec
=============================================================================
