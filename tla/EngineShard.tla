----------------------------- MODULE EngineShard -----------------------------
(***************************************************************************)
(* internal/engine: the Shard, its baskets and the BucketNeedIndex through *)
(* which it finds the candidates for a deposit.  Every operation holds the *)
(* mutex of the shard, the commit callback included, and is one step.      *)
(***************************************************************************)
EXTENDS Integers, FiniteSets, Sequences, SequencesExt

CONSTANTS
  Deposits, Baskets,
  Amount, Target,
  Total(_),         \* the sum of the amounts of a set of deposits
  Deadlines,        \* values of expire_at
  Limit             \* the limit of both lookups: 32 in the code

ASSUME EngineAssumption ==
  /\ Amount \in [Deposits -> Nat \ {0}] /\ Target \in [Baskets -> Nat \ {0}]
  /\ Deadlines \subseteq Nat /\ Limit \in Nat \ {0}
  /\ IsFiniteSet(Deposits) /\ \A S \in SUBSET Deposits : Total(S) \in Nat

VARIABLES
  baskets,          \* Baskets: the pointed-to records
  needs,            \* the keys of buckets, sorted
  buckets,          \* need -> set of baskets
  lookup,           \* basket -> the need it is filed under
  result            \* what the last call returned

index == <<needs, buckets, lookup>>
vars  == <<baskets, index, result>>

Out      == [in |-> FALSE, current |-> 0, deposits |-> {}, expire |-> 0]
NoResult == [kind |-> "none"]
In       == {b \in Baskets : baskets[b].in}

Init ==
  /\ baskets = [b \in Baskets |-> Out]
  /\ needs = <<>> /\ buckets = <<>> /\ lookup = <<>>
  /\ result = NoResult

\* NeedAmount and RoomAmount, of a basket with this current_amount.
NeedAmount(b, current) == IF Target[b] > current THEN Target[b] - current ELSE 0

(***************************************************************************)
(* BucketNeedIndex                                                         *)
(***************************************************************************)
\* sort.Search on a sorted list: the first position whose value is at least n.
Position(s, n) == Cardinality({i \in DOMAIN s : s[i] < n}) + 1

InsertNeed(s, n) ==
  IF Position(s, n) <= Len(s) /\ s[Position(s, n)] = n THEN s
  ELSE InsertAt(s, Position(s, n), n)

\* The index as a record, to follow one operation through its steps.
Index == [needs |-> needs, buckets |-> buckets, lookup |-> lookup]

FileUnder(idx, b, need) ==
  [needs   |-> IF need \in DOMAIN idx.buckets THEN idx.needs ELSE InsertNeed(idx.needs, need),
   buckets |-> [n \in DOMAIN idx.buckets \cup {need} |->
                  (IF n \in DOMAIN idx.buckets THEN idx.buckets[n] ELSE {})
                    \cup (IF n = need THEN {b} ELSE {})],
   lookup  |-> [c \in DOMAIN idx.lookup \cup {b} |-> IF c = b THEN need ELSE idx.lookup[c]]]

RemoveFromNeed(idx, need, b) ==
  LET filed == need \in DOMAIN idx.buckets
      last  == filed /\ idx.buckets[need] \subseteq {b}
      pos   == Position(idx.needs, need)
  IN [needs   |-> IF last /\ pos <= Len(idx.needs) /\ idx.needs[pos] = need
                    THEN RemoveAt(idx.needs, pos) ELSE idx.needs,
      buckets |-> [n \in DOMAIN idx.buckets \ (IF last THEN {need} ELSE {}) |->
                     IF n = need THEN idx.buckets[n] \ {b} ELSE idx.buckets[n]],
      lookup  |-> Restrict(idx.lookup, DOMAIN idx.lookup \ {b})]

\* NeedIndex.Remove looks up where the basket is filed.
Unfile(b) ==
  RemoveFromNeed(Index,
    IF b \in DOMAIN lookup THEN lookup[b] ELSE NeedAmount(b, baskets[b].current), b)

\* NeedIndex.Update moves the basket from the need it had.
UpdateLate(b, current) ==   \* mutant: the need is computed after the change
  FileUnder(RemoveFromNeed(Index, NeedAmount(b, current), b), b, NeedAmount(b, current))
Update(b, current) ==
  FileUnder(RemoveFromNeed(Index, NeedAmount(b, baskets[b].current), b), b, NeedAmount(b, current))

Becomes(idx) == needs' = idx.needs /\ buckets' = idx.buckets /\ lookup' = idx.lookup

CanComplete(b, amount) == baskets[b].current + amount = Target[b]
CanAccept(b, amount)   == amount <= NeedAmount(b, baskets[b].current)

\* The walk over a bucket is in the random order of a Go map and stops at Limit.
FindCompletable(amount) ==
  LET found == {b \in (IF amount \in DOMAIN buckets THEN buckets[amount] ELSE {}) :
                  CanComplete(b, amount)}
  IN {T \in SUBSET found :
        Cardinality(T) = (IF Cardinality(found) < Limit THEN Cardinality(found) ELSE Limit)}

\* The walk over the buckets is in the order of needs, from the first above amount.
Filed(b) == CHOOSE i \in DOMAIN needs : b \in buckets[needs[i]]

AcceptableFound(amount) ==
  {b \in UNION {buckets[needs[i]] : i \in Position(needs, amount + 1)..Len(needs)} :
     CanAccept(b, amount)}

FindUnordered(amount) ==   \* mutant: a walk over the map of buckets
  LET found == AcceptableFound(amount) IN
  {T \in SUBSET found :
     Cardinality(T) = (IF Cardinality(found) < Limit THEN Cardinality(found) ELSE Limit)}
FindAcceptable(amount) ==
  LET found == AcceptableFound(amount) IN
  {T \in SUBSET found :
     /\ Cardinality(T) = (IF Cardinality(found) < Limit THEN Cardinality(found) ELSE Limit)
     /\ \A b \in T, c \in found \ T : Filed(b) <= Filed(c)}

(***************************************************************************)
(* Shard                                                                   *)
(***************************************************************************)
\* createBasketLocked adds a new basket, restoreBasket one with the deposits its details
\* name and the row's current_amount, their sum (LedgerBalanced of Matching); neither
\* finds it in the pool.  Two instances can overfill a row: its need is then 0.
AddBasket(b, S, e) ==
  /\ ~baskets[b].in
  /\ \A c \in In : S \cap baskets[c].deposits = {}
  /\ baskets' = [baskets EXCEPT ![b] =
       [in |-> TRUE, current |-> Total(S), deposits |-> S, expire |-> e]]
  /\ Becomes(FileUnder(Index, b, NeedAmount(b, Total(S))))
  /\ result' = NoResult

RemoveBasket(b) ==
  /\ baskets[b].in
  /\ Becomes(Unfile(b))
  /\ baskets' = [baskets EXCEPT ![b] = Out]
  /\ result' = NoResult

\* The deposit may be one another instance has attached: it is then not in the list.
ReleaseDeposit(b, d) ==
  LET current == IF baskets[b].current >= Amount[d] THEN baskets[b].current - Amount[d] ELSE 0 IN
  /\ baskets[b].in
  /\ Becomes(Update(b, current))
  /\ baskets' = [baskets EXCEPT ![b].current = current, ![b].deposits = @ \ {d}]
  /\ result' = NoResult

\* bestCompletable and bestAcceptable sort the candidates; equal ones keep the
\* random order of the walk.
Sooner(b, c) ==
  \/ baskets[b].expire < baskets[c].expire
  \/ /\ baskets[b].expire = baskets[c].expire
     /\ Cardinality(baskets[b].deposits) <= Cardinality(baskets[c].deposits)

Left(b) == Target[b] - baskets[b].current

BestCompletable(amount) ==
  UNION {{b \in T : \A c \in T : Sooner(b, c)} : T \in FindCompletable(amount)}

BestAcceptable(amount) ==
  UNION {{b \in T : \A c \in T : Left(b) < Left(c) \/ (Left(b) = Left(c) /\ Sooner(b, c))} :
           T \in FindAcceptable(amount)}

MatchResult(kind, d, b) ==
  [kind |-> kind, deposit |-> d, basket |-> b,
   deposits |-> baskets[b].deposits \cup {d}, amount |-> baskets[b].current + Amount[d]]

\* What the commit callback of MatchDepositWithCommit can accept: the unique key of
\* basket_deposit refuses a deposit that is attached already.
Committable(d) == \A b \in In : d \notin baskets[b].deposits

MatchComplete(d) ==
  /\ Committable(d)
  /\ \E b \in BestCompletable(Amount[d]) :
       /\ Becomes(Unfile(b))
       /\ baskets' = [baskets EXCEPT ![b] = Out]
       /\ result' = MatchResult("matched", d, b)

MatchAttach(d) ==
  /\ Committable(d)
  /\ BestCompletable(Amount[d]) = {}
  /\ \E b \in BestAcceptable(Amount[d]) :
       /\ Becomes(Update(b, baskets[b].current + Amount[d]))
       /\ baskets' = [baskets EXCEPT ![b].current = @ + Amount[d], ![b].deposits = @ \cup {d}]
       /\ result' = MatchResult("attached", d, b)

\* The commit returned an error: memory is as before.
MatchFailed(d) ==
  /\ BestCompletable(Amount[d]) \cup BestAcceptable(Amount[d]) # {}
  /\ result' = NoResult
  /\ UNCHANGED <<baskets, index>>

\* PendingDeposits is only ever written, and is left out.
MatchPending(d) ==
  /\ BestCompletable(Amount[d]) = {} /\ BestAcceptable(Amount[d]) = {}
  /\ result' = [kind |-> "pending", deposit |-> d]
  /\ UNCHANGED <<baskets, index>>

Next ==
  \/ \E b \in Baskets, S \in SUBSET Deposits, e \in Deadlines : AddBasket(b, S, e)
  \/ \E b \in Baskets : RemoveBasket(b)
  \/ \E b \in Baskets, d \in Deposits : ReleaseDeposit(b, d)
  \/ \E d \in Deposits :
       MatchComplete(d) \/ MatchAttach(d) \/ MatchFailed(d) \/ MatchPending(d)

Spec == Init /\ [][Next]_vars

-----------------------------------------------------------------------------
TypeOK ==
  /\ baskets \in [Baskets -> [in : BOOLEAN, current : Nat, deposits : SUBSET Deposits,
                              expire : Nat]]
  /\ needs \in Seq(Nat)
  /\ DOMAIN buckets \subseteq Nat /\ \A n \in DOMAIN buckets : buckets[n] \subseteq Baskets
  /\ DOMAIN lookup \subseteq Baskets /\ \A b \in DOMAIN lookup : lookup[b] \in Nat

\* The three structures of the index agree with the pool: every basket is filed once,
\* under what it needs now; needs is sorted and names the buckets that are not empty.
\* A mistake in one operation only shows in a later lookup (Add, Remove, Update).
IndexExact ==
  /\ TypeOK
  /\ DOMAIN lookup = In
  /\ \A b \in In : lookup[b] = NeedAmount(b, baskets[b].current)
  /\ DOMAIN buckets = {lookup[b] : b \in In}
  /\ \A n \in DOMAIN buckets : buckets[n] = {b \in In : lookup[b] = n}
  /\ \A i, j \in DOMAIN needs : i < j => needs[i] < needs[j]
  /\ ToSet(needs) = DOMAIN buckets

\* Through the index the engine finds what a search of the whole pool would: see Pool
\* for what a deposit is matched with.
AbstractPool == INSTANCE Pool WITH pool <- baskets
FindsTheBest == AbstractPool!Spec
=============================================================================
