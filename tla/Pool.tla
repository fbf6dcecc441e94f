--------------------------------- MODULE Pool ---------------------------------
(***************************************************************************)
(* What the in-memory pool of a shard promises: its baskets, and which of  *)
(* them a deposit is matched with.  It knows nothing of the index by which *)
(* the engine finds candidates (see EngineShard).                          *)
(***************************************************************************)
EXTENDS Integers, FiniteSets

CONSTANTS
  Deposits, Baskets,
  Amount,     \* [Deposits -> amount]
  Target,     \* [Baskets -> target_amount]
  Deadlines,  \* values of expire_at
  Limit       \* how many candidates a lookup returns: 32

VARIABLES
  pool,       \* the baskets
  result      \* what the last operation answered: a MatchResult

Out      == [in |-> FALSE, current |-> 0, deposits |-> {}, expire |-> 0]
NoResult == [kind |-> "none"]

Init == pool = [b \in Baskets |-> Out] /\ result = NoResult

Left(b) == Target[b] - pool[b].current

\* The baskets d fills exactly, and those it fits into.
Completable(d) == {b \in Baskets : pool[b].in /\ pool[b].current + Amount[d] = Target[b]}
Acceptable(d)  == {b \in Baskets : pool[b].in /\ pool[b].current + Amount[d] < Target[b]}

Earlier(b, c) ==
  \/ pool[b].expire < pool[c].expire
  \/ /\ pool[b].expire = pool[c].expire
     /\ Cardinality(pool[b].deposits) < Cardinality(pool[c].deposits)

\* The best of S when only Limit of its members are looked at, whichever they are.
BestOf(S) ==
  {b \in S : Cardinality({c \in S : Earlier(c, b)}) <=
               (IF Cardinality(S) > Limit THEN Cardinality(S) - Limit ELSE 0)}

\* Waiting baskets with the least room left come first, whatever Limit is.
Tightest(d) == {b \in Acceptable(d) : \A c \in Acceptable(d) : Left(b) <= Left(c)}

Add(b) ==
  /\ ~pool[b].in
  /\ pool'[b].in /\ pool' = [pool EXCEPT ![b] = pool'[b]]
  /\ result' = NoResult

Remove(b) ==
  /\ pool' = [pool EXCEPT ![b] = Out]
  /\ result' = NoResult

Release(b, d) ==
  /\ pool[b].in
  /\ pool' = [pool EXCEPT
       ![b].current = IF @ >= Amount[d] THEN @ - Amount[d] ELSE 0, ![b].deposits = @ \ {d}]
  /\ result' = NoResult

Answer(kind, d, b) ==
  [kind |-> kind, deposit |-> d, basket |-> b,
   deposits |-> pool[b].deposits \cup {d}, amount |-> pool[b].current + Amount[d]]

Complete(d) ==
  \E b \in BestOf(Completable(d)) :
    /\ pool' = [pool EXCEPT ![b] = Out]
    /\ result' = Answer("matched", d, b)

Attach(d) ==
  /\ Completable(d) = {}
  /\ \E b \in BestOf(Tightest(d)) :
       /\ pool' = [pool EXCEPT ![b].current = @ + Amount[d], ![b].deposits = @ \cup {d}]
       /\ result' = Answer("attached", d, b)

Pending(d) ==
  /\ Completable(d) = {} /\ Acceptable(d) = {}
  /\ result' = [kind |-> "pending", deposit |-> d]
  /\ UNCHANGED pool

\* The commit of a match failed.
Failed == result' = NoResult /\ UNCHANGED pool

Next ==
  \/ \E b \in Baskets : Add(b) \/ Remove(b)
  \/ \E b \in Baskets, d \in Deposits : Release(b, d)
  \/ \E d \in Deposits : Complete(d) \/ Attach(d) \/ Pending(d)
  \/ Failed

Spec == Init /\ [][Next]_<<pool, result>>
=============================================================================
