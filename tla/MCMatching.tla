----------------------------- MODULE MCMatching -----------------------------
(* Instances of Matching small enough for TLC. *)
EXTENDS MatchingProperties, FiniteSetsExt, TLC

CONSTANTS d1, d2, d3, b1, b2, i1, i2, h1, h2, s1, s2

SumOfAmounts(S) == MapThenSumSet(LAMBDA d : Amount[d], S)

\* Two small deposits and a large one; b1 takes all but one combination, b2 is
\* filled by the large deposit alone.
ThreeAmounts == d1 :> 1 @@ d2 :> 1 @@ d3 :> 2
TwoAmounts   == d1 :> 1 @@ d2 :> 2
BigAmounts   == d1 :> 2 @@ d2 :> 2 @@ d3 :> 2
SmallOnes    == Permutations({d1, d2})   \* of equal amounts in ThreeAmounts
OneTarget    == b1 :> 3
TwoTargets   == b1 :> 3 @@ b2 :> 2

OneInstance  == [p \in Procs |-> i1]
TwoInstances == [p \in Procs |-> IF p \in {h1, s1} THEN i1 ELSE i2]

Bounds(requests, faults, lost, crashes) ==
  [requests |-> requests, faults |-> faults, lost |-> lost, crashes |-> crashes]

SmallFaults  == Bounds(3, 1, 0, 1)
PairLost     == Bounds(4, 0, 1, 1)
PairBudget   == Bounds(4, 0, 0, 1)
ManyRequests == Bounds(5, 0, 0, 0)
FourRequests == Bounds(4, 0, 0, 0)
=============================================================================
