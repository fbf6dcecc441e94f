---------------------------- MODULE MCEngineShard ----------------------------
(* An EngineShard whose lookups are cut off: more baskets than Limit. *)
EXTENDS EngineShard

CONSTANTS d1, d2, d3, b1, b2, b3

SumOfAmounts(S) == MapThenSumSet(LAMBDA d : Amount[d], S)

\* Deposits of two sizes, and baskets that several of them fill or fit into.
Amounts == d1 :> 1 @@ d2 :> 1 @@ d3 :> 2
Targets == b1 :> 2 @@ b2 :> 3 @@ b3 :> 3
=============================================================================
