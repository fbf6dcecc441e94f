-------------------------------- MODULE Mutex --------------------------------
(***************************************************************************)
(* What the shard lock promises its callers: of all goroutines of all      *)
(* instances, at most one at a time runs its section of a shard.           *)
(***************************************************************************)
CONSTANT Callers     \* goroutines that call WithLock with the key of the shard
VARIABLE inside      \* those whose section is running

Init == inside = {}

Enter(c) == inside = {} /\ inside' = {c}
Leave(c) == c \in inside /\ inside' = inside \ {c}

Next == \E c \in Callers : Enter(c) \/ Leave(c)

Spec == Init /\ [][Next]_inside
=============================================================================
