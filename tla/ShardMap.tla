------------------------------ MODULE ShardMap ------------------------------
(***************************************************************************)
(* getShard: the goroutines of a process share one Go map from keys        *)
(* (channel:currency) to shards.  Each runs under the lock of its own key; *)
(* nothing guards the map itself, and an access takes time: it may overlap *)
(* with a write of another goroutine.                                      *)
(***************************************************************************)
EXTENDS Integers, FiniteSets

CONSTANTS
  Keys,         \* shard keys
  Goroutines,   \* handlers and scans of one process
  MaxShards,    \* bound: shards ever made
  NoKey

\* What the constants must be; the modules that use this one assume it.
ShardMapAssumption ==
  /\ IsFiniteSet(Keys) /\ NoKey \notin Keys
  /\ MaxShards \in Nat /\ Cardinality(Keys) <= MaxShards

VARIABLES
  known,     \* the keys the recovery made a shard for
  shards,    \* MatchingUsecase.shards: per key the number of a shard, or 0
  next,      \* the number of the next shard that is made
  pc, key,   \* per goroutine: where it is in getShard, and its key
  held,      \* per goroutine: the shard it was given
  raced,     \* the goroutines whose access of the map overlaps a write
  overlapped,\* history: some access of the map has overlapped a write
  thrown     \* the Go runtime has ended the process: concurrent map access

vars == <<known, shards, next, pc, key, held, raced, overlapped, thrown>>

\* addBasketLocked of the recovery gives a shard to each key that has baskets.
Init ==
  /\ known \in SUBSET Keys
  /\ \E f \in [known -> 1..Cardinality(known)] :
       /\ \A k, l \in known : k # l => f[k] # f[l]
       /\ shards = [k \in Keys |-> IF k \in known THEN f[k] ELSE 0]
  /\ next = Cardinality(known) + 1
  /\ pc = [g \in Goroutines |-> "idle"]
  /\ key = [g \in Goroutines |-> NoKey]
  /\ held = [g \in Goroutines |-> 0]
  /\ raced = {} /\ overlapped = FALSE
  /\ thrown = FALSE

Accessing == {g \in Goroutines : pc[g] \in {"check", "write", "return"}}
Writing   == {g \in Goroutines : pc[g] = "write"}

\* g begins an access: it races with those in progress when one of them writes.
Begin(g, at) ==
  /\ pc' = [pc EXCEPT ![g] = at]
  /\ LET others == Accessing \ {g}
         meets  == IF at = "write" THEN others ELSE Writing \ {g}
     IN /\ raced' = (raced \ {g}) \cup meets \cup {x \in {g} : meets # {}}
        /\ overlapped' = (overlapped \/ meets # {})

LockFree(k) == \A g \in Goroutines : key[g] # k

\* withShardLock, and the first look at the map.
Enter(g, k) ==
  /\ ~thrown /\ pc[g] = "idle" /\ LockFree(k)
  /\ key' = [key EXCEPT ![g] = k]
  /\ Begin(g, "check")
  /\ UNCHANGED <<known, shards, next, held, thrown>>

\* An access that raced may end the process, or find no shard where there is one.
Throw(g) ==
  /\ ~thrown /\ g \in raced /\ g \in Accessing
  /\ thrown' = TRUE
  /\ UNCHANGED <<known, shards, next, pc, key, held, raced, overlapped>>

NeverThere(g) == TRUE   \* mutant: a shard is made by every call
Missing(g)    == shards[key[g]] = 0

Check(g) ==
  /\ ~thrown /\ pc[g] = "check"
  /\ \/ (Missing(g) \/ g \in raced) /\ next <= MaxShards /\ Begin(g, "write")
     \/ ~Missing(g) /\ Begin(g, "return")
  /\ UNCHANGED <<known, shards, next, key, held, thrown>>

\* A write that raced may be lost.
Write(g) ==
  /\ ~thrown /\ pc[g] = "write"
  /\ next' = next + 1
  /\ \/ shards' = [shards EXCEPT ![key[g]] = next]
     \/ g \in raced /\ UNCHANGED shards
  /\ Begin(g, "return")
  /\ UNCHANGED <<known, key, held, thrown>>

Return(g) ==
  /\ ~thrown /\ pc[g] = "return"
  /\ \E n \in {shards[key[g]]} \cup {x \in {0} : g \in raced} : held' = [held EXCEPT ![g] = n]
  /\ pc' = [pc EXCEPT ![g] = "use"]
  /\ raced' = raced \ {g}
  /\ UNCHANGED <<known, shards, next, key, overlapped, thrown>>

\* The shard is used, and the lock of the key released.
Leave(g) ==
  /\ ~thrown /\ pc[g] = "use"
  /\ pc' = [pc EXCEPT ![g] = "idle"]
  /\ key' = [key EXCEPT ![g] = NoKey]
  /\ held' = [held EXCEPT ![g] = 0]
  /\ UNCHANGED <<known, shards, next, raced, overlapped, thrown>>

Next ==
  \E g \in Goroutines :
    \/ \E k \in Keys : Enter(g, k)
    \/ Check(g) \/ Write(g) \/ Return(g) \/ Leave(g) \/ Throw(g)

Spec == Init /\ [][Next]_vars

(***************************************************************************)
(* Properties                                                              *)
(***************************************************************************)
\* No two goroutines are ever given the same shard, not even those whose accesses have
\* overlapped with writes that went lost: each key is locked, and a shard is made for
\* one key only (withShardLock, getShard).
ShardsExclusive == \A g, h \in Goroutines : held[g] = held[h] /\ held[g] # 0 => g = h

\* As long as no accesses have overlapped, a key keeps its shard and every goroutine
\* gets that one: the baskets of one shard would be out of reach of the deposits of
\* another (getShard checks, makes and reads in three accesses).
OneShard ==
  ~overlapped =>
    /\ \A g \in Goroutines : pc[g] = "use" => held[g] # 0 /\ held[g] = shards[key[g]]
    /\ \A g \in Goroutines : pc[g] = "write" => shards[key[g]] = 0

\* Accesses can overlap until each key has its shard, and what has overlapped is through.
Closed == raced = {} /\ Writing = {} /\ \A k \in Keys : shards[k] # 0

\* From then on nothing ever overlaps, whatever had before: the map is at risk only
\* while there are orders of a new key ("单进程内：每个内存分片有互斥锁", README.md, is
\* about the shards in it).
StaysClosed == Closed => Closed' /\ overlapped' = overlapped

\* No step makes two goroutines share a shard or gives a key a second one, and the races
\* of the map are those of new keys (getShard).
MapSafe == [][ShardsExclusive' /\ OneShard' /\ StaysClosed]_vars
=============================================================================
