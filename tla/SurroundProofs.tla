--------------------------- MODULE SurroundProofs ---------------------------
(***************************************************************************)
(* Theorems about what surrounds the matching: the minimum of a short      *)
(* match, the life of a process and its health check, its map of shards,   *)
(* the form of a message, the receive loops, the numbers of orders, and    *)
(* the requests.  Each theorem is about one of the models that Service     *)
(* brings together.                                                        *)
(***************************************************************************)
EXTENDS Service, FiniteSets, Sequences, FiniteSetTheorems, SequenceTheorems, TLAPS

-----------------------------------------------------------------------------
(***************************************************************************)
(* The minimum of a short match: for every target whose share does not     *)
(* overflow, the integer arithmetic decides as the exact share does        *)
(***************************************************************************)
\* What fits into the width is not changed by wrapping (the int64 arithmetic of
\* minCompleteAmount).
LEMMA WrapFits ==
  ASSUME NEW x \in Int, 0 <= x, x < Half
  PROVE  Wrap(x) = x
<1> DEFINE m == 2 * Half
           y == x + Half
<1>1. m \in Nat /\ m > 0 /\ y \in Nat /\ y < m
  BY WidthAssumption, SMT
<1>2. ASSUME NEW a \in Nat, NEW b \in Nat, b > 0, a < b
      PROVE  a % b = a
  BY <1>2, SMT
<1>3. y % m = y
  <2> HIDE DEF m, y
  <2> QED  BY <1>1, <1>2, SMT
<1> QED  BY <1>3, WidthAssumption, SMT DEF Wrap

\* The configured rate becomes a share of 1 to 10000 (cfgMinCompleteRate).
LEMMA RateBounded ==
  ASSUME NEW r \in MinRates
  PROVE  CfgMinCompleteRate(r) \in 1..10000
<1>1. r \in Int
  BY WidthAssumption, SMT
<1> QED  BY <1>1, SMT DEF CfgMinCompleteRate

\* Rounding up by adding 9999 before dividing by 10000 compares as the exact
\* share does (minCompleteAmount).
LEMMA RoundedUp ==
  ASSUME NEW c \in Nat, NEW p \in Nat
  PROVE  c >= (p + 9999) \div 10000 <=> c * 10000 >= p
BY SMT

\* The share of a target is a natural number, at most the whole target
\* (cfgMinCompleteRate).
LEMMA ShareBounded ==
  ASSUME NEW t \in Targets, NEW r \in MinRates
  PROVE  /\ t * CfgMinCompleteRate(r) \in Nat
         /\ t * CfgMinCompleteRate(r) <= t * 10000
<1>1. ASSUME NEW a \in Nat, NEW b \in 1..10000
      PROVE  a * b \in Nat /\ a * b <= a * 10000
  BY SMT
<1> DEFINE k == CfgMinCompleteRate(r)
<1>2. t \in Nat
  BY WidthAssumption
<1>3. k \in 1..10000
  BY RateBounded, SMTT(20)
<1> HIDE DEF k
<1>4. t * k \in Nat /\ t * k <= t * 10000
  BY <1>1, <1>2, <1>3, SMTT(20)
<1> QED  BY <1>4 DEF k

\* Without overflow the minimum is the share of the target, rounded up
\* (minCompleteAmount).
LEMMA MinimumIsExact ==
  ASSUME Representable, NEW t \in Targets, NEW r \in MinRates
  PROVE  MinCompleteAmount(t, r) = (t * CfgMinCompleteRate(r) + 9999) \div 10000
<1> DEFINE p == t * CfgMinCompleteRate(r)
           q == p + 9999
<1>1. t \in Nat /\ ~(t <= 0) /\ Half \in Nat
  BY WidthAssumption, SMT
<1>2. p \in Nat /\ p <= t * 10000
  BY ShareBounded, SMT
<1>3. t * 10000 + 9999 < Half
  BY SMT DEF Representable
<1>4. MinCompleteAmount(t, r) = Quotient(Wrap(Wrap(p) + 9999), 10000)
  BY <1>1, SMT DEF MinCompleteAmount
<1> HIDE DEF p
<1>5. t * 10000 \in Nat
  BY WidthAssumption, SMT
<1>6. /\ p \in Int /\ 0 <= p /\ p < Half
      /\ q \in Int /\ 0 <= q /\ q < Half
  BY <1>1, <1>2, <1>3, <1>5, SMT
<1> HIDE DEF q
<1>7. Wrap(p) = p /\ Wrap(q) = q
  BY <1>6, WrapFits, SMT
<1>8. Quotient(q, 10000) = q \div 10000
  BY <1>6, SMT DEF Quotient
<1> QED  BY <1>4, <1>7, <1>8, SMT DEF p, q

\* canCompletePartial decides on the exact share of what the basket holds.
LEMMA DecidedByShare ==
  ASSUME Representable, NEW t \in Targets, NEW r \in MinRates, NEW c \in Nat
  PROVE  CanCompletePartial(t, r, c) <=> c > 0 /\ c * 10000 >= t * CfgMinCompleteRate(r)
<1> DEFINE p == t * CfgMinCompleteRate(r)
<1>1. p \in Nat
  BY ShareBounded, SMT
<1>2. MinCompleteAmount(t, r) = (p + 9999) \div 10000
  BY MinimumIsExact, SMT
<1> HIDE DEF p
<1>3. c >= (p + 9999) \div 10000 <=> c * 10000 >= p
  BY <1>1, RoundedUp, SMT
<1> QED  BY <1>2, <1>3, SMT DEF CanCompletePartial, p

\* What ShareDecides needs to be inductive: the numbers have their types.
ShareInv ==
  /\ rate \in MinRates
  /\ target \in Targets
  /\ current \in Nat
  /\ ShareDecides

LEMMA ShareInvStep ==
  ASSUME Representable, ShareInv, [Next]_vars
  PROVE  ShareInv'
<1> USE DEF ShareInv
<1>1. ASSUME NEW amount \in Steps, Attach(amount)
      PROVE  ShareInv'
  BY <1>1, WidthAssumption, SMT DEF Attach, ShareDecides
<1>2. CASE ExpireBasket
  <2>1. CanCompletePartial(target, rate, current)
          <=> current > 0 /\ current * 10000 >= target * CfgMinCompleteRate(rate)
    BY DecidedByShare, SMT
  <2>2. target * CfgMinCompleteRate(rate) \in Nat
    BY ShareBounded, SMT
  <2> DEFINE p == target * CfgMinCompleteRate(rate)
  <2>3. p' = p /\ p \in Nat
    BY <1>2, <2>2, SMT DEF ExpireBasket
  <2>4. ShareDecides' <=> /\ outcome' = "short" => current' > 0 /\ current' * 10000 >= p'
                          /\ outcome' = "expired" => current' = 0 \/ current' * 10000 < p'
    BY SMT DEF ShareDecides
  <2> HIDE DEF p
  <2>5. CanCompletePartial(target, rate, current) <=> current > 0 /\ current * 10000 >= p
    BY <2>1, SMT DEF p
  <2> QED  BY <1>2, <2>3, <2>4, <2>5, SMT DEF ExpireBasket
<1>3. CASE UNCHANGED vars
  BY <1>3, SMT DEF vars, ShareDecides, CfgMinCompleteRate
<1> QED  BY <1>1, <1>2, <1>3, SMT DEF Next

\* For targets below 2^63/10000 a basket is paid out short exactly when it holds
\* the configured share of its target (minCompleteAmount, expireBasket).
THEOREM ShareCorrect == ASSUME Representable PROVE Spec => []ShareDecides
<1>1. Init => ShareInv
  BY WidthAssumption, SMT DEF Init, ShareInv, ShareDecides
<1>2. ShareInv /\ [Next]_vars => ShareInv'
  BY ShareInvStep, SMT
<1>3. ShareInv => ShareDecides
  BY SMT DEF ShareInv
<1> QED  BY <1>1, <1>2, <1>3, PTL DEF Spec

\* A share of a positive target is positive (cfgMinCompleteRate).
LEMMA SharePositive ==
  ASSUME NEW t \in Targets, NEW r \in MinRates
  PROVE  t * CfgMinCompleteRate(r) > 0
<1> DEFINE k == CfgMinCompleteRate(r)
<1>1. t \in Nat /\ t > 0
  BY WidthAssumption
<1>2. k \in 1..10000
  BY RateBounded, SMTT(20)
<1> HIDE DEF k
<1>3. t * k > 0
  BY <1>1, <1>2
<1> QED  BY <1>3 DEF k

\* Without overflow the minimum lies between 1 and the target
\* (minCompleteAmount).
LEMMA MinimumInTarget ==
  ASSUME Representable, NEW t \in Targets, NEW r \in MinRates
  PROVE  1 <= MinCompleteAmount(t, r) /\ MinCompleteAmount(t, r) <= t
<1> DEFINE p == t * CfgMinCompleteRate(r)
<1>1. t \in Nat /\ p \in Nat /\ p > 0 /\ p <= t * 10000
  BY WidthAssumption, ShareBounded, SharePositive, SMT
<1>2. MinCompleteAmount(t, r) = (p + 9999) \div 10000
  BY MinimumIsExact, SMT
<1> HIDE DEF p
<1>3. 1 <= (p + 9999) \div 10000 /\ (p + 9999) \div 10000 <= t
  BY <1>1, SMT
<1> QED  BY <1>2, <1>3, SMT

\* Whatever rate is configured, the minimum of a target below 2^63/10000 lies
\* between 1 and the target (minCompleteAmount).
THEOREM ReachableCorrect == ASSUME Representable PROVE Spec => []Reachable
<1> DEFINE I == rate \in MinRates /\ target \in Targets
<1>1. Init => I
  BY SMT DEF Init
<1>2. I /\ [Next]_vars => I'
  BY SMT DEF Next, Attach, ExpireBasket, vars
<1>3. I => Reachable
  BY MinimumInTarget, SMT DEF Reachable
<1> QED  BY <1>1, <1>2, <1>3, PTL DEF Spec

-----------------------------------------------------------------------------
(***************************************************************************)
(* The life of a process                                                   *)
(***************************************************************************)
\* Nothing is served before the phase that follows the recovery.
RecoveredInv ==
  /\ phase \in {"servers", "running", "stopping"} => recovered
  /\ busy # {} => recovered

\* What has answered a check so far was up when it was asked, and live remembers it.
CheckInv ==
  /\ check \in [at : {"none", "mysql", "redis", "rocketmq", "answered"}, ok : SUBSET Health!Deps]
  /\ check.at # "none" => up \cup (check.ok \cap {"mysql", "redis"}) \subseteq live

\* Assembling sets recovered in one place, before any server exists.
LEMMA RecoveredStep ==
  ASSUME RecoveredInv, [Process!Next]_Process!vars
  PROVE  RecoveredInv'
<1> USE DEF RecoveredInv
<1>1. CASE Process!Assemble
  BY <1>1 DEF Process!Assemble, Process!SetTracerProvider, Process!InitSentry, Process!OpenData,
     Process!OpenLock, Process!NewUsecase, Process!NewServers, Process!Fail, Process!Panic,
     Process!Rest, Process!RecoverNow
<1>2. CASE Process!Signal \/ Process!Drain
  BY <1>2 DEF Process!Signal, Process!Drain, Process!Same, Process!assembly
<1>3. ASSUME NEW s \in Process!Servers,
             \/ Process!Start(s) \/ Process!StartFails(s)
             \/ Process!Begin(s) \/ Process!End(s) \/ Process!Stop(s)
      PROVE  RecoveredInv'
  BY <1>3 DEF Process!Start, Process!StartFails, Process!Starting, Process!Begin, Process!End,
     Process!Stop, Process!Same, Process!assembly
<1>4. CASE UNCHANGED Process!vars
  BY <1>4 DEF Process!vars, Process!assembly
<1>5. QED
  BY <1>1, <1>2, <1>3, <1>4 DEF Process!Next

\* A dependency counts as answering only if it is up, but for the broker.
LEMMA CheckStep ==
  ASSUME CheckInv, [Health!Next]_Health!vars
  PROVE  CheckInv'
<1> USE DEF CheckInv
<1>1. CASE Health!CheckBegins
  BY <1>1 DEF Health!CheckBegins
<1>2. CASE Health!AskNext
  <2>1. PICK ok \in Health!Answers(check.at) :
          check' = [at |-> Health!After[check.at],
                    ok |-> check.ok \cup {d \in {check.at} : ok}]
    BY <1>2 DEF Health!AskNext
  <2>2. check.at \in Health!Deps /\ UNCHANGED <<up, live>>
    BY <1>2 DEF Health!AskNext
  <2>3. ok => check.at \in up \/ check.at = "rocketmq"
    <3>1. CASE check.at \in up
      BY <3>1
    <3>2. CASE check.at \notin up
      BY <3>2, Zenon DEF Health!Answers
    <3>3. QED
      BY <3>1, <3>2
  <2>4. check'.ok = check.ok \/ (ok /\ check'.ok = check.ok \cup {check.at})
    BY <2>1
  <2>5. check' \in [at : {"redis", "rocketmq", "answered"}, ok : SUBSET Health!Deps]
    BY <2>1, <2>2, <2>4 DEF Health!Deps, Health!After
  <2>6. QED
    BY <2>2, <2>3, <2>4, <2>5 DEF Health!Deps
<1>3. CASE Health!TimesOut
  BY <1>3 DEF Health!TimesOut, Health!Deps, Health!After
<1>4. ASSUME NEW d \in Health!Deps, Health!Outage(d) PROVE CheckInv'
  BY <1>4 DEF Health!Outage
<1>5. CASE UNCHANGED Health!vars
  BY <1>5 DEF Health!vars
<1>6. QED
  BY <1>1, <1>2, <1>3, <1>4, <1>5 DEF Health!Next

\* For every configuration, and with servers, requests, outages and checks in any
\* order: nothing is served before the baskets are in the pool, and a check that says
\* ok has found MySQL and Redis up (NewMatchingUsecase, App.Run, HealthChecker.Check).
THEOREM ProcessCorrect == Process!Spec /\ Health!Spec => []ProcessSafe
<1>1. Process!Init => RecoveredInv
  BY DEF Process!Init, RecoveredInv
<1>2. RecoveredInv /\ [Process!Next]_Process!vars => RecoveredInv'
  BY RecoveredStep
<1>3. Health!Init => CheckInv
  BY DEF Health!Init, CheckInv, Health!NoCheck
<1>4. CheckInv /\ [Health!Next]_Health!vars => CheckInv'
  BY CheckStep
<1>5. RecoveredInv /\ CheckInv => ProcessSafe
  BY DEF RecoveredInv, CheckInv, ProcessSafe, Process!RecoveredFirst, Health!HealthTrue,
     Health!Reply, Health!Healthy, Health!Deps
<1>6. QED
  BY <1>1, <1>2, <1>3, <1>4, <1>5, PTL DEF Process!Spec, Health!Spec

-----------------------------------------------------------------------------
(***************************************************************************)
(* The map of shards                                                       *)
(***************************************************************************)
MapTyped ==
  /\ known \subseteq Keys /\ shards \in [Keys -> Nat] /\ next \in Nat \ {0}
  /\ pc \in [Goroutines -> {"idle", "check", "write", "return", "use"}]
  /\ key \in [Goroutines -> Keys \cup {NoKey}] /\ held \in [Goroutines -> Nat]
  /\ overlapped \in BOOLEAN

\* A goroutine in getShard holds the lock of its key, and nobody else does.
KeysLocked ==
  /\ \A g \in Goroutines : pc[g] # "idle" => key[g] \in Keys
  /\ \A g, h \in Goroutines : key[g] \in Keys /\ key[g] = key[h] => g = h

\* As long as no accesses have overlapped, who writes is alone in the map, and each
\* goroutine knows of its key what the map says.
NoOverlap ==
  ~overlapped =>
    /\ raced = {}
    /\ \A g, h \in Goroutines : pc[g] = "write" /\ pc[h] \in {"check", "write", "return"} => g = h
    /\ \A g \in Goroutines :
         /\ pc[g] = "write" => shards[key[g]] = 0
         /\ pc[g] = "return" => shards[key[g]] # 0
         /\ pc[g] = "use" => held[g] # 0 /\ held[g] = shards[key[g]]

\* No two keys have one shard, and a goroutine uses that of its key, whatever has been
\* overwritten or lost, or none at all.
OwnShards ==
  /\ \A k \in Keys : shards[k] < next
  /\ \A k, l \in Keys : shards[k] = shards[l] /\ shards[k] # 0 => k = l
  /\ \A g \in Goroutines : held[g] # 0 => pc[g] = "use" /\ held[g] = shards[key[g]]

MapInv == MapTyped /\ KeysLocked /\ NoOverlap /\ OwnShards

\* The recovery gives each key it knows a shard.
LEMMA MapStarts ==
  ASSUME Map!ShardMapAssumption, Map!Init
  PROVE  MapInv
<1> USE DEF Map!ShardMapAssumption, Map!Init
<1>1. IsFiniteSet(Keys) /\ Map!Cardinality(known) = Cardinality(known)
  BY DEF Map!IsFiniteSet, IsFiniteSet, Map!Cardinality, Cardinality
<1>2. Cardinality(known) \in Nat
  BY <1>1, FS_Subset, FS_CardinalityType
<1>3. PICK f \in [known -> 1..Cardinality(known)] :
        /\ \A k, l \in known : k # l => f[k] # f[l]
        /\ shards = [k \in Keys |-> IF k \in known THEN f[k] ELSE 0]
  BY <1>1
<1>4. shards \in [Keys -> Nat] /\ \A k \in known : shards[k] # 0
  <2>. HIDE DEF Map!Init, Map!ShardMapAssumption
  <2>1. known \subseteq Keys
    BY DEF Map!Init
  <2>2. \A k \in known : f[k] \in Nat \ {0}
    BY <1>2, <1>3
  <2>3. \A k \in Keys : shards[k] = (IF k \in known THEN f[k] ELSE 0)
    BY <1>3
  <2>4. \A k \in Keys : shards[k] \in Nat
    BY <2>2, <2>3
  <2>5. shards = [k \in Keys |-> shards[k]]
    BY <1>3
  <2>6. shards \in [Keys -> Nat]
    BY <2>4, <2>5
  <2>7. ASSUME NEW k \in known PROVE shards[k] # 0
    <3>1. shards[k] = f[k]
      BY <2>1, <2>3
    <3>2. QED
      BY <2>2, <3>1
  <2>8. QED
    BY <2>6, <2>7
<1>5. MapTyped
  <2>. HIDE DEF Map!ShardMapAssumption
  <2>1. next \in Nat \ {0}
    BY <1>1, <1>2, SMT
  <2>2. overlapped \in BOOLEAN /\ known \subseteq Keys
    OBVIOUS
  <2>3. /\ pc \in [Goroutines -> {"idle", "check", "write", "return", "use"}]
        /\ key \in [Goroutines -> Keys \cup {NoKey}] /\ held \in [Goroutines -> Nat]
    OBVIOUS
  <2>4. QED
    BY <1>4, <2>1, <2>2, <2>3 DEF MapTyped
<1>6. KeysLocked /\ NoOverlap
  BY <1>4 DEF KeysLocked, NoOverlap
<1>7. OwnShards
  <2>. HIDE DEF Map!ShardMapAssumption, Map!Init
  <2>1. next = Cardinality(known) + 1 /\ held = [g \in Goroutines |-> 0]
    BY <1>1 DEF Map!Init
  <2>2. \A k \in Keys : shards[k] = (IF k \in known THEN f[k] ELSE 0)
    BY <1>3
  <2>3. \A k \in known : f[k] \in Nat /\ f[k] # 0 /\ f[k] < next
    BY <1>2, <1>3, <2>1
  <2>4. \A k \in Keys : shards[k] < next
    BY <1>2, <2>1, <2>2, <2>3
  <2>5. \A k, l \in Keys : shards[k] = shards[l] /\ shards[k] # 0 => k = l
    BY <1>3, <2>2
  <2>6. QED
    BY <2>1, <2>4, <2>5 DEF OwnShards
<1>8. QED
  BY <1>5, <1>6, <1>7 DEF MapInv

\* An access that meets no writer, and no reader if it writes, overlaps none.
LEMMA BeginAlone ==
  ASSUME NEW g \in Goroutines, NEW at \in {"check", "write", "return"}, Map!Begin(g, at),
         MapTyped, NoOverlap
  PROVE  /\ pc' = [pc EXCEPT ![g] = at] /\ overlapped' \in BOOLEAN
         /\ ~overlapped' =>
              /\ ~overlapped /\ raced' = {}
              /\ \A h \in Goroutines \ {g} :
                   /\ pc[h] # "write"
                   /\ at = "write" => pc[h] \notin {"check", "write", "return"}
         /\ at # "write" /\ ~overlapped /\ (\A h \in Goroutines : pc[h] # "write") => ~overlapped'
<1> DEFINE others == Map!Accessing \ {g}
           meets  == IF at = "write" THEN others ELSE Map!Writing \ {g}
<1>1. /\ pc' = [pc EXCEPT ![g] = at]
      /\ raced' = (raced \ {g}) \cup meets \cup {x \in {g} : meets # {}}
      /\ overlapped' = (overlapped \/ meets # {})
  BY DEF Map!Begin
<1>2. meets = {} => \A h \in Goroutines \ {g} :
        pc[h] # "write" /\ (at = "write" => pc[h] \notin {"check", "write", "return"})
  BY DEF Map!Accessing, Map!Writing
<1>3. at # "write" /\ (\A h \in Goroutines : pc[h] # "write") => meets = {}
  BY DEF Map!Writing
<1> HIDE DEF meets
<1>4. overlapped' \in BOOLEAN /\ (~overlapped' <=> ~overlapped /\ meets = {})
  BY <1>1, Zenon DEF MapTyped
<1>5. ~overlapped' => raced' = {}
  BY <1>1, <1>4 DEF NoOverlap
<1>6. QED
  BY <1>1, <1>2, <1>3, <1>4, <1>5

LEMMA MapStep ==
  ASSUME Map!ShardMapAssumption, MapInv, [Map!Next]_Map!vars
  PROVE  MapInv'
<1> USE DEF MapInv
<1>1. ASSUME NEW g \in Goroutines, NEW k \in Keys, Map!Enter(g, k) PROVE MapInv'
  <2>1. /\ pc[g] = "idle" /\ (\A h \in Goroutines : key[h] # k)
        /\ key' = [key EXCEPT ![g] = k] /\ Map!Begin(g, "check")
        /\ UNCHANGED <<known, shards, next, held>>
    BY <1>1 DEF Map!Enter, Map!LockFree
  <2>2. /\ pc' = [pc EXCEPT ![g] = "check"] /\ overlapped' \in BOOLEAN
        /\ ~overlapped' => /\ ~overlapped /\ raced' = {}
                           /\ \A h \in Goroutines \ {g} : pc[h] # "write"
        /\ ~overlapped /\ (\A h \in Goroutines : pc[h] # "write") => ~overlapped'
    BY <2>1, BeginAlone
  <2>3. MapTyped' /\ KeysLocked'
    BY <2>1, <2>2 DEF MapTyped, KeysLocked
  <2>4. NoOverlap'
    BY <2>1, <2>2 DEF MapTyped, NoOverlap
  <2>5. OwnShards'
    BY <2>1, <2>2 DEF MapTyped, OwnShards
  <2>6. QED
    BY <2>3, <2>4, <2>5
<1>2. ASSUME NEW g \in Goroutines, Map!Check(g) PROVE MapInv'
  <2>1. PICK at \in {"write", "return"} :
          /\ at = "write" => Map!Missing(g) \/ g \in raced
          /\ at = "return" => ~Map!Missing(g)
          /\ Map!Begin(g, at)
    BY <1>2 DEF Map!Check
  <2>2. pc[g] = "check" /\ UNCHANGED <<known, shards, next, key, held>>
    BY <1>2 DEF Map!Check
  <2>3. /\ pc' = [pc EXCEPT ![g] = at] /\ overlapped' \in BOOLEAN
        /\ ~overlapped' =>
             /\ ~overlapped /\ raced' = {}
             /\ \A h \in Goroutines \ {g} :
                  /\ pc[h] # "write"
                  /\ at = "write" => pc[h] \notin {"check", "write", "return"}
        /\ at # "write" /\ ~overlapped /\ (\A h \in Goroutines : pc[h] # "write") => ~overlapped'
    BY <2>1, BeginAlone
  <2>4. key[g] \in Keys
    BY <2>2 DEF KeysLocked
  <2>5. MapTyped' /\ KeysLocked'
    BY <2>2, <2>3 DEF MapTyped, KeysLocked
  <2>6. ~overlapped => (at = "write" <=> shards[key[g]] = 0)
    BY <2>1 DEF NoOverlap, Map!Missing
  <2>7. NoOverlap'
    BY <2>2, <2>3, <2>6 DEF MapTyped, NoOverlap
  <2>8. OwnShards'
    BY <2>2, <2>3 DEF MapTyped, OwnShards
  <2>9. QED
    BY <2>5, <2>7, <2>8
<1>3. ASSUME NEW g \in Goroutines, Map!Write(g) PROVE MapInv'
  <2>1. /\ pc[g] = "write" /\ next' = next + 1 /\ Map!Begin(g, "return")
        /\ shards' = [shards EXCEPT ![key[g]] = next] \/ (g \in raced /\ shards' = shards)
        /\ UNCHANGED <<known, key, held>>
    BY <1>3 DEF Map!Write
  <2>2. /\ pc' = [pc EXCEPT ![g] = "return"] /\ overlapped' \in BOOLEAN
        /\ ~overlapped' => /\ ~overlapped /\ raced' = {}
                           /\ \A h \in Goroutines \ {g} : pc[h] # "write"
    BY <2>1, BeginAlone
  <2>3. key[g] \in Keys /\ \A h \in Goroutines : key[h] = key[g] => h = g
    BY <2>1 DEF KeysLocked
  <2>4. MapTyped' /\ KeysLocked'
    BY <2>1, <2>2 DEF MapTyped, KeysLocked
  <2>5. ~overlapped => shards' = [shards EXCEPT ![key[g]] = next]
    BY <2>1 DEF NoOverlap
  <2>6. NoOverlap'
    BY <2>1, <2>2, <2>3, <2>5 DEF MapTyped, KeysLocked, NoOverlap
  <2>7. OwnShards'
    <3>1. held[g] = 0
      BY <2>1 DEF OwnShards
    <3>2. CASE shards' = shards
      BY <2>1, <2>2, <3>1, <3>2 DEF MapTyped, OwnShards
    <3>3. CASE shards' = [shards EXCEPT ![key[g]] = next]
      <4>1. \A k \in Keys : shards'[k] = IF k = key[g] THEN next ELSE shards[k]
        BY <3>3 DEF MapTyped
      <4>2. \A k \in Keys : shards[k] \in Nat /\ shards[k] < next /\ next \in Nat
        BY DEF MapTyped, OwnShards
      <4>3. \A k \in Keys : shards'[k] < next'
        BY <2>1, <4>1, <4>2
      <4>4. \A k, l \in Keys : shards'[k] = shards'[l] /\ shards'[k] # 0 => k = l
        BY <4>1, <4>2 DEF OwnShards
      <4>5. ASSUME NEW h \in Goroutines, held'[h] # 0
            PROVE  pc'[h] = "use" /\ held'[h] = shards'[key'[h]]
        <5>1. h # g /\ held'[h] = held[h]
          BY <2>1, <3>1, <4>5
        <5>2. pc[h] = "use" /\ held[h] = shards[key[h]]
          BY <4>5, <5>1 DEF OwnShards
        <5>3. key[h] \in Keys /\ key[h] # key[g]
          BY <2>3, <5>1, <5>2 DEF KeysLocked
        <5>4. QED
          BY <2>1, <2>2, <4>1, <5>1, <5>2, <5>3 DEF MapTyped
      <4>6. QED
        BY <4>3, <4>4, <4>5 DEF OwnShards
    <3>4. QED
      BY <2>1, <3>2, <3>3
  <2>8. QED
    BY <2>4, <2>6, <2>7
<1>4. ASSUME NEW g \in Goroutines, Map!Return(g) PROVE MapInv'
  <2>1. /\ pc[g] = "return" /\ pc' = [pc EXCEPT ![g] = "use"]
        /\ \E n \in {shards[key[g]]} \cup {x \in {0} : g \in raced} : held' = [held EXCEPT ![g] = n]
        /\ raced' = raced \ {g} /\ UNCHANGED <<known, shards, next, key, overlapped>>
    BY <1>4 DEF Map!Return
  <2>2. PICK n \in {0, shards[key[g]]} :
          held' = [held EXCEPT ![g] = n] /\ (g \notin raced => n = shards[key[g]])
    BY <2>1
  <2>3. key[g] \in Keys
    BY <2>1 DEF KeysLocked
  <2>4. MapTyped' /\ KeysLocked' /\ OwnShards'
    BY <2>1, <2>2, <2>3 DEF MapTyped, KeysLocked, OwnShards
  <2>5. NoOverlap'
    BY <2>1, <2>2 DEF MapTyped, NoOverlap
  <2>6. QED
    BY <2>4, <2>5
<1>5. ASSUME NEW g \in Goroutines, Map!Leave(g) PROVE MapInv'
  <2>1. /\ pc[g] = "use" /\ pc' = [pc EXCEPT ![g] = "idle"]
        /\ key' = [key EXCEPT ![g] = NoKey] /\ held' = [held EXCEPT ![g] = 0]
        /\ UNCHANGED <<known, shards, next, raced, overlapped>> /\ NoKey \notin Keys
    BY <1>5 DEF Map!Leave, Map!ShardMapAssumption
  <2>2. MapTyped' /\ KeysLocked' /\ OwnShards'
    BY <2>1 DEF MapTyped, KeysLocked, OwnShards
  <2>3. NoOverlap'
    BY <2>1 DEF MapTyped, NoOverlap
  <2>4. QED
    BY <2>2, <2>3
<1>6. ASSUME UNCHANGED <<known, shards, next, pc, key, held, raced, overlapped>> PROVE MapInv'
  BY <1>6 DEF MapTyped, KeysLocked, NoOverlap, OwnShards
<1>7. ASSUME NEW g \in Goroutines, Map!Throw(g) PROVE MapInv'
  BY <1>6, <1>7 DEF Map!Throw
<1>8. CASE UNCHANGED Map!vars
  BY <1>6, <1>8 DEF Map!vars
<1>9. QED
  BY <1>1, <1>2, <1>3, <1>4, <1>5, <1>7, <1>8 DEF Map!Next

\* What is given to two goroutines is of two keys, each with a shard of its own.
LEMMA MapInvSafe ==
  ASSUME Map!ShardMapAssumption, MapInv
  PROVE  Map!ShardsExclusive /\ Map!OneShard
<1>1. ASSUME NEW g \in Goroutines, NEW h \in Goroutines, held[g] = held[h], held[g] # 0
      PROVE  g = h
  <2>1. /\ pc[g] # "idle" /\ pc[h] # "idle"
        /\ held[g] = shards[key[g]] /\ held[h] = shards[key[h]]
    BY <1>1 DEF MapInv, OwnShards
  <2>2. key[g] \in Keys /\ key[h] \in Keys
    BY <2>1 DEF MapInv, KeysLocked
  <2>3. key[g] = key[h]
    BY <1>1, <2>1, <2>2 DEF MapInv, OwnShards
  <2>4. QED
    BY <2>2, <2>3 DEF MapInv, KeysLocked
<1>2. QED
  BY <1>1 DEF MapInv, NoOverlap, Map!ShardsExclusive, Map!OneShard

\* Who enters a map in which every key has its shard only reads it.
LEMMA ClosedStays ==
  ASSUME MapInv, [Map!Next]_Map!vars
  PROVE  Map!StaysClosed
<1> SUFFICES ASSUME Map!Closed
             PROVE  Map!Closed' /\ overlapped' = overlapped
  BY DEF Map!StaysClosed
<1>1. raced = {} /\ (\A g \in Goroutines : pc[g] # "write") /\ (\A k \in Keys : shards[k] # 0)
  BY DEF Map!Closed, Map!Writing
<1>2. ASSUME NEW g \in Goroutines, NEW at \in {"check", "return"}, Map!Begin(g, at), shards' = shards
      PROVE  Map!Closed' /\ overlapped' = overlapped
  <2>1. Map!Writing = {}
    BY <1>1 DEF Map!Writing
  <2>2. pc' = [pc EXCEPT ![g] = at] /\ raced' = {} /\ (overlapped' = (overlapped \/ FALSE))
    BY <1>1, <1>2, <2>1 DEF Map!Begin
  <2>3. overlapped' = overlapped
    BY <2>2 DEF MapInv, MapTyped
  <2>4. \A h \in Goroutines : pc'[h] # "write"
    BY <1>1, <2>2 DEF MapInv, MapTyped
  <2>5. QED
    BY <1>1, <1>2, <2>2, <2>3, <2>4 DEF Map!Closed, Map!Writing
<1>3. ASSUME NEW g \in Goroutines, NEW k \in Keys, Map!Enter(g, k)
      PROVE  Map!Closed' /\ overlapped' = overlapped
  BY <1>2, <1>3 DEF Map!Enter
<1>4. ASSUME NEW g \in Goroutines, Map!Check(g)
      PROVE  Map!Closed' /\ overlapped' = overlapped
  <2>1. pc[g] = "check" /\ shards' = shards
    BY <1>4 DEF Map!Check
  <2>2. key[g] \in Keys
    BY <2>1 DEF MapInv, KeysLocked
  <2>3. ~Map!Missing(g) /\ g \notin raced
    BY <1>1, <2>2 DEF Map!Missing
  <2>4. QED
    BY <1>2, <1>4, <2>1, <2>3 DEF Map!Check
<1>5. ASSUME NEW g \in Goroutines, Map!Write(g) \/ Map!Throw(g) PROVE FALSE
  BY <1>1, <1>5 DEF Map!Write, Map!Throw
<1>6. ASSUME NEW g \in Goroutines, Map!Return(g) \/ Map!Leave(g)
      PROVE  Map!Closed' /\ overlapped' = overlapped
  BY <1>1, <1>6 DEF Map!Return, Map!Leave, Map!Closed, Map!Writing, MapInv, MapTyped
<1>7. CASE UNCHANGED Map!vars
  BY <1>1, <1>7 DEF Map!vars, Map!Closed, Map!Writing
<1>8. QED
  BY <1>3, <1>4, <1>5, <1>6, <1>7 DEF Map!Next

\* For any number of goroutines and keys, with accesses that overlap, lose a write or
\* miss an entry: no two goroutines get one shard; as long as none has overlapped, a
\* key keeps its one shard; and none overlap any more once each key has one (getShard).
THEOREM MapCorrect == Map!Spec => MapSafe
<1>1. Map!Init => MapInv
  BY MapAssumption, MapStarts
<1>2. MapInv /\ [Map!Next]_Map!vars => MapInv'
  BY MapAssumption, MapStep
<1>3. MapInv' => Map!ShardsExclusive' /\ Map!OneShard'
  <2>1. MapInv => Map!ShardsExclusive /\ Map!OneShard
    BY MapAssumption, MapInvSafe
  <2>2. QED
    BY <2>1, PTL
<1>4. MapInv /\ [Map!Next]_Map!vars => Map!StaysClosed
  BY ClosedStays
<1>5. MapInv /\ MapInv' /\ [Map!Next]_Map!vars
        => [Map!ShardsExclusive' /\ Map!OneShard' /\ Map!StaysClosed]_Map!vars
  BY <1>3, <1>4
<1>6. QED
  BY <1>1, <1>2, <1>5, PTL DEF Map!Spec, MapSafe, Map!MapSafe

-----------------------------------------------------------------------------
(***************************************************************************)
(* The form of a message                                                   *)
(***************************************************************************)
EventIds == Events \cup {NoEvent}
PBs      == {Form!ToPB(o) : o \in Orders}
Msg == [topic : {"deposit", "withdraw"}, group : STRING,
        body : [event_id : EventIds, eventId : EventIds, data : PBs],
        from : {"producer", "replay"}, attempts : Nat, tried : Nat,
        state : {"delayed", "visible", "acked", "dead"}]

\* A message is addressed as its data says; one of the producer can be decoded, and was
\* tried by the use case at every attempt; none is given up before the last attempt.
WellFormed(m) ==
  /\ m.topic = m.body.data.kind /\ m.group = m.body.data.shard
  /\ m.from = "producer" => m.body.event_id # NoEvent /\ m.tried = m.attempts
  /\ m.state \in {"delayed", "visible"} => m.attempts < MaxAttempts
  /\ m.state = "dead" => m.attempts = MaxAttempts

FormInv ==
  /\ message \in Seq(Msg)
  /\ \A i \in DOMAIN message : WellFormed(message[i])
  /\ Form!TakenAsSent

\* What is encoded and decoded is the order, and what is encoded can be decoded
\* (depositToPB, basketToPB, depositPBToModel, withdrawPBToModel).
LEMMA RoundTrip ==
  ASSUME Form!MessageAssumption, NEW o \in Orders
  PROVE  /\ Form!ToPB(o).kind = o.kind /\ Form!ToPB(o).shard = o.shard
         /\ Form!ToPB(o).expire # "string" /\ Form!FromPB(Form!ToPB(o)) = o
         /\ o.kind \in {"deposit", "withdraw"} /\ o.shard \in STRING
<1>1. o \in Form!Order
  BY DEF Form!MessageAssumption
<1> DEFINE x == Form!ToPB(o)
<1>2. /\ DOMAIN x = DOMAIN o /\ x.expire = Form!TimeToJSON(o.expire)
      /\ \A f \in DOMAIN o \ {"expire"} : x[f] = o[f]
  BY <1>1 DEF Form!ToPB, Form!Order
<1>3. Form!TimeFromJSON(x.expire) = o.expire /\ x.expire # "string"
  BY <1>1, <1>2 DEF Form!TimeToJSON, Form!TimeFromJSON, Form!Order, Form!Times
<1>4. x.kind = o.kind /\ x.shard = o.shard
  BY <1>1, <1>2 DEF Form!Order
<1>5. Form!FromPB(x) = o
  BY <1>1, <1>2, <1>3, Zenon DEF Form!FromPB, Form!Order
<1>6. QED
  BY <1>1, <1>3, <1>4, <1>5 DEF Form!Order, Form!Kinds

\* The same of the data of any message.
LEMMA DataKept ==
  ASSUME Form!MessageAssumption, NEW m \in Msg
  PROVE  /\ Form!FromPB(m.body.data) \in Orders
         /\ Form!FromPB(m.body.data).kind = m.body.data.kind
         /\ m.body.data.kind \in {"deposit", "withdraw"} /\ m.body.data.shard \in STRING
         /\ m.body.data.expire # "string"
<1>1. PICK o \in Orders : m.body.data = Form!ToPB(o)
  BY DEF Msg, PBs
<1>2. QED
  BY <1>1, RoundTrip

\* A message that is sent in good form joins the others.
LEMMA SentKept ==
  ASSUME FormInv, NEW m \in Msg, WellFormed(m), message' = Append(message, m), taken' = taken
  PROVE  FormInv'
<1>1. /\ message' \in Seq(Msg) /\ DOMAIN message' = DOMAIN message \cup {Len(message) + 1}
      /\ message'[Len(message) + 1] = m
      /\ \A i \in DOMAIN message : message'[i] = message[i]
  BY DEF FormInv
<1>2. \A i \in DOMAIN message' : WellFormed(message'[i])
  BY <1>1 DEF FormInv
<1>3. Form!TakenAsSent'
  BY DEF FormInv, Form!TakenAsSent, Form!Topic
<1>4. QED
  BY <1>1, <1>2, <1>3 DEF FormInv, WellFormed

\* One that is changed in good form stays among them.
LEMMA ChangedKept ==
  ASSUME FormInv, NEW i \in DOMAIN message, NEW m \in Msg, WellFormed(m),
         message' = [message EXCEPT ![i] = m], Form!TakenAsSent'
  PROVE  FormInv'
<1>1. /\ message' \in Seq(Msg) /\ DOMAIN message' = DOMAIN message /\ message'[i] = m
      /\ \A j \in DOMAIN message \ {i} : message'[j] = message[j]
  BY DEF FormInv
<1>2. \A j \in DOMAIN message' : WellFormed(message'[j])
  BY <1>1 DEF FormInv
<1>3. QED
  BY <1>1, <1>2 DEF FormInv, WellFormed

LEMMA FormStep ==
  ASSUME Form!MessageAssumption, FormInv, [Form!Next]_Form!vars
  PROVE  FormInv'
<1>1. \A i \in DOMAIN message : message[i] \in Msg /\ WellFormed(message[i])
  BY DEF FormInv
<1>2. MaxAttempts \in Nat \ {0} /\ NoEvent \notin Events
  BY DEF Form!MessageAssumption
<1>3. taken' = taken => Form!TakenAsSent'
  BY DEF FormInv, Form!TakenAsSent, Form!Topic
<1>4. ASSUME NEW o \in Orders, NEW e \in Events, NEW level \in Levels, Form!SendOrder(o, e, level)
      PROVE  FormInv'
  <2> DEFINE m == [topic |-> o.kind, group |-> o.shard,
                   body |-> [event_id |-> e, eventId |-> NoEvent, data |-> Form!ToPB(o)],
                   from |-> "producer", attempts |-> 0, tried |-> 0,
                   state |-> IF Form!Delayed(level) THEN "delayed" ELSE "visible"]
  <2>1. message' = Append(message, m) /\ taken' = taken
    BY <1>4 DEF Form!SendOrder, Form!Send, Form!Topic, Form!Group, Form!Envelope
  <2>2. /\ o.kind \in {"deposit", "withdraw"} /\ o.shard \in STRING
        /\ Form!ToPB(o).kind = o.kind /\ Form!ToPB(o).shard = o.shard /\ Form!ToPB(o) \in PBs
    BY RoundTrip DEF PBs
  <2>3. m \in Msg
    BY <2>2 DEF Msg, EventIds
  <2>4. WellFormed(m)
    BY <1>2, <2>2 DEF WellFormed
  <2> HIDE DEF m
  <2>5. QED
    BY <2>1, <2>3, <2>4, SentKept
<1>5. ASSUME NEW i \in DOMAIN message, Form!Due(i) PROVE FormInv'
  <2> DEFINE m == [message[i] EXCEPT !.state = "visible"]
  <2>1. message[i].state = "delayed" /\ message' = [message EXCEPT ![i] = m] /\ taken' = taken
    BY <1>5 DEF Form!Due
  <2>2. m \in Msg /\ WellFormed(m)
    BY <1>1, <2>1 DEF Msg, WellFormed
  <2> HIDE DEF m
  <2>3. QED
    BY <1>3, <2>1, <2>2, ChangedKept
<1>6. ASSUME NEW i \in DOMAIN message, NEW tried \in {0, 1},
             message[i].state = "visible", message[i].from = "producer" => tried = 1,
             message' = [message EXCEPT ![i] = Form!Failed(message[i], tried)], taken' = taken
      PROVE  FormInv'
  <2> DEFINE m == Form!Failed(message[i], tried)
  <2>1. /\ m.attempts = message[i].attempts + 1 /\ m.tried = message[i].tried + tried
        /\ m.state = IF message[i].attempts + 1 < MaxAttempts THEN "visible" ELSE "dead"
        /\ m.topic = message[i].topic /\ m.group = message[i].group
        /\ m.body = message[i].body /\ m.from = message[i].from
        /\ DOMAIN m = DOMAIN message[i]
    BY <1>1 DEF Form!Failed, Msg
  <2>6. m \in Msg
    <3> DEFINE a == message[i].attempts + 1
               t == message[i].tried + tried
               s == IF a < MaxAttempts THEN "visible" ELSE "dead"
               m1 == [message[i] EXCEPT !.attempts = a]
               m2 == [m1 EXCEPT !.tried = t]
    <3>1. a \in Nat /\ t \in Nat /\ s \in {"visible", "dead"}
      BY <1>1 DEF Msg
    <3>2. m = [m2 EXCEPT !.state = s]
      BY DEF Form!Failed
    <3> HIDE DEF a, t, s, m
    <3>3. m1 \in Msg
      BY <1>1, <3>1 DEF Msg
    <3> HIDE DEF m1
    <3>4. m2 \in Msg
      BY <3>1, <3>3 DEF Msg
    <3> HIDE DEF m2
    <3>5. QED
      BY <3>1, <3>2, <3>4 DEF Msg
  <2>2. message[i].attempts \in Nat /\ message[i].attempts < MaxAttempts
    BY <1>1, <1>6 DEF Msg, WellFormed
  <2> HIDE DEF m
  <2>3. WellFormed(m)
    BY <1>1, <1>2, <1>6, <2>1, <2>2 DEF WellFormed
  <2>4. message' = [message EXCEPT ![i] = m]
    BY <1>6 DEF m
  <2>5. QED
    BY <1>3, <1>6, <2>6, <2>3, <2>4, ChangedKept
<1>7. ASSUME NEW i \in DOMAIN message, Form!Reject(i) PROVE FormInv'
  <2>1. message[i].from # "producer"
    BY <1>1, <1>7, DataKept DEF Form!Reject, Form!Decodable, WellFormed
  <2>2. QED
    BY <1>6, <1>7, <2>1 DEF Form!Reject
<1>8. ASSUME NEW i \in DOMAIN message, Form!Take(i) PROVE FormInv'
  <2> DEFINE m == [message[i] EXCEPT !.state = "acked"]
  <2>1. /\ message' = [message EXCEPT ![i] = m]
        /\ taken' = taken \cup {[event |-> message[i].body.event_id, handler |-> message[i].topic,
                                 order |-> Form!FromPB(message[i].body.data)]}
    BY <1>8 DEF Form!Take
  <2>2. m \in Msg /\ WellFormed(m)
    BY <1>1 DEF Msg, WellFormed
  <2> HIDE DEF m
  <2>3. /\ Form!FromPB(message[i].body.data) \in Orders
        /\ message[i].topic = Form!FromPB(message[i].body.data).kind
    BY <1>1, DataKept DEF WellFormed
  <2>4. Form!TakenAsSent'
    BY <2>1, <2>3 DEF FormInv, Form!TakenAsSent, Form!Topic
  <2>5. QED
    BY <2>1, <2>2, <2>4, ChangedKept
<1>9. ASSUME NEW i \in DOMAIN message, Form!Fail(i) PROVE FormInv'
  BY <1>6, <1>9 DEF Form!Fail
<1>10. ASSUME NEW i \in DOMAIN message, NEW e \in EventIds, Form!Replay(i, e) PROVE FormInv'
  <2> DEFINE data == message[i].body.data
             m == [topic |-> data.kind, group |-> data.shard,
                   body |-> Form!ReplayBody(message[i].body, e), from |-> "replay",
                   attempts |-> 0, tried |-> 0,
                   state |-> IF Form!Delayed(0) THEN "delayed" ELSE "visible"]
  <2>1. message' = Append(message, m) /\ taken' = taken
    BY <1>10 DEF Form!Replay, Form!Send, Form!Topic
  <2>2. /\ Form!ReplayBody(message[i].body, e)
             \in [event_id : EventIds, eventId : EventIds, data : PBs]
        /\ Form!ReplayBody(message[i].body, e).data = data
    BY <1>1 DEF Form!ReplayBody, Msg, EventIds
  <2>3. data.kind \in {"deposit", "withdraw"} /\ data.shard \in STRING
    BY <1>1, DataKept
  <2> HIDE DEF data
  <2>4. m \in Msg
    BY <2>2, <2>3 DEF Msg
  <2>5. WellFormed(m)
    BY <1>2, <2>2 DEF WellFormed
  <2> HIDE DEF m
  <2>6. QED
    BY <2>1, <2>4, <2>5, SentKept
<1>11. CASE UNCHANGED Form!vars
  BY <1>3, <1>11 DEF Form!vars, FormInv, WellFormed
<1>12. QED
  BY <1>4, <1>5, <1>7, <1>8, <1>9, <1>10, <1>11 DEF Form!Next, EventIds

\* For all orders, events and delays, and any number of failures and replays: an order
\* that is sent reaches the handler of its kind as it was sent, its form is never the
\* reason it is refused, and all messages of a shard are in one message group.
THEOREM FormCorrect == Form!Spec => []FormKept
<1>1. Form!Init => FormInv
  BY DEF Form!Init, FormInv, Form!TakenAsSent
<1>2. FormInv /\ [Form!Next]_Form!vars => FormInv'
  BY FormAssumption, FormStep
<1>3. FormInv => FormKept
  <2>1. FormInv => Form!FormAccepted /\ Form!GroupedByShard
    BY DEF FormInv, WellFormed, Form!FormAccepted, Form!GroupedByShard, Form!From
  <2>2. QED
    BY <2>1 DEF FormInv, FormKept, Form!FormKept
<1>4. QED
  BY <1>1, <1>2, <1>3, PTL DEF Form!Spec

-----------------------------------------------------------------------------
(***************************************************************************)
(* The receive loops                                                       *)
(***************************************************************************)
Received == [message : Loop!Messages, receipt : Nat]

LoopTyped ==
  /\ serial \in BOOLEAN
  /\ broker \in [Loop!Messages -> [state : {"visible", "hidden", "acked", "dead"}, attempts : Nat]]
  /\ batch \in [Consumers -> Seq(Received)] /\ running \in [Consumers -> SUBSET Received]
  /\ handled \in Seq(Loop!Messages) /\ failed \subseteq Loop!Messages

Handled == {handled[i] : i \in DOMAIN handled}

\* What a later message need not wait for.
Passed(m) ==
  m \in Handled \/ m \in failed \/ broker[m].state = "dead" \/ ~Loop!HasHandler(m)

\* A message, and one that was sent after it to the same topic.
Precedes(m, n) == m < n /\ Loop!Topic(m) = Loop!Topic(n)

\* What precedes a message that is tried has passed; what precedes one that waits in a
\* batch has passed, is being tried by the same loop, or is ahead of it.
InOrder ==
  serial => \A c \in Consumers, m \in Loop!Messages :
    /\ \A r \in running[c] : Precedes(m, r.message) => Passed(m)
    /\ \A i \in DOMAIN batch[c] :
         Precedes(m, batch[c][i].message) =>
           \/ Passed(m) \/ \E r \in running[c] : r.message = m
           \/ \E j \in DOMAIN batch[c] : j < i /\ batch[c][j].message = m

AckedHandled ==
  \A m \in Loop!Messages : broker[m].state = "acked" => m \in Handled \/ ~Loop!HasHandler(m)

LoopInv == LoopTyped /\ InOrder /\ AckedHandled /\ Loop!FirstTriesInOrder

LEMMA HandledRange == Handled = Loop!Range(handled)
BY DEF Handled, Loop!Range

\* Topics and tags are those the messages were sent with.
LEMMA SameMessages ==
  ASSUME sent' = sent, NEW m
  PROVE  Loop!HasHandler(m)' <=> Loop!HasHandler(m)
BY DEF Loop!Topic, Loop!HasHandler, Loop!TopicKey, Loop!Handlers

\* What is configured is registered under the name it is looked up by (buildTopicKey).
LEMMA HandlerFound ==
  ASSUME Loop!LoopAssumption, NEW m \in Loop!Messages, sent[m] \in Configured
  PROVE  Loop!HasHandler(m)
<1>1. sent[m] = <<sent[m][1], sent[m][2]>>
  BY DEF Loop!LoopAssumption
<1>2. QED
  BY <1>1 DEF Loop!HasHandler, Loop!TopicKey, Loop!Handlers, Loop!Topic

\* What has passed has passed for good, and so has the order of what was handled.
LEMMA PassedStays ==
  ASSUME LoopTyped, failed \subseteq failed', sent' = sent,
         NEW n \in Loop!Messages, handled' = handled \/ handled' = Append(handled, n),
         \A m \in Loop!Messages : broker[m].state = "dead" => broker'[m].state = "dead"
  PROVE  /\ Handled \subseteq Handled'
         /\ \A m \in Loop!Messages : Passed(m) => Passed(m)'
         /\ \A m, l \in Loop!Messages : Loop!Before(m, l) => Loop!Before(m, l)'
         /\ handled' = Append(handled, n) =>
              /\ Handled' = Handled \cup {n}
              /\ \A m \in Handled : Loop!Before(m, n)'
<1>1. CASE handled' = handled
  <2>1. Handled' = Handled /\ \A m, l \in Loop!Messages : Loop!Before(m, l) => Loop!Before(m, l)'
    BY <1>1 DEF Handled, Loop!Before
  <2>2. handled' # Append(handled, n)
    BY <1>1 DEF LoopTyped
  <2>3. QED
    BY <2>1, <2>2, SameMessages DEF Passed
<1>2. CASE handled' = Append(handled, n)
  <2>1. /\ DOMAIN handled' = DOMAIN handled \cup {Len(handled) + 1}
        /\ \A i \in DOMAIN handled : handled'[i] = handled[i] /\ i < Len(handled) + 1
        /\ handled'[Len(handled) + 1] = n
    BY <1>2 DEF LoopTyped
  <2>2. Handled' = Handled \cup {n}
    BY <2>1 DEF Handled
  <2>3. \A m, l \in Loop!Messages : Loop!Before(m, l) => Loop!Before(m, l)'
    BY <2>1 DEF Loop!Before
  <2>4. \A m \in Handled : Loop!Before(m, n)'
    BY <2>1 DEF Loop!Before, Handled
  <2>5. QED
    BY <2>2, <2>3, <2>4, SameMessages DEF Passed
<1>3. QED
  BY <1>1, <1>2

\* The order of what was handled stays as it was promised while nothing more is handled.
LEMMA OrderStays ==
  ASSUME LoopInv, UNCHANGED <<serial, sent, handled>>,
         failed \subseteq failed',
         \A m \in Loop!Messages : broker[m].state = "dead" => broker'[m].state = "dead"
  PROVE  Loop!FirstTriesInOrder'
BY DEF LoopInv, Loop!FirstTriesInOrder, Loop!Before, Loop!Range, Loop!Topic, Loop!HasHandler,
   Loop!TopicKey, Loop!Handlers

\* A batch is taken only while no message of its topic is hidden, and takes the
\* earliest: what precedes one of its messages was acknowledged, given up, or is in it.
LEMMA ReceiveKept ==
  ASSUME Loop!LoopAssumption, LoopInv, NEW c \in Consumers, Loop!Receive(c)
  PROVE  LoopInv'
<1>1. PICK k \in Configured : \E s \in Loop!BatchesOf(k[1]) :
         /\ batch' = [batch EXCEPT ![c] = [i \in DOMAIN s |->
              [message |-> s[i], receipt |-> broker[s[i]].attempts + 1]]]
         /\ broker' = [m \in Loop!Messages |-> IF m \in Loop!Range(s)
              THEN [state |-> "hidden", attempts |-> broker[m].attempts + 1] ELSE broker[m]]
  <2>1. PICK s \in Loop!Batches :
         /\ batch' = [batch EXCEPT ![c] = [i \in DOMAIN s |->
              [message |-> s[i], receipt |-> broker[s[i]].attempts + 1]]]
         /\ broker' = [m \in Loop!Messages |-> IF m \in Loop!Range(s)
              THEN [state |-> "hidden", attempts |-> broker[m].attempts + 1] ELSE broker[m]]
    BY DEF Loop!Receive
  <2>2. PICK k \in Configured : s \in Loop!BatchesOf(k[1])
    BY <2>1 DEF Loop!Batches
  <2>3. QED
    BY <2>1, <2>2
<1> DEFINE t == k[1]
<1>2. PICK s \in Loop!BatchesOf(t) :
        /\ batch' = [batch EXCEPT ![c] = [i \in DOMAIN s |->
             [message |-> s[i], receipt |-> broker[s[i]].attempts + 1]]]
        /\ broker' = [m \in Loop!Messages |-> IF m \in Loop!Range(s)
             THEN [state |-> "hidden", attempts |-> broker[m].attempts + 1] ELSE broker[m]]
  BY <1>1
<1> HIDE DEF t
<1>3. batch[c] = <<>> /\ (serial => running[c] = {}) /\ UNCHANGED <<serial, sent, running, handled, failed>>
  BY DEF Loop!Receive
<1> DEFINE visible == {m \in Loop!Messages : broker[m].state = "visible" /\ Loop!Topic(m) = t}
<1>4. PICK n \in 1..MaxBatch :
        /\ \A m \in Loop!Messages : Loop!Topic(m) = t => broker[m].state # "hidden"
        /\ s \in [1..n -> visible]
        /\ \A i, j \in 1..n : i < j => s[i] < s[j]
        /\ \A m \in visible, i \in 1..n : m < s[i] => m \in Loop!Range(s)
  BY DEF Loop!BatchesOf, Loop!In
<1>5. n \in Nat /\ \A i \in 1..n :
        s[i] \in Loop!Messages /\ broker[s[i]].state = "visible" /\ Loop!Topic(s[i]) = t
  BY <1>4 DEF Loop!LoopAssumption
<1>6. \A m \in Loop!Messages :
        \/ broker'[m] = broker[m]
        \/ /\ broker[m].state = "visible"
           /\ broker'[m] = [state |-> "hidden", attempts |-> broker[m].attempts + 1]
  BY <1>2, <1>4, <1>5 DEF Loop!Range
<1> DEFINE new == [i \in 1..n |-> [message |-> s[i], receipt |-> broker[s[i]].attempts + 1]]
<1>7. batch' = [batch EXCEPT ![c] = new]
  BY <1>2, <1>4
<1>8. new \in Seq(Received)
  BY <1>5 DEF LoopInv, LoopTyped, Received
<1>9. LoopTyped'
  <2>1. ASSUME NEW m \in Loop!Messages
        PROVE  broker'[m] \in [state : {"visible", "hidden", "acked", "dead"}, attempts : Nat]
    <3>1. broker[m] \in [state : {"visible", "hidden", "acked", "dead"}, attempts : Nat]
      BY DEF LoopInv, LoopTyped
    <3>2. broker[m].attempts + 1 \in Nat
      BY <3>1
    <3>3. CASE broker'[m] = [state |-> "hidden", attempts |-> broker[m].attempts + 1]
      BY <3>2, <3>3
    <3>4. QED
      BY <1>6, <3>1, <3>3
  <2>2. broker' \in [Loop!Messages -> [state : {"visible", "hidden", "acked", "dead"}, attempts : Nat]]
    BY <1>2, <2>1
  <2> HIDE DEF new
  <2>3. QED
    BY <1>3, <1>7, <1>8, <2>2 DEF LoopInv, LoopTyped
<1>10. \A m \in Loop!Messages :
        /\ broker[m].state = "dead" <=> broker'[m].state = "dead"
        /\ Passed(m) <=> Passed(m)'
        /\ broker'[m].state = "acked" => broker[m].state = "acked"
  <2>1. ASSUME NEW m \in Loop!Messages
        PROVE  /\ broker[m].state = "dead" <=> broker'[m].state = "dead"
               /\ broker'[m].state = "acked" => broker[m].state = "acked"
    <3>1. CASE broker'[m] = broker[m]
      BY <3>1
    <3>2. CASE /\ broker[m].state = "visible"
               /\ broker'[m] = [state |-> "hidden", attempts |-> broker[m].attempts + 1]
      <4>1. broker'[m].state = "hidden"
        BY <3>2
      <4>2. QED
        BY <3>2, <4>1
    <3>3. QED
      BY <1>6, <3>1, <3>2
  <2>2. QED
    BY <1>3, <2>1, SameMessages DEF Passed, Handled
<1>11. ASSUME NEW m \in Loop!Messages, NEW i \in 1..n, Precedes(m, s[i]), ~Passed(m)
       PROVE  \E j \in 1..n : j < i /\ s[j] = m
  <2>1. m \in visible
    BY <1>4, <1>5, <1>11 DEF LoopInv, LoopTyped, AckedHandled, Passed, Precedes
  <2>2. PICK j \in 1..n : s[j] = m
    BY <1>4, <1>11, <2>1 DEF Loop!Range, Precedes
  <2>3. s[i] \in Int /\ s[j] \in Int
    BY <1>5 DEF Loop!Messages
  <2>4. j < i
    BY <1>4, <1>11, <2>2, <2>3 DEF Precedes
  <2>5. QED
    BY <2>2, <2>4
<1>12. InOrder'
  <2>1. ASSUME serial', NEW d \in Consumers, NEW m \in Loop!Messages
        PROVE  /\ \A r \in running'[d] : Precedes(m, r.message) => Passed(m)'
               /\ \A i \in DOMAIN batch'[d] :
                    Precedes(m, batch'[d][i].message) =>
                      \/ Passed(m)' \/ \E r \in running'[d] : r.message = m
                      \/ \E j \in DOMAIN batch'[d] : j < i /\ batch'[d][j].message = m
    <3>1. CASE d = c
      <4>1. running'[d] = {}
        BY <1>3, <2>1, <3>1
      <4>2. DOMAIN batch'[d] = 1..n /\ \A i \in 1..n : batch'[d][i].message = s[i]
        BY <1>7, <3>1 DEF LoopInv, LoopTyped
      <4>3. QED
        BY <1>3, <1>10, <1>11, <4>1, <4>2
    <3>2. CASE d # c
      <4>1. batch'[d] = batch[d] /\ running'[d] = running[d] /\ serial
        BY <1>3, <1>7, <2>1, <3>2 DEF LoopInv, LoopTyped
      <4>2. QED
        BY <1>3, <1>10, <4>1 DEF LoopInv, InOrder
    <3>3. QED
      BY <3>1, <3>2
  <2>2. QED
    BY <1>3, <2>1 DEF InOrder, Precedes, Loop!Topic
<1>13. AckedHandled'
  BY <1>3, <1>10, SameMessages DEF LoopInv, AckedHandled, Handled
<1>14. Loop!FirstTriesInOrder'
  BY <1>3, <1>10, OrderStays
<1>15. QED
  BY <1>9, <1>12, <1>13, <1>14 DEF LoopInv

\* The head of a batch is tried when nothing else is, so that everything before it has
\* passed; the rest of the batch has it before them.
LEMMA BeginKept ==
  ASSUME LoopInv, NEW c \in Consumers, Loop!Begin(c)
  PROVE  LoopInv'
<1>1. /\ batch[c] # <<>> /\ (serial => running[c] = {})
      /\ running' = [running EXCEPT ![c] = running[c] \cup {Head(batch[c])}]
      /\ batch' = [batch EXCEPT ![c] = Tail(batch[c])]
      /\ UNCHANGED <<serial, sent, broker, handled, failed>>
  BY DEF Loop!Begin, Loop!Room
<1>2. /\ Head(batch[c]) = batch[c][1] /\ Head(batch[c]) \in Received
      /\ Tail(batch[c]) \in Seq(Received) /\ 1 \in DOMAIN batch[c]
      /\ \A i \in DOMAIN Tail(batch[c]) :
           i + 1 \in DOMAIN batch[c] /\ Tail(batch[c])[i] = batch[c][i + 1] /\ i \in Nat
      /\ \A j \in DOMAIN batch[c] : j = 1 \/
           (j - 1 \in DOMAIN Tail(batch[c]) /\ Tail(batch[c])[j - 1] = batch[c][j])
      /\ \A j \in DOMAIN batch[c] : j \in Nat /\ j >= 1
  BY <1>1 DEF LoopInv, LoopTyped
<1>3. LoopTyped'
  BY <1>1, <1>2 DEF LoopInv, LoopTyped
<1>4. \A m : Passed(m)' <=> Passed(m)
  BY <1>1, SameMessages DEF Passed, Handled
<1>5. InOrder'
  <2>1. ASSUME serial', NEW d \in Consumers, NEW m \in Loop!Messages
        PROVE  /\ \A r \in running'[d] : Precedes(m, r.message) => Passed(m)'
               /\ \A i \in DOMAIN batch'[d] :
                    Precedes(m, batch'[d][i].message) =>
                      \/ Passed(m)' \/ \E r \in running'[d] : r.message = m
                      \/ \E j \in DOMAIN batch'[d] : j < i /\ batch'[d][j].message = m
    <3>1. CASE d = c
      <4>1. running[c] = {} /\ running'[d] = {Head(batch[c])} /\ batch'[d] = Tail(batch[c])
        BY <1>1, <2>1, <3>1 DEF LoopInv, LoopTyped
      <4>2. \A i \in DOMAIN batch[c] :
              Precedes(m, batch[c][i].message) =>
                Passed(m) \/ \E j \in DOMAIN batch[c] : j < i /\ batch[c][j].message = m
        BY <1>1, <2>1, <4>1 DEF LoopInv, InOrder
      <4>3. Precedes(m, Head(batch[c]).message) => Passed(m)
        BY <1>2, <4>2
      <4>4. ASSUME NEW i \in DOMAIN Tail(batch[c]), Precedes(m, Tail(batch[c])[i].message), ~Passed(m)
            PROVE  \/ Head(batch[c]).message = m
                   \/ \E j \in DOMAIN Tail(batch[c]) : j < i /\ Tail(batch[c])[j].message = m
        <5>1. PICK j \in DOMAIN batch[c] : j < i + 1 /\ batch[c][j].message = m
          BY <1>2, <4>2, <4>4
        <5>2. CASE j = 1
          BY <1>2, <5>1, <5>2
        <5>3. CASE j # 1
          <6>1. j - 1 \in DOMAIN Tail(batch[c]) /\ Tail(batch[c])[j - 1].message = m
            BY <1>2, <5>1, <5>3
          <6>2. j - 1 < i
            BY <1>2, <5>1, <4>4
          <6>3. QED
            BY <6>1, <6>2
        <5>4. QED
          BY <5>2, <5>3
      <4>5. QED
        BY <1>1, <1>4, <4>1, <4>3, <4>4
    <3>2. CASE d # c
      <4>1. batch'[d] = batch[d] /\ running'[d] = running[d] /\ serial
        BY <1>1, <2>1, <3>2 DEF LoopInv, LoopTyped
      <4>2. Passed(m)' <=> Passed(m)
        BY <1>4
      <4>3. /\ \A r \in running[d] : Precedes(m, r.message) => Passed(m)
            /\ \A i \in DOMAIN batch[d] :
                 Precedes(m, batch[d][i].message) =>
                   \/ Passed(m) \/ \E r \in running[d] : r.message = m
                   \/ \E j \in DOMAIN batch[d] : j < i /\ batch[d][j].message = m
        BY <4>1 DEF LoopInv, InOrder
      <4>4. QED
        BY <4>1, <4>2, <4>3
    <3>3. QED
      BY <3>1, <3>2
  <2>2. QED
    BY <1>1, <2>1 DEF InOrder, Precedes, Loop!Topic
<1>6. AckedHandled' /\ Loop!FirstTriesInOrder'
  BY <1>1, <1>4, OrderStays, SameMessages DEF LoopInv, AckedHandled, Handled
<1>7. QED
  BY <1>3, <1>5, <1>6 DEF LoopInv

\* A try that ends leaves its message passed.
LEMMA EndKept ==
  ASSUME LoopInv, NEW c \in Consumers, NEW r \in running[c],
         running' = [running EXCEPT ![c] = running[c] \ {r}], UNCHANGED <<serial, sent, batch>>,
         \A m \in Loop!Messages : Passed(m) => Passed(m)', Passed(r.message)'
  PROVE  InOrder'
<1>1. ASSUME serial', NEW d \in Consumers, NEW m \in Loop!Messages
      PROVE  /\ \A q \in running'[d] : Precedes(m, q.message) => Passed(m)'
             /\ \A i \in DOMAIN batch'[d] :
                  Precedes(m, batch'[d][i].message) =>
                    \/ Passed(m)' \/ \E q \in running'[d] : q.message = m
                    \/ \E j \in DOMAIN batch'[d] : j < i /\ batch'[d][j].message = m
  <2>1. serial /\ batch'[d] = batch[d] /\ \A q \in running[d] : q \in running'[d] \/ q = r
    BY <1>1 DEF LoopInv, LoopTyped
  <2>2. running'[d] \subseteq running[d]
    BY DEF LoopInv, LoopTyped
  <2>3. QED
    BY <2>1, <2>2 DEF LoopInv, InOrder
<1>2. QED
  BY <1>1 DEF InOrder, Precedes, Loop!Topic

LEMMA SucceedKept ==
  ASSUME Loop!LoopAssumption, LoopInv, NEW c \in Consumers,
         NEW r \in running[c], Loop!Succeed(c, r)
  PROVE  LoopInv'
<1> DEFINE n == r.message
<1>1. r \in Received /\ n \in Loop!Messages
  BY DEF LoopInv, LoopTyped, Received
<1>2. /\ running' = [running EXCEPT ![c] = running[c] \ {r}] /\ UNCHANGED <<serial, sent, batch, failed>>
      /\ handled' = IF Loop!HasHandler(n) /\ n \notin Handled THEN Append(handled, n) ELSE handled
      /\ broker' \in {broker, Loop!Acknowledged(r)}
  BY <1>1, HandledRange DEF Loop!Succeed, Loop!Return
<1>3. \A m \in Loop!Messages :
        \/ broker'[m] = broker[m]
        \/ m = n /\ broker[m].state = "hidden" /\ broker'[m] = [broker[m] EXCEPT !.state = "acked"]
  <2>1. \/ broker' = broker
        \/ /\ broker[n].state = "hidden"
           /\ broker' = [broker EXCEPT ![n] = [broker[n] EXCEPT !.state = "acked"]]
    <3>1. CASE broker[n].state = "hidden" /\ broker[n].attempts = r.receipt
      BY <1>1, <1>2, <3>1 DEF Loop!Acknowledged, LoopInv, LoopTyped
    <3>2. CASE ~(broker[n].state = "hidden" /\ broker[n].attempts = r.receipt)
      <4>1. /\ broker \in [Loop!Messages -> [state : {"visible", "hidden", "acked", "dead"}, attempts : Nat]]
            /\ broker' = broker \/ broker' = [broker EXCEPT ![n].state = broker[n].state]
        BY <1>1, <1>2, <3>2 DEF Loop!Acknowledged, LoopInv, LoopTyped
      <4>2. [broker EXCEPT ![n].state = broker[n].state] = broker
        BY <1>1, <4>1
      <4>3. QED
        BY <4>1, <4>2
    <3>3. QED
      BY <3>1, <3>2
  <2> HIDE DEF n
  <2>2. QED
    BY <1>1, <2>1 DEF LoopInv, LoopTyped
<1>4. /\ Handled \subseteq Handled' /\ (n \in Handled' \/ ~Loop!HasHandler(n))
      /\ \A m \in Loop!Messages : Passed(m) => Passed(m)'
      /\ \A m, l \in Loop!Messages : Loop!Before(m, l) => Loop!Before(m, l)'
      /\ \A l \in Handled' \ Handled :
           l = n /\ \A m \in Handled : Loop!Before(m, n)'
  <2>1. \A m \in Loop!Messages : broker[m].state = "dead" => broker'[m].state = "dead"
    BY <1>3
  <2>2. /\ Handled \subseteq Handled'
        /\ \A m \in Loop!Messages : Passed(m) => Passed(m)'
        /\ \A m, l \in Loop!Messages : Loop!Before(m, l) => Loop!Before(m, l)'
        /\ handled' = Append(handled, n) =>
             /\ Handled' = Handled \cup {n}
             /\ \A m \in Handled : Loop!Before(m, n)'
    BY <1>1, <1>2, <2>1, PassedStays DEF LoopInv
  <2>3. handled' = handled => Handled' = Handled
    BY DEF Handled
  <2>4. QED
    BY <1>2, <2>2, <2>3
<1>5. LoopTyped'
  <2>1. ASSUME NEW m \in Loop!Messages
        PROVE  broker'[m] \in [state : {"visible", "hidden", "acked", "dead"}, attempts : Nat]
    <3>1. broker[m] \in [state : {"visible", "hidden", "acked", "dead"}, attempts : Nat]
      BY DEF LoopInv, LoopTyped
    <3>2. [broker[m] EXCEPT !.state = "acked"]
            \in [state : {"visible", "hidden", "acked", "dead"}, attempts : Nat]
      BY <3>1
    <3>3. QED
      BY <1>3, <3>1, <3>2
  <2>3. broker' = [m \in Loop!Messages |-> broker'[m]]
    BY <1>2 DEF Loop!Acknowledged, LoopInv, LoopTyped
  <2>2. QED
    <3>1. broker' \in [Loop!Messages -> [state : {"visible", "hidden", "acked", "dead"}, attempts : Nat]]
      BY <2>1, <2>3
    <3>2. QED
      BY <1>1, <1>2, <3>1 DEF LoopInv, LoopTyped
<1>6. InOrder'
  BY <1>1, <1>2, <1>4, EndKept, SameMessages DEF Passed
<1>7. AckedHandled'
  BY <1>2, <1>3, <1>4, SameMessages DEF LoopInv, AckedHandled
<1>8. Loop!FirstTriesInOrder'
  <2>1. ASSUME serial', NEW l \in Handled', NEW m \in Loop!Messages, Precedes(m, l), Loop!HasHandler(m)
        PROVE  Loop!Before(m, l)' \/ m \in failed' \/ broker'[m].state = "dead"
    <3>1. \A k \in Loop!Messages : broker[k].state = "dead" => broker'[k].state = "dead"
      BY <1>3
    <3>2. CASE l \in Handled
      <4>1. Loop!Before(m, l) \/ m \in failed \/ broker[m].state = "dead"
        BY <1>2, <2>1, <3>2, HandledRange
           DEF LoopInv, Loop!FirstTriesInOrder, Precedes
      <4>2. l \in Loop!Messages
        BY <3>2 DEF LoopInv, LoopTyped, Handled
      <4>3. QED
        BY <1>2, <1>4, <3>1, <4>1, <4>2
    <3>3. CASE l \notin Handled
      <4>1. l = n /\ Passed(m)
        BY <1>2, <1>4, <2>1, <3>3 DEF LoopInv, InOrder
      <4>2. QED
        BY <1>2, <1>4, <2>1, <3>1, <3>3, <4>1 DEF Passed
    <3>4. QED
      BY <3>2, <3>3
  <2>2. Handled' = Loop!Range(handled)'
    BY DEF Handled, Loop!Range
  <2>3. QED
    BY <1>2, <2>1, <2>2, SameMessages DEF Loop!FirstTriesInOrder, Precedes, Loop!Topic
<1>9. QED
  BY <1>5, <1>6, <1>7, <1>8 DEF LoopInv

LEMMA FailKept ==
  ASSUME LoopInv, NEW c \in Consumers, NEW r \in running[c], Loop!Fail(c, r)
  PROVE  LoopInv'
<1>1. /\ running' = [running EXCEPT ![c] = running[c] \ {r}] /\ failed' = failed \cup {r.message}
      /\ UNCHANGED <<serial, sent, batch, broker, handled>> /\ r.message \in Loop!Messages
  BY DEF Loop!Fail, Loop!Return, Loop!LeaveHidden, LoopInv, LoopTyped, Received
<1>2. (\A m \in Loop!Messages : Passed(m) => Passed(m)') /\ Passed(r.message)'
  BY <1>1, SameMessages DEF Passed, Handled
<1>3. LoopTyped' /\ AckedHandled'
  BY <1>1, SameMessages DEF LoopInv, LoopTyped, AckedHandled, Handled
<1>4. InOrder' /\ Loop!FirstTriesInOrder'
  BY <1>1, <1>2, EndKept, OrderStays
<1>5. QED
  BY <1>3, <1>4 DEF LoopInv

LEMMA ReappearKept ==
  ASSUME LoopInv, NEW m \in Loop!Messages, Loop!Reappear(m)
  PROVE  LoopInv'
<1>1. /\ broker[m].state = "hidden" /\ UNCHANGED <<serial, sent, batch, running, handled, failed>>
      /\ \E state \in {"visible", "dead"} : broker' = [broker EXCEPT ![m].state = state]
  BY DEF Loop!Reappear
<1>2. \A l \in Loop!Messages :
        broker'[l] = broker[l] \/ (l = m /\ broker'[l].state \in {"visible", "dead"})
  BY <1>1 DEF LoopInv, LoopTyped
<1>3. \A l \in Loop!Messages :
        /\ Passed(l) => Passed(l)'
        /\ broker[l].state = "dead" => broker'[l].state = "dead"
        /\ broker'[l].state = "acked" => broker[l].state = "acked"
  BY <1>1, <1>2, SameMessages DEF Passed, Handled
<1>4. LoopTyped'
  BY <1>1 DEF LoopInv, LoopTyped
<1>5. InOrder'
  BY <1>1, <1>3 DEF LoopInv, InOrder, Precedes, Loop!Topic
<1>6. AckedHandled' /\ Loop!FirstTriesInOrder'
  BY <1>1, <1>3, OrderStays, SameMessages DEF LoopInv, AckedHandled, Handled
<1>7. QED
  BY <1>4, <1>5, <1>6 DEF LoopInv

\* For any number of loops, messages, topics, workers and redeliveries: a message is
\* acknowledged only when its handler has succeeded or none is configured for its tag,
\* and serial loops begin the messages of a shard and a topic in order, but for what
\* fails or is given up (receiveLoopSerial, consumeMessage).
THEOREM LoopCorrect == Loop!Spec => [](AckedWasHandled /\ FirstTriesInOrder)
<1>1. Loop!Init => LoopInv
  BY ReceiveAssumption DEF Loop!Init, Loop!LoopAssumption, Loop!Messages, LoopInv, LoopTyped, InOrder,
     AckedHandled, Loop!FirstTriesInOrder, Loop!Range
<1>2. LoopInv /\ [Loop!Next]_Loop!vars => LoopInv'
  <2> SUFFICES ASSUME LoopInv, [Loop!Next]_Loop!vars PROVE LoopInv'
    OBVIOUS
  <2>1. CASE UNCHANGED Loop!vars
    BY <2>1 DEF Loop!vars, LoopInv, LoopTyped, InOrder, AckedHandled, Handled, Passed, Precedes,
       Loop!FirstTriesInOrder, Loop!Before, Loop!Topic, Loop!HasHandler, Loop!TopicKey, Loop!Handlers
  <2>2. QED
    BY <2>1, ReceiveAssumption, ReceiveKept, BeginKept, SucceedKept, FailKept, ReappearKept
       DEF Loop!Next, Loop!LoopSteps
<1>3. LoopInv => AckedWasHandled /\ FirstTriesInOrder
  BY ReceiveAssumption, HandledRange, HandlerFound DEF LoopInv, AckedHandled, AckedWasHandled, Loop!AckedWasHandled, FirstTriesInOrder
<1>4. QED
  BY <1>1, <1>2, <1>3, PTL DEF Loop!Spec

-----------------------------------------------------------------------------
(***************************************************************************)
(* The numbers of orders                                                   *)
(***************************************************************************)
\* One process at a time, which comes back in a later second, and fewer numbers than
\* the six digits of the counter can tell apart.  Without the first the property fails:
\* see the README on two instances.
OneNumbering ==
  /\ \E i : Instances = {i}
  /\ RestartTakes >= 1
  /\ IsFiniteSet(Unnumbered) /\ Cardinality(Unnumbered) + MaxSaveFailures <= Modulus

NumbersTyped ==
  /\ second \in 0..MaxSecond /\ seq \in [Instances -> Nat] /\ saveFailures \in 0..MaxSaveFailures
  /\ order \in [Numbers!Number -> Unnumbered \cup {NoEvent}]
  /\ attempt \in [Unnumbered -> [at : Instances \cup {"none"}, no : Numbers!Number]]
  /\ inbox \in [Unnumbered -> {"none", "processing", "succeeded", "failed"}]

\* The events that have cost a number each, apart from the failures.
Charged == {e \in Unnumbered : inbox[e] \in {"processing", "succeeded"}}

\* The number was drawn in an earlier second, or is among those of this one.
Drawn(n) ==
  n[1] < second \/
    (n[1] = second /\ \E i \in Instances : \E v \in 1..seq[i] : n[2] = v % Modulus)

NumbersInv ==
  /\ NumbersTyped
  /\ \A n \in Numbers!Number : order[n] # NoEvent => Drawn(n)
  /\ \A e \in Unnumbered : attempt[e] # Numbers!Idle =>
       /\ Drawn(attempt[e].no) /\ order[attempt[e].no] = NoEvent /\ inbox[e] = "processing"
       /\ \A f \in Unnumbered : attempt[f] # Numbers!Idle /\ attempt[f].no = attempt[e].no => f = e
  /\ \A i \in Instances : seq[i] <= Cardinality(Charged) + saveFailures
  /\ Numbers!OrderOfItsOwn

\* As many values of the counter as there are numbers of six digits are told apart.
LEMMA CounterDistinct ==
  ASSUME NEW M \in Nat \ {0}, NEW v \in 1..M, NEW w \in 1..M, v # w
  PROVE  v % M # w % M /\ v % M \in 0..M - 1
<1>1. ASSUME NEW x \in 1..M PROVE x % M = (IF x = M THEN 0 ELSE x)
  <2>1. CASE x = M
    BY <2>1, SMT
  <2>2. CASE x < M
    BY <2>2, SMT
  <2>3. QED
    BY <2>1, <2>2
<1>2. QED
  BY <1>1

\* What an event that begins, ends or fails changes in the numbers paid for.
LEMMA ChargedFacts ==
  ASSUME IsFiniteSet(Unnumbered)
  PROVE  /\ Cardinality(Charged) \in Nat /\ Cardinality(Charged) <= Cardinality(Unnumbered)
         /\ Cardinality(Unnumbered) \in Nat
         /\ \A e \in Unnumbered :
              /\ Charged' = Charged \cup {e} /\ e \notin Charged
                   => Cardinality(Charged') = Cardinality(Charged) + 1
              /\ Charged' = Charged \ {e} /\ e \in Charged
                   => Cardinality(Charged') = Cardinality(Charged) - 1
         /\ Cardinality(Charged') \in Nat /\ Cardinality(Charged') <= Cardinality(Unnumbered)
<1>1. Charged \subseteq Unnumbered /\ Charged' \subseteq Unnumbered
  BY DEF Charged
<1>2. IsFiniteSet(Charged) /\ IsFiniteSet(Charged')
  BY <1>1, FS_Subset
<1>3. /\ Cardinality(Charged) \in Nat /\ Cardinality(Charged) <= Cardinality(Unnumbered)
      /\ Cardinality(Charged') \in Nat /\ Cardinality(Charged') <= Cardinality(Unnumbered)
      /\ Cardinality(Unnumbered) \in Nat
  BY <1>1, <1>2, FS_Subset, FS_CardinalityType
<1>4. ASSUME NEW e \in Unnumbered, Charged' = Charged \cup {e}, e \notin Charged
      PROVE  Cardinality(Charged') = Cardinality(Charged) + 1
  BY <1>2, <1>4, FS_AddElement
<1>5. ASSUME NEW e \in Unnumbered, Charged' = Charged \ {e}, e \in Charged
      PROVE  Cardinality(Charged') = Cardinality(Charged) - 1
  BY <1>2, <1>5, FS_RemoveElement
<1>6. QED
  BY <1>3, <1>4, <1>5

\* A number that is made has not been drawn before.
LEMMA NewNumber ==
  ASSUME Numbers!NumberAssumption, NumbersInv, NEW i, Instances = {i}, seq[i] + 1 <= Modulus
  PROVE  /\ Numbers!New(i) \in Numbers!Number /\ ~Drawn(Numbers!New(i))
         /\ Numbers!New(i)[1] = second /\ Numbers!New(i)[2] = (seq[i] + 1) % Modulus
<1> DEFINE w == seq[i] + 1
<1>1. /\ seq[i] \in Nat /\ second \in 0..MaxSecond /\ Modulus \in Nat \ {0} /\ MaxSecond \in Nat
  BY DEF NumbersInv, NumbersTyped, Numbers!NumberAssumption
<1>2. w % Modulus \in 0..Modulus - 1
  BY <1>1, SMT
<1>3. \A v \in 1..seq[i] : v % Modulus # w % Modulus
  <2>1. \A v \in 1..seq[i] : v \in 1..Modulus /\ v # w
    BY <1>1
  <2>2. w \in 1..Modulus
    BY <1>1
  <2>3. ASSUME NEW v \in 1..seq[i] PROVE v % Modulus # w % Modulus
    <3> HIDE DEF w
    <3>1. v \in 1..Modulus /\ v # w
      BY <2>1
    <3>2. QED
      BY <1>1, <2>2, <3>1, CounterDistinct
  <2>4. QED
    BY <2>3
<1> HIDE DEF w
<1>4. Numbers!New(i) = <<second, w % Modulus>>
  BY DEF Numbers!New, w
<1>5. Numbers!New(i) \in Numbers!Number
  BY <1>1, <1>2, <1>4 DEF Numbers!Number
<1>6. ~Drawn(Numbers!New(i))
  BY <1>1, <1>3, <1>4 DEF Drawn
<1>7. QED
  BY <1>4, <1>5, <1>6 DEF w

LEMMA NormalizeKept ==
  ASSUME Numbers!NumberAssumption, OneNumbering, NumbersInv,
         NEW i \in Instances, NEW e \in Unnumbered, Numbers!Normalize(i, e)
  PROVE  NumbersInv'
<1>0. PICK n : n = Numbers!New(i)
  OBVIOUS
<1>1. /\ Instances = {i} /\ NoEvent \notin Unnumbered /\ "none" \notin Instances
      /\ IsFiniteSet(Unnumbered) /\ Cardinality(Unnumbered) + MaxSaveFailures <= Modulus
      /\ MaxSaveFailures \in Nat /\ Modulus \in Nat
  BY DEF OneNumbering, Numbers!NumberAssumption
<1>2. /\ inbox[e] \in {"none", "failed"} /\ inbox' = [inbox EXCEPT ![e] = "processing"]
      /\ attempt' = [attempt EXCEPT ![e] = [at |-> i, no |-> n]]
      /\ seq' = [seq EXCEPT ![i] = seq[i] + 1] /\ UNCHANGED <<second, order, saveFailures>>
  BY <1>0 DEF Numbers!Normalize
<1>3. NumbersTyped
  BY DEF NumbersInv
<1>4. seq[i] \in Nat /\ seq'[i] = seq[i] + 1 /\ saveFailures \in 0..MaxSaveFailures
  BY <1>2, <1>3 DEF NumbersTyped
<1>5. seq'[i] <= Cardinality(Charged') + saveFailures /\ seq[i] + 1 <= Modulus
  <2>1. Charged' = Charged \cup {e} /\ e \notin Charged
    BY <1>2, <1>3 DEF Charged, NumbersTyped
  <2>2. seq[i] <= Cardinality(Charged) + saveFailures
    BY DEF NumbersInv
  <2>3. /\ Cardinality(Charged) \in Nat /\ Cardinality(Charged') = Cardinality(Charged) + 1
        /\ Cardinality(Charged') <= Cardinality(Unnumbered) /\ Cardinality(Unnumbered) \in Nat
    BY <1>1, <2>1, ChargedFacts
  <2>4. QED
    BY <1>1, <1>4, <2>2, <2>3
<1>6. n \in Numbers!Number /\ ~Drawn(n) /\ n[1] = second /\ n[2] = (seq[i] + 1) % Modulus
  BY <1>0, <1>1, <1>5, NewNumber
<1>7. Drawn(n)'
  <2>1. /\ n[1] = second' /\ n[2] = seq'[i] % Modulus /\ seq'[i] \in 1..seq'[i]
    BY <1>2, <1>4, <1>6
  <2>2. QED
    BY <2>1 DEF Drawn
<1>8. \A m : Drawn(m) => Drawn(m)'
  BY <1>1, <1>2, <1>4 DEF Drawn
<1>9. attempt[e] = Numbers!Idle /\ attempt'[e].no = n /\ \A f \in Unnumbered \ {e} : attempt'[f] = attempt[f]
  BY <1>2, <1>3 DEF NumbersInv, NumbersTyped
<1>10. order[n] = NoEvent /\ \A f \in Unnumbered : attempt[f] # Numbers!Idle => attempt[f].no # n
  BY <1>6 DEF NumbersInv
<1>11. NumbersTyped'
  BY <1>2, <1>3, <1>4, <1>6 DEF NumbersTyped
<1>12. \A m \in Numbers!Number : order'[m] # NoEvent => Drawn(m)'
  BY <1>2, <1>8 DEF NumbersInv
<1>13. ASSUME NEW f \in Unnumbered, attempt'[f] # Numbers!Idle
       PROVE  /\ Drawn(attempt[f].no)' /\ order'[attempt'[f].no] = NoEvent
              /\ inbox'[f] = "processing"
              /\ \A g \in Unnumbered : attempt'[g] # Numbers!Idle /\ attempt'[g].no = attempt'[f].no => g = f
  <2>1. CASE f = e
    <3>1. Drawn(attempt[f].no)'
      <4>1. attempt'[f].no = n
        BY <1>9, <2>1
      <4>2. QED
        BY <1>7, <4>1 DEF Drawn
    <3>2. inbox'[f] = "processing"
      BY <1>2, <1>3, <2>1 DEF NumbersTyped
    <3>3. QED
      BY <1>2, <1>9, <1>10, <2>1, <3>1, <3>2
  <2>2. CASE f # e
    <3>1. /\ Drawn(attempt[f].no) /\ order[attempt[f].no] = NoEvent /\ inbox[f] = "processing"
          /\ \A g \in Unnumbered : attempt[g] # Numbers!Idle /\ attempt[g].no = attempt[f].no => g = f
          /\ attempt[f].no # n /\ attempt'[f] = attempt[f]
      BY <1>9, <1>10, <1>13, <2>2 DEF NumbersInv
    <3>2. Drawn(attempt[f].no)'
      BY <1>8, <3>1 DEF Drawn
    <3>3. inbox'[f] = "processing"
      BY <1>2, <1>3, <2>2, <3>1 DEF NumbersTyped
    <3>4. QED
      BY <1>2, <1>9, <3>1, <3>2, <3>3
  <2>3. QED
    BY <2>1, <2>2
<1>14. Numbers!OrderOfItsOwn'
  BY <1>2, <1>3 DEF NumbersInv, Numbers!OrderOfItsOwn, Numbers!OrdersOf, NumbersTyped
<1>15. \A j \in Instances : seq'[j] <= Cardinality(Charged') + saveFailures'
  BY <1>1, <1>2, <1>5
<1>16. QED
  BY <1>11, <1>12, <1>13, <1>14, <1>15 DEF NumbersInv

LEMMA SaveKept ==
  ASSUME Numbers!NumberAssumption, OneNumbering, NumbersInv, NEW e \in Unnumbered, Numbers!Save(e)
  PROVE  NumbersInv'
<1> DEFINE n == attempt[e].no
<1>1. /\ NoEvent \notin Unnumbered /\ IsFiniteSet(Unnumbered) /\ MaxSaveFailures \in Nat
  BY DEF OneNumbering, Numbers!NumberAssumption
<1>2. NumbersTyped
  BY DEF NumbersInv
<1>3. /\ attempt[e] # Numbers!Idle /\ attempt' = [attempt EXCEPT ![e] = Numbers!Idle]
      /\ UNCHANGED <<second, seq>>
  BY DEF Numbers!Save
<1>4. n \in Numbers!Number /\ Drawn(n) /\ order[n] = NoEvent /\ inbox[e] = "processing"
  BY <1>2, <1>3 DEF NumbersInv, NumbersTyped
<1>5. order' = [order EXCEPT ![n] = e]
  BY <1>4 DEF Numbers!Save
<1>6. \/ inbox' = [inbox EXCEPT ![e] = "succeeded"] /\ saveFailures' = saveFailures
      \/ /\ inbox' = [inbox EXCEPT ![e] = "failed"] /\ saveFailures < MaxSaveFailures
         /\ saveFailures' = saveFailures + 1
  BY DEF Numbers!Save
<1>7. \A m : Drawn(m)' <=> Drawn(m)
  BY <1>3 DEF Drawn
<1> HIDE DEF n
<1>8. Numbers!Idle \in [at : Instances \cup {"none"}, no : Numbers!Number]
  BY DEF Numbers!Idle, Numbers!Number, Numbers!NumberAssumption
<1>9. NumbersTyped'
  BY <1>1, <1>2, <1>3, <1>4, <1>5, <1>6, <1>8 DEF NumbersTyped
<1>10. order'[n] = e /\ \A m \in Numbers!Number \ {n} : order'[m] = order[m]
  BY <1>2, <1>4, <1>5 DEF NumbersTyped
<1>11. \A m \in Numbers!Number : order'[m] # NoEvent => Drawn(m)'
  BY <1>4, <1>7, <1>10 DEF NumbersInv
<1>12. attempt'[e] = Numbers!Idle /\ \A f \in Unnumbered \ {e} :
         attempt'[f] = attempt[f] /\ inbox'[f] = inbox[f] /\ attempt[f].no \in Numbers!Number
  BY <1>2, <1>3, <1>6 DEF NumbersTyped
<1>13. ASSUME NEW f \in Unnumbered, attempt'[f] # Numbers!Idle
       PROVE  /\ Drawn(attempt[f].no)' /\ order'[attempt'[f].no] = NoEvent
              /\ inbox'[f] = "processing"
              /\ \A g \in Unnumbered : attempt'[g] # Numbers!Idle /\ attempt'[g].no = attempt'[f].no => g = f
  <2>1. f # e /\ attempt'[f] = attempt[f] /\ attempt[f].no \in Numbers!Number
    BY <1>12, <1>13
  <2>2. /\ Drawn(attempt[f].no) /\ order[attempt[f].no] = NoEvent /\ inbox[f] = "processing"
        /\ \A g \in Unnumbered : attempt[g] # Numbers!Idle /\ attempt[g].no = attempt[f].no => g = f
    BY <1>13, <2>1 DEF NumbersInv
  <2>3. attempt[f].no # n
    BY <1>3, <2>1, <2>2 DEF n
  <2>4. Drawn(attempt[f].no)'
    BY <1>3, <2>1, <2>2 DEF Drawn
  <2>5. QED
    BY <1>10, <1>12, <2>1, <2>2, <2>3, <2>4
<1>14. Numbers!OrderOfItsOwn'
  <2>1. ASSUME NEW f \in Unnumbered, inbox'[f] = "succeeded" PROVE \E m \in Numbers!Number : order'[m] = f
    <3>1. CASE f = e
      BY <1>4, <1>10, <3>1
    <3>2. CASE f # e
      <4>1. PICK m \in Numbers!Number : order[m] = f
        BY <1>12, <2>1, <3>2 DEF NumbersInv, Numbers!OrderOfItsOwn, Numbers!OrdersOf
      <4>2. m # n
        BY <1>1, <1>4, <4>1
      <4>3. QED
        BY <1>10, <4>1, <4>2
    <3>3. QED
      BY <3>1, <3>2
  <2>2. QED
    BY <2>1 DEF Numbers!OrderOfItsOwn, Numbers!OrdersOf
<1>15. \A j \in Instances : seq'[j] <= Cardinality(Charged') + saveFailures'
  <2>1. \A j \in Instances : seq[j] \in Nat /\ seq[j] <= Cardinality(Charged) + saveFailures
    BY <1>2 DEF NumbersInv, NumbersTyped
  <2>2. saveFailures \in Nat
    BY <1>1, <1>2 DEF NumbersTyped
  <2>3. CASE inbox' = [inbox EXCEPT ![e] = "succeeded"] /\ saveFailures' = saveFailures
    <3>1. Charged' = Charged
      BY <1>2, <1>4, <2>3 DEF Charged, NumbersTyped
    <3>2. QED
      BY <1>3, <2>1, <2>3, <3>1
  <2>4. CASE inbox' = [inbox EXCEPT ![e] = "failed"] /\ saveFailures' = saveFailures + 1
    <3>1. Charged' = Charged \ {e} /\ e \in Charged
      BY <1>2, <1>4, <2>4 DEF Charged, NumbersTyped
    <3>2. Cardinality(Charged') = Cardinality(Charged) - 1 /\ Cardinality(Charged) \in Nat
      BY <1>1, <3>1, ChargedFacts
    <3>3. QED
      BY <1>3, <2>1, <2>2, <2>4, <3>2
  <2>5. QED
    BY <1>6, <2>3, <2>4
<1>16. QED
  BY <1>9, <1>11, <1>13, <1>14, <1>15 DEF NumbersInv

\* A later second has drawn none of its numbers.
LEMMA ClockKept ==
  ASSUME Numbers!NumberAssumption, OneNumbering, NumbersInv,
         (\E i \in Instances : Numbers!Restart(i)) \/ Numbers!Tick
  PROVE  NumbersInv'
<1>1. /\ second' \in 0..MaxSecond /\ second' > second /\ UNCHANGED <<order, inbox, saveFailures>>
      /\ \A e \in Unnumbered : attempt'[e] = attempt[e] \/ attempt'[e] = Numbers!Idle
  BY DEF Numbers!Restart, Numbers!Tick, OneNumbering, NumbersInv, NumbersTyped, Numbers!NumberAssumption
<1>2. seq' \in [Instances -> Nat] /\ \A i \in Instances : seq'[i] <= seq[i]
  BY DEF Numbers!Restart, Numbers!Tick, NumbersInv, NumbersTyped
<1>3. Numbers!Idle \in [at : Instances \cup {"none"}, no : Numbers!Number]
  BY DEF Numbers!Idle, Numbers!Number, Numbers!NumberAssumption
<1>4. attempt' \in [Unnumbered -> [at : Instances \cup {"none"}, no : Numbers!Number]]
  BY <1>3 DEF Numbers!Restart, Numbers!Tick, NumbersInv, NumbersTyped
<1>5. NumbersTyped'
  BY <1>1, <1>2, <1>4 DEF NumbersInv, NumbersTyped
<1>6. \A n \in Numbers!Number : Drawn(n) => Drawn(n)'
  BY <1>1 DEF Drawn, Numbers!Number, NumbersInv, NumbersTyped
<1>7. ASSUME NEW e \in Unnumbered, attempt'[e] # Numbers!Idle
      PROVE  /\ Drawn(attempt[e].no)' /\ order'[attempt'[e].no] = NoEvent /\ inbox'[e] = "processing"
             /\ \A f \in Unnumbered : attempt'[f] # Numbers!Idle /\ attempt'[f].no = attempt'[e].no => f = e
  <2>1. attempt'[e] = attempt[e] /\ attempt[e].no \in Numbers!Number
    BY <1>1, <1>7 DEF NumbersInv, NumbersTyped
  <2>2. Drawn(attempt[e].no) /\ order[attempt[e].no] = NoEvent /\ inbox[e] = "processing"
    BY <1>7, <2>1 DEF NumbersInv
  <2>3. Drawn(attempt[e].no)'
    BY <1>6, <2>1, <2>2 DEF Drawn
  <2>4. ASSUME NEW f \in Unnumbered, attempt'[f] # Numbers!Idle, attempt'[f].no = attempt'[e].no
        PROVE  f = e
    BY <1>1, <1>7, <2>1, <2>4 DEF NumbersInv
  <2>5. QED
    BY <1>1, <2>1, <2>2, <2>3, <2>4
<1>8. \A i \in Instances : seq'[i] <= Cardinality(Charged') + saveFailures'
  <2>1. Charged' = Charged /\ Cardinality(Charged) \in Nat /\ saveFailures \in Nat
    BY <1>1, ChargedFacts DEF Charged, OneNumbering, NumbersInv, NumbersTyped, Numbers!NumberAssumption
  <2>2. \A i \in Instances :
          seq[i] \in Nat /\ seq'[i] \in Nat /\ seq'[i] <= seq[i] /\ seq[i] <= Cardinality(Charged) + saveFailures
    BY <1>2 DEF NumbersInv, NumbersTyped
  <2>3. QED
    BY <1>1, <2>1, <2>2
<1>9. Numbers!OrderOfItsOwn'
  BY <1>1 DEF NumbersInv, Numbers!OrderOfItsOwn, Numbers!OrdersOf
<1>10. QED
  BY <1>1, <1>5, <1>6, <1>7, <1>8, <1>9 DEF NumbersInv

\* For one process at a time and fewer deposits than the counter has values: a deposit
\* that was taken has an order of its own, whatever fails and is tried again.
THEOREM NumbersCorrect == OneNumbering /\ Numbers!Spec => []OrderOfItsOwn
<1>1. OneNumbering /\ Numbers!Init => NumbersInv
  <2> SUFFICES ASSUME OneNumbering, Numbers!Init PROVE NumbersInv
    OBVIOUS
  <2>1. Numbers!Idle \in [at : Instances \cup {"none"}, no : Numbers!Number]
    BY NumberAssumption DEF Numbers!Idle, Numbers!Number, Numbers!NumberAssumption
  <2>2. NumbersTyped
    BY <2>1, NumberAssumption DEF Numbers!Init, NumbersTyped, Numbers!NumberAssumption
  <2>3. \A i \in Instances : seq[i] <= Cardinality(Charged) + saveFailures
    BY ChargedFacts DEF Numbers!Init, OneNumbering
  <2>4. QED
    BY <2>2, <2>3 DEF Numbers!Init, NumbersInv, Numbers!OrderOfItsOwn
<1>2. OneNumbering /\ NumbersInv /\ [Numbers!Next]_Numbers!vars => NumbersInv'
  <2> SUFFICES ASSUME OneNumbering, NumbersInv, [Numbers!Next]_Numbers!vars PROVE NumbersInv'
    OBVIOUS
  <2>1. CASE UNCHANGED Numbers!vars
    BY <2>1 DEF Numbers!vars, NumbersInv, NumbersTyped, Drawn, Charged, Numbers!OrderOfItsOwn,
       Numbers!OrdersOf
  <2>2. QED
    BY <2>1, NumberAssumption, NormalizeKept, SaveKept, ClockKept DEF Numbers!Next
<1>3. NumbersInv => OrderOfItsOwn
  BY DEF NumbersInv, OrderOfItsOwn
<1>4. OneNumbering => OneNumbering'
  BY DEF OneNumbering
<1>5. QED
  BY <1>1, <1>2, <1>3, <1>4, PTL DEF Numbers!Spec

-----------------------------------------------------------------------------
(***************************************************************************)
(* Requests and what becomes of them                                       *)
(***************************************************************************)
DepositRow == [shard : Shards \cup {NoShard}, amount : Int,
               status : Requests!Statuses \cup {"absent"}, basket : Baskets \cup {NoNumber}]
BasketRow  == [shard : Shards \cup {NoShard}, target : Int, current : Int,
               status : Requests!Statuses \cup {"absent"}]
DetailRow  == [basket : Baskets \cup {NoNumber}, amount : Int,
               status : {"none", "attached", "matched", "released"}]
PoolEntry  == [in : BOOLEAN, current : Int, status : Requests!Statuses, deposits : SUBSET Deposits]

IntakeTyped ==
  /\ deposit \in [Deposits -> DepositRow] /\ basket \in [Baskets -> BasketRow]
  /\ detail \in [Deposits -> DetailRow] /\ pool \in [Baskets -> PoolEntry]
  /\ record = [b \in Baskets |-> record[b]]

Matched(b) == {d \in Deposits : detail[d].basket = b /\ detail[d].status = "matched"}

\* A row has the shard and the amount of one request for it.
RowsOfRequests ==
  \A d \in Deposits : deposit[d].status # "absent" =>
    \E r \in Requests!RequestsFor(d) : r.shard = deposit[d].shard /\ r.amount = deposit[d].amount

\* A detail has the amount of one request, which was for the shard of the basket.
DetailsOfRequests ==
  \A d \in Deposits : detail[d].status # "none" =>
    /\ detail[d].basket \in Baskets
    /\ deposit[d].status # "absent" /\ basket[detail[d].basket].status # "absent"
    /\ \E r \in Requests!RequestsFor(d) :
         r.amount = detail[d].amount /\ r.shard = basket[detail[d].basket].shard

BasketsSane ==
  \A b \in Baskets : basket[b].status # "absent" => basket[b].target > 0 /\ basket[b].shard # NoShard

\* A deposit that was locked here names the basket that it is attached to.
LockedInBasket ==
  \A d \in Deposits : deposit[d].status = "locked" /\ Requests!NotSentLocked(d) =>
    detail[d].status = "attached" /\ deposit[d].basket = detail[d].basket

\* The pool has the rows that are waiting, and no fewer deposits than are attached; it
\* has them as they are where every deposit is found in the shard of its basket.
PoolOfRows ==
  \A b \in Baskets : pool[b].in =>
    /\ basket[b].status # "absent"
    /\ pool[b].status = "waiting" <=> basket[b].status = "waiting"
    /\ basket[b].status = "waiting" =>
         /\ Requests!Attached(b) \subseteq pool[b].deposits
         /\ Requests!Proper(b) =>
              pool[b].current = basket[b].current /\ pool[b].deposits = Requests!Attached(b)

\* The sums of a basket.  Only a matched basket has a record, and only one with a record
\* has matched details.
SumsHold(b) ==
  /\ basket[b].status = "waiting" /\ Requests!Proper(b) =>
       basket[b].current = Requests!Amounts(Requests!Attached(b))
  /\ record[b].made /\ Requests!Proper(b) =>
       /\ record[b].amount = Requests!Amounts(Matched(b))
       /\ record[b].lines = [d \in Matched(b) |-> deposit[d].amount]
  /\ record[b].made => basket[b].status = "matched"
  /\ ~record[b].made => Matched(b) = {}

IntakeInv ==
  /\ IntakeTyped /\ RowsOfRequests /\ DetailsOfRequests /\ BasketsSane
  /\ LockedInBasket /\ PoolOfRows /\ \A b \in Baskets : SumsHold(b)

-----------------------------------------------------------------------------
(***************************************************************************)
(* Sums of details                                                         *)
(***************************************************************************)
\* The sums of a set of deposits, for the details as they are and as they will be.
LEMMA SumType ==
  ASSUME NEW S \in SUBSET Deposits, NEW g, \A d \in S : g[d].amount \in Requests!Sizes
  PROVE  Total([d \in S |-> g[d].amount]) \in Nat
<1>1. [d \in S |-> g[d].amount] \in [S -> Requests!Sizes]
  OBVIOUS
<1>2. QED
  BY <1>1, RequestsAssumption DEF Requests!TotalAssumption

LEMMA SumOfNone ==
  ASSUME NEW g
  PROVE  Total([d \in {} |-> g[d].amount]) = 0
<1>1. [d \in {} |-> g[d].amount] \in [{} -> Requests!Sizes]
  OBVIOUS
<1>2. QED
  BY <1>1, RequestsAssumption DEF Requests!TotalAssumption

LEMMA SumWith ==
  ASSUME NEW S \in SUBSET Deposits, NEW d \in Deposits \ S, NEW g,
         \A x \in S \cup {d} : g[x].amount \in Requests!Sizes
  PROVE  Total([x \in S \cup {d} |-> g[x].amount]) = Total([x \in S |-> g[x].amount]) + g[d].amount
<1> DEFINE f == [x \in S \cup {d} |-> g[x].amount]
<1>1. f \in [S \cup {d} -> Requests!Sizes] /\ f[d] = g[d].amount
      /\ [x \in S |-> f[x]] = [x \in S |-> g[x].amount]
  OBVIOUS
<1> HIDE DEF f
<1>2. Total(f) = Total([x \in S |-> f[x]]) + f[d]
  BY <1>1, RequestsAssumption DEF Requests!TotalAssumption
<1>3. Total(f) = Total([x \in S |-> g[x].amount]) + g[d].amount
  BY <1>1, <1>2
<1>4. QED
  BY <1>3 DEF f

\* An amount that is accepted may stand in a detail.
LEMMA SizesAre ==
  /\ Requests!Sizes \subseteq Nat \ {0}
  /\ \A r \in DepositRequests : Requests!DepositAccepted(r) =>
       /\ r.amount \in Requests!Sizes /\ r.shard \in Shards \ {NoShard} /\ r.no \in Deposits
       /\ Requests!Status(r) \in Requests!Statuses
<1>1. DepositRequests \subseteq Requests!DepositRequest
  BY RequestsAssumption DEF Requests!RequestAssumption
<1>2. \A r \in DepositRequests : r.amount \in Int
  BY <1>1 DEF Requests!DepositRequest
<1>3. Requests!Sizes \subseteq Nat \ {0}
  BY <1>2 DEF Requests!Sizes
<1>4. ASSUME NEW r \in DepositRequests, Requests!DepositAccepted(r)
      PROVE  /\ r.amount \in Requests!Sizes /\ r.shard \in Shards \ {NoShard} /\ r.no \in Deposits
             /\ Requests!Status(r) \in Requests!Statuses
  <2>1. r \in Requests!DepositRequest
    BY <1>1
  <2>2. r.amount > 0 /\ r.shard # NoShard
    BY <1>4 DEF Requests!DepositAccepted, Requests!ValidateDeposit
  <2>3. r.no # NoNumber
    <3>1. CASE r.via = "grpc"
      BY <1>4, <3>1 DEF Requests!DepositAccepted, Requests!SubmitDepositRequestValid
    <3>2. CASE r.via = "mq"
      BY <3>2, RequestsAssumption DEF Requests!RequestAssumption
    <3>3. QED
      BY <2>1, <3>1, <3>2 DEF Requests!DepositRequest, Requests!Via
  <2>4. r.amount \in Requests!Sizes
    BY <2>2 DEF Requests!Sizes
  <2>5. QED
    BY <2>1, <2>2, <2>3, <2>4 DEF Requests!DepositRequest, Requests!Status, Requests!Statuses
<1>5. QED
  BY <1>3, <1>4

-----------------------------------------------------------------------------
(***************************************************************************)
(* What the operations do to the rows                                      *)
(***************************************************************************)
\* A deposit row comes from a request and keeps its shard and amount, a basket row its
\* shard and target, a detail its basket and amount.
NewDeposit(row, d) ==
  /\ row.status # "absent" /\ (Requests!NotSentLocked(d) => row.status # "locked")
  /\ \E r \in Requests!RequestsFor(d) : r.shard = row.shard /\ r.amount = row.amount

DepositsGrow ==
  \A d \in Deposits :
    IF deposit[d].status = "absent"
    THEN deposit'[d].status = "absent" \/
           \E r \in Requests!RequestsFor(d) :
             r.shard = deposit'[d].shard /\ r.amount = deposit'[d].amount
    ELSE /\ deposit'[d].status # "absent" /\ deposit'[d].shard = deposit[d].shard
         /\ deposit'[d].amount = deposit[d].amount

BasketsGrow ==
  \A b \in Baskets :
    IF basket[b].status = "absent"
    THEN basket'[b].status = "absent" \/ (basket'[b].target > 0 /\ basket'[b].shard # NoShard)
    ELSE /\ basket'[b].status # "absent" /\ basket'[b].shard = basket[b].shard
         /\ basket'[b].target = basket[b].target

DetailsGrow ==
  \A d \in Deposits :
    IF detail[d].status = "none"
    THEN detail'[d].status = "none" \/
           /\ detail'[d].basket \in Baskets
           /\ deposit'[d].status # "absent" /\ basket'[detail'[d].basket].status # "absent"
           /\ \E r \in Requests!RequestsFor(d) :
                r.amount = detail'[d].amount /\ r.shard = basket'[detail'[d].basket].shard
    ELSE /\ detail'[d].status # "none" /\ detail'[d].basket = detail[d].basket
         /\ detail'[d].amount = detail[d].amount

\* A basket that has a deposit of another shard never loses it.
LEMMA SaneStep ==
  ASSUME IntakeInv, DepositsGrow, BasketsGrow, DetailsGrow
  PROVE  /\ RowsOfRequests' /\ DetailsOfRequests' /\ BasketsSane'
         /\ \A b \in Baskets : Requests!Proper(b)' => Requests!Proper(b)
<1>1. RowsOfRequests'
  BY DEF IntakeInv, RowsOfRequests, DepositsGrow
<1>2. BasketsSane'
  BY DEF IntakeInv, BasketsSane, BasketsGrow
<1>3. DetailsOfRequests'
  <2>1. ASSUME NEW d \in Deposits, detail'[d].status # "none"
        PROVE  /\ detail'[d].basket \in Baskets
               /\ deposit'[d].status # "absent" /\ basket'[detail'[d].basket].status # "absent"
               /\ \E r \in Requests!RequestsFor(d) :
                    r.amount = detail'[d].amount /\ r.shard = basket'[detail'[d].basket].shard
    <3>1. CASE detail[d].status # "none"
      <4>1. /\ detail[d].basket \in Baskets
            /\ deposit[d].status # "absent" /\ basket[detail[d].basket].status # "absent"
            /\ \E r \in Requests!RequestsFor(d) :
                 r.amount = detail[d].amount /\ r.shard = basket[detail[d].basket].shard
        BY <3>1 DEF IntakeInv, DetailsOfRequests
      <4>2. detail'[d].basket = detail[d].basket /\ detail'[d].amount = detail[d].amount
        BY <3>1 DEF DetailsGrow
      <4>3. QED
        BY <4>1, <4>2 DEF DepositsGrow, BasketsGrow
    <3>2. CASE detail[d].status = "none"
      BY <2>1, <3>2 DEF DetailsGrow
    <3>3. QED
      BY <3>1, <3>2
  <2>2. QED
    BY <2>1 DEF DetailsOfRequests
<1>4. ASSUME NEW b \in Baskets, Requests!Proper(b)'
      PROVE  Requests!Proper(b)
  <2>1. ASSUME NEW d \in Deposits, detail[d].status # "none", detail[d].basket = b
        PROVE  deposit[d].shard = basket[detail[d].basket].shard
    <3>1. detail'[d].status # "none" /\ detail'[d].basket = b
      BY <2>1 DEF DetailsGrow
    <3>2. deposit'[d].shard = basket'[b].shard
      BY <1>4, <3>1 DEF Requests!Proper, Requests!OfItsShard
    <3>3. deposit[d].status # "absent" /\ basket[b].status # "absent"
      BY <2>1 DEF IntakeInv, DetailsOfRequests
    <3>4. QED
      BY <2>1, <3>2, <3>3 DEF DepositsGrow, BasketsGrow
  <2>2. QED
    BY <1>4, <2>1 DEF Requests!Proper, Requests!OfItsShard
<1>5. QED
  BY <1>1, <1>2, <1>3, <1>4

\* The amounts of rows and details have been requested.
LEMMA AmountsRequested ==
  ASSUME IntakeInv, NEW d \in Deposits, detail[d].status # "none"
  PROVE  /\ detail[d].amount \in Requests!Sizes
         /\ deposit[d].amount \in Requests!Sizes /\ deposit[d].status # "absent"
<1>1. /\ deposit[d].status # "absent"
      /\ \E r \in Requests!RequestsFor(d) : r.amount = detail[d].amount
      /\ \E r \in Requests!RequestsFor(d) : r.amount = deposit[d].amount
  BY DEF IntakeInv, DetailsOfRequests, RowsOfRequests
<1>2. \A r \in Requests!RequestsFor(d) : r.amount \in Requests!Sizes
  BY SizesAre DEF Requests!RequestsFor
<1>3. QED
  BY <1>1, <1>2

\* The sum of an open basket is a natural number.
LEMMA AttachedSum ==
  ASSUME IntakeInv, NEW b \in Baskets
  PROVE  /\ Requests!Attached(b) \in SUBSET Deposits
         /\ \A d \in Requests!Attached(b) : detail[d].amount \in Requests!Sizes
         /\ Requests!Amounts(Requests!Attached(b)) \in Nat
<1>1. /\ Requests!Attached(b) \in SUBSET Deposits
      /\ \A d \in Requests!Attached(b) : detail[d].amount \in Requests!Sizes
  BY AmountsRequested DEF Requests!Attached
<1>2. QED
  BY <1>1, SumType DEF Requests!Amounts

\* Baskets whose details stay, and that stay as they are, keep their sums.
LEMMA OthersKept ==
  ASSUME IntakeInv, DepositsGrow, BasketsGrow, DetailsGrow, NEW c \in Baskets,
         basket'[c] = basket[c], record'[c] = record[c],
         Requests!Attached(c)' = Requests!Attached(c), Matched(c)' = Matched(c)
  PROVE  SumsHold(c)'
<1>1. SumsHold(c) /\ (Requests!Proper(c)' => Requests!Proper(c))
  BY SaneStep DEF IntakeInv
<1>2. \A d \in Deposits : detail[d].status # "none" =>
        detail'[d].amount = detail[d].amount /\ deposit'[d].amount = deposit[d].amount
  BY DEF IntakeInv, DetailsOfRequests, DepositsGrow, DetailsGrow
<1>3. /\ [d \in Requests!Attached(c)' |-> detail'[d].amount]
           = [d \in Requests!Attached(c) |-> detail[d].amount]
      /\ [d \in Matched(c)' |-> detail'[d].amount] = [d \in Matched(c) |-> detail[d].amount]
      /\ [d \in Matched(c)' |-> deposit'[d].amount] = [d \in Matched(c) |-> deposit[d].amount]
  BY <1>2 DEF Requests!Attached, Matched
<1>4. /\ Requests!Amounts(Requests!Attached(c))' = Requests!Amounts(Requests!Attached(c))
      /\ Requests!Amounts(Matched(c))' = Requests!Amounts(Matched(c))
  BY <1>3 DEF Requests!Amounts
<1>5. QED
  BY <1>1, <1>3, <1>4 DEF SumsHold

\* Deposit rows are saved or expire; nothing else changes.
LEMMA OnlyDeposits ==
  ASSUME IntakeInv, deposit' \in [Deposits -> DepositRow], UNCHANGED <<basket, detail, record, pool>>,
         \A d \in Deposits :
           \/ deposit'[d] = deposit[d]
           \/ deposit[d].status = "absent" /\ NewDeposit(deposit'[d], d)
           \/ deposit[d].status = "waiting" /\ deposit'[d] = [deposit[d] EXCEPT !.status = "expired"]
  PROVE  IntakeInv'
<1>1. \A d \in Deposits : deposit[d] \in DepositRow
  BY DEF IntakeInv, IntakeTyped
<1>2. DepositsGrow
  BY <1>1 DEF DepositsGrow, NewDeposit, DepositRow
<1>3. BasketsGrow /\ DetailsGrow
  BY DEF BasketsGrow, DetailsGrow
<1>4. IntakeTyped'
  BY DEF IntakeInv, IntakeTyped
<1>5. LockedInBasket'
  <2>1. \A d \in Deposits : deposit'[d].status = "locked" /\ Requests!NotSentLocked(d) =>
          deposit'[d] = deposit[d]
    BY <1>1 DEF NewDeposit, DepositRow
  <2>2. QED
    BY <2>1 DEF IntakeInv, LockedInBasket
<1>6. /\ RowsOfRequests' /\ DetailsOfRequests' /\ BasketsSane'
      /\ \A b \in Baskets : Requests!Proper(b)' => Requests!Proper(b)
  BY <1>2, <1>3, SaneStep
<1>7. \A c \in Baskets :
        /\ basket'[c] = basket[c] /\ record'[c] = record[c]
        /\ Requests!Attached(c)' = Requests!Attached(c) /\ Matched(c)' = Matched(c)
  BY DEF Requests!Attached, Matched
<1>8. PoolOfRows'
  BY <1>6, <1>7 DEF IntakeInv, PoolOfRows
<1>9. \A c \in Baskets : SumsHold(c)'
  BY <1>2, <1>3, <1>7, OthersKept
<1>10. QED
  BY <1>4, <1>5, <1>6, <1>8, <1>9 DEF IntakeInv

\* The row of a request: new, or the one that was there.
LEMMA SavedRows ==
  ASSUME IntakeInv, NEW r \in DepositRequests, Requests!DepositAccepted(r)
  PROVE  /\ Requests!Saved(r) \in [Deposits -> DepositRow]
         /\ \A d \in Deposits :
              \/ Requests!Saved(r)[d] = deposit[d]
              \/ deposit[d].status = "absent" /\ NewDeposit(Requests!Saved(r)[d], d)
         /\ Requests!Saved(r)[r.no].status # "absent"
<1> DEFINE row == [shard |-> r.shard, amount |-> r.amount, status |-> Requests!Status(r),
                   basket |-> NoNumber]
<1>1. /\ r.no \in Deposits /\ r.amount \in Nat \ {0} /\ r.shard \in Shards
      /\ Requests!Status(r) \in Requests!Statuses
  BY SizesAre
<1>2. r \in Requests!RequestsFor(r.no)
  BY DEF Requests!RequestsFor
<1>3. Requests!NotSentLocked(r.no) => Requests!Status(r) # "locked"
  BY <1>2 DEF Requests!NotSentLocked, Requests!Status
<1>4. row \in DepositRow /\ NewDeposit(row, r.no) /\ row.status # "absent"
  BY <1>1, <1>2, <1>3 DEF DepositRow, NewDeposit, Requests!Statuses
<1>5. deposit \in [Deposits -> DepositRow]
  BY DEF IntakeInv, IntakeTyped
<1>6. CASE deposit[r.no].status # "absent"
  <2>1. Requests!Saved(r) = deposit
    BY <1>1, <1>5, <1>6 DEF Requests!Saved
  <2>2. QED
    BY <1>5, <1>6, <2>1
<1>7. CASE deposit[r.no].status = "absent"
  <2>1. Requests!Saved(r) = [deposit EXCEPT ![r.no] = row]
    BY <1>1, <1>5, <1>7 DEF Requests!Saved, Requests!NoBasket, row
  <2> HIDE DEF row
  <2>2. QED
    BY <1>1, <1>4, <1>5, <1>7, <2>1
<1>8. QED
  BY <1>6, <1>7

\* A deposit joins a basket that has room: its detail, the sums and the pool follow.
LEMMA AttachKept ==
  ASSUME IntakeInv, NEW r \in DepositRequests, NEW b \in Baskets,
         Requests!DepositAccepted(r), Requests!Attach(r, b)
  PROVE  IntakeInv' /\ Requests!PositiveAnswerTrue'
<1> DEFINE n == r.no
           saved == Requests!Saved(r)
           entry == [basket |-> b, amount |-> r.amount, status |-> "attached"]
<1>1. /\ n \in Deposits /\ r.amount \in Requests!Sizes /\ r.amount \in Nat \ {0}
      /\ r.shard \in Shards \ {NoShard} /\ NoNumber \notin Baskets
  <2>1. r.no \in Deposits /\ r.amount \in Requests!Sizes /\ r.shard \in Shards \ {NoShard}
    BY SizesAre
  <2>2. r.amount \in Nat \ {0}
    BY <2>1, SizesAre
  <2>3. NoNumber \notin Baskets
    BY RequestsAssumption DEF Requests!RequestAssumption
  <2>4. QED
    BY <2>1, <2>2, <2>3
<1>2. /\ deposit \in [Deposits -> DepositRow] /\ basket \in [Baskets -> BasketRow]
      /\ detail \in [Deposits -> DetailRow] /\ record = [c \in Baskets |-> record[c]]
      /\ pool \in [Baskets -> PoolEntry]
  BY DEF IntakeInv, IntakeTyped
<1>3. /\ pool[b].in /\ pool[b].status = "waiting" /\ basket[b].shard = r.shard
      /\ detail[n].status = "none" /\ basket[b].status = "waiting"
  BY DEF Requests!Attach, Requests!AcceptableTo, Requests!InShard, Requests!Committable
<1>4. /\ detail' = [detail EXCEPT ![n] = entry]
      /\ basket' = [basket EXCEPT ![b].current = pool[b].current + r.amount]
      /\ pool' = [pool EXCEPT ![b].current = pool[b].current + r.amount,
                              ![b].deposits = pool[b].deposits \cup {n}]
      /\ UNCHANGED record
  BY <1>2 DEF Requests!Attach, Requests!WithDetail, Requests!Result, Requests!Nothing
<1>5. /\ saved \in [Deposits -> DepositRow] /\ saved[n].status # "absent"
      /\ \A d \in Deposits :
           \/ saved[d] = deposit[d]
           \/ deposit[d].status = "absent" /\ NewDeposit(saved[d], d)
  BY SavedRows
<1>6. deposit' = [saved EXCEPT ![n] =
        IF saved[n].status = "waiting"
        THEN [saved[n] EXCEPT !.status = "locked", !.basket = b] ELSE saved[n]]
  BY <1>1, <1>5 DEF Requests!Attach, Requests!AttachedRow
<1> HIDE DEF saved
<1>7. /\ deposit' \in [Deposits -> DepositRow]
      /\ deposit'[n].status # "absent" /\ deposit'[n].shard = saved[n].shard
      /\ deposit'[n].amount = saved[n].amount
      /\ \A d \in Deposits \ {n} : deposit'[d] = saved[d]
      /\ deposit'[n].status = "locked" => deposit'[n].basket = b \/ deposit'[n] = saved[n]
  <2>1. CASE saved[n].status = "waiting"
    <3> DEFINE row1 == [saved[n] EXCEPT !.status = "locked"]
               row == [row1 EXCEPT !.basket = b]
    <3>1. row1 \in DepositRow
      BY <1>1, <1>5 DEF DepositRow, Requests!Statuses
    <3>2. /\ row \in DepositRow /\ row.status = "locked" /\ row.basket = b
          /\ row.shard = saved[n].shard /\ row.amount = saved[n].amount
      BY <1>1, <1>5, <3>1 DEF DepositRow
    <3>3. deposit' = [saved EXCEPT ![n] = row]
      BY <1>6, <2>1
    <3> HIDE DEF row
    <3>4. QED
      BY <1>1, <1>5, <3>2, <3>3
  <2>2. CASE saved[n].status # "waiting"
    BY <1>1, <1>5, <1>6, <2>2
  <2>3. QED
    BY <2>1, <2>2
<1>8. entry \in DetailRow /\ detail'[n] = entry /\ \A d \in Deposits \ {n} : detail'[d] = detail[d]
  BY <1>1, <1>2, <1>4 DEF DetailRow
<1>9. /\ basket' \in [Baskets -> BasketRow] /\ \A c \in Baskets \ {b} : basket'[c] = basket[c]
      /\ basket'[b].current = pool[b].current + r.amount /\ basket'[b].status = "waiting"
      /\ basket'[b].shard = basket[b].shard /\ basket'[b].target = basket[b].target
  <2> DEFINE row == [basket[b] EXCEPT !.current = pool[b].current + r.amount]
  <2>1. basket[b] \in BasketRow /\ pool[b].current + r.amount \in Int
    BY <1>1, <1>2 DEF PoolEntry
  <2>2. /\ row \in BasketRow /\ row.current = pool[b].current + r.amount
        /\ row.status = "waiting" /\ row.shard = basket[b].shard /\ row.target = basket[b].target
    BY <1>3, <2>1 DEF BasketRow
  <2>3. basket' = [basket EXCEPT ![b] = row]
    BY <1>4
  <2> HIDE DEF row
  <2>4. QED
    BY <1>2, <2>2, <2>3
<1>10. /\ pool' \in [Baskets -> PoolEntry] /\ \A c \in Baskets \ {b} : pool'[c] = pool[c]
       /\ pool'[b].current = pool[b].current + r.amount
       /\ pool'[b].deposits = pool[b].deposits \cup {n}
       /\ pool'[b].in /\ pool'[b].status = "waiting"
  <2> DEFINE p1 == [pool[b] EXCEPT !.current = pool[b].current + r.amount]
             p == [p1 EXCEPT !.deposits = pool[b].deposits \cup {n}]
  <2>1. p1 \in PoolEntry /\ p1.in /\ p1.status = "waiting" /\ p1.current = pool[b].current + r.amount
    BY <1>1, <1>2, <1>3 DEF PoolEntry
  <2>2. /\ p \in PoolEntry /\ p.in /\ p.status = "waiting" /\ p.current = pool[b].current + r.amount
        /\ p.deposits = pool[b].deposits \cup {n}
    BY <1>1, <1>2, <2>1 DEF PoolEntry
  <2>3. pool' = [pool EXCEPT ![b] = p]
    BY <1>2, <1>4
  <2> HIDE DEF p
  <2>4. QED
    BY <1>2, <2>2, <2>3
<1>11. IntakeTyped'
  BY <1>1, <1>2, <1>4, <1>7, <1>8, <1>9, <1>10 DEF IntakeTyped
<1>12. DepositsGrow
  <2>1. \A d \in Deposits : deposit[d].status # "absent" => saved[d] = deposit[d]
    BY <1>5
  <2>2. \A d \in Deposits :
          /\ deposit'[d].shard = saved[d].shard /\ deposit'[d].amount = saved[d].amount
          /\ saved[d].status # "absent" => deposit'[d].status # "absent"
          /\ deposit'[d].status # "absent" => saved[d].status # "absent"
    BY <1>5, <1>7
  <2>3. QED
    BY <1>5, <2>1, <2>2 DEF DepositsGrow, NewDeposit
<1>13. BasketsGrow
  BY <1>3, <1>9 DEF BasketsGrow
<1>14. DetailsGrow
  <2>1. r \in Requests!RequestsFor(n)
    BY DEF Requests!RequestsFor
  <2>2. basket'[detail'[n].basket].shard = r.shard /\ detail'[n].amount = r.amount
    BY <1>1, <1>3, <1>8, <1>9
  <2>3. /\ detail'[n].basket \in Baskets
        /\ deposit'[n].status # "absent" /\ basket'[detail'[n].basket].status # "absent"
    BY <1>7, <1>8, <1>9
  <2>4. \A d \in Deposits \ {n} : detail'[d] = detail[d]
    BY <1>8
  <2>5. QED
    BY <1>3, <2>1, <2>2, <2>3, <2>4 DEF DetailsGrow
<1>15. /\ RowsOfRequests' /\ DetailsOfRequests' /\ BasketsSane'
       /\ \A c \in Baskets : Requests!Proper(c)' => Requests!Proper(c)
  BY <1>12, <1>13, <1>14, SaneStep
<1>16. LockedInBasket'
  <2>1. ASSUME NEW d \in Deposits, deposit'[d].status = "locked", Requests!NotSentLocked(d)
        PROVE  detail'[d].status = "attached" /\ deposit'[d].basket = detail'[d].basket
    <3>1. saved[d].status = "locked" => deposit[d].status = "locked" /\ saved[d] = deposit[d]
      BY <1>5, <2>1 DEF NewDeposit
    <3>2. deposit[d].status = "locked" => detail[d].status = "attached" /\ deposit[d].basket = detail[d].basket
      BY <2>1 DEF IntakeInv, LockedInBasket
    <3>3. CASE d = n
      BY <1>3, <1>7, <1>8, <2>1, <3>1, <3>2, <3>3
    <3>4. CASE d # n
      BY <1>7, <1>8, <2>1, <3>1, <3>2, <3>4
    <3>5. QED
      BY <3>3, <3>4
  <2>2. QED
    BY <2>1 DEF LockedInBasket
<1>17. /\ Requests!Attached(b)' = Requests!Attached(b) \cup {n} /\ n \notin Requests!Attached(b)
       /\ \A c \in Baskets \ {b} : Requests!Attached(c)' = Requests!Attached(c)
       /\ \A c \in Baskets : Matched(c)' = Matched(c)
  BY <1>1, <1>3, <1>8 DEF Requests!Attached, Matched
<1>18. /\ Requests!Attached(b) \subseteq pool[b].deposits
       /\ Requests!Proper(b) =>
            /\ pool[b].current = Requests!Amounts(Requests!Attached(b))
            /\ pool[b].deposits = Requests!Attached(b)
  <2>1. /\ Requests!Attached(b) \subseteq pool[b].deposits
        /\ Requests!Proper(b) => pool[b].current = basket[b].current
                                 /\ pool[b].deposits = Requests!Attached(b)
    BY <1>3 DEF IntakeInv, PoolOfRows
  <2>2. Requests!Proper(b) => basket[b].current = Requests!Amounts(Requests!Attached(b))
    BY <1>3 DEF IntakeInv, SumsHold
  <2>3. QED
    BY <2>1, <2>2
<1>19. PoolOfRows'
  <2>1. ASSUME NEW c \in Baskets, pool'[c].in
        PROVE  /\ basket'[c].status # "absent"
               /\ pool'[c].status = "waiting" <=> basket'[c].status = "waiting"
               /\ basket'[c].status = "waiting" =>
                    /\ Requests!Attached(c)' \subseteq pool'[c].deposits
                    /\ Requests!Proper(c)' => pool'[c].current = basket'[c].current
                                              /\ pool'[c].deposits = Requests!Attached(c)'
    <3>1. CASE c = b
      BY <1>9, <1>10, <1>15, <1>17, <1>18, <3>1
    <3>2. CASE c # b
      BY <1>9, <1>10, <1>15, <1>17, <2>1, <3>2 DEF IntakeInv, PoolOfRows
    <3>3. QED
      BY <3>1, <3>2
  <2>2. QED
    BY <2>1 DEF PoolOfRows
<1>20. Requests!Proper(b)' => basket'[b].current = Requests!Amounts(Requests!Attached(b))'
  <2> DEFINE A == Requests!Attached(b)
  <2>1. A \in SUBSET Deposits /\ n \in Deposits \ A /\ \A x \in A : detail[x].amount \in Requests!Sizes
    BY <1>1, <1>17, AttachedSum
  <2>2. \A x \in A : detail'[x].amount = detail[x].amount
    BY <1>8, <2>1
  <2>3. \A x \in A \cup {n} : detail'[x].amount \in Requests!Sizes
    BY <1>1, <1>8, <2>1, <2>2
  <2>4. Total([x \in A \cup {n} |-> detail'[x].amount])
          = Total([x \in A |-> detail'[x].amount]) + detail'[n].amount
    BY <2>1, <2>3, SumWith
  <2>5. [x \in A |-> detail'[x].amount] = [x \in A |-> detail[x].amount]
    BY <2>2
  <2>6. Requests!Amounts(Requests!Attached(b))' = Total([x \in A \cup {n} |-> detail'[x].amount])
    BY <1>17 DEF Requests!Amounts
  <2>7. Requests!Amounts(A) = Total([x \in A |-> detail[x].amount])
    BY DEF Requests!Amounts
  <2> HIDE DEF A
  <2>8. QED
    BY <1>8, <1>9, <1>15, <1>18, <2>4, <2>5, <2>6, <2>7 DEF A
<1>21. ASSUME NEW c \in Baskets
       PROVE  SumsHold(c)'
  <2>1. CASE c = b
    <3>1. ~record[b].made /\ Matched(b) = {}
      BY <1>3 DEF IntakeInv, SumsHold
    <3>2. QED
      BY <1>4, <1>17, <1>20, <2>1, <3>1 DEF SumsHold
  <2>2. CASE c # b
    <3>1. /\ basket'[c] = basket[c] /\ record'[c] = record[c]
          /\ Requests!Attached(c)' = Requests!Attached(c) /\ Matched(c)' = Matched(c)
      BY <1>4, <1>9, <1>17, <2>2
    <3>2. QED
      BY <1>12, <1>13, <1>14, <3>1, OthersKept
  <2>3. QED
    BY <2>1, <2>2
<1>22. Requests!PositiveAnswerTrue'
  <2>1. /\ answer'.no = n /\ answer'.basket = b /\ ~answer'.matched
        /\ answer'.amount = pool[b].current + r.amount
    BY DEF Requests!Attach, Requests!Result, Requests!Nothing
  <2>2. QED
    BY <1>8, <1>9, <2>1 DEF Requests!PositiveAnswerTrue
<1>23. QED
  BY <1>11, <1>15, <1>16, <1>19, <1>21, <1>22 DEF IntakeInv

\* Rows as a request leaves them, and the details with at most one more in basket b.
SavedFrom(saved) ==
  \A d \in Deposits :
    saved[d] = deposit[d] \/ (deposit[d].status = "absent" /\ NewDeposit(saved[d], d))

DetailsFrom(details, saved, b) ==
  \A d \in Deposits :
    \/ details[d] = detail[d]
    \/ /\ detail[d].status = "none" /\ details[d].status = "attached"
       /\ details[d].basket = b /\ saved[d].status # "absent"
       /\ \E r \in Requests!RequestsFor(d) :
            r.amount = details[d].amount /\ r.shard = basket[b].shard

\* A basket is closed with what is attached to it: its record, rows and details follow.
LEMMA CompletedKept ==
  ASSUME IntakeInv, NEW b \in Baskets, basket[b].status = "waiting",
         NEW saved \in [Deposits -> DepositRow], NEW details \in [Deposits -> DetailRow],
         NEW S \in SUBSET Deposits, NEW M \in SUBSET S, NEW amount \in Int,
         SavedFrom(saved), DetailsFrom(details, saved, b),
         M = {d \in Deposits : details[d].basket = b /\ details[d].status = "attached"},
         Requests!Proper(b) => S = M /\ amount = Total([d \in M |-> details[d].amount]),
         Requests!Completed(b, S, amount, saved, details)
  PROVE  IntakeInv'
<1>1. /\ deposit \in [Deposits -> DepositRow] /\ basket \in [Baskets -> BasketRow]
      /\ detail \in [Deposits -> DetailRow] /\ record = [c \in Baskets |-> record[c]]
      /\ pool \in [Baskets -> PoolEntry]
  BY DEF IntakeInv, IntakeTyped
<1>2. /\ record' = [record EXCEPT ![b] = [made |-> TRUE, amount |-> amount,
                                         lines |-> Requests!Lines(S, saved)]]
      /\ pool' = [pool EXCEPT ![b] = Requests!Out]
  BY Zenon DEF Requests!Completed
<1>3. /\ deposit' \in [Deposits -> DepositRow]
      /\ \A d \in Deposits :
           /\ deposit'[d].shard = saved[d].shard /\ deposit'[d].amount = saved[d].amount
           /\ deposit'[d].status = "absent" <=> saved[d].status = "absent"
           /\ deposit'[d].status = "locked" => d \notin S /\ deposit'[d] = saved[d]
  <2> DEFINE row(d) == [[saved[d] EXCEPT !.status = "matched"] EXCEPT !.basket = b]
             new(d) == IF d \in S /\ saved[d].status \in {"waiting", "locked"} THEN row(d) ELSE saved[d]
  <2>1. deposit' = [d \in Deposits |-> new(d)]
    BY Zenon DEF Requests!Completed, new, row
  <2>2. ASSUME NEW d \in Deposits
        PROVE  /\ new(d) \in DepositRow
               /\ new(d).shard = saved[d].shard /\ new(d).amount = saved[d].amount
               /\ new(d).status = "absent" <=> saved[d].status = "absent"
               /\ new(d).status = "locked" => d \notin S /\ new(d) = saved[d]
    <3>1. saved[d] \in DepositRow
      OBVIOUS
    <3>2. [saved[d] EXCEPT !.status = "matched"] \in DepositRow
      BY <3>1 DEF DepositRow, Requests!Statuses
    <3>3. /\ row(d) \in DepositRow /\ row(d).shard = saved[d].shard
          /\ row(d).amount = saved[d].amount /\ row(d).status = "matched"
      BY <3>1, <3>2 DEF DepositRow
    <3> HIDE DEF row
    <3>4. QED
      BY <3>1, <3>3
  <2> HIDE DEF new
  <2>3. QED
    BY <2>1, <2>2
<1>4. /\ detail' \in [Deposits -> DetailRow]
      /\ \A d \in Deposits :
           /\ detail'[d].basket = details[d].basket /\ detail'[d].amount = details[d].amount
           /\ d \in M => detail'[d].status = "matched"
           /\ d \notin M => detail'[d] = details[d]
  <2>1. detail' = [d \in Deposits |->
          IF details[d].basket = b /\ details[d].status = "attached"
            THEN [details[d] EXCEPT !.status = "matched"] ELSE details[d]]
    BY Zenon DEF Requests!Completed
  <2>2. \A d \in Deposits : details[d] \in DetailRow
    OBVIOUS
  <2>3. QED
    BY <2>1, <2>2 DEF DetailRow
<1>5. /\ basket' \in [Baskets -> BasketRow] /\ \A c \in Baskets \ {b} : basket'[c] = basket[c]
      /\ basket'[b].status = "matched" /\ basket'[b].current = amount
      /\ basket'[b].shard = basket[b].shard /\ basket'[b].target = basket[b].target
  <2> DEFINE row == [[basket[b] EXCEPT !.status = "matched"] EXCEPT !.current = amount]
  <2>1. basket[b] \in BasketRow
    BY <1>1
  <2>2. [basket[b] EXCEPT !.status = "matched"] \in BasketRow
    BY <2>1 DEF BasketRow, Requests!Statuses
  <2>3. /\ row \in BasketRow /\ row.status = "matched" /\ row.current = amount
        /\ row.shard = basket[b].shard /\ row.target = basket[b].target
    BY <2>1, <2>2 DEF BasketRow
  <2>4. basket' = [basket EXCEPT ![b].status = "matched", ![b].current = amount]
    BY Zenon DEF Requests!Completed
  <2>5. basket' = [basket EXCEPT ![b] = row]
    BY <1>1, <2>4
  <2> HIDE DEF row
  <2>6. QED
    BY <1>1, <2>3, <2>5
<1>6. /\ record' = [c \in Baskets |-> record'[c]]
      /\ \A c \in Baskets \ {b} : record'[c] = record[c]
      /\ record'[b].made /\ record'[b].amount = amount /\ record'[b].lines = [d \in S |-> saved[d].amount]
  <2> DEFINE row == [made |-> TRUE, amount |-> amount, lines |-> Requests!Lines(S, saved)]
  <2>1. row.made /\ row.amount = amount /\ row.lines = [d \in S |-> saved[d].amount]
    BY DEF Requests!Lines
  <2> HIDE DEF row
  <2>2. QED
    BY <1>1, <1>2, <2>1 DEF row
<1>7. /\ pool' \in [Baskets -> PoolEntry] /\ \A c \in Baskets \ {b} : pool'[c] = pool[c]
      /\ ~pool'[b].in
  <2>1. Requests!Out \in PoolEntry /\ ~Requests!Out.in
    BY DEF Requests!Out, PoolEntry, Requests!Statuses
  <2>2. QED
    BY <1>1, <1>2, <2>1
<1>8. IntakeTyped'
  BY <1>3, <1>4, <1>5, <1>6, <1>7 DEF IntakeTyped
<1>9. DepositsGrow
  BY <1>3 DEF DepositsGrow, NewDeposit, SavedFrom
<1>10. BasketsGrow
  BY <1>5 DEF BasketsGrow
<1>11. DetailsGrow
  <2>1. ASSUME NEW d \in Deposits, detail'[d].status # "none"
        PROVE  \/ /\ detail[d].status # "none" /\ detail'[d].basket = detail[d].basket
                  /\ detail'[d].amount = detail[d].amount
               \/ /\ detail[d].status = "none" /\ detail'[d].basket \in Baskets
                  /\ deposit'[d].status # "absent" /\ basket'[detail'[d].basket].status # "absent"
                  /\ \E r \in Requests!RequestsFor(d) :
                       r.amount = detail'[d].amount /\ r.shard = basket'[detail'[d].basket].shard
    <3>1. CASE details[d] = detail[d]
      <4>1. detail'[d].basket = detail[d].basket /\ detail'[d].amount = detail[d].amount
        BY <1>4, <3>1
      <4>2. detail[d].status # "none"
        <5>1. CASE d \in M
          BY <3>1, <5>1
        <5>2. CASE d \notin M
          BY <1>4, <2>1, <3>1, <5>2
        <5>3. QED
          BY <5>1, <5>2
      <4>3. QED
        BY <4>1, <4>2
    <3>2. CASE details[d] # detail[d]
      <4>1. /\ detail[d].status = "none" /\ details[d].basket = b /\ saved[d].status # "absent"
            /\ \E r \in Requests!RequestsFor(d) :
                 r.amount = details[d].amount /\ r.shard = basket[b].shard
        BY <3>2 DEF DetailsFrom
      <4>2. detail'[d].basket = b /\ detail'[d].amount = details[d].amount
        BY <1>4, <4>1
      <4>3. /\ deposit'[d].status # "absent" /\ basket'[b].status # "absent"
            /\ basket'[b].shard = basket[b].shard
        BY <1>3, <1>5, <4>1
      <4>4. QED
        BY <4>1, <4>2, <4>3
    <3>3. QED
      BY <3>1, <3>2
  <2>2. \A d \in Deposits : detail[d].status # "none" => detail'[d].status # "none"
    <3>1. \A d \in Deposits : detail[d].status # "none" => details[d] = detail[d]
      BY DEF DetailsFrom
    <3>2. QED
      BY <1>4, <3>1
  <2>3. ASSUME NEW d \in Deposits, detail[d].status # "none"
        PROVE  /\ detail'[d].status # "none" /\ detail'[d].basket = detail[d].basket
               /\ detail'[d].amount = detail[d].amount
    BY <2>1, <2>2, <2>3
  <2>4. QED
    BY <2>1, <2>3 DEF DetailsGrow
<1>12. /\ RowsOfRequests' /\ DetailsOfRequests' /\ BasketsSane'
       /\ \A c \in Baskets : Requests!Proper(c)' => Requests!Proper(c)
  BY <1>9, <1>10, <1>11, SaneStep
<1>13. LockedInBasket'
  <2>1. ASSUME NEW d \in Deposits, deposit'[d].status = "locked", Requests!NotSentLocked(d)
        PROVE  detail'[d].status = "attached" /\ deposit'[d].basket = detail'[d].basket
    <3>1. d \notin S /\ deposit'[d] = saved[d] /\ detail'[d] = details[d]
      BY <1>3, <1>4, <2>1
    <3>2. saved[d] = deposit[d]
      BY <2>1, <3>1 DEF NewDeposit, SavedFrom
    <3>3. detail[d].status = "attached" /\ deposit[d].basket = detail[d].basket
      BY <2>1, <3>1, <3>2 DEF IntakeInv, LockedInBasket
    <3>4. details[d] = detail[d]
      BY <3>3 DEF DetailsFrom
    <3>5. QED
      BY <3>1, <3>2, <3>3, <3>4
  <2>2. QED
    BY <2>1 DEF LockedInBasket
<1>14. ~record[b].made /\ Matched(b) = {}
  BY DEF IntakeInv, SumsHold
<1>15. Matched(b)' = M
  <2>1. \A d \in Deposits : details[d].basket = b => details[d].status # "matched"
    BY <1>14 DEF Matched, DetailsFrom
  <2>2. QED
    BY <1>4, <2>1 DEF Matched
<1>16. ASSUME NEW c \in Baskets \ {b}
       PROVE  Requests!Attached(c)' = Requests!Attached(c) /\ Matched(c)' = Matched(c)
  <2>1. ASSUME NEW d \in Deposits
        PROVE  /\ detail'[d].basket = c => detail'[d] = detail[d]
               /\ detail[d].basket = c /\ detail[d].status # "none" => detail'[d] = detail[d]
    BY <1>4, <1>16 DEF DetailsFrom
  <2>2. QED
    BY <2>1 DEF Requests!Attached, Matched
<1>17. PoolOfRows'
  <2>1. ASSUME NEW c \in Baskets, pool'[c].in
        PROVE  /\ basket'[c].status # "absent"
               /\ pool'[c].status = "waiting" <=> basket'[c].status = "waiting"
               /\ basket'[c].status = "waiting" =>
                    /\ Requests!Attached(c)' \subseteq pool'[c].deposits
                    /\ Requests!Proper(c)' => pool'[c].current = basket'[c].current
                                              /\ pool'[c].deposits = Requests!Attached(c)'
    <3>1. c # b
      BY <1>7, <2>1
    <3>2. pool'[c] = pool[c] /\ basket'[c] = basket[c] /\ Requests!Attached(c)' = Requests!Attached(c)
      BY <1>5, <1>7, <1>16, <3>1
    <3>3. QED
      BY <1>12, <2>1, <3>2 DEF IntakeInv, PoolOfRows
  <2>2. QED
    BY <2>1 DEF PoolOfRows
<1>18. ASSUME NEW c \in Baskets
       PROVE  SumsHold(c)'
  <2>1. CASE c = b
    <3>1. [d \in M |-> detail'[d].amount] = [d \in M |-> details[d].amount]
      BY <1>4
    <3>2. Requests!Amounts(Matched(b))' = Total([d \in M |-> details[d].amount])
      BY <1>15, <3>1 DEF Requests!Amounts
    <3>3. [d \in M |-> saved[d].amount] = [d \in M |-> deposit'[d].amount]
      BY <1>3
    <3>4. Requests!Proper(b)' => S = M /\ amount = Total([d \in M |-> details[d].amount])
      BY <1>12
    <3>5. Requests!Proper(b)' => record'[b].lines = [d \in M |-> deposit'[d].amount]
      BY <1>6, <3>3, <3>4
    <3>6. [d \in Matched(b)' |-> deposit'[d].amount] = [d \in M |-> deposit'[d].amount]
      BY <1>15
    <3>7. QED
      BY <1>5, <1>6, <1>15, <2>1, <3>2, <3>4, <3>5, <3>6 DEF SumsHold
  <2>2. CASE c # b
    <3>1. /\ basket'[c] = basket[c] /\ record'[c] = record[c]
          /\ Requests!Attached(c)' = Requests!Attached(c) /\ Matched(c)' = Matched(c)
      BY <1>5, <1>6, <1>16, <2>2
    <3>2. QED
      BY <1>9, <1>10, <1>11, <3>1, OthersKept
  <2>3. QED
    BY <2>1, <2>2
<1>19. QED
  BY <1>8, <1>12, <1>13, <1>17, <1>18 DEF IntakeInv

\* A deposit that is just what a basket needs: the record has the target.
LEMMA CompleteKept ==
  ASSUME IntakeInv, NEW r \in DepositRequests, NEW b \in Baskets,
         Requests!DepositAccepted(r), Requests!Complete(r, b)
  PROVE  IntakeInv' /\ Requests!PositiveAnswerTrue'
<1> DEFINE n == r.no
           entry == [basket |-> b, amount |-> r.amount, status |-> "attached"]
           details == Requests!WithDetail(r, b)
           A == Requests!Attached(b)
           S == pool[b].deposits \cup {n}
           sum == pool[b].current + r.amount
<1>1. /\ n \in Deposits /\ r.amount \in Requests!Sizes /\ r.shard \in Shards \ {NoShard}
      /\ r.amount \in Nat \ {0}
  <2>1. n \in Deposits /\ r.amount \in Requests!Sizes /\ r.shard \in Shards \ {NoShard}
    BY SizesAre
  <2>2. QED
    BY <2>1, SizesAre
<1>2. /\ basket \in [Baskets -> BasketRow] /\ detail \in [Deposits -> DetailRow]
      /\ pool \in [Baskets -> PoolEntry]
  BY DEF IntakeInv, IntakeTyped
<1>3. /\ pool[b].in /\ pool[b].status = "waiting" /\ basket[b].shard = r.shard
      /\ detail[n].status = "none" /\ basket[b].status = "waiting"
      /\ r.amount = basket[b].target - pool[b].current
  BY DEF Requests!Complete, Requests!CompletableBy, Requests!InShard, Requests!Committable,
     Requests!Need
<1>4. /\ Requests!Completed(b, S, sum, Requests!Saved(r), details)
      /\ answer'.no = n /\ answer'.basket = b /\ answer'.matched /\ answer'.amount = sum
  BY DEF Requests!Complete, Requests!Result, Requests!Nothing
<1>5. /\ Requests!Saved(r) \in [Deposits -> DepositRow]
      /\ Requests!Saved(r)[n].status # "absent"
      /\ \A d \in Deposits :
           \/ Requests!Saved(r)[d] = deposit[d]
           \/ deposit[d].status = "absent" /\ NewDeposit(Requests!Saved(r)[d], d)
  BY SavedRows
<1>6. /\ details \in [Deposits -> DetailRow] /\ details[n] = entry
      /\ \A d \in Deposits \ {n} : details[d] = detail[d]
  <2>1. entry \in DetailRow
    BY <1>1 DEF DetailRow
  <2>2. QED
    BY <1>1, <1>2, <2>1 DEF Requests!WithDetail
<1> HIDE DEF details
<1>7. A \in SUBSET Deposits /\ n \in Deposits \ A /\ \A x \in A : detail[x].amount \in Requests!Sizes
  <2>1. n \notin A
    BY <1>3 DEF Requests!Attached
  <2>2. QED
    BY <1>1, <2>1, AttachedSum
<1>8. /\ A \subseteq pool[b].deposits
      /\ Requests!Proper(b) => pool[b].current = Requests!Amounts(A) /\ pool[b].deposits = A
  <2>1. /\ A \subseteq pool[b].deposits
        /\ Requests!Proper(b) => pool[b].current = basket[b].current /\ pool[b].deposits = A
    BY <1>3 DEF IntakeInv, PoolOfRows
  <2>2. Requests!Proper(b) => basket[b].current = Requests!Amounts(A)
    BY <1>3 DEF IntakeInv, SumsHold
  <2>3. QED
    BY <2>1, <2>2
<1>9. A \cup {n} = {d \in Deposits : details[d].basket = b /\ details[d].status = "attached"}
  BY <1>1, <1>6 DEF Requests!Attached
<1>10. Requests!Proper(b) => sum = Total([d \in A \cup {n} |-> details[d].amount])
  <2>1. \A x \in A : details[x].amount = detail[x].amount
    BY <1>6, <1>7
  <2>2. \A x \in A \cup {n} : details[x].amount \in Requests!Sizes
    BY <1>1, <1>6, <1>7, <2>1
  <2>3. Total([x \in A \cup {n} |-> details[x].amount])
          = Total([x \in A |-> details[x].amount]) + details[n].amount
    BY <1>7, <2>2, SumWith
  <2>4. [x \in A |-> details[x].amount] = [x \in A |-> detail[x].amount]
    BY <2>1
  <2>5. Requests!Amounts(A) = Total([x \in A |-> detail[x].amount])
    BY DEF Requests!Amounts
  <2> HIDE DEF A
  <2>6. QED
    BY <1>6, <1>8, <2>3, <2>4, <2>5
<1>11. sum \in Int /\ S \in SUBSET Deposits /\ A \cup {n} \in SUBSET S
  BY <1>1, <1>2, <1>8 DEF PoolEntry
<1>12. SavedFrom(Requests!Saved(r)) /\ DetailsFrom(details, Requests!Saved(r), b)
  <2>1. r \in Requests!RequestsFor(n)
    BY DEF Requests!RequestsFor
  <2>2. \E q \in Requests!RequestsFor(n) : q.amount = details[n].amount /\ q.shard = basket[b].shard
    BY <1>3, <1>6, <2>1
  <2>3. SavedFrom(Requests!Saved(r))
    BY <1>5 DEF SavedFrom
  <2>4. DetailsFrom(details, Requests!Saved(r), b)
    BY <1>3, <1>5, <1>6, <2>2 DEF DetailsFrom
  <2>5. QED
    BY <2>3, <2>4
<1>13. Requests!Proper(b) => S = A \cup {n} /\ sum = Total([d \in A \cup {n} |-> details[d].amount])
  BY <1>8, <1>10
<1>14. IntakeInv'
  <2> HIDE DEF A, S, sum
  <2>1. QED
    BY <1>3, <1>4, <1>5, <1>6, <1>9, <1>11, <1>12, <1>13, CompletedKept
<1>15. Requests!PositiveAnswerTrue'
  <2>1. detail'[n].basket = b /\ detail'[n].status = "matched"
    <3>1. detail' = [d \in Deposits |->
            IF details[d].basket = b /\ details[d].status = "attached"
              THEN [details[d] EXCEPT !.status = "matched"] ELSE details[d]]
      BY <1>4, Zenon DEF Requests!Completed
    <3>2. detail'[n] = [entry EXCEPT !.status = "matched"]
      BY <1>1, <1>6, <3>1
    <3>3. QED
      BY <3>2
  <2>2. basket'[b].current = sum /\ basket'[b].target = basket[b].target /\ record'[b].made
    <3>1. /\ basket' = [basket EXCEPT ![b].status = "matched", ![b].current = sum]
          /\ record' = [record EXCEPT ![b] = [made |-> TRUE, amount |-> sum,
                                              lines |-> Requests!Lines(S, Requests!Saved(r))]]
      BY <1>4, Zenon DEF Requests!Completed
    <3>2. record = [c \in Baskets |-> record[c]] /\ basket[b] \in BasketRow
      BY DEF IntakeInv, IntakeTyped
    <3> HIDE DEF sum, S
    <3>3. QED
      BY <1>2, <3>1, <3>2 DEF BasketRow
  <2>3. sum = basket[b].target
    BY <1>2, <1>3 DEF PoolEntry, BasketRow
  <2>4. QED
    BY <1>4, <2>1, <2>2, <2>3 DEF Requests!PositiveAnswerTrue
<1>16. QED
  BY <1>14, <1>15

\* A submitted deposit, whatever becomes of it.
LEMMA SubmitKept ==
  ASSUME IntakeInv, Requests!PositiveAnswerTrue, NEW r \in DepositRequests,
         Requests!SubmitDeposit(r)
  PROVE  IntakeInv' /\ Requests!PositiveAnswerTrue'
<1>1. CASE Requests!Invalid
  <2>1. UNCHANGED <<deposit, basket, detail, record, pool>> /\ ~answer'.attached
    BY <1>1 DEF Requests!Invalid, Requests!rows, Requests!Error, Requests!Nothing
  <2>2. \A d \in Deposits : deposit'[d] = deposit[d]
    BY <2>1
  <2>3. deposit' \in [Deposits -> DepositRow]
    BY <2>1 DEF IntakeInv, IntakeTyped
  <2>4. IntakeInv'
    BY <2>1, <2>2, <2>3, OnlyDeposits
  <2>5. QED
    BY <2>1, <2>4 DEF Requests!PositiveAnswerTrue
<1>2. CASE Requests!DepositAccepted(r) /\ (Requests!Wait(r) \/ Requests!Refused(r))
  <2>1. /\ UNCHANGED <<basket, detail, record, pool>> /\ ~answer'.attached
        /\ deposit' = Requests!Saved(r)
    BY <1>2 DEF Requests!Wait, Requests!Refused, Requests!Error, Requests!Nothing
  <2>2. /\ deposit' \in [Deposits -> DepositRow]
        /\ \A d \in Deposits :
             \/ deposit'[d] = deposit[d]
             \/ deposit[d].status = "absent" /\ NewDeposit(deposit'[d], d)
    BY <1>2, <2>1, SavedRows
  <2>3. IntakeInv'
    BY <2>1, <2>2, OnlyDeposits
  <2>4. QED
    BY <2>1, <2>3 DEF Requests!PositiveAnswerTrue
<1>3. ASSUME NEW b \in Baskets, Requests!DepositAccepted(r),
             Requests!Complete(r, b) \/ Requests!Attach(r, b)
      PROVE  IntakeInv' /\ Requests!PositiveAnswerTrue'
  BY <1>3, CompleteKept, AttachKept
<1>4. QED
  BY <1>1, <1>2, <1>3 DEF Requests!SubmitDeposit

\* A basket that is opened has the same amount in its row and in the pool, none if it
\* was sent so.
LEMMA CreateKept ==
  ASSUME IntakeInv, NEW r \in BasketRequests, Requests!CreateBasket(r)
  PROVE  IntakeInv' /\ Requests!PositiveAnswerTrue'
<1>1. CASE Requests!Invalid
  <2>1. UNCHANGED <<deposit, basket, detail, record, pool>> /\ ~answer'.attached
    BY <1>1 DEF Requests!Invalid, Requests!rows, Requests!Error, Requests!Nothing
  <2>2. deposit' \in [Deposits -> DepositRow]
    BY <2>1 DEF IntakeInv, IntakeTyped
  <2>3. IntakeInv'
    BY <2>1, <2>2, OnlyDeposits
  <2>4. QED
    BY <2>1, <2>3 DEF Requests!PositiveAnswerTrue
<1>2. CASE ~Requests!Invalid
  <2> DEFINE b == r.no
             row == [shard |-> r.shard, target |-> r.target, current |-> r.current,
                     status |-> Requests!Status(r)]
             entry == [in |-> TRUE, current |-> r.current, status |-> Requests!Status(r),
                       deposits |-> {}]
  <2>1. /\ Requests!BasketAccepted(r) /\ basket[b].status = "absent"
        /\ basket' = [basket EXCEPT ![b] = row] /\ pool' = [pool EXCEPT ![b] = entry]
        /\ UNCHANGED <<deposit, detail, record>> /\ ~answer'.attached
    BY <1>2 DEF Requests!CreateBasket, Requests!Nothing
  <2>2. r \in Requests!BasketRequest
    BY RequestsAssumption DEF Requests!RequestAssumption
  <2>3. /\ r.target > 0 /\ r.shard # NoShard /\ r.no # NoNumber
        /\ Requests!StartsEmpty(b) => r.current = 0
    BY <2>1 DEF Requests!BasketAccepted, Requests!ValidateBasket, Requests!StartsEmpty
  <2>4. b \in Baskets
    BY <2>2, <2>3 DEF Requests!BasketRequest
  <2>5. Requests!Status(r) \in Requests!Statuses \ {"unset"}
    BY <2>2 DEF Requests!BasketRequest, Requests!Status, Requests!Statuses
  <2>6. /\ row \in BasketRow /\ row.status # "absent" /\ row.target > 0 /\ row.shard # NoShard
        /\ row.current = r.current
    BY <2>2, <2>3, <2>5 DEF BasketRow, Requests!BasketRequest, Requests!Statuses
  <2>7. /\ entry \in PoolEntry /\ entry.current = r.current /\ entry.status = row.status
        /\ entry.deposits = {}
    BY <2>2, <2>5 DEF Requests!BasketRequest, PoolEntry, Requests!Statuses
  <2> HIDE DEF row, entry
  <2>8. /\ deposit \in [Deposits -> DepositRow] /\ basket \in [Baskets -> BasketRow]
        /\ detail \in [Deposits -> DetailRow] /\ record = [c \in Baskets |-> record[c]]
        /\ pool \in [Baskets -> PoolEntry]
    BY DEF IntakeInv, IntakeTyped
  <2>9. /\ basket' \in [Baskets -> BasketRow] /\ basket'[b] = row
        /\ \A c \in Baskets \ {b} : basket'[c] = basket[c]
        /\ pool' \in [Baskets -> PoolEntry] /\ pool'[b] = entry
        /\ \A c \in Baskets \ {b} : pool'[c] = pool[c]
    BY <2>1, <2>4, <2>6, <2>7, <2>8
  <2>10. IntakeTyped'
    BY <2>1, <2>8, <2>9 DEF IntakeTyped
  <2>11. DepositsGrow /\ BasketsGrow /\ DetailsGrow
    BY <2>1, <2>4, <2>6, <2>9 DEF DepositsGrow, BasketsGrow, DetailsGrow
  <2>12. /\ RowsOfRequests' /\ DetailsOfRequests' /\ BasketsSane'
         /\ \A c \in Baskets : Requests!Proper(c)' => Requests!Proper(c)
    BY <2>11, SaneStep
  <2>13. LockedInBasket'
    BY <2>1 DEF IntakeInv, LockedInBasket
  <2>14. Requests!Attached(b) = {} /\ Matched(b) = {} /\ ~record[b].made
    <3>1. \A d \in Deposits : detail[d].basket = b => detail[d].status = "none"
      BY <2>1 DEF IntakeInv, DetailsOfRequests
    <3>2. ~record[b].made
      BY <2>1, <2>4 DEF IntakeInv, SumsHold
    <3>3. QED
      BY <3>1, <3>2 DEF Requests!Attached, Matched
  <2>15. \A c \in Baskets : Requests!Attached(c)' = Requests!Attached(c) /\ Matched(c)' = Matched(c)
    BY <2>1 DEF Requests!Attached, Matched
  <2>16. PoolOfRows'
    <3>1. ASSUME NEW c \in Baskets, pool'[c].in
          PROVE  /\ basket'[c].status # "absent"
                 /\ pool'[c].status = "waiting" <=> basket'[c].status = "waiting"
                 /\ basket'[c].status = "waiting" =>
                      /\ Requests!Attached(c)' \subseteq pool'[c].deposits
                      /\ Requests!Proper(c)' => pool'[c].current = basket'[c].current
                                                /\ pool'[c].deposits = Requests!Attached(c)'
      <4>1. CASE c = b
        BY <2>6, <2>7, <2>9, <2>14, <2>15, <4>1
      <4>2. CASE c # b
        BY <2>9, <2>12, <2>15, <3>1, <4>2 DEF IntakeInv, PoolOfRows
      <4>3. QED
        BY <4>1, <4>2
    <3>2. QED
      BY <3>1 DEF PoolOfRows
  <2>17. ASSUME NEW c \in Baskets
         PROVE  SumsHold(c)'
    <3>1. CASE c = b
      <4>1. Requests!Amounts(Requests!Attached(b))' = Total([d \in {} |-> detail[d].amount])
        BY <2>1, <2>4, <2>14, <2>15 DEF Requests!Amounts
      <4>2. Requests!Amounts(Requests!Attached(b))' = 0
        BY <4>1, SumOfNone
      <4>3. Requests!Proper(b)' => basket'[b].current = 0
        BY <2>3, <2>6, <2>9 DEF Requests!Proper
      <4>4. QED
        BY <2>1, <2>14, <2>15, <3>1, <4>2, <4>3 DEF SumsHold
    <3>2. CASE c # b
      <4>1. /\ basket'[c] = basket[c] /\ record'[c] = record[c]
            /\ Requests!Attached(c)' = Requests!Attached(c) /\ Matched(c)' = Matched(c)
        BY <2>1, <2>9, <2>15, <3>2
      <4>2. QED
        BY <2>11, <4>1, OthersKept
    <3>3. QED
      BY <3>1, <3>2
  <2>18. IntakeInv'
    BY <2>10, <2>12, <2>13, <2>16, <2>17 DEF IntakeInv
  <2>19. QED
    BY <2>1, <2>18 DEF Requests!PositiveAnswerTrue
<1>3. QED
  BY <1>1, <1>2

\* A deposit that leaves an open basket takes its amount with it, from the row and, if its
\* row has the shard of the basket, from the pool: what is left is the sum of the others.
LEMMA ReleaseKept ==
  ASSUME IntakeInv, NEW d \in Deposits, NEW b \in Baskets, detail[d].basket = b,
         Requests!ReleaseDeposit(d)
  PROVE  IntakeInv' /\ Requests!PositiveAnswerTrue'
<1> DEFINE A == Requests!Attached(b)
           less(x) == Requests!Less(x, d)
<1>1. /\ deposit \in [Deposits -> DepositRow] /\ basket \in [Baskets -> BasketRow]
      /\ detail \in [Deposits -> DetailRow] /\ record = [c \in Baskets |-> record[c]]
      /\ pool \in [Baskets -> PoolEntry]
  BY DEF IntakeInv, IntakeTyped
<1>2. /\ deposit[d].status = "locked" /\ detail[d].status = "attached"
      /\ deposit' = [deposit EXCEPT ![d].status = "expired"]
      /\ detail' = [detail EXCEPT ![d].status = "released"]
      /\ basket' = [basket EXCEPT ![b].current =
           IF basket[b].status = "waiting" THEN less(basket[b].current) ELSE basket[b].current]
      /\ pool' = [pool EXCEPT ![b] = IF ~Requests!Found(b, d) THEN pool[b]
           ELSE [pool[b] EXCEPT !.current = less(pool[b].current),
                                !.deposits = pool[b].deposits \ {d}]]
      /\ ~answer'.attached /\ UNCHANGED record
  <2>1. /\ deposit[d].status = "locked" /\ detail[d].status = "attached"
        /\ deposit' = [deposit EXCEPT ![d].status = "expired"]
        /\ detail' = [detail EXCEPT ![d].status = "released"]
        /\ ~answer'.attached /\ UNCHANGED record
    BY DEF Requests!ReleaseDeposit, Requests!Silent, Requests!Nothing
  <2>2. basket' = [basket EXCEPT ![b].current =
          IF basket[b].status = "waiting" THEN less(basket[b].current) ELSE basket[b].current]
    BY DEF Requests!ReleaseDeposit
  <2>3. pool' = [pool EXCEPT ![b] = IF ~Requests!Found(b, d) THEN pool[b]
          ELSE [pool[b] EXCEPT !.current = less(pool[b].current),
                               !.deposits = pool[b].deposits \ {d}]]
    BY DEF Requests!ReleaseDeposit
  <2>4. QED
    BY <2>1, <2>2, <2>3
<1>3. /\ b \in Baskets /\ detail[d].amount \in Requests!Sizes
      /\ deposit[d].status # "absent" /\ basket[b].status # "absent"
  BY <1>2, AmountsRequested DEF IntakeInv, DetailsOfRequests
<1>4. detail[d].amount \in Nat \ {0}
  BY <1>3, SizesAre
<1>5. \A x \in Int : less(x) \in Int
  BY <1>4 DEF Requests!Less, Requests!ReleasedAmount
<1> HIDE DEF less
<1>6. /\ deposit' \in [Deposits -> DepositRow] /\ deposit'[d].status = "expired"
      /\ deposit'[d].shard = deposit[d].shard /\ deposit'[d].amount = deposit[d].amount
      /\ \A x \in Deposits \ {d} : deposit'[x] = deposit[x]
  <2>1. [deposit[d] EXCEPT !.status = "expired"] \in DepositRow
    BY <1>1 DEF DepositRow, Requests!Statuses
  <2>2. QED
    BY <1>1, <1>2, <2>1 DEF DepositRow
<1>7. /\ detail' \in [Deposits -> DetailRow] /\ detail'[d].status = "released"
      /\ detail'[d].basket = b /\ detail'[d].amount = detail[d].amount
      /\ \A x \in Deposits \ {d} : detail'[x] = detail[x]
  <2>1. [detail[d] EXCEPT !.status = "released"] \in DetailRow
    BY <1>1 DEF DetailRow
  <2>2. QED
    BY <1>1, <1>2, <2>1 DEF DetailRow
<1>8. /\ basket' \in [Baskets -> BasketRow] /\ \A c \in Baskets \ {b} : basket'[c] = basket[c]
      /\ basket'[b].status = basket[b].status /\ basket'[b].shard = basket[b].shard
      /\ basket'[b].target = basket[b].target
      /\ basket[b].status = "waiting" => basket'[b].current = less(basket[b].current)
  <2> DEFINE new == IF basket[b].status = "waiting" THEN less(basket[b].current)
                    ELSE basket[b].current
             row == [basket[b] EXCEPT !.current = new]
  <2>1. new \in Int
    BY <1>1, <1>3, <1>5 DEF BasketRow
  <2>2. basket[b].status = "waiting" => new = less(basket[b].current)
    OBVIOUS
  <2>3. basket' = [basket EXCEPT ![b] = row]
    BY <1>2
  <2> HIDE DEF new
  <2>4. /\ row \in BasketRow /\ row.status = basket[b].status /\ row.shard = basket[b].shard
        /\ row.target = basket[b].target /\ row.current = new
    BY <1>1, <1>3, <2>1 DEF BasketRow
  <2> HIDE DEF row
  <2>5. QED
    BY <1>1, <1>3, <2>2, <2>3, <2>4
<1>9. /\ pool' \in [Baskets -> PoolEntry] /\ \A c \in Baskets \ {b} : pool'[c] = pool[c]
      /\ pool'[b].in = pool[b].in /\ pool'[b].status = pool[b].status
      /\ pool[b].deposits \ {d} \subseteq pool'[b].deposits
      /\ Requests!Found(b, d) => pool'[b].current = less(pool[b].current)
                                 /\ pool'[b].deposits = pool[b].deposits \ {d}
  <2> DEFINE p1 == [pool[b] EXCEPT !.current = less(pool[b].current)]
             p2 == [p1 EXCEPT !.deposits = pool[b].deposits \ {d}]
  <2>1. /\ p1 \in PoolEntry /\ p1.in = pool[b].in /\ p1.status = pool[b].status
        /\ p1.current = less(pool[b].current)
    BY <1>1, <1>3, <1>5 DEF PoolEntry
  <2>2. /\ p2 \in PoolEntry /\ p2.in = pool[b].in /\ p2.status = pool[b].status
        /\ p2.current = less(pool[b].current) /\ p2.deposits = pool[b].deposits \ {d}
    BY <1>1, <1>3, <2>1 DEF PoolEntry
  <2>3. pool' = [pool EXCEPT ![b] = IF ~Requests!Found(b, d) THEN pool[b] ELSE p2]
    BY <1>2
  <2> HIDE DEF p2
  <2>4. QED
    BY <1>1, <1>3, <2>2, <2>3
<1>10. IntakeTyped'
  BY <1>1, <1>2, <1>6, <1>7, <1>8, <1>9 DEF IntakeTyped
<1>11. DepositsGrow
  BY <1>1, <1>3, <1>6 DEF DepositsGrow
<1>12. BasketsGrow
  BY <1>3, <1>8 DEF BasketsGrow
<1>13. DetailsGrow
  BY <1>2, <1>7 DEF DetailsGrow
<1>14. /\ RowsOfRequests' /\ DetailsOfRequests' /\ BasketsSane'
       /\ \A c \in Baskets : Requests!Proper(c)' => Requests!Proper(c)
  BY <1>11, <1>12, <1>13, SaneStep
<1>15. LockedInBasket'
  BY <1>6, <1>7 DEF IntakeInv, LockedInBasket
<1>16. /\ Requests!Attached(b)' = A \ {d} /\ d \in A
       /\ \A c \in Baskets \ {b} : Requests!Attached(c)' = Requests!Attached(c)
       /\ \A c \in Baskets : Matched(c)' = Matched(c)
  <2>1. \A x \in Deposits : x # d => detail'[x] = detail[x]
    BY <1>7
  <2>2. Requests!Attached(b)' = {x \in Deposits : detail'[x].basket = b /\ detail'[x].status = "attached"}
    BY DEF Requests!Attached
  <2>3. A = {x \in Deposits : detail[x].basket = b /\ detail[x].status = "attached"}
    BY DEF Requests!Attached
  <2> HIDE DEF A
  <2>4. Requests!Attached(b)' = A \ {d} /\ d \in A
    BY <1>2, <1>7, <2>1, <2>2, <2>3
  <2>5. \A c \in Baskets \ {b} : Requests!Attached(c)' = Requests!Attached(c)
    BY <1>7, <2>1 DEF Requests!Attached
  <2>6. \A c \in Baskets : Matched(c)' = Matched(c)
    BY <1>2, <1>7, <2>1 DEF Matched
  <2>7. QED
    BY <2>4, <2>5, <2>6
<1>17. basket[b].status = "waiting" /\ Requests!Proper(b) =>
         less(basket[b].current) = Total([x \in A \ {d} |-> detail'[x].amount])
  <2>1. /\ A \in SUBSET Deposits /\ \A x \in A : detail[x].amount \in Requests!Sizes
        /\ d \in A
    BY <1>3, <1>16, AttachedSum
  <2>2. (A \ {d}) \cup {d} = A /\ A \ {d} \in SUBSET Deposits /\ d \in Deposits \ (A \ {d})
    BY <2>1
  <2>3. Requests!Amounts(A) = Total([x \in A |-> detail[x].amount])
    BY DEF Requests!Amounts
  <2>4. [x \in A \ {d} |-> detail'[x].amount] = [x \in A \ {d} |-> detail[x].amount]
    BY <1>7, <2>1
  <2>5. basket[b].status = "waiting" /\ Requests!Proper(b) => basket[b].current = Requests!Amounts(A)
    BY <1>3 DEF IntakeInv, SumsHold
  <2> HIDE DEF A
  <2>6. \A x \in (A \ {d}) \cup {d} : detail[x].amount \in Requests!Sizes
    BY <2>1
  <2>7. Total([x \in (A \ {d}) \cup {d} |-> detail[x].amount])
          = Total([x \in A \ {d} |-> detail[x].amount]) + detail[d].amount
    BY <2>2, <2>6, SumWith
  <2>8. Total([x \in A |-> detail[x].amount])
          = Total([x \in A \ {d} |-> detail[x].amount]) + detail[d].amount
    BY <2>2, <2>7
  <2>9. Total([x \in A \ {d} |-> detail[x].amount]) \in Nat
    BY <2>2, <2>6, SumType
  <2>10. \A t \in Nat : less(t + detail[d].amount) = t
    BY <1>4 DEF less, Requests!Less, Requests!ReleasedAmount
  <2>11. QED
    BY <2>3, <2>4, <2>5, <2>8, <2>9, <2>10
<1>18. Requests!Amounts(Requests!Attached(b))' = Total([x \in A \ {d} |-> detail'[x].amount])
  <2> HIDE DEF A
  <2>1. QED
    BY <1>16 DEF Requests!Amounts
<1>19. PoolOfRows'
  <2>1. ASSUME NEW c \in Baskets, pool'[c].in
        PROVE  /\ basket'[c].status # "absent"
               /\ pool'[c].status = "waiting" <=> basket'[c].status = "waiting"
               /\ basket'[c].status = "waiting" =>
                    /\ Requests!Attached(c)' \subseteq pool'[c].deposits
                    /\ Requests!Proper(c)' => pool'[c].current = basket'[c].current
                                              /\ pool'[c].deposits = Requests!Attached(c)'
    <3>1. CASE c = b
      <4>1. pool[b].in
        BY <1>9, <2>1, <3>1
      <4>2. /\ pool[b].status = "waiting" <=> basket[b].status = "waiting"
            /\ basket[b].status = "waiting" =>
                 /\ A \subseteq pool[b].deposits
                 /\ Requests!Proper(b) => pool[b].current = basket[b].current /\ pool[b].deposits = A
        BY <1>3, <4>1 DEF IntakeInv, PoolOfRows
      <4>3. Requests!Proper(b) => Requests!Found(b, d)
        BY <1>2, <4>1 DEF Requests!Proper, Requests!OfItsShard, Requests!Found
      <4> HIDE DEF A
      <4>4. basket'[b].status = "waiting" => Requests!Attached(b)' \subseteq pool'[b].deposits
        BY <1>8, <1>9, <1>16, <4>2
      <4>5. basket'[b].status = "waiting" /\ Requests!Proper(b)' =>
              pool'[b].current = basket'[b].current /\ pool'[b].deposits = Requests!Attached(b)'
        BY <1>3, <1>8, <1>9, <1>14, <1>16, <4>2, <4>3
      <4>6. QED
        BY <1>3, <1>8, <1>9, <3>1, <4>2, <4>4, <4>5
    <3>2. CASE c # b
      BY <1>8, <1>9, <1>14, <1>16, <2>1, <3>2 DEF IntakeInv, PoolOfRows
    <3>3. QED
      BY <3>1, <3>2
  <2>2. QED
    BY <2>1 DEF PoolOfRows
<1>20. ASSUME NEW c \in Baskets
       PROVE  SumsHold(c)'
  <2>1. CASE c = b
    <3>1. SumsHold(b)
      BY <1>3 DEF IntakeInv
    <3>2. /\ [x \in Matched(b)' |-> detail'[x].amount] = [x \in Matched(b) |-> detail[x].amount]
          /\ [x \in Matched(b)' |-> deposit'[x].amount] = [x \in Matched(b) |-> deposit[x].amount]
      BY <1>6, <1>7, <1>16 DEF Matched
    <3>3. Requests!Amounts(Matched(b))' = Requests!Amounts(Matched(b))
      BY <3>2 DEF Requests!Amounts
    <3>4. basket'[b].status = "waiting" /\ Requests!Proper(b)' =>
            basket'[b].current = Requests!Amounts(Requests!Attached(b))'
      BY <1>8, <1>14, <1>17, <1>18
    <3>5. record'[b] = record[b] /\ Matched(b)' = Matched(b) /\ basket'[b].status = basket[b].status
      BY <1>2, <1>8, <1>16
    <3>6. QED
      BY <1>14, <2>1, <3>1, <3>2, <3>3, <3>4, <3>5 DEF SumsHold
  <2>2. CASE c # b
    <3>1. /\ basket'[c] = basket[c] /\ record'[c] = record[c]
          /\ Requests!Attached(c)' = Requests!Attached(c) /\ Matched(c)' = Matched(c)
      BY <1>2, <1>8, <1>16, <2>2
    <3>2. QED
      BY <1>11, <1>12, <1>13, <3>1, OthersKept
  <2>3. QED
    BY <2>1, <2>2
<1>21. IntakeInv'
  BY <1>10, <1>14, <1>15, <1>19, <1>20 DEF IntakeInv
<1>22. QED
  BY <1>2, <1>21 DEF Requests!PositiveAnswerTrue

\* A basket that is closed, short or without a match: no deposit stays locked in it.
LEMMA CloseKept ==
  ASSUME IntakeInv, NEW b \in Baskets, Requests!CloseBasket(b)
  PROVE  IntakeInv' /\ Requests!PositiveAnswerTrue'
<1> DEFINE S == Requests!Attached(b)
<1>1. /\ deposit \in [Deposits -> DepositRow] /\ basket \in [Baskets -> BasketRow]
      /\ detail \in [Deposits -> DetailRow] /\ record = [c \in Baskets |-> record[c]]
      /\ pool \in [Baskets -> PoolEntry]
  BY DEF IntakeInv, IntakeTyped
<1>2. basket[b].status = "waiting" /\ ~answer'.attached
  BY DEF Requests!CloseBasket, Requests!Silent, Requests!Nothing
<1>3. /\ S \in SUBSET Deposits /\ Requests!Amounts(S) \in Int
      /\ S = {d \in Deposits : detail[d].basket = b /\ detail[d].status = "attached"}
      /\ Requests!Amounts(S) = Total([d \in S |-> detail[d].amount])
  <2>1. S \in SUBSET Deposits /\ Requests!Amounts(S) \in Int
    BY AttachedSum
  <2>2. QED
    BY <2>1 DEF Requests!Attached, Requests!Amounts
<1>4. CASE Requests!Completed(b, S, Requests!Amounts(S), deposit, detail)
  <2>1. SavedFrom(deposit) /\ DetailsFrom(detail, deposit, b) /\ S \in SUBSET S
    BY DEF SavedFrom, DetailsFrom
  <2> HIDE DEF S
  <2>2. IntakeInv'
    BY <1>1, <1>2, <1>3, <1>4, <2>1, CompletedKept
  <2>3. QED
    BY <1>2, <2>2 DEF Requests!PositiveAnswerTrue
<1>5. CASE ~Requests!Completed(b, S, Requests!Amounts(S), deposit, detail)
  <2>1. /\ basket' = [basket EXCEPT ![b].status = "expired"]
        /\ detail' = [d \in Deposits |->
             IF d \in S THEN [detail[d] EXCEPT !.status = "released"] ELSE detail[d]]
        /\ deposit' = Requests!ExpiredWith(b)
        /\ pool' = [pool EXCEPT ![b] = Requests!Out]
        /\ UNCHANGED record
    BY <1>5 DEF Requests!CloseBasket
  <2>2. /\ deposit' \in [Deposits -> DepositRow]
        /\ \A d \in Deposits :
             /\ deposit'[d].shard = deposit[d].shard /\ deposit'[d].amount = deposit[d].amount
             /\ deposit[d].status # "absent" => deposit'[d].status # "absent"
             /\ deposit[d].status = "absent" => deposit'[d].status = "absent"
             /\ deposit'[d].status = "locked" => deposit'[d] = deposit[d] /\ deposit[d].basket # b
    <3> DEFINE new(d) == IF deposit[d].basket = b /\ deposit[d].status = "locked"
                         THEN [deposit[d] EXCEPT !.status = "expired"] ELSE deposit[d]
    <3>1. deposit' = [d \in Deposits |-> new(d)]
      BY <2>1 DEF Requests!ExpiredWith
    <3>2. ASSUME NEW d \in Deposits
          PROVE  /\ new(d) \in DepositRow
                 /\ new(d).shard = deposit[d].shard /\ new(d).amount = deposit[d].amount
                 /\ deposit[d].status # "absent" => new(d).status # "absent"
                 /\ deposit[d].status = "absent" => new(d).status = "absent"
                 /\ new(d).status = "locked" => new(d) = deposit[d] /\ deposit[d].basket # b
      <4>1. deposit[d] \in DepositRow
        BY <1>1
      <4>2. /\ [deposit[d] EXCEPT !.status = "expired"] \in DepositRow
            /\ [deposit[d] EXCEPT !.status = "expired"].shard = deposit[d].shard
            /\ [deposit[d] EXCEPT !.status = "expired"].amount = deposit[d].amount
            /\ [deposit[d] EXCEPT !.status = "expired"].status = "expired"
        BY <4>1 DEF DepositRow, Requests!Statuses
      <4>3. QED
        BY <4>1, <4>2
    <3> HIDE DEF new
    <3>3. QED
      BY <3>1, <3>2
  <2>3. /\ detail' \in [Deposits -> DetailRow]
        /\ \A d \in Deposits :
             /\ detail'[d].basket = detail[d].basket /\ detail'[d].amount = detail[d].amount
             /\ d \in S => detail'[d].status = "released"
             /\ d \notin S => detail'[d] = detail[d]
    <3>1. \A d \in Deposits : detail[d] \in DetailRow
      BY <1>1
    <3> HIDE DEF S
    <3>2. QED
      BY <2>1, <3>1 DEF DetailRow
  <2>4. /\ basket' \in [Baskets -> BasketRow] /\ \A c \in Baskets \ {b} : basket'[c] = basket[c]
        /\ basket'[b].status = "expired"
        /\ basket'[b].shard = basket[b].shard /\ basket'[b].target = basket[b].target
    <3>1. [basket[b] EXCEPT !.status = "expired"] \in BasketRow
      BY <1>1 DEF BasketRow, Requests!Statuses
    <3>2. QED
      BY <1>1, <2>1, <3>1 DEF BasketRow
  <2>5. /\ pool' \in [Baskets -> PoolEntry] /\ \A c \in Baskets \ {b} : pool'[c] = pool[c]
        /\ ~pool'[b].in
    <3>1. Requests!Out \in PoolEntry /\ ~Requests!Out.in
      BY DEF Requests!Out, PoolEntry, Requests!Statuses
    <3>2. QED
      BY <1>1, <2>1, <3>1
  <2>6. IntakeTyped'
    BY <1>1, <2>1, <2>2, <2>3, <2>4, <2>5 DEF IntakeTyped
  <2>7. DepositsGrow
    BY <2>2 DEF DepositsGrow
  <2>8. BasketsGrow
    BY <1>2, <2>4 DEF BasketsGrow
  <2>9. DetailsGrow
    BY <1>3, <2>3 DEF DetailsGrow
  <2>10. /\ RowsOfRequests' /\ DetailsOfRequests' /\ BasketsSane'
         /\ \A c \in Baskets : Requests!Proper(c)' => Requests!Proper(c)
    BY <2>7, <2>8, <2>9, SaneStep
  <2>11. LockedInBasket'
    <3>1. ASSUME NEW d \in Deposits, deposit'[d].status = "locked", Requests!NotSentLocked(d)
          PROVE  detail'[d].status = "attached" /\ deposit'[d].basket = detail'[d].basket
      <4>1. deposit'[d] = deposit[d] /\ deposit[d].basket # b /\ deposit[d].status = "locked"
        BY <2>2, <3>1
      <4>2. detail[d].status = "attached" /\ deposit[d].basket = detail[d].basket
        BY <3>1, <4>1 DEF IntakeInv, LockedInBasket
      <4>3. d \notin S
        BY <1>3, <4>1, <4>2
      <4>4. QED
        BY <2>3, <4>1, <4>2, <4>3
    <3>2. QED
      BY <3>1 DEF LockedInBasket
  <2>12. ASSUME NEW c \in Baskets
         PROVE  /\ c # b => Requests!Attached(c)' = Requests!Attached(c)
                /\ Matched(c)' = Matched(c)
    <3>1. \A d \in Deposits :
            d \in S => detail[d].basket = b /\ detail[d].status = "attached"
      BY <1>3
    <3> HIDE DEF S
    <3>2. Matched(c)' = Matched(c)
      BY <2>3, <3>1 DEF Matched
    <3>3. c # b => Requests!Attached(c)' = Requests!Attached(c)
      BY <2>3, <3>1 DEF Requests!Attached
    <3>4. QED
      BY <3>2, <3>3
  <2>13. PoolOfRows'
    <3>1. ASSUME NEW c \in Baskets, pool'[c].in
          PROVE  /\ basket'[c].status # "absent"
                 /\ pool'[c].status = "waiting" <=> basket'[c].status = "waiting"
                 /\ basket'[c].status = "waiting" =>
                      /\ Requests!Attached(c)' \subseteq pool'[c].deposits
                      /\ Requests!Proper(c)' => pool'[c].current = basket'[c].current
                                                /\ pool'[c].deposits = Requests!Attached(c)'
      <4>1. c # b
        BY <2>5, <3>1
      <4>2. pool'[c] = pool[c] /\ basket'[c] = basket[c] /\ Requests!Attached(c)' = Requests!Attached(c)
        BY <2>4, <2>5, <2>12, <4>1
      <4>3. QED
        BY <2>10, <3>1, <4>2 DEF IntakeInv, PoolOfRows
    <3>2. QED
      BY <3>1 DEF PoolOfRows
  <2>14. ~record[b].made /\ Matched(b) = {}
    BY <1>2 DEF IntakeInv, SumsHold
  <2>15. ASSUME NEW c \in Baskets
         PROVE  SumsHold(c)'
    <3>1. CASE c = b
      BY <2>1, <2>4, <2>12, <2>14, <3>1 DEF SumsHold
    <3>2. CASE c # b
      <4>1. /\ basket'[c] = basket[c] /\ record'[c] = record[c]
            /\ Requests!Attached(c)' = Requests!Attached(c) /\ Matched(c)' = Matched(c)
        BY <2>1, <2>4, <2>12, <3>2
      <4>2. QED
        BY <2>7, <2>8, <2>9, <4>1, OthersKept
    <3>3. QED
      BY <3>1, <3>2
  <2>16. IntakeInv'
    BY <2>6, <2>10, <2>11, <2>13, <2>15 DEF IntakeInv
  <2>17. QED
    BY <1>2, <2>16 DEF Requests!PositiveAnswerTrue
<1>6. QED
  BY <1>4, <1>5

\* A restart reads the pool from the rows: an open basket has no matched detail.
LEMMA RestartKept ==
  ASSUME IntakeInv, Requests!Restart
  PROVE  IntakeInv' /\ Requests!PositiveAnswerTrue'
<1> DEFINE entry(b) ==
      [in |-> TRUE, current |-> basket[b].current, status |-> "waiting",
       deposits |-> {d \in Deposits : detail[d].basket = b
                                      /\ detail[d].status \in {"attached", "matched"}}]
<1>1. /\ UNCHANGED <<deposit, basket, detail, record>> /\ ~answer'.attached
      /\ pool' = [b \in Baskets |-> IF basket[b].status # "waiting" THEN Requests!Out ELSE entry(b)]
  BY DEF Requests!Restart, Requests!Silent, Requests!Nothing, Requests!rows
<1>2. /\ deposit \in [Deposits -> DepositRow] /\ basket \in [Baskets -> BasketRow]
      /\ detail \in [Deposits -> DetailRow] /\ record = [c \in Baskets |-> record[c]]
  BY DEF IntakeInv, IntakeTyped
<1>3. ASSUME NEW b \in Baskets
      PROVE  /\ entry(b) \in PoolEntry /\ entry(b).in /\ entry(b).status = "waiting"
             /\ entry(b).current = basket[b].current
             /\ basket[b].status = "waiting" => entry(b).deposits = Requests!Attached(b)
  <2>1. basket[b].status = "waiting" => Matched(b) = {}
    BY DEF IntakeInv, SumsHold
  <2>2. basket[b].current \in Int
    BY <1>2 DEF BasketRow
  <2>3. QED
    BY <2>1, <2>2 DEF PoolEntry, Requests!Statuses, Matched, Requests!Attached
<1>4. Requests!Out \in PoolEntry /\ ~Requests!Out.in
  BY DEF Requests!Out, PoolEntry, Requests!Statuses
<1> HIDE DEF entry
<1>5. pool' \in [Baskets -> PoolEntry]
  BY <1>1, <1>3, <1>4
<1>6. IntakeTyped'
  BY <1>1, <1>2, <1>5 DEF IntakeTyped
<1>7. \A c \in Baskets : Requests!Attached(c)' = Requests!Attached(c) /\ Matched(c)' = Matched(c)
  BY <1>1 DEF Requests!Attached, Matched
<1>8. PoolOfRows'
  <2>1. ASSUME NEW c \in Baskets, pool'[c].in
        PROVE  /\ basket'[c].status # "absent"
               /\ pool'[c].status = "waiting" <=> basket'[c].status = "waiting"
               /\ basket'[c].status = "waiting" =>
                    /\ Requests!Attached(c)' \subseteq pool'[c].deposits
                    /\ Requests!Proper(c)' => pool'[c].current = basket'[c].current
                                              /\ pool'[c].deposits = Requests!Attached(c)'
    <3>1. basket[c].status = "waiting" /\ pool'[c] = entry(c)
      BY <1>1, <1>4, <2>1
    <3>2. QED
      BY <1>1, <1>3, <1>7, <3>1
  <2>2. QED
    BY <2>1 DEF PoolOfRows
<1>9. DepositsGrow /\ BasketsGrow /\ DetailsGrow
  <2>1. DepositsGrow
    BY <1>1 DEF DepositsGrow
  <2>2. BasketsGrow
    BY <1>1 DEF BasketsGrow
  <2>3. DetailsGrow
    BY <1>1 DEF DetailsGrow
  <2>4. QED
    BY <2>1, <2>2, <2>3
<1>10. /\ RowsOfRequests' /\ DetailsOfRequests' /\ BasketsSane'
       /\ \A c \in Baskets : Requests!Proper(c)' => Requests!Proper(c)
  BY <1>9, SaneStep
<1>11. LockedInBasket'
  BY <1>1 DEF IntakeInv, LockedInBasket
<1>12. \A c \in Baskets : basket'[c] = basket[c] /\ record'[c] = record[c]
  BY <1>1
<1>13. \A c \in Baskets : SumsHold(c)'
  BY <1>7, <1>9, <1>12, OthersKept
<1>14. IntakeInv'
  BY <1>6, <1>8, <1>10, <1>11, <1>13 DEF IntakeInv
<1>15. QED
  BY <1>1, <1>14 DEF Requests!PositiveAnswerTrue

\* What the invariant says of the rows, the records and their lines.
LEMMA IntakeInvIsEnough ==
  ASSUME IntakeInv, Requests!PositiveAnswerTrue
  PROVE  IntakeTrue
<1>1. \A d \in Deposits : \A r \in Requests!RequestsFor(d) : r.amount > 0 /\ r.shard # NoShard
  <2>1. ASSUME NEW d \in Deposits, NEW r \in Requests!RequestsFor(d)
        PROVE  r.amount > 0 /\ r.shard # NoShard
    <3>1. r \in DepositRequests /\ Requests!DepositAccepted(r)
      BY DEF Requests!RequestsFor
    <3>2. QED
      BY <3>1 DEF Requests!DepositAccepted, Requests!ValidateDeposit
  <2>2. QED
    BY <2>1
<1>2. Requests!RowsSane
  BY <1>1 DEF IntakeInv, RowsOfRequests, BasketsSane, Requests!RowsSane
<1>3. Requests!SameShard
  <2>1. ASSUME NEW d \in Deposits, detail[d].status # "none", Requests!KeepsShard(d)
        PROVE  deposit[d].shard = basket[detail[d].basket].shard
    <3>1. PICK r \in Requests!RequestsFor(d) : r.shard = basket[detail[d].basket].shard
      BY <2>1 DEF IntakeInv, DetailsOfRequests
    <3>2. deposit[d].status # "absent"
      BY <2>1 DEF IntakeInv, DetailsOfRequests
    <3>3. PICK q \in Requests!RequestsFor(d) : q.shard = deposit[d].shard
      BY <3>2 DEF IntakeInv, RowsOfRequests
    <3>4. QED
      BY <2>1, <3>1, <3>3 DEF Requests!KeepsShard
  <2>2. QED
    BY <2>1 DEF Requests!SameShard, Requests!OfItsShard
<1>4. Requests!CurrentFromDetails
  BY DEF IntakeInv, SumsHold, Requests!CurrentFromDetails
<1>5. Requests!RecordSumsDetails
  BY DEF IntakeInv, SumsHold, Matched, Requests!RecordSumsDetails
<1>6. Requests!LinesAddUp
  <2>1. ASSUME NEW b \in Baskets, record[b].made, Requests!Proper(b)
        PROVE  /\ DOMAIN record[b].lines = Matched(b)
               /\ (\A d \in DOMAIN record[b].lines : Requests!KeepsAmount(d)) =>
                    Total(record[b].lines) = record[b].amount
    <3>1. /\ record[b].amount = Requests!Amounts(Matched(b))
          /\ record[b].lines = [d \in Matched(b) |-> deposit[d].amount]
      BY <2>1 DEF IntakeInv, SumsHold
    <3>2. ASSUME NEW d \in Matched(b), Requests!KeepsAmount(d)
          PROVE  deposit[d].amount = detail[d].amount
      <4>1. d \in Deposits /\ detail[d].status # "none"
        BY DEF Matched
      <4>2. PICK r \in Requests!RequestsFor(d) : r.amount = detail[d].amount
        BY <4>1 DEF IntakeInv, DetailsOfRequests
      <4>3. deposit[d].status # "absent"
        BY <4>1 DEF IntakeInv, DetailsOfRequests
      <4>4. PICK q \in Requests!RequestsFor(d) : q.amount = deposit[d].amount
        BY <4>1, <4>3 DEF IntakeInv, RowsOfRequests
      <4>5. QED
        BY <3>2, <4>2, <4>4 DEF Requests!KeepsAmount
    <3>3. (\A d \in Matched(b) : Requests!KeepsAmount(d)) =>
            [d \in Matched(b) |-> deposit[d].amount] = [d \in Matched(b) |-> detail[d].amount]
      BY <3>2
    <3>4. Requests!Amounts(Matched(b)) = Total([d \in Matched(b) |-> detail[d].amount])
      BY DEF Requests!Amounts
    <3>5. DOMAIN record[b].lines = Matched(b)
      BY <3>1
    <3>6. QED
      BY <3>1, <3>3, <3>4, <3>5
  <2>2. QED
    BY <2>1, Zenon DEF Requests!LinesAddUp, Matched
<1>7. Requests!LockedIsAttached
  BY DEF IntakeInv, LockedInBasket, Requests!LockedIsAttached
<1>8. QED
  BY <1>2, <1>3, <1>4, <1>5, <1>6, <1>7 DEF IntakeTrue, Requests!IntakeTrue

\* Whatever is requested, with whichever amounts, shards and states, in any order and
\* number, rows, records, lines and answers agree.
THEOREM IntakeCorrect == Requests!Spec => []IntakeTrue
<1> DEFINE Inv == IntakeInv /\ Requests!PositiveAnswerTrue
<1>1. Requests!Init => Inv
  <2> SUFFICES ASSUME Requests!Init PROVE Inv
    OBVIOUS
  <2>1. /\ \A d \in Deposits : deposit[d] = Requests!NoDepositRow /\ detail[d] = Requests!NoDetail
        /\ \A b \in Baskets : basket[b] = Requests!NoBasketRow /\ record[b] = Requests!NoRecord
                              /\ pool[b] = Requests!Out
        /\ deposit = [d \in Deposits |-> deposit[d]] /\ detail = [d \in Deposits |-> detail[d]]
        /\ basket = [b \in Baskets |-> basket[b]] /\ record = [b \in Baskets |-> record[b]]
        /\ pool = [b \in Baskets |-> pool[b]] /\ answer = Requests!Nothing
    BY DEF Requests!Init
  <2>2. Requests!NoDepositRow \in DepositRow /\ Requests!NoDepositRow.status = "absent"
    BY DEF Requests!NoDepositRow, DepositRow, Requests!NoBasket
  <2>3. Requests!NoBasketRow \in BasketRow /\ Requests!NoBasketRow.status = "absent"
    BY DEF Requests!NoBasketRow, BasketRow
  <2>4. Requests!NoDetail \in DetailRow /\ Requests!NoDetail.status = "none"
    BY DEF Requests!NoDetail, DetailRow, Requests!NoBasket
  <2>5. ~Requests!NoRecord.made
    BY DEF Requests!NoRecord
  <2>6. Requests!Out \in PoolEntry /\ ~Requests!Out.in
    BY DEF Requests!Out, PoolEntry, Requests!Statuses
  <2>7. IntakeTyped
    BY <2>1, <2>2, <2>3, <2>4, <2>6 DEF IntakeTyped
  <2>8. RowsOfRequests /\ DetailsOfRequests /\ BasketsSane /\ LockedInBasket /\ PoolOfRows
    BY <2>1, <2>2, <2>3, <2>4, <2>6 DEF RowsOfRequests, DetailsOfRequests, BasketsSane,
       LockedInBasket, PoolOfRows
  <2>9. \A b \in Baskets : SumsHold(b)
    BY <2>1, <2>3, <2>4, <2>5 DEF SumsHold, Matched, Requests!NoBasketRow
  <2>11. Requests!PositiveAnswerTrue
    BY <2>1 DEF Requests!PositiveAnswerTrue, Requests!Nothing
  <2>12. QED
    BY <2>7, <2>8, <2>9, <2>11 DEF IntakeInv
<1>2. Inv /\ [Requests!Next]_Requests!vars => Inv'
  <2> SUFFICES ASSUME Inv, [Requests!Next]_Requests!vars PROVE Inv'
    OBVIOUS
  <2>1. ASSUME NEW r \in DepositRequests, Requests!SubmitDeposit(r) PROVE Inv'
    BY <2>1, SubmitKept
  <2>2. ASSUME NEW r \in BasketRequests, Requests!CreateBasket(r) PROVE Inv'
    BY <2>2, CreateKept
  <2>3. ASSUME NEW d \in Deposits, Requests!ExpireWaiting(d) PROVE Inv'
    <3>1. /\ UNCHANGED <<basket, detail, record, pool>> /\ ~answer'.attached
          /\ deposit[d].status = "waiting" /\ deposit' = [deposit EXCEPT ![d].status = "expired"]
      BY <2>3 DEF Requests!ExpireWaiting, Requests!Silent, Requests!Nothing
    <3>2. deposit \in [Deposits -> DepositRow]
      BY DEF IntakeInv, IntakeTyped
    <3>3. [deposit[d] EXCEPT !.status = "expired"] \in DepositRow
      BY <3>2 DEF DepositRow, Requests!Statuses
    <3>4. /\ deposit' \in [Deposits -> DepositRow]
          /\ deposit'[d] = [deposit[d] EXCEPT !.status = "expired"]
          /\ \A x \in Deposits \ {d} : deposit'[x] = deposit[x]
      BY <3>1, <3>2, <3>3
    <3>5. IntakeInv'
      BY <3>1, <3>4, OnlyDeposits
    <3>6. QED
      BY <3>1, <3>5 DEF Requests!PositiveAnswerTrue
  <2>4. ASSUME NEW d \in Deposits, Requests!ReleaseDeposit(d) PROVE Inv'
    <3>1. detail[d].basket \in Baskets
      BY <2>4 DEF Requests!ReleaseDeposit, IntakeInv, DetailsOfRequests
    <3>2. PICK b \in Baskets : detail[d].basket = b
      BY <3>1
    <3>3. QED
      BY <2>4, <3>2, ReleaseKept
  <2>5. ASSUME NEW b \in Baskets, Requests!CloseBasket(b) PROVE Inv'
    BY <2>5, CloseKept
  <2>6. CASE Requests!Restart
    BY <2>6, RestartKept
  <2>7. CASE UNCHANGED Requests!vars
    <3>1. UNCHANGED <<deposit, basket, detail, record, pool, answer>>
      BY <2>7 DEF Requests!vars, Requests!rows
    <3>2. deposit' \in [Deposits -> DepositRow]
      BY <3>1 DEF IntakeInv, IntakeTyped
    <3>3. IntakeInv'
      BY <3>1, <3>2, OnlyDeposits
    <3>4. QED
      BY <3>1, <3>3 DEF Requests!PositiveAnswerTrue
  <2>8. QED
    BY <2>1, <2>2, <2>3, <2>4, <2>5, <2>6, <2>7 DEF Requests!Next
<1>3. Inv => IntakeTrue
  BY IntakeInvIsEnough
<1>4. QED
  BY <1>1, <1>2, <1>3, PTL DEF Requests!Spec
=============================================================================
