------------------------------ MODULE Matching ------------------------------
(***************************************************************************)
(* The matching use case of one shard (one channel:currency): submitting   *)
(* deposits, creating withdraw baskets, the three phases of the timeout    *)
(* scan, and crash and recovery of a service instance.                     *)
(*                                                                         *)
(* The state is what the code shares: the MySQL rows, the in-memory pool   *)
(* of every instance, the Redis shard lock, and where each goroutine is.   *)
(* A step is one database statement or transaction, one update of the      *)
(* pool, or one attempt on the lock.  internal/biz/matching.go holds the   *)
(* operations, internal/engine the pool.                                   *)
(***************************************************************************)
EXTENDS Integers, FiniteSets

CONSTANTS
  Deposits,      \* deposit numbers
  Baskets,       \* basket numbers, one withdraw order each
  Amount,        \* [Deposits -> amount], as every request for it says
  Target,        \* [Baskets -> target_amount]
  Total(_),      \* the sum of the amounts of a set of deposits
  MinRate,       \* min_complete_rate as configured, in 1/10000
  Deadlines,     \* the expire_at values a request may carry
  MaxTime,       \* bound: the clock stops here
  Instances,     \* service processes sharing the database
  Handlers,      \* goroutines serving gRPC requests or messages
  Scanners,      \* goroutines running ExpireTimeouts
  Home,          \* [Handlers \cup Scanners -> Instances]
  ScanLimit,     \* expire_batch_size
  BasketLimit,   \* basket_limit of the recovery query
  Budget,        \* bound: how many requests, faults, lost commits, crashes
  NoDeposit, NoBasket, NoProc

Procs == Handlers \cup Scanners

ASSUME AmountAssumption ==
  /\ Amount \in [Deposits -> Nat \ {0}]     \* validateDeposit
  /\ Target \in [Baskets -> Nat \ {0}]      \* validateBasket

ASSUME TotalAssumption ==
  /\ \A S \in SUBSET Deposits : Total(S) \in Nat
  /\ Total({}) = 0
  /\ \A S \in SUBSET Deposits : \A d \in Deposits \ S :
       Total(S \cup {d}) = Total(S) + Amount[d]

ASSUME TimeAssumption ==
  MaxTime \in Nat /\ Deadlines \subseteq Nat /\ MinRate \in Int

ASSUME ProcessAssumption ==
  /\ Home \in [Procs -> Instances]
  /\ Handlers \cap Scanners = {}
  /\ NoProc \notin Procs /\ NoDeposit \notin Deposits /\ NoBasket \notin Baskets
  /\ ScanLimit \in Nat \ {0} /\ BasketLimit \in Nat \ {0}

Fault == {"requests", "faults", "lost", "crashes"}
ASSUME BudgetAssumption == Budget \in [Fault -> Nat]

VARIABLES
  now,       \* the clock
  deposit,   \* deposit_order rows
  basket,    \* withdraw_basket rows
  detail,    \* basket_deposit rows: uk_deposit_no makes this a function
  record,    \* match_record and its deposits: uk_basket_no makes this a function
  mem,       \* per instance, the pool's baskets
  pending,   \* per instance, PendingDeposits
  lock,      \* holder of the Redis shard lock
  pc, job,   \* per goroutine: where it is, and the request or item in hand
  scan,      \* per scanner: the lists its queries returned
  boot, load,\* per instance: its phase, and the rows its recovery listed
  budget     \* what is left of the bounds

db     == <<deposit, basket, detail, record>>
memory == <<mem, pending>>
node   == <<boot, load>>
vars   == <<now, db, memory, lock, pc, job, scan, node, budget>>

DepositStatus == {"absent", "waiting", "locked", "matched", "expired"}
BasketStatus  == {"absent", "waiting", "matched", "expired"}
DetailStatus  == {"none", "attached", "matched", "released"}

DepositRow == [status : DepositStatus, basket : Baskets \cup {NoBasket}, expire : Nat]
BasketRow  == [status : BasketStatus, current : Nat, expire : Nat]
DetailRow  == [status : DetailStatus, basket : Baskets \cup {NoBasket}]
RecordRow  == [made : BOOLEAN, deposits : SUBSET Deposits, amount : Nat]
PoolBasket == [in : BOOLEAN, current : Nat, deposits : SUBSET Deposits]
Job        == [deposit : Deposits \cup {NoDeposit}, basket : Baskets \cup {NoBasket},
               expire : Nat]
Listing    == [baskets : SUBSET Baskets, seen : [Baskets -> Nat]]
ScanState  == [now : Nat, deposits : SUBSET Deposits, listing : Listing]

\* Where WithLock sends each goroutine once SetNX succeeds.
Section == [lockSubmit |-> "save", lockCreate |-> "insert",
            lockRelease |-> "release", lockClose |-> "close"]
HandlerCritical == {"save", "match", "insert", "index", "unlock"}
ScannerCritical == {"release", "forget", "close", "expire", "drop", "unlock", "abort"}
Critical   == HandlerCritical \cup ScannerCritical
HandlerPc  == {"idle", "lockSubmit", "lockCreate"} \cup HandlerCritical
ScannerPc  == {"idle", "waiting", "locked", "baskets", "lockRelease", "lockClose"}
                \cup ScannerCritical

Absent    == [in |-> FALSE, current |-> 0, deposits |-> {}]
NoJob     == [deposit |-> NoDeposit, basket |-> NoBasket, expire |-> 0]
NoListing == [baskets |-> {}, seen |-> [b \in Baskets |-> 0]]
NoScan    == [now |-> 0, deposits |-> {}, listing |-> NoListing]

Init ==
  /\ now = 0
  /\ deposit = [d \in Deposits |-> [status |-> "absent", basket |-> NoBasket, expire |-> 0]]
  /\ basket = [b \in Baskets |-> [status |-> "absent", current |-> 0, expire |-> 0]]
  /\ detail = [d \in Deposits |-> [status |-> "none", basket |-> NoBasket]]
  /\ record = [b \in Baskets |-> [made |-> FALSE, deposits |-> {}, amount |-> 0]]
  /\ mem = [i \in Instances |-> [b \in Baskets |-> Absent]]
  /\ pending = [i \in Instances |-> {}]
  /\ lock = NoProc
  /\ pc = [p \in Procs |-> "idle"]
  /\ job = [p \in Procs |-> NoJob]
  /\ scan = [s \in Scanners |-> NoScan]
  /\ boot = [i \in Instances |-> "up"]
  /\ load = [i \in Instances |-> NoListing]
  /\ budget = Budget

Up(p)       == boot[Home[p]] = "up"
Goto(p, l)  == pc' = [pc EXCEPT ![p] = l]
Spend(kind) == budget[kind] > 0 /\ budget' = [budget EXCEPT ![kind] = @ - 1]

\* The rows a query with this ORDER BY expire_at LIMIT n may return.
Oldest(S, expire, n) ==
  {T \in SUBSET S : /\ Cardinality(T) = (IF Cardinality(S) < n THEN Cardinality(S) ELSE n)
                    /\ \A x \in T, y \in S \ T : expire[x] <= expire[y]}

\* The listed rows a loop may take next: the listing is ordered by expire_at.
First(S, expire) == {x \in S : \A y \in S : expire[x] <= expire[y]}

DepositExpire == [d \in Deposits |-> deposit[d].expire]
BasketExpire  == [b \in Baskets |-> basket[b].expire]

(***************************************************************************)
(* Rows a transaction reads and writes                                     *)
(***************************************************************************)
Attached(b) == {d \in Deposits : detail[d] = [status |-> "attached", basket |-> b]}

Recorded == UNION {record[b].deposits : b \in Baskets}

\* cfgMinCompleteRate and minCompleteAmount.
Rate == IF MinRate <= 0 THEN 3000 ELSE IF MinRate > 10000 THEN 10000 ELSE MinRate

MinAmount(b) == (Target[b] * Rate + 9999) \div 10000

\* persistAttachedDeposit succeeds only on a waiting basket; the deposit row's
\* own status is not checked, only used as an update condition.
CanAttachAnyway(d, b) == detail[d].status = "none"   \* mutant: RowsAffected not checked
CanAttach(d, b) == detail[d].status = "none" /\ basket[b].status = "waiting"

PersistAttached(d, b, amount) ==
  /\ detail' = [detail EXCEPT ![d] = [status |-> "attached", basket |-> b]]
  /\ basket' = [basket EXCEPT ![b] =
       [status |-> @.status, current |-> amount, expire |-> @.expire]]
  /\ deposit' = [deposit EXCEPT ![d] =
       IF @.status = "waiting"
         THEN [status |-> "locked", basket |-> b, expire |-> @.expire] ELSE @]
  /\ UNCHANGED record

\* persistCompletedMatch: the unique keys of match_record and
\* match_record_deposit, and the condition on the basket row.
CanCompleteAnyway(b, S) ==   \* mutant: RowsAffected of the basket update not checked
  ~record[b].made /\ S \cap Recorded = {} /\ \A d \in S : deposit[d].status # "absent"
CanComplete(b, S) ==
  /\ ~record[b].made
  /\ S \cap Recorded = {}
  /\ \A d \in S : deposit[d].status # "absent"
  /\ basket[b].status = "waiting"

CompletedByDetail(b, S) ==   \* mutant: the rows are found through the details
  [d \in Deposits |-> IF detail[d].basket = b \/ (d \in S /\ deposit[d].status = "waiting")
     THEN [status |-> "matched", basket |-> b, expire |-> deposit[d].expire] ELSE deposit[d]]
CompletedDeposits(b, S) ==
  [d \in Deposits |-> IF d \in S /\ deposit[d].status \in {"waiting", "locked"}
     THEN [status |-> "matched", basket |-> b, expire |-> deposit[d].expire] ELSE deposit[d]]

\* "new" is the deposit whose detail this transaction has just created, if any.
CompletedBeforeCreate(b, new) ==   \* mutant: details updated before the last is created
  [d \in Deposits |->
     IF d \in Attached(b) THEN [status |-> "matched", basket |-> b]
     ELSE IF d \in new THEN [status |-> "attached", basket |-> b] ELSE detail[d]]
CompletedDetails(b, new) ==
  [d \in Deposits |-> IF d \in Attached(b) \cup new
     THEN [status |-> "matched", basket |-> b] ELSE detail[d]]

PersistCompleted(b, S, amount, new) ==
  /\ record' = [record EXCEPT ![b] = [made |-> TRUE, deposits |-> S, amount |-> amount]]
  /\ deposit' = CompletedDeposits(b, S)
  /\ basket' = [basket EXCEPT ![b] =
       [status |-> "matched", current |-> amount, expire |-> @.expire]]
  /\ detail' = CompletedDetails(b, new)

(***************************************************************************)
(* The shard lock, as the use case sees it (see ShardLock for the lock)     *)
(***************************************************************************)
Free    == lock = NoProc

Acquire(p) ==
  /\ pc[p] \in DOMAIN Section
  /\ Free
  /\ lock' = p
  /\ Goto(p, Section[pc[p]])
  /\ UNCHANGED <<now, db, memory, job, scan, node, budget>>

\* waitLock returns an error: the caller's context is done, or Redis failed.
\* A request ends; a scan ends too, and has no deadline of its own.
AcquireFails(p) ==
  /\ pc[p] \in DOMAIN Section
  /\ IF p \in Scanners THEN Spend("faults") ELSE UNCHANGED budget
  /\ Goto(p, "idle")
  /\ job' = [job EXCEPT ![p] = NoJob]
  /\ scan' = [s \in Scanners |-> IF s = p THEN NoScan ELSE scan[s]]
  /\ UNCHANGED <<now, db, memory, lock, node>>

\* Where a goroutine continues once its critical section is over.
AfterUnlock(p) ==
  IF p \in Handlers \/ pc[p] = "abort" THEN "idle"
  ELSE IF job[p].deposit # NoDeposit THEN "locked" ELSE "baskets"

\* The deferred unlock deletes the key if it still holds this token; when the
\* script call fails the error is dropped and the key stays until its TTL.
Unlock(p) ==
  /\ pc[p] \in {"unlock", "abort"}
  /\ \/ lock' = (IF lock = p THEN NoProc ELSE lock) /\ UNCHANGED budget
     \/ Spend("faults") /\ UNCHANGED lock
  /\ Goto(p, AfterUnlock(p))
  /\ job' = [job EXCEPT ![p] = NoJob]
  /\ scan' = [s \in Scanners |-> IF s = p /\ pc[p] = "abort" THEN NoScan ELSE scan[s]]
  /\ UNCHANGED <<now, db, memory, node>>

\* The TTL ends a lock nobody is using: its holder crashed, or its unlock was
\* lost.  That the TTL outlives a live holder's section is what config.yaml asks.
NeverAbandoned == FALSE                 \* mutant: the key has no TTL
AnyHeld        == lock # NoProc         \* mutant: a TTL shorter than the section
Abandoned      == lock # NoProc /\ pc[lock] \notin Critical

LockExpires ==
  /\ Abandoned
  /\ lock' = NoProc
  /\ UNCHANGED <<now, db, memory, pc, job, scan, node, budget>>

(***************************************************************************)
(* SubmitDeposit                                                           *)
(***************************************************************************)
\* A request for d arrives and passes validateDeposit.  Upstream may send the
\* same deposit_no again, with another expire_at.
Submit(h, d, e) ==
  /\ Up(h) /\ pc[h] = "idle"
  /\ e > now
  /\ Spend("requests")
  /\ job' = [job EXCEPT ![h] = [deposit |-> d, basket |-> NoBasket, expire |-> e]]
  /\ Goto(h, "lockSubmit")
  /\ UNCHANGED <<now, db, memory, lock, scan, node>>

\* saveDepositIfNeeded: a statement of its own, before the matching transaction.
\* An existing row is left as it is, whatever its status.
SaveDeposit(h) ==
  LET d == job[h].deposit IN
  /\ pc[h] = "save"
  /\ \/ /\ deposit' = [deposit EXCEPT ![d] =
             IF @.status = "absent"
               THEN [status |-> "waiting", basket |-> NoBasket, expire |-> job[h].expire] ELSE @]
        /\ Goto(h, "match") /\ UNCHANGED budget
     \/ Spend("faults") /\ Goto(h, "unlock") /\ UNCHANGED deposit
  /\ UNCHANGED <<now, basket, detail, record, memory, lock, job, scan, node>>

\* FindCompletable and FindAcceptable over the pool of instance i.
CompletableByTarget(i, d) ==   \* mutant: buckets keyed by the target amount
  {b \in Baskets : mem[i][b].in /\ Amount[d] = Target[b]}
Completable(i, d) ==
  {b \in Baskets : mem[i][b].in /\ mem[i][b].current + Amount[d] = Target[b]}

AcceptableNotFull(i, d) ==   \* mutant: any basket that is not full accepts
  {b \in Baskets : mem[i][b].in /\ mem[i][b].current < Target[b]}
Acceptable(i, d) ==
  {b \in Baskets : mem[i][b].in /\ mem[i][b].current + Amount[d] < Target[b]}

Left(i, b) == Target[b] - mem[i][b].current

\* The orders of bestCompletable and bestAcceptable.
Sooner(i, b, c) ==
  \/ basket[b].expire < basket[c].expire
  \/ /\ basket[b].expire = basket[c].expire
     /\ Cardinality(mem[i][b].deposits) <= Cardinality(mem[i][c].deposits)

Tighter(i, b, c) == Left(i, b) < Left(i, c) \/ (Left(i, b) = Left(i, c) /\ Sooner(i, b, c))

BestCompletable(i, d) ==
  {b \in Completable(i, d) : \A c \in Completable(i, d) : Sooner(i, b, c)}

BestAcceptable(i, d) ==
  {b \in Acceptable(i, d) : \A c \in Acceptable(i, d) : Tighter(i, b, c)}

\* The transaction that completes b with d, as the pool of h's instance sees b.
NewestOnly(i, b, d) == {d}   \* mutant: the earlier deposit numbers are not copied
Members(i, b, d) == mem[i][b].deposits \cup {d}
NewCurrent(i, b, d) == mem[i][b].current + Amount[d]

\* MatchDepositWithCommit holds the pool's mutex over the commit, so selection,
\* transaction and pool update are one step.  A commit whose answer is lost has
\* changed the database and leaves the pool as it was.
MatchComplete(h, b) ==
  LET i == Home[h] d == job[h].deposit IN
  /\ pc[h] = "match"
  /\ b \in BestCompletable(i, d)
  /\ detail[d].status = "none"
  /\ CanComplete(b, Members(i, b, d))
  /\ PersistCompleted(b, Members(i, b, d), NewCurrent(i, b, d), {d})
  /\ \/ mem' = [mem EXCEPT ![i][b] = Absent] /\ UNCHANGED budget
     \/ Spend("lost") /\ UNCHANGED mem
  /\ Goto(h, "unlock")
  /\ UNCHANGED <<now, pending, lock, job, scan, node>>

MatchAttach(h, b) ==
  LET i == Home[h] d == job[h].deposit IN
  /\ pc[h] = "match"
  /\ Completable(i, d) = {} /\ b \in BestAcceptable(i, d)
  /\ CanAttach(d, b)
  /\ PersistAttached(d, b, NewCurrent(i, b, d))
  /\ \/ /\ mem' = [mem EXCEPT ![i][b] = [in |-> TRUE, current |-> NewCurrent(i, b, d),
                                          deposits |-> Members(i, b, d)]]
        /\ UNCHANGED budget
     \/ Spend("lost") /\ UNCHANGED mem
  /\ Goto(h, "unlock")
  /\ UNCHANGED <<now, pending, lock, job, scan, node>>

\* The transaction is refused by a unique key or a condition, or the database
\* fails: nothing is written and the pool is untouched.
Refused(i, d, b) ==
  IF b \in Completable(i, d)
    THEN detail[d].status # "none" \/ ~CanComplete(b, Members(i, b, d))
    ELSE ~CanAttach(d, b)

MatchFails(h) ==
  LET i == Home[h] d == job[h].deposit IN
  /\ pc[h] = "match"
  /\ \E b \in IF Completable(i, d) # {} THEN BestCompletable(i, d) ELSE BestAcceptable(i, d) :
       \/ Refused(i, d, b) /\ UNCHANGED budget
       \/ Spend("faults")
  /\ Goto(h, "unlock")
  /\ UNCHANGED <<now, db, memory, lock, job, scan, node>>

\* No basket fits: the deposit is remembered in PendingDeposits, which nothing reads.
MatchPending(h) ==
  LET i == Home[h] d == job[h].deposit IN
  /\ pc[h] = "match"
  /\ Completable(i, d) = {} /\ Acceptable(i, d) = {}
  /\ pending' = [pending EXCEPT ![i] = @ \cup {d}]
  /\ Goto(h, "unlock")
  /\ UNCHANGED <<now, db, mem, lock, job, scan, node, budget>>

(***************************************************************************)
(* CreateBasket                                                            *)
(***************************************************************************)
RequestBasket(h, b, e) ==
  /\ Up(h) /\ pc[h] = "idle"
  /\ e > now
  /\ Spend("requests")
  /\ job' = [job EXCEPT ![h] = [deposit |-> NoDeposit, basket |-> b, expire |-> e]]
  /\ Goto(h, "lockCreate")
  /\ UNCHANGED <<now, db, memory, lock, scan, node>>

\* createBasketLocked inserts the row (refused when the basket or withdraw number
\* is taken), and only then adds the basket to the pool.
InsertBasket(h) ==
  LET b == job[h].basket IN
  /\ pc[h] = "insert"
  /\ \/ /\ basket[b].status = "absent"
        /\ basket' = [basket EXCEPT ![b] =
             [status |-> "waiting", current |-> 0, expire |-> job[h].expire]]
        /\ \/ Goto(h, "index") /\ UNCHANGED budget
           \/ Goto(h, "unlock") /\ Spend("lost")
     \/ /\ \/ basket[b].status # "absent" /\ UNCHANGED budget
           \/ Spend("faults")
        /\ Goto(h, "unlock") /\ UNCHANGED basket
  /\ UNCHANGED <<now, deposit, detail, record, memory, lock, job, scan, node>>

NotIndexed == Absent   \* mutant: the basket is not added to the pool
NewInPool  == [in |-> TRUE, current |-> 0, deposits |-> {}]

AddBasket(h) ==
  /\ pc[h] = "index"
  /\ mem' = [mem EXCEPT ![Home[h]][job[h].basket] = NewInPool]
  /\ Goto(h, "unlock")
  /\ UNCHANGED <<now, db, pending, lock, job, scan, node, budget>>

(***************************************************************************)
(* ExpireTimeouts: three listings without the lock, one time for all three  *)
(***************************************************************************)
DueAnytime(S, expire, t) == Oldest(S, expire, ScanLimit)   \* mutant: the deadline is not in the query
Due(S, expire, t) == Oldest({x \in S : expire[x] <= t}, expire, ScanLimit)

\* expireWaitingDeposits lists, then updates row by row; it never takes the lock.
ListWaiting(s) ==
  /\ Up(s) /\ pc[s] = "idle"
  /\ \E T \in Due({d \in Deposits : deposit[d].status = "waiting"}, DepositExpire, now) :
       scan' = [scan EXCEPT ![s] = [now |-> now, deposits |-> T, listing |-> NoListing]]
  /\ Goto(s, "waiting")
  /\ UNCHANGED <<now, db, memory, lock, job, node, budget>>

ExpireWaiting(s, d) ==
  /\ pc[s] = "waiting" /\ d \in First(scan[s].deposits, DepositExpire)
  /\ deposit' = [deposit EXCEPT ![d] =
       IF @.status = "waiting"
         THEN [status |-> "expired", basket |-> @.basket, expire |-> @.expire] ELSE @]
  /\ scan' = [scan EXCEPT ![s].deposits = @ \ {d}]
  /\ UNCHANGED <<now, basket, detail, record, memory, lock, pc, job, node, budget>>

ListLocked(s) ==
  /\ pc[s] = "waiting" /\ scan[s].deposits = {}
  /\ \E T \in Due({d \in Deposits : deposit[d].status = "locked"}, DepositExpire, scan[s].now) :
       scan' = [scan EXCEPT ![s].deposits = T]
  /\ Goto(s, "locked")
  /\ UNCHANGED <<now, db, memory, lock, job, node, budget>>

TakeLocked(s, d) ==
  /\ pc[s] = "locked" /\ d \in First(scan[s].deposits, DepositExpire)
  /\ scan' = [scan EXCEPT ![s].deposits = @ \ {d}]
  /\ job' = [job EXCEPT ![s].deposit = d]
  /\ Goto(s, "lockRelease")
  /\ UNCHANGED <<now, db, memory, lock, node, budget>>

MinusUnclamped(a, b) == a - b   \* mutant: no GREATEST
Minus(a, b) == IF a > b THEN a - b ELSE 0

StillLocked(row) == row   \* mutant: the deposit row is not updated
Timeout(row) ==
  IF row.status = "locked"
    THEN [status |-> "expired", basket |-> row.basket, expire |-> row.expire] ELSE row

\* expireLockedDeposit's transaction.  Without an attached detail, First returns
\* an error, which ends the whole scan.
ReleaseRow(s) ==
  LET d == job[s].deposit b == detail[d].basket IN
  /\ pc[s] = "release"
  /\ detail[d].status = "attached"
  /\ deposit' = [deposit EXCEPT ![d] = Timeout(@)]
  /\ detail' = [detail EXCEPT ![d] = [status |-> "released", basket |-> b]]
  /\ basket' = [basket EXCEPT ![b] =
       IF @.status = "waiting"
         THEN [status |-> "waiting", current |-> Minus(@.current, Amount[d]), expire |-> @.expire]
         ELSE @]
  /\ job' = [job EXCEPT ![s].basket = b]
  /\ \/ Goto(s, "forget") /\ UNCHANGED budget
     \/ Goto(s, "abort") /\ Spend("lost")
  /\ UNCHANGED <<now, record, memory, lock, scan, node>>

ReleaseFails(s) ==
  /\ pc[s] = "release"
  /\ \/ detail[job[s].deposit].status # "attached" /\ UNCHANGED budget
     \/ Spend("faults")
  /\ Goto(s, "abort")
  /\ UNCHANGED <<now, db, memory, lock, job, scan, node>>

\* ReleaseDeposit in the pool.
WithoutAmount(row, d) ==    \* mutant: the deposit number is kept
  [in |-> row.in, current |-> Minus(row.current, Amount[d]), deposits |-> row.deposits]
WithoutDeposit(row, d) ==
  [in |-> row.in, current |-> Minus(row.current, Amount[d]), deposits |-> row.deposits \ {d}]

ForgetDeposit(s) ==
  LET i == Home[s] d == job[s].deposit b == job[s].basket IN
  /\ pc[s] = "forget"
  /\ mem' = [mem EXCEPT ![i][b] = IF @.in THEN WithoutDeposit(@, d) ELSE @]
  /\ Goto(s, "unlock")
  /\ UNCHANGED <<now, db, pending, lock, job, scan, node, budget>>

\* expireBaskets keeps the rows it listed: their current_amount is used later.
ListBaskets(s) ==
  /\ pc[s] = "locked" /\ scan[s].deposits = {}
  /\ \E T \in Due({b \in Baskets : basket[b].status = "waiting"}, BasketExpire, scan[s].now) :
       scan' = [scan EXCEPT ![s].listing =
         [baskets |-> T, seen |-> [b \in Baskets |-> IF b \in T THEN basket[b].current ELSE 0]]]
  /\ Goto(s, "baskets")
  /\ UNCHANGED <<now, db, memory, lock, job, node, budget>>

TakeBasket(s, b) ==
  /\ pc[s] = "baskets" /\ b \in First(scan[s].listing.baskets, BasketExpire)
  /\ scan' = [scan EXCEPT ![s].listing.baskets = @ \ {b}]
  /\ job' = [job EXCEPT ![s].basket = b]
  /\ Goto(s, "lockClose")
  /\ UNCHANGED <<now, db, memory, lock, node, budget>>

\* canCompletePartial, on the listed row.
CanCompletePartial(s, b) ==
  LET seen == scan[s].listing.seen[b] IN seen > 0 /\ seen >= MinAmount(b)

\* completeExpiredBasket lists the attached details again, inside its transaction.
PartialEnough(b) == Attached(b) # {} /\ Total(Attached(b)) >= MinAmount(b)

CompletePartial(s) ==
  LET b == job[s].basket IN
  /\ pc[s] = "close"
  /\ CanCompletePartial(s, b) /\ PartialEnough(b)
  /\ \/ /\ CanComplete(b, Attached(b))
        /\ PersistCompleted(b, Attached(b), Total(Attached(b)), {})
        /\ \/ Goto(s, "drop") /\ UNCHANGED budget
           \/ Goto(s, "abort") /\ Spend("lost")
     \/ /\ \/ ~CanComplete(b, Attached(b)) /\ UNCHANGED budget
           \/ Spend("faults")
        /\ Goto(s, "abort") /\ UNCHANGED db
  /\ UNCHANGED <<now, memory, lock, job, scan, node>>

CannotComplete(s) ==
  LET b == job[s].basket IN
  /\ pc[s] = "close"
  /\ ~CanCompletePartial(s, b) \/ ~PartialEnough(b)
  /\ Goto(s, "expire")
  /\ UNCHANGED <<now, db, memory, lock, job, scan, node, budget>>

Closable(b)  == basket[b].status = "waiting"

DepositsKept(b) == deposit   \* mutant: the deposit rows are not updated
ExpiredWith(b) ==
  [d \in Deposits |-> IF deposit[d].basket = b THEN Timeout(deposit[d]) ELSE deposit[d]]

\* The second transaction of expireBasket; an already closed basket is left alone.
ExpireBasket(s) ==
  LET b == job[s].basket IN
  /\ pc[s] = "expire"
  /\ \/ /\ Closable(b)
        /\ basket' = [basket EXCEPT ![b] =
             [status |-> "expired", current |-> @.current, expire |-> @.expire]]
        /\ detail' = [d \in Deposits |->
             IF d \in Attached(b) THEN [status |-> "released", basket |-> b] ELSE detail[d]]
        /\ deposit' = ExpiredWith(b)
        /\ UNCHANGED record
        /\ \/ Goto(s, "drop") /\ UNCHANGED budget
           \/ Goto(s, "abort") /\ Spend("lost")
     \/ /\ ~Closable(b) /\ UNCHANGED db
        /\ Goto(s, "unlock") /\ UNCHANGED budget
     \/ Spend("faults") /\ UNCHANGED db /\ Goto(s, "abort")
  /\ UNCHANGED <<now, memory, lock, job, scan, node>>

\* RemoveBasket in the pool.
DropBasket(s) ==
  /\ pc[s] = "drop"
  /\ mem' = [mem EXCEPT ![Home[s]][job[s].basket] = Absent]
  /\ Goto(s, "unlock")
  /\ UNCHANGED <<now, db, pending, lock, job, scan, node, budget>>

\* The last phase is done, or a statement outside the lock failed.
EndScan(s) ==
  /\ \/ pc[s] = "baskets" /\ scan[s].listing.baskets = {} /\ UNCHANGED budget
     \/ pc[s] \in {"waiting", "locked", "baskets"} /\ Spend("faults")
  /\ scan' = [scan EXCEPT ![s] = NoScan]
  /\ Goto(s, "idle")
  /\ UNCHANGED <<now, db, memory, lock, job, node>>

(***************************************************************************)
(* Crash and RecoverActiveBaskets                                          *)
(***************************************************************************)
Crash(i) ==
  /\ boot[i] # "down" /\ Spend("crashes")
  /\ boot' = [boot EXCEPT ![i] = "down"]
  /\ load' = [load EXCEPT ![i] = NoListing]
  /\ mem' = [mem EXCEPT ![i] = [b \in Baskets |-> Absent]]
  /\ pending' = [pending EXCEPT ![i] = {}]
  /\ pc' = [p \in Procs |-> IF Home[p] = i THEN "idle" ELSE pc[p]]
  /\ job' = [p \in Procs |-> IF Home[p] = i THEN NoJob ELSE job[p]]
  /\ scan' = [s \in Scanners |-> IF Home[s] = i THEN NoScan ELSE scan[s]]
  /\ UNCHANGED <<now, db, lock>>

\* The recovery reads without the lock: first the waiting baskets, then the
\* details of one basket after the other.
ListActive(i) ==
  /\ boot[i] = "down"
  /\ \E T \in Oldest({b \in Baskets : basket[b].status = "waiting"}, BasketExpire, BasketLimit) :
       load' = [load EXCEPT ![i] =
         [baskets |-> T, seen |-> [b \in Baskets |-> IF b \in T THEN basket[b].current ELSE 0]]]
  /\ boot' = [boot EXCEPT ![i] = "loading"]
  /\ UNCHANGED <<now, db, memory, lock, pc, job, scan, budget>>

RestoredBare(i, b) ==    \* mutant: the deposit numbers are not restored
  [in |-> TRUE, current |-> load[i].seen[b], deposits |-> {}]
Restored(i, b) ==
  [in |-> TRUE, current |-> load[i].seen[b],
   deposits |-> {d \in Deposits : detail[d].basket = b
                                 /\ detail[d].status \in {"attached", "matched"}}]

RestoreBasket(i, b) ==
  /\ boot[i] = "loading" /\ b \in First(load[i].baskets, BasketExpire)
  /\ mem' = [mem EXCEPT ![i][b] = Restored(i, b)]
  /\ load' = [load EXCEPT ![i].baskets = @ \ {b}]
  /\ UNCHANGED <<now, db, pending, lock, pc, job, scan, boot, budget>>

Recovered(i) ==
  /\ boot[i] = "loading" /\ load[i].baskets = {}
  /\ boot' = [boot EXCEPT ![i] = "up"]
  /\ load' = [load EXCEPT ![i] = NoListing]
  /\ UNCHANGED <<now, db, memory, lock, pc, job, scan, budget>>

Tick ==
  /\ now < MaxTime
  /\ now' = now + 1
  /\ UNCHANGED <<db, memory, lock, pc, job, scan, node, budget>>

(***************************************************************************)
(* The specification                                                       *)
(***************************************************************************)
\* What a handler does with the request in hand.
Serve(h) ==
  \/ SaveDeposit(h) \/ MatchFails(h) \/ MatchPending(h)
  \/ \E b \in Baskets : MatchComplete(h, b) \/ MatchAttach(h, b)
  \/ InsertBasket(h) \/ AddBasket(h)

Request(h) ==
  \E e \in Deadlines :
    \/ \E d \in Deposits : Submit(h, d, e)
    \/ \E b \in Baskets : RequestBasket(h, b, e)

Scan(s) ==
  \/ ListWaiting(s) \/ ListLocked(s) \/ ListBaskets(s) \/ EndScan(s)
  \/ \E d \in Deposits : ExpireWaiting(s, d) \/ TakeLocked(s, d)
  \/ \E b \in Baskets : TakeBasket(s, b)
  \/ ReleaseRow(s) \/ ReleaseFails(s) \/ ForgetDeposit(s)
  \/ CompletePartial(s) \/ CannotComplete(s) \/ ExpireBasket(s) \/ DropBasket(s)

Restart(i) == ListActive(i) \/ Recovered(i) \/ \E b \in Baskets : RestoreBasket(i, b)

Lock(p) == Acquire(p) \/ AcquireFails(p) \/ Unlock(p)

Next ==
  \/ \E h \in Handlers : Request(h) \/ Serve(h)
  \/ \E s \in Scanners : Scan(s)
  \/ \E p \in Procs : Lock(p)
  \/ \E i \in Instances : Crash(i) \/ Restart(i)
  \/ LockExpires \/ Tick

Spec == Init /\ [][Next]_vars

\* A started goroutine keeps running, a crashed instance is started again, the
\* key of a lock nobody uses expires, and time passes.  Nothing is asked of the
\* order in which SetNX retries succeed.
Fairness ==
  /\ \A h \in Handlers : WF_vars(Serve(h))
  /\ \A s \in Scanners : WF_vars(Scan(s))
  /\ \A p \in Procs : WF_vars(Acquire(p)) /\ WF_vars(Unlock(p))
  /\ \A i \in Instances : WF_vars(Restart(i))
  /\ WF_vars(LockExpires) /\ WF_vars(Tick)

FairSpec == Spec /\ Fairness

(***************************************************************************)
(* Properties                                                              *)
(***************************************************************************)
\* Every variable has the values the code can give it.
TypeOK ==
  /\ now \in 0..MaxTime
  /\ deposit \in [Deposits -> DepositRow]
  /\ basket \in [Baskets -> BasketRow]
  /\ detail \in [Deposits -> DetailRow]
  /\ record \in [Baskets -> RecordRow]
  /\ mem \in [Instances -> [Baskets -> PoolBasket]]
  /\ pending \in [Instances -> SUBSET Deposits]
  /\ lock \in Procs \cup {NoProc}
  /\ pc \in [Procs -> HandlerPc \cup ScannerPc]
  /\ job \in [Procs -> Job]
  /\ scan \in [Scanners -> ScanState]
  /\ boot \in [Instances -> {"up", "down", "loading"}]
  /\ load \in [Instances -> Listing]
  /\ budget \in [Fault -> Nat]
=============================================================================
