--------------------------- MODULE MatchingProofs ---------------------------
(***************************************************************************)
(* Theorems about Matching, for any number of instances, goroutines,       *)
(* deposits and baskets, with crashes, faults and lost commits.            *)
(***************************************************************************)
EXTENDS MatchingProperties, TLAPS

\* What a goroutine has in hand at each place, and what a detail row names:
\* without it the typing of the rows would not be inductive.
HasDeposit == {"lockSubmit", "save", "match", "lockRelease", "release", "forget"}
HasBasket  == {"lockCreate", "insert", "index", "forget", "lockClose", "close", "expire", "drop"}

JobOK ==
  /\ \A p \in Procs : pc[p] \in HasDeposit => job[p].deposit \in Deposits
  /\ \A p \in Procs : pc[p] \in HasBasket => job[p].basket \in Baskets
  /\ \A d \in Deposits : detail[d].status = "attached" => detail[d].basket \in Baskets

TypeInv == TypeOK /\ JobOK

\* The amounts of any set of deposits add up to a natural number.
LEMMA TotalType ==
  ASSUME NEW S \in SUBSET Deposits
  PROVE  Total(S) \in Nat
BY TotalAssumption

\* Subtraction at the database and in the pool stops at zero.
LEMMA MinusType ==
  ASSUME NEW m \in Nat, NEW n \in Nat
  PROVE  Minus(m, n) \in Nat
BY DEF Minus

\* The queries return subsets of what they select from.
LEMMA OldestSubset ==
  ASSUME NEW S, NEW e, NEW n, NEW T \in Oldest(S, e, n)
  PROVE  T \in SUBSET S
BY DEF Oldest

\* The initial state is well typed.
LEMMA InitTyped == Init => TypeInv
<1> SUFFICES ASSUME Init PROVE TypeInv
  OBVIOUS
<1> USE DEF Init
<1>1. TypeOK
  BY TimeAssumption, BudgetAssumption
     DEF TypeOK, DepositRow, BasketRow, DetailRow, RecordRow, PoolBasket, Job, Listing, ScanState,
         DepositStatus, BasketStatus, DetailStatus, Absent, NoJob, NoListing, NoScan,
         HandlerPc, ScannerPc
<1>2. JobOK
  BY DEF JobOK, HasDeposit, HasBasket
<1>3. QED
  BY <1>1, <1>2 DEF TypeInv

\* The empty values a goroutine or an instance is reset to.
LEMMA EmptyTyped ==
  NoJob \in Job /\ NoListing \in Listing /\ NoScan \in ScanState
BY DEF NoJob, Job, NoListing, Listing, NoScan, ScanState

\* Spending a bound leaves naturals.
LEMMA SpendTyped ==
  ASSUME budget \in [Fault -> Nat], NEW k \in Fault, Spend(k)
  PROVE  budget' \in [Fault -> Nat]
BY DEF Spend

\* A step of the lock keeps the types.
LEMMA LockTyped ==
  ASSUME TypeInv, NEW p \in Procs, Lock(p)
  PROVE  TypeInv'
<1> USE EmptyTyped, SpendTyped
    DEF TypeInv, TypeOK, JobOK, HasDeposit, HasBasket, db, memory, node, Goto
<1>1. CASE Acquire(p)
  BY <1>1 DEF Acquire, Section, HandlerPc, ScannerPc, HandlerCritical, ScannerCritical, Free
<1>2. CASE AcquireFails(p)
  BY <1>2 DEF AcquireFails, HandlerPc, ScannerPc, Fault
<1>3. CASE Unlock(p)
  <2>1. AfterUnlock(p) \in {"idle", "locked", "baskets"}
    BY DEF AfterUnlock
  <2>2. budget' \in [Fault -> Nat]
    BY <1>3 DEF Unlock, Fault
  <2>3. lock' \in Procs \cup {NoProc}
    BY <1>3 DEF Unlock
  <2>4. QED
    BY <1>3, <2>1, <2>2, <2>3 DEF Unlock, HandlerPc, ScannerPc
<1>4. QED
  BY <1>1, <1>2, <1>3 DEF Lock

\* A pool with one basket replaced is a pool.
LEMMA PoolUpdate ==
  ASSUME mem \in [Instances -> [Baskets -> PoolBasket]], NEW i, NEW b, NEW x \in PoolBasket
  PROVE  [mem EXCEPT ![i][b] = x] \in [Instances -> [Baskets -> PoolBasket]]
OBVIOUS

\* What TypeInv says of a goroutine and of the rows, piece by piece.
LEMMA RowsTyped ==
  ASSUME TypeInv
  PROVE  /\ deposit \in [Deposits -> DepositRow] /\ basket \in [Baskets -> BasketRow]
         /\ detail \in [Deposits -> DetailRow] /\ record \in [Baskets -> RecordRow]
         /\ mem \in [Instances -> [Baskets -> PoolBasket]]
         /\ budget \in [Fault -> Nat]
BY DEF TypeInv, TypeOK

LEMMA InHand ==
  ASSUME TypeInv, NEW p \in Procs
  PROVE  /\ job[p] \in Job
         /\ pc[p] \in HasDeposit => job[p].deposit \in Deposits
         /\ pc[p] \in HasBasket => job[p].basket \in Baskets
         /\ Home[p] \in Instances
BY ProcessAssumption DEF TypeInv, TypeOK, JobOK

LEMMA AttachedTyped ==
  ASSUME TypeInv, NEW d \in Deposits, detail[d].status = "attached"
  PROVE  detail[d].basket \in Baskets
BY DEF TypeInv, JobOK

\* A request, and what a handler does with it, keep the types.
LEMMA RequestTyped ==
  ASSUME TypeInv, NEW h \in Handlers, Request(h)
  PROVE  TypeInv'
<1> USE EmptyTyped, SpendTyped, TimeAssumption
    DEF TypeInv, TypeOK, JobOK, HasDeposit, HasBasket, db, memory, node, Goto, Procs
<1>1. PICK e \in Deadlines : (\E d \in Deposits : Submit(h, d, e))
                           \/ (\E b \in Baskets : RequestBasket(h, b, e))
  BY DEF Request
<1>2. ASSUME NEW d \in Deposits, Submit(h, d, e) PROVE TypeInv'
  BY <1>2 DEF Submit, HandlerPc, ScannerPc, Fault, Job
<1>3. ASSUME NEW b \in Baskets, RequestBasket(h, b, e) PROVE TypeInv'
  BY <1>3 DEF RequestBasket, HandlerPc, ScannerPc, Fault, Job
<1>4. QED
  BY <1>1, <1>2, <1>3

LEMMA SaveTyped ==
  ASSUME TypeInv, NEW h \in Handlers, SaveDeposit(h)
  PROVE  TypeInv'
<1>1. [status |-> "waiting", basket |-> NoBasket, expire |-> job[h].expire] \in DepositRow
  BY InHand DEF Procs, Job, DepositRow, DepositStatus
<1>2. deposit' \in [Deposits -> DepositRow]
  BY <1>1, RowsTyped DEF SaveDeposit
<1>3. budget' \in [Fault -> Nat]
  BY RowsTyped, SpendTyped DEF SaveDeposit, Fault
<1>4. QED
  BY <1>2, <1>3 DEF SaveDeposit, TypeInv, TypeOK, JobOK, HasDeposit, HasBasket, memory, node,
     Goto, Procs, HandlerPc, ScannerPc, HandlerCritical

\* The rows and the pool after the transaction that completes a basket.
LEMMA CompletedTyped ==
  ASSUME TypeInv, NEW b \in Baskets, NEW S \in SUBSET Deposits, NEW n \in Nat,
         NEW new, PersistCompleted(b, S, n, new)
  PROVE  /\ deposit' \in [Deposits -> DepositRow] /\ basket' \in [Baskets -> BasketRow]
         /\ detail' \in [Deposits -> DetailRow] /\ record' \in [Baskets -> RecordRow]
         /\ \A x \in Deposits : detail'[x].status = "attached" => detail'[x].basket \in Baskets
<1>1. \A x \in Deposits :
        [status |-> "matched", basket |-> b, expire |-> deposit[x].expire] \in DepositRow
  BY RowsTyped DEF DepositRow, DepositStatus
<1>2. deposit' \in [Deposits -> DepositRow]
  BY <1>1, RowsTyped DEF PersistCompleted, CompletedDeposits
<1>3. [status |-> "matched", current |-> n, expire |-> basket[b].expire] \in BasketRow
  BY RowsTyped DEF BasketRow, BasketStatus
<1>4. basket' \in [Baskets -> BasketRow]
  BY <1>3, RowsTyped DEF PersistCompleted
<1>5. [status |-> "matched", basket |-> b] \in DetailRow
  BY DEF DetailRow, DetailStatus
<1>6. detail' \in [Deposits -> DetailRow]
  BY <1>5, RowsTyped DEF PersistCompleted, CompletedDetails
<1>7. [made |-> TRUE, deposits |-> S, amount |-> n] \in RecordRow
  BY DEF RecordRow
<1>8. record' \in [Baskets -> RecordRow]
  BY <1>7, RowsTyped DEF PersistCompleted
<1>9. ASSUME NEW x \in Deposits, detail'[x].status = "attached"
      PROVE  detail'[x].basket \in Baskets
  BY <1>9, AttachedTyped DEF PersistCompleted, CompletedDetails
<1>10. QED
  BY <1>2, <1>4, <1>6, <1>8, <1>9

\* The rows after the transaction that attaches a deposit.
LEMMA AttachTyped ==
  ASSUME TypeInv, NEW b \in Baskets, NEW d \in Deposits, NEW n \in Nat,
         PersistAttached(d, b, n)
  PROVE  /\ deposit' \in [Deposits -> DepositRow] /\ basket' \in [Baskets -> BasketRow]
         /\ detail' \in [Deposits -> DetailRow] /\ record' \in [Baskets -> RecordRow]
         /\ \A x \in Deposits : detail'[x].status = "attached" => detail'[x].basket \in Baskets
<1>1. [status |-> "locked", basket |-> b, expire |-> deposit[d].expire] \in DepositRow
  BY RowsTyped DEF DepositRow, DepositStatus
<1>2. deposit' \in [Deposits -> DepositRow]
  BY <1>1, RowsTyped DEF PersistAttached
<1>3. [status |-> basket[b].status, current |-> n, expire |-> basket[b].expire] \in BasketRow
  BY RowsTyped DEF BasketRow, BasketStatus
<1>4. basket' \in [Baskets -> BasketRow]
  BY <1>3, RowsTyped DEF PersistAttached
<1>5. [status |-> "attached", basket |-> b] \in DetailRow
  BY DEF DetailRow, DetailStatus
<1>6. detail' \in [Deposits -> DetailRow]
  BY <1>5, RowsTyped DEF PersistAttached
<1>7. ASSUME NEW x \in Deposits, detail'[x].status = "attached"
      PROVE  detail'[x].basket \in Baskets
  BY <1>7, RowsTyped, AttachedTyped DEF PersistAttached
<1>8. QED
  BY <1>2, <1>4, <1>6, <1>7, RowsTyped DEF PersistAttached

LEMMA MatchTyped ==
  ASSUME TypeInv, NEW h \in Handlers, NEW b \in Baskets,
         MatchComplete(h, b) \/ MatchAttach(h, b)
  PROVE  TypeInv'
<1> DEFINE i == Home[h]  d == job[h].deposit
<1>1. d \in Deposits /\ i \in Instances
  BY InHand DEF MatchComplete, MatchAttach, HasDeposit, Procs
<1>2. NewCurrent(i, b, d) \in Nat /\ Members(i, b, d) \in SUBSET Deposits
  BY <1>1, RowsTyped, AmountAssumption DEF NewCurrent, Members, PoolBasket
<1>3. Absent \in PoolBasket
      /\ [in |-> TRUE, current |-> NewCurrent(i, b, d), deposits |-> Members(i, b, d)] \in PoolBasket
  BY <1>2 DEF Absent, PoolBasket
<1>4. /\ deposit' \in [Deposits -> DepositRow] /\ basket' \in [Baskets -> BasketRow]
      /\ detail' \in [Deposits -> DetailRow] /\ record' \in [Baskets -> RecordRow]
      /\ \A x \in Deposits : detail'[x].status = "attached" => detail'[x].basket \in Baskets
  BY <1>1, <1>2, CompletedTyped, AttachTyped DEF MatchComplete, MatchAttach
<1>5. mem' \in [Instances -> [Baskets -> PoolBasket]]
  <2>1. CASE mem' = mem
    BY <2>1, RowsTyped
  <2>2. CASE mem' = [mem EXCEPT ![i][b] = Absent]
    BY <1>3, <2>2, RowsTyped, PoolUpdate
  <2>3. CASE mem' = [mem EXCEPT ![i][b] = [in |-> TRUE, current |-> NewCurrent(i, b, d),
                                           deposits |-> Members(i, b, d)]]
    BY <1>3, <2>3, RowsTyped, PoolUpdate
  <2>4. QED
    BY <2>1, <2>2, <2>3 DEF MatchComplete, MatchAttach
<1>6. budget' \in [Fault -> Nat]
  BY RowsTyped, SpendTyped DEF MatchComplete, MatchAttach, Fault
<1>7. UNCHANGED <<now, pending, lock, job, scan, boot, load>> /\ Goto(h, "unlock")
  BY DEF MatchComplete, MatchAttach, node
<1>8. QED
  BY <1>4, <1>5, <1>6, <1>7 DEF TypeInv, TypeOK, JobOK, HasDeposit, HasBasket,
     Goto, Procs, HandlerPc, ScannerPc, HandlerCritical

LEMMA ServeTyped ==
  ASSUME TypeInv, NEW h \in Handlers, Serve(h)
  PROVE  TypeInv'
<1> USE DEF TypeInv, TypeOK, JobOK, HasDeposit, HasBasket, db, memory, node, Goto, Procs,
            HandlerPc, ScannerPc, HandlerCritical
<1>1. CASE MatchFails(h)
  BY <1>1, SpendTyped DEF MatchFails, Fault
<1>2. CASE MatchPending(h)
  BY <1>2, ProcessAssumption DEF MatchPending
<1>3. CASE InsertBasket(h)
  <2>1. [status |-> "waiting", current |-> 0, expire |-> job[h].expire] \in BasketRow
    BY DEF BasketRow, BasketStatus, Job
  <2>2. basket' \in [Baskets -> BasketRow]
    BY <1>3, <2>1, RowsTyped DEF InsertBasket
  <2>3. budget' \in [Fault -> Nat]
    BY <1>3, SpendTyped DEF InsertBasket, Fault
  <2>4. QED
    BY <1>3, <2>2, <2>3 DEF InsertBasket
<1>4. CASE AddBasket(h)
  <2>1. NewInPool \in PoolBasket
    BY DEF NewInPool, PoolBasket
  <2>2. mem' \in [Instances -> [Baskets -> PoolBasket]]
    BY <1>4, <2>1, RowsTyped, PoolUpdate DEF AddBasket
  <2>3. QED
    BY <1>4, <2>2 DEF AddBasket
<1>5. QED
  BY <1>1, <1>2, <1>3, <1>4, SaveTyped, MatchTyped DEF Serve

LEMMA DueSubset ==
  ASSUME NEW S, NEW e, NEW t, NEW T \in Due(S, e, t)
  PROVE  T \in SUBSET S
BY OldestSubset DEF Due

\* Taking a basket off the list.
LEMMA TakeTyped ==
  ASSUME TypeInv, NEW s \in Scanners, NEW b \in Baskets, TakeBasket(s, b)
  PROVE  scan' \in [Scanners -> ScanState] /\ job' \in [Procs -> Job] /\ job'[s].basket = b
<1>1. scan \in [Scanners -> ScanState] /\ job \in [Procs -> Job] /\ s \in Procs
  BY DEF TypeInv, TypeOK, Procs
<1>2. scan[s] \in ScanState /\ job[s] \in Job
  BY <1>1
<1>3. [scan[s].listing EXCEPT !.baskets = @ \ {b}] \in Listing
  BY <1>2 DEF ScanState, Listing
<1>4. [scan[s] EXCEPT !.listing.baskets = @ \ {b}] \in ScanState
  BY <1>2, <1>3 DEF ScanState
<1>5. [job[s] EXCEPT !.basket = b] \in Job
  BY <1>2 DEF Job
<1>6. [job[s] EXCEPT !.basket = b].basket = b
  BY <1>2 DEF Job
<1>7. QED
  BY <1>1, <1>4, <1>5, <1>6 DEF TakeBasket

\* A step of the timeout scan keeps the types.
LEMMA ListTyped ==
  ASSUME TypeInv, NEW s \in Scanners,
         \/ ListWaiting(s) \/ ListLocked(s) \/ ListBaskets(s) \/ EndScan(s)
         \/ \E d \in Deposits : TakeLocked(s, d)
         \/ \E b \in Baskets : TakeBasket(s, b)
  PROVE  TypeInv'
<1> USE DEF TypeInv, TypeOK, JobOK, HasDeposit, HasBasket, db, memory, node, Goto, Procs,
            HandlerPc, ScannerPc, ScannerCritical
<1>1. CASE ListWaiting(s)
  <2>1. PICK T \in Due({d \in Deposits : deposit[d].status = "waiting"}, DepositExpire, now) :
          scan' = [scan EXCEPT ![s] = [now |-> now, deposits |-> T, listing |-> NoListing]]
    BY <1>1 DEF ListWaiting
  <2>4. T \in SUBSET Deposits
    BY DueSubset
  <2>2. scan' \in [Scanners -> ScanState]
    BY <2>1, <2>4, EmptyTyped, TimeAssumption DEF ScanState
  <2>3. QED
    BY <1>1, <2>2 DEF ListWaiting
<1>2. CASE ListLocked(s)
  <2>1. PICK T \in Due({d \in Deposits : deposit[d].status = "locked"}, DepositExpire, scan[s].now) :
          scan' = [scan EXCEPT ![s].deposits = T]
    BY <1>2 DEF ListLocked
  <2>4. T \in SUBSET Deposits
    BY DueSubset
  <2>2. scan' \in [Scanners -> ScanState]
    BY <2>1, <2>4, SMTT(30) DEF ScanState
  <2>3. QED
    BY <1>2, <2>2 DEF ListLocked
<1>3. CASE ListBaskets(s)
  <2>1. PICK T \in Due({b \in Baskets : basket[b].status = "waiting"}, BasketExpire, scan[s].now) :
          scan' = [scan EXCEPT ![s].listing =
            [baskets |-> T, seen |-> [b \in Baskets |-> IF b \in T THEN basket[b].current ELSE 0]]]
    BY <1>3 DEF ListBaskets
  <2>5. T \in SUBSET Baskets
    BY DueSubset
  <2>2. [baskets |-> T, seen |-> [b \in Baskets |-> IF b \in T THEN basket[b].current ELSE 0]]
          \in Listing
    BY <2>5 DEF Listing, BasketRow
  <2>3. scan' \in [Scanners -> ScanState]
    BY <2>1, <2>2, ZenonT(30) DEF ScanState
  <2>4. QED
    BY <1>3, <2>3 DEF ListBaskets
<1>4. CASE EndScan(s)
  BY <1>4, EmptyTyped, SpendTyped DEF EndScan, Fault
<1>5. ASSUME NEW d \in Deposits, TakeLocked(s, d) PROVE TypeInv'
  <2>1. scan' \in [Scanners -> ScanState]
    BY <1>5 DEF TakeLocked, ScanState
  <2>2. job' \in [Procs -> Job] /\ job'[s].deposit = d
    BY <1>5, SMTT(30) DEF TakeLocked, Job
  <2>3. QED
    BY <1>5, <2>1, <2>2 DEF TakeLocked
<1>6. ASSUME NEW b \in Baskets, TakeBasket(s, b) PROVE TypeInv'
  <2>1. scan' \in [Scanners -> ScanState] /\ job' \in [Procs -> Job] /\ job'[s].basket = b
    BY <1>6, TakeTyped DEF TypeInv
  <2>2. QED
    BY <1>6, <2>1 DEF TakeBasket
<1>7. QED
  BY <1>1, <1>2, <1>3, <1>4, <1>5, <1>6

LEMMA TimeoutTyped ==
  ASSUME NEW row \in DepositRow
  PROVE  Timeout(row) \in DepositRow
BY DEF Timeout, DepositRow, DepositStatus

LEMMA ReleaseTyped ==
  ASSUME TypeInv, NEW s \in Scanners, ReleaseRow(s)
  PROVE  TypeInv'
<1> DEFINE d == job[s].deposit  b == detail[d].basket
<1>1. d \in Deposits
  BY InHand DEF ReleaseRow, HasDeposit, Procs
<1>2. b \in Baskets
  BY <1>1, AttachedTyped DEF ReleaseRow
<1>3. deposit' \in [Deposits -> DepositRow]
  BY <1>1, RowsTyped, TimeoutTyped DEF ReleaseRow
<1>4. [status |-> "released", basket |-> b] \in DetailRow
  BY <1>2 DEF DetailRow, DetailStatus
<1>5. /\ detail' \in [Deposits -> DetailRow]
      /\ \A x \in Deposits : detail'[x].status = "attached" => detail'[x].basket \in Baskets
  BY <1>1, <1>4, RowsTyped, AttachedTyped DEF ReleaseRow
<1>6. Minus(basket[b].current, Amount[d]) \in Nat
  BY <1>1, <1>2, RowsTyped, MinusType, AmountAssumption DEF BasketRow
<1>7. [status |-> "waiting", current |-> Minus(basket[b].current, Amount[d]),
       expire |-> basket[b].expire] \in BasketRow
  BY <1>2, <1>6, RowsTyped DEF BasketRow, BasketStatus
<1>8. basket' \in [Baskets -> BasketRow]
  BY <1>7, RowsTyped DEF ReleaseRow
<1>9. budget' \in [Fault -> Nat]
  BY RowsTyped, SpendTyped DEF ReleaseRow, Fault
<1>10. /\ UNCHANGED <<now, record, mem, pending, lock, scan, boot, load>>
       /\ Goto(s, "forget") \/ Goto(s, "abort")
       /\ job' = [job EXCEPT ![s].basket = b]
  BY DEF ReleaseRow, memory, node
<1> HIDE DEF d, b
<1>11. /\ job' \in [Procs -> Job]
       /\ job'[s].deposit = job[s].deposit /\ job'[s].basket = b
  BY <1>2, <1>10 DEF TypeInv, TypeOK, Job, Procs
<1>12. job[s].deposit \in Deposits
  BY <1>1 DEF d
<1>13. QED
  BY <1>2, <1>3, <1>5, <1>8, <1>9, <1>10, <1>11, <1>12
     DEF TypeInv, TypeOK, JobOK, HasDeposit, HasBasket, Goto, Procs, HandlerPc, ScannerPc,
         ScannerCritical

LEMMA CloseTyped ==
  ASSUME TypeInv, NEW s \in Scanners, CompletePartial(s) \/ ExpireBasket(s)
  PROVE  TypeInv'
<1> DEFINE b == job[s].basket
<1>1. b \in Baskets
  BY InHand DEF CompletePartial, ExpireBasket, HasBasket, Procs
<1>2. /\ deposit' \in [Deposits -> DepositRow] /\ basket' \in [Baskets -> BasketRow]
      /\ detail' \in [Deposits -> DetailRow] /\ record' \in [Baskets -> RecordRow]
      /\ \A x \in Deposits : detail'[x].status = "attached" => detail'[x].basket \in Baskets
  <2>1. CASE UNCHANGED db
    BY <2>1, RowsTyped, AttachedTyped DEF db
  <2>2. CASE PersistCompleted(b, Attached(b), Total(Attached(b)), {})
    <3>1. Attached(b) \in SUBSET Deposits
      BY DEF Attached
    <3>2. QED
      BY <1>1, <2>2, <3>1, TotalType, CompletedTyped
  <2>3. CASE ExpireBasket(s) /\ ~UNCHANGED db
    <3>1. deposit' \in [Deposits -> DepositRow]
      BY <2>3, RowsTyped, TimeoutTyped DEF ExpireBasket, ExpiredWith
    <3>2. [status |-> "expired", current |-> basket[b].current, expire |-> basket[b].expire]
            \in BasketRow
      BY <1>1, RowsTyped DEF BasketRow, BasketStatus
    <3>3. basket' \in [Baskets -> BasketRow]
      BY <2>3, <3>2, RowsTyped DEF ExpireBasket
    <3>4. [status |-> "released", basket |-> b] \in DetailRow
      BY <1>1 DEF DetailRow, DetailStatus
    <3>5. detail' \in [Deposits -> DetailRow]
      BY <2>3, <3>4, RowsTyped DEF ExpireBasket
    <3>6. ASSUME NEW x \in Deposits, detail'[x].status = "attached"
          PROVE  detail'[x].basket \in Baskets
      BY <2>3, <3>6, AttachedTyped DEF ExpireBasket
    <3>7. QED
      BY <2>3, <3>1, <3>3, <3>5, <3>6, RowsTyped DEF ExpireBasket
  <2>4. QED
    BY <2>1, <2>2, <2>3 DEF CompletePartial
<1>3. budget' \in [Fault -> Nat]
  BY RowsTyped, SpendTyped DEF CompletePartial, ExpireBasket, Fault
<1>4. /\ UNCHANGED <<now, mem, pending, lock, job, scan, boot, load>>
      /\ Goto(s, "drop") \/ Goto(s, "abort") \/ Goto(s, "unlock")
  BY DEF CompletePartial, ExpireBasket, memory, node
<1>5. QED
  BY <1>1, <1>2, <1>3, <1>4
     DEF TypeInv, TypeOK, JobOK, HasDeposit, HasBasket, Goto, Procs, HandlerPc, ScannerPc,
         ScannerCritical

LEMMA ScanTyped ==
  ASSUME TypeInv, NEW s \in Scanners, Scan(s)
  PROVE  TypeInv'
<1> USE DEF TypeInv, TypeOK, JobOK, HasDeposit, HasBasket, db, memory, node, Goto, Procs,
            HandlerPc, ScannerPc, ScannerCritical
<1>1. ASSUME NEW d \in Deposits, ExpireWaiting(s, d) PROVE TypeInv'
  <2>1. [status |-> "expired", basket |-> deposit[d].basket, expire |-> deposit[d].expire]
          \in DepositRow
    BY DEF DepositRow, DepositStatus
  <2>2. deposit' \in [Deposits -> DepositRow]
    BY <1>1, <2>1, RowsTyped DEF ExpireWaiting
  <2>3. scan' \in [Scanners -> ScanState]
    BY <1>1 DEF ExpireWaiting, ScanState
  <2>4. QED
    BY <1>1, <2>2, <2>3 DEF ExpireWaiting
<1>2. CASE ReleaseFails(s)
  BY <1>2, SpendTyped DEF ReleaseFails, Fault
<1>3. CASE ForgetDeposit(s)
  <2> DEFINE i == Home[s]  d == job[s].deposit  b == job[s].basket
  <2>1. i \in Instances /\ d \in Deposits /\ b \in Baskets
    BY <1>3, InHand DEF ForgetDeposit
  <2> HIDE DEF i, d, b
  <2>2. mem[i][b] \in PoolBasket
    BY <2>1, RowsTyped
  <2>6. Minus(mem[i][b].current, Amount[d]) \in Nat
    BY <2>1, <2>2, MinusType, AmountAssumption DEF PoolBasket
  <2>3. WithoutDeposit(mem[i][b], d) \in PoolBasket
    BY <2>2, <2>6 DEF WithoutDeposit, PoolBasket
  <2>4. mem' \in [Instances -> [Baskets -> PoolBasket]]
    BY <1>3, <2>2, <2>3, RowsTyped, PoolUpdate DEF ForgetDeposit, i, d, b
  <2>5. QED
    BY <1>3, <2>4 DEF ForgetDeposit
<1>4. CASE CannotComplete(s)
  BY <1>4 DEF CannotComplete
<1>5. CASE DropBasket(s)
  <2>1. Absent \in PoolBasket
    BY DEF Absent, PoolBasket
  <2>2. mem' \in [Instances -> [Baskets -> PoolBasket]]
    BY <1>5, <2>1, RowsTyped, PoolUpdate DEF DropBasket
  <2>3. QED
    BY <1>5, <2>2 DEF DropBasket
<1>6. QED
  BY <1>1, <1>2, <1>3, <1>4, <1>5, ListTyped, ReleaseTyped, CloseTyped DEF Scan

\* A crash and every step of the recovery keep the types.
LEMMA CrashTyped ==
  ASSUME TypeInv, NEW i \in Instances, Crash(i)
  PROVE  TypeInv'
<1>1. Absent \in PoolBasket
  BY DEF Absent, PoolBasket
<1>2. mem' \in [Instances -> [Baskets -> PoolBasket]]
  BY <1>1, RowsTyped DEF Crash
<1>3. budget' \in [Fault -> Nat]
  BY RowsTyped, SpendTyped DEF Crash, Fault
<1>4. job' \in [Procs -> Job] /\ scan' \in [Scanners -> ScanState]
  BY EmptyTyped DEF Crash, TypeInv, TypeOK
<1>5. pc' \in [Procs -> HandlerPc \cup ScannerPc]
  BY DEF Crash, TypeInv, TypeOK, HandlerPc
<1>6. load' \in [Instances -> Listing] /\ boot' \in [Instances -> {"up", "down", "loading"}]
      /\ pending' \in [Instances -> SUBSET Deposits]
  BY EmptyTyped DEF Crash, TypeInv, TypeOK
<1>7. JobOK'
  BY DEF Crash, TypeInv, TypeOK, JobOK, HasDeposit, HasBasket, db
<1>8. QED
  BY <1>2, <1>3, <1>4, <1>5, <1>6, <1>7 DEF Crash, TypeInv, TypeOK, db

LEMMA RestartTyped ==
  ASSUME TypeInv, NEW i \in Instances, Restart(i)
  PROVE  TypeInv'
<1> USE DEF TypeInv, TypeOK, JobOK, db, memory
<1>1. CASE ListActive(i)
  <2>1. PICK T \in Oldest({b \in Baskets : basket[b].status = "waiting"}, BasketExpire, BasketLimit) :
          load' = [load EXCEPT ![i] =
            [baskets |-> T, seen |-> [b \in Baskets |-> IF b \in T THEN basket[b].current ELSE 0]]]
    BY <1>1 DEF ListActive
  <2>2. T \in SUBSET Baskets
    BY OldestSubset
  <2>3. [baskets |-> T, seen |-> [b \in Baskets |-> IF b \in T THEN basket[b].current ELSE 0]]
          \in Listing
    BY <2>2 DEF Listing, BasketRow
  <2>4. QED
    BY <1>1, <2>1, <2>3 DEF ListActive
<1>2. ASSUME NEW b \in Baskets, RestoreBasket(i, b) PROVE TypeInv'
  <2>1. load[i].seen[b] \in Nat
    BY DEF Listing
  <2>2. Restored(i, b) \in PoolBasket
    BY <2>1 DEF Restored, PoolBasket
  <2>3. mem' \in [Instances -> [Baskets -> PoolBasket]]
    BY <1>2, <2>2, RowsTyped, PoolUpdate DEF RestoreBasket
  <2>4. load' \in [Instances -> Listing]
    BY <1>2 DEF RestoreBasket, Listing
  <2>5. QED
    BY <1>2, <2>3, <2>4 DEF RestoreBasket
<1>3. CASE Recovered(i)
  BY <1>3, EmptyTyped DEF Recovered
<1>4. QED
  BY <1>1, <1>2, <1>3 DEF Restart

\* Every step keeps the types.
LEMMA NextTyped == TypeInv /\ [Next]_vars => TypeInv'
<1> SUFFICES ASSUME TypeInv, [Next]_vars PROVE TypeInv'
  OBVIOUS
<1>1. ASSUME NEW h \in Handlers, Request(h) \/ Serve(h) PROVE TypeInv'
  BY <1>1, RequestTyped, ServeTyped
<1>2. ASSUME NEW s \in Scanners, Scan(s) PROVE TypeInv'
  BY <1>2, ScanTyped
<1>3. ASSUME NEW p \in Procs, Lock(p) PROVE TypeInv'
  BY <1>3, LockTyped
<1>4. ASSUME NEW i \in Instances, Crash(i) \/ Restart(i) PROVE TypeInv'
  BY <1>4, CrashTyped, RestartTyped
<1>5. CASE LockExpires
  BY <1>5 DEF LockExpires, TypeInv, TypeOK, JobOK, db, memory, node
<1>6. CASE Tick
  BY <1>6, TimeAssumption DEF Tick, TypeInv, TypeOK, JobOK, db, memory, node
<1>7. CASE UNCHANGED vars
  BY <1>7 DEF vars, TypeInv, TypeOK, JobOK, db, memory, node
<1>8. QED
  BY <1>1, <1>2, <1>3, <1>4, <1>5, <1>6, <1>7 DEF Next

\* Type correctness: in particular every amount in the rows and in the pools stays
\* a natural number, whatever the instances overwrite or subtract.
THEOREM TypeCorrect == Spec => []TypeOK
<1>1. Spec => []TypeInv
  BY InitTyped, NextTyped, PTL DEF Spec
<1>2. TypeInv => TypeOK
  BY DEF TypeInv
<1>3. QED
  BY <1>1, <1>2, PTL

(***************************************************************************)
(* What a step can do to the rows                                          *)
(***************************************************************************)
RowSaved ==
  \E d \in Deposits, row \in DepositRow :
    /\ row.status = "waiting"
    /\ deposit' = [deposit EXCEPT ![d] = IF @.status = "absent" THEN row ELSE @]
    /\ UNCHANGED <<basket, detail, record>>

RowAttached ==
  \E d \in Deposits, b \in Baskets, n \in Nat : CanAttach(d, b) /\ PersistAttached(d, b, n)

RowsCompleted ==
  \E b \in Baskets, S \in SUBSET Deposits, new \in SUBSET Deposits, n \in Nat :
    /\ CanComplete(b, S)
    /\ new \subseteq S /\ \A x \in new : detail[x].status = "none"
    /\ PersistCompleted(b, S, n, new)

RowInserted ==
  \E b \in Baskets, row \in BasketRow :
    /\ basket[b].status = "absent" /\ row.status = "waiting"
    /\ basket' = [basket EXCEPT ![b] = row]
    /\ UNCHANGED <<deposit, detail, record>>

RowTimedOut ==
  \E d \in Deposits :
    /\ deposit' = [deposit EXCEPT ![d] =
         IF @.status = "waiting"
           THEN [status |-> "expired", basket |-> @.basket, expire |-> @.expire] ELSE @]
    /\ UNCHANGED <<basket, detail, record>>

RowReleased ==
  \E d \in Deposits, b \in Baskets, n \in Nat :
    /\ detail[d].status = "attached" /\ detail[d].basket = b
    /\ deposit' = [deposit EXCEPT ![d] = Timeout(@)]
    /\ detail' = [detail EXCEPT ![d] = [status |-> "released", basket |-> b]]
    /\ basket' = [basket EXCEPT ![b] =
         IF @.status = "waiting"
           THEN [status |-> "waiting", current |-> n, expire |-> @.expire] ELSE @]
    /\ UNCHANGED record

RowsExpired ==
  \E b \in Baskets :
    /\ basket[b].status = "waiting"
    /\ basket' = [basket EXCEPT ![b] =
         [status |-> "expired", current |-> @.current, expire |-> @.expire]]
    /\ detail' = [d \in Deposits |->
         IF d \in Attached(b) THEN [status |-> "released", basket |-> b] ELSE detail[d]]
    /\ deposit' = ExpiredWith(b)
    /\ UNCHANGED record

DbStep == \/ UNCHANGED db \/ RowSaved \/ RowAttached \/ RowsCompleted \/ RowInserted
          \/ RowTimedOut \/ RowReleased \/ RowsExpired

\* Every step of the system is one of these to the database.
LEMMA HandlerDbStep ==
  ASSUME TypeInv, NEW h \in Handlers, Serve(h)
  PROVE  DbStep
<1>1. CASE SaveDeposit(h)
  <2>1. job[h].deposit \in Deposits
    BY <1>1, InHand DEF SaveDeposit, HasDeposit, Procs
  <2>2. [status |-> "waiting", basket |-> NoBasket, expire |-> job[h].expire] \in DepositRow
    BY InHand DEF Procs, Job, DepositRow, DepositStatus
  <2>3. CASE UNCHANGED deposit
    BY <1>1, <2>3 DEF SaveDeposit, DbStep, db
  <2>4. CASE ~UNCHANGED deposit
    <3>1. RowSaved
      BY <1>1, <2>1, <2>2, <2>4 DEF SaveDeposit, RowSaved
    <3>2. QED
      BY <3>1 DEF DbStep
  <2>5. QED
    BY <2>3, <2>4
<1>2. ASSUME NEW b \in Baskets, MatchComplete(h, b) \/ MatchAttach(h, b)
      PROVE  DbStep
  <2> DEFINE i == Home[h]  d == job[h].deposit
  <2>1. d \in Deposits /\ i \in Instances
    BY <1>2, InHand DEF MatchComplete, MatchAttach, HasDeposit, Procs
  <2>2. NewCurrent(i, b, d) \in Nat /\ Members(i, b, d) \in SUBSET Deposits
        /\ {d} \subseteq Members(i, b, d)
    BY <2>1, RowsTyped, AmountAssumption DEF NewCurrent, Members, PoolBasket
  <2>3. CASE MatchComplete(h, b)
    <3>1. /\ CanComplete(b, Members(i, b, d)) /\ detail[d].status = "none"
          /\ PersistCompleted(b, Members(i, b, d), NewCurrent(i, b, d), {d})
      BY <2>3 DEF MatchComplete
    <3> HIDE DEF i, d
    <3>2. RowsCompleted
      BY <2>1, <2>2, <3>1 DEF RowsCompleted
    <3>3. QED
      BY <3>2 DEF DbStep
  <2>4. CASE MatchAttach(h, b)
    <3>1. CanAttach(d, b) /\ PersistAttached(d, b, NewCurrent(i, b, d))
      BY <2>4 DEF MatchAttach
    <3> HIDE DEF i, d
    <3>2. RowAttached
      BY <2>1, <2>2, <3>1 DEF RowAttached
    <3>3. QED
      BY <3>2 DEF DbStep
  <2>5. QED
    BY <1>2, <2>3, <2>4
<1>3. CASE InsertBasket(h)
  <2>1. job[h].basket \in Baskets
    BY <1>3, InHand DEF InsertBasket, HasBasket, Procs
  <2>2. [status |-> "waiting", current |-> 0, expire |-> job[h].expire] \in BasketRow
    BY InHand DEF Procs, Job, BasketRow, BasketStatus
  <2>3. CASE UNCHANGED basket
    BY <1>3, <2>3 DEF InsertBasket, DbStep, db
  <2>4. CASE ~UNCHANGED basket
    <3>1. RowInserted
      BY <1>3, <2>1, <2>2, <2>4 DEF InsertBasket, RowInserted
    <3>2. QED
      BY <3>1 DEF DbStep
  <2>5. QED
    BY <2>3, <2>4
<1>4. CASE MatchFails(h) \/ MatchPending(h) \/ AddBasket(h)
  BY <1>4 DEF MatchFails, MatchPending, AddBasket, DbStep, db
<1>5. QED
  BY <1>1, <1>2, <1>3, <1>4 DEF Serve

LEMMA ScannerDbStep ==
  ASSUME TypeInv, NEW s \in Scanners, Scan(s)
  PROVE  DbStep
<1>1. ASSUME NEW d \in Deposits, ExpireWaiting(s, d) PROVE DbStep
  BY <1>1 DEF ExpireWaiting, RowTimedOut, DbStep
<1>2. CASE ReleaseRow(s)
  <2> DEFINE d == job[s].deposit  b == detail[d].basket
             n == Minus(basket[b].current, Amount[d])
  <2>1. d \in Deposits
    BY <1>2, InHand DEF ReleaseRow, HasDeposit, Procs
  <2>2. b \in Baskets
    BY <1>2, <2>1, AttachedTyped DEF ReleaseRow
  <2>3. n \in Nat
    BY <2>1, <2>2, RowsTyped, MinusType, AmountAssumption DEF BasketRow
  <2>4. /\ detail[d].status = "attached" /\ detail[d].basket = b
        /\ deposit' = [deposit EXCEPT ![d] = Timeout(@)]
        /\ detail' = [detail EXCEPT ![d] = [status |-> "released", basket |-> b]]
        /\ basket' = [basket EXCEPT ![b] =
             IF @.status = "waiting"
               THEN [status |-> "waiting", current |-> n, expire |-> @.expire] ELSE @]
        /\ UNCHANGED record
    BY <1>2, <2>2, RowsTyped DEF ReleaseRow
  <2> HIDE DEF d, b, n
  <2>5. RowReleased
    BY <2>1, <2>2, <2>3, <2>4 DEF RowReleased
  <2>6. QED
    BY <2>5 DEF DbStep
<1>3. CASE CompletePartial(s)
  <2> DEFINE b == job[s].basket
  <2>1. b \in Baskets
    BY <1>3, InHand DEF CompletePartial, HasBasket, Procs
  <2>2. CASE UNCHANGED db
    BY <2>2 DEF DbStep
  <2>3. CASE CanComplete(b, Attached(b))
             /\ PersistCompleted(b, Attached(b), Total(Attached(b)), {})
    <3>1. Attached(b) \in SUBSET Deposits
      BY DEF Attached
    <3>2. Total(Attached(b)) \in Nat
      BY <3>1, TotalType
    <3> HIDE DEF b
    <3>3. RowsCompleted
      BY <2>1, <2>3, <3>1, <3>2 DEF RowsCompleted
    <3>4. QED
      BY <3>3 DEF DbStep
  <2>4. QED
    BY <1>3, <2>2, <2>3 DEF CompletePartial
<1>4. CASE ExpireBasket(s)
  <2>1. job[s].basket \in Baskets
    BY <1>4, InHand DEF ExpireBasket, HasBasket, Procs
  <2>2. CASE UNCHANGED db
    BY <2>2 DEF DbStep
  <2>3. CASE ~UNCHANGED db
    <3>1. RowsExpired
      BY <1>4, <2>1, <2>3 DEF ExpireBasket, RowsExpired, Closable
    <3>2. QED
      BY <3>1 DEF DbStep
  <2>4. QED
    BY <2>2, <2>3
<1>5. ASSUME \/ ListWaiting(s) \/ ListLocked(s) \/ ListBaskets(s) \/ EndScan(s)
             \/ ReleaseFails(s) \/ ForgetDeposit(s) \/ CannotComplete(s) \/ DropBasket(s)
      PROVE  DbStep
  BY <1>5 DEF ListWaiting, ListLocked, ListBaskets, EndScan, ReleaseFails, ForgetDeposit,
              CannotComplete, DropBasket, DbStep, db
<1>6. ASSUME NEW d \in Deposits, TakeLocked(s, d) PROVE DbStep
  BY <1>6 DEF TakeLocked, DbStep
<1>7. ASSUME NEW b \in Baskets, TakeBasket(s, b) PROVE DbStep
  BY <1>7 DEF TakeBasket, DbStep
<1>8. QED
  BY <1>1, <1>2, <1>3, <1>4, <1>5, <1>6, <1>7 DEF Scan

LEMMA EveryDbStep == TypeInv /\ [Next]_vars => DbStep
<1> SUFFICES ASSUME TypeInv, [Next]_vars PROVE DbStep
  OBVIOUS
<1>1. ASSUME NEW h \in Handlers, Request(h) PROVE DbStep
  BY <1>1 DEF Request, Submit, RequestBasket, DbStep
<1>2. ASSUME NEW p \in Procs, Lock(p) PROVE DbStep
  BY <1>2 DEF Lock, Acquire, AcquireFails, Unlock, DbStep
<1>3. ASSUME NEW i \in Instances, Crash(i) \/ Restart(i) PROVE DbStep
  BY <1>3 DEF Crash, Restart, ListActive, RestoreBasket, Recovered, DbStep
<1>4. CASE LockExpires \/ Tick \/ UNCHANGED vars
  BY <1>4 DEF LockExpires, Tick, vars, DbStep
<1>5. QED
  BY <1>1, <1>2, <1>3, <1>4, HandlerDbStep, ScannerDbStep DEF Next

\* Two steps write a record: a match that completes, and the close of a due basket.
ClosesWith(s) ==
  LET b == job[s].basket IN
  CompletePartial(s) /\ PersistCompleted(b, Attached(b), Total(Attached(b)), {})

LEMMA RecordWritten ==
  ASSUME [Next]_vars, record' # record
  PROVE  \/ \E h \in Handlers, c \in Baskets : MatchComplete(h, c)
         \/ \E s \in Scanners : ClosesWith(s)
<1>1. ASSUME NEW h \in Handlers, Request(h) \/ Serve(h)
      PROVE  \E c \in Baskets : MatchComplete(h, c)
  BY <1>1 DEF Request, Submit, RequestBasket, Serve, SaveDeposit, MatchFails, MatchPending,
              MatchAttach, PersistAttached, InsertBasket, AddBasket, db
<1>2. ASSUME NEW s \in Scanners, Scan(s) PROVE ClosesWith(s)
  <2>1. CompletePartial(s)
    BY <1>2 DEF Scan, ListWaiting, ListLocked, ListBaskets, EndScan, ReleaseFails, CannotComplete,
           ExpireWaiting, TakeLocked, TakeBasket, ReleaseRow, ForgetDeposit, ExpireBasket,
           DropBasket, db
  <2>2. QED
    BY <2>1 DEF CompletePartial, ClosesWith, db
<1>3. ASSUME NEW p \in Procs, Lock(p) PROVE FALSE
  BY <1>3 DEF Lock, Acquire, AcquireFails, Unlock, db
<1>4. ASSUME NEW i \in Instances, Crash(i) \/ Restart(i) PROVE FALSE
  BY <1>4 DEF Crash, Restart, ListActive, Recovered, RestoreBasket, db
<1>5. CASE LockExpires \/ Tick \/ UNCHANGED vars
  BY <1>5 DEF LockExpires, Tick, vars, db
<1>6. QED
  BY <1>1, <1>2, <1>3, <1>4, <1>5 DEF Next

\* Bounds are only ever spent.
LEMMA BudgetStep ==
  ASSUME [Next]_vars
  PROVE  budget' = budget \/ \E k \in Fault : Spend(k)
<1>1. ASSUME NEW h \in Handlers, Request(h) PROVE budget' = budget \/ \E k \in Fault : Spend(k)
  BY <1>1 DEF Request, Submit, RequestBasket, Fault
<1>2. ASSUME NEW h \in Handlers, Serve(h) PROVE budget' = budget \/ \E k \in Fault : Spend(k)
  BY <1>2 DEF Serve, SaveDeposit, MatchFails, MatchPending, MatchComplete, MatchAttach,
              InsertBasket, AddBasket, Fault
<1>3. ASSUME NEW s \in Scanners, Scan(s) PROVE budget' = budget \/ \E k \in Fault : Spend(k)
  BY <1>3 DEF Scan, ListWaiting, ListLocked, ListBaskets, EndScan, ExpireWaiting, TakeLocked,
              TakeBasket, ReleaseRow, ReleaseFails, ForgetDeposit, CompletePartial, CannotComplete,
              ExpireBasket, DropBasket, Fault
<1>4. ASSUME NEW p \in Procs, Lock(p) PROVE budget' = budget \/ \E k \in Fault : Spend(k)
  BY <1>4 DEF Lock, Acquire, AcquireFails, Unlock, Fault
<1>5. ASSUME NEW i \in Instances, Crash(i) \/ Restart(i)
      PROVE  budget' = budget \/ \E k \in Fault : Spend(k)
  BY <1>5 DEF Crash, Restart, ListActive, RestoreBasket, Recovered, Fault
<1>6. CASE LockExpires \/ Tick \/ UNCHANGED vars
  BY <1>6 DEF LockExpires, Tick, vars
<1>7. QED
  BY <1>1, <1>2, <1>3, <1>4, <1>5, <1>6 DEF Next

(***************************************************************************)
(* The life of the rows                                                    *)
(***************************************************************************)
\* What makes the safety of the rows inductive: a basket is recorded exactly when
\* it is matched, and the deposits of a record are written once.
Once ==
  \A b \in Baskets :
    /\ record[b].made <=> basket[b].status = "matched"
    /\ ~record[b].made => record[b].deposits = {}

RowInv == AttachedOnlyToWaiting /\ Once /\ MatchedOnce

LEMMA InitRows == Init => RowInv
BY DEF Init, RowInv, AttachedOnlyToWaiting, Once, MatchedOnce

\* Closing a basket takes every attached deposit along, because both transactions
\* find them by the basket number in basket_deposit.
LEMMA AttachedStep ==
  ASSUME TypeInv, DbStep, AttachedOnlyToWaiting
  PROVE  AttachedOnlyToWaiting'
<1> USE RowsTyped, AttachedTyped
<1>1. CASE UNCHANGED db \/ RowSaved \/ RowTimedOut
  BY <1>1 DEF db, RowSaved, RowTimedOut, AttachedOnlyToWaiting
<1>2. CASE RowAttached
  BY <1>2 DEF RowAttached, CanAttach, PersistAttached, AttachedOnlyToWaiting, BasketRow, DetailRow
<1>3. CASE RowsCompleted
  <2>1. PICK b \in Baskets, S \in SUBSET Deposits, new \in SUBSET Deposits, n \in Nat :
          CanComplete(b, S) /\ PersistCompleted(b, S, n, new)
    BY <1>3 DEF RowsCompleted
  <2>2. SUFFICES ASSUME NEW d \in Deposits, detail'[d].status = "attached"
                 PROVE  basket'[detail'[d].basket].status = "waiting"
    BY DEF AttachedOnlyToWaiting
  <2>3. detail'[d] = detail[d] /\ d \notin Attached(b)
    BY <2>1, <2>2 DEF PersistCompleted, CompletedDetails
  <2>4. detail[d].basket # b /\ detail[d].basket \in Baskets
    BY <2>2, <2>3 DEF Attached, DetailRow
  <2>5. QED
    BY <2>1, <2>2, <2>3, <2>4 DEF PersistCompleted, AttachedOnlyToWaiting
<1>4. CASE RowInserted
  BY <1>4 DEF RowInserted, AttachedOnlyToWaiting
<1>5. CASE RowReleased
  BY <1>5 DEF RowReleased, AttachedOnlyToWaiting, DetailRow
<1>6. CASE RowsExpired
  <2>1. PICK b \in Baskets :
          /\ basket' = [basket EXCEPT ![b] =
               [status |-> "expired", current |-> @.current, expire |-> @.expire]]
          /\ detail' = [d \in Deposits |->
               IF d \in Attached(b) THEN [status |-> "released", basket |-> b] ELSE detail[d]]
    BY <1>6 DEF RowsExpired
  <2>2. SUFFICES ASSUME NEW d \in Deposits, detail'[d].status = "attached"
                 PROVE  basket'[detail'[d].basket].status = "waiting"
    BY DEF AttachedOnlyToWaiting
  <2>3. detail'[d] = detail[d] /\ d \notin Attached(b)
    BY <2>1, <2>2
  <2>4. detail[d].basket # b /\ detail[d].basket \in Baskets
    BY <2>2, <2>3 DEF Attached, DetailRow
  <2>5. QED
    BY <2>1, <2>2, <2>3, <2>4 DEF AttachedOnlyToWaiting
<1>7. QED
  BY <1>1, <1>2, <1>3, <1>4, <1>5, <1>6 DEF DbStep

LEMMA OnceStep ==
  ASSUME TypeInv, DbStep, Once
  PROVE  Once'
<1> USE RowsTyped DEF Once
<1>1. CASE UNCHANGED db \/ RowSaved \/ RowTimedOut
  BY <1>1 DEF db, RowSaved, RowTimedOut
<1>2. CASE RowAttached
  BY <1>2 DEF RowAttached, CanAttach, PersistAttached, BasketRow
<1>3. CASE RowsCompleted
  BY <1>3 DEF RowsCompleted, CanComplete, PersistCompleted, BasketRow, RecordRow
<1>4. CASE RowInserted
  BY <1>4 DEF RowInserted, BasketRow
<1>5. CASE RowReleased
  BY <1>5 DEF RowReleased, BasketRow
<1>6. CASE RowsExpired
  BY <1>6 DEF RowsExpired, BasketRow
<1>7. QED
  BY <1>1, <1>2, <1>3, <1>4, <1>5, <1>6 DEF DbStep

LEMMA MatchedStep ==
  ASSUME TypeInv, DbStep, Once, MatchedOnce
  PROVE  MatchedOnce'
<1> USE RowsTyped
<1>1. CASE UNCHANGED db
  BY <1>1 DEF db, MatchedOnce
<1>2. CASE RowsCompleted
  <2>1. PICK b \in Baskets, S \in SUBSET Deposits, new \in SUBSET Deposits, n \in Nat :
          CanComplete(b, S) /\ PersistCompleted(b, S, n, new)
    BY <1>2 DEF RowsCompleted
  <2>2. record' = [record EXCEPT ![b] = [made |-> TRUE, deposits |-> S, amount |-> n]]
    BY <2>1 DEF PersistCompleted
  <2>3. \A c \in Baskets \ {b} : record'[c] = record[c]
    BY <2>2
  <2>4. record'[b].deposits = S
    BY <2>2
  <2>5. \A c \in Baskets : S \cap record[c].deposits = {}
    BY <2>1 DEF CanComplete, Recorded
  <2>6. record[b].deposits = {}
    BY <2>1 DEF CanComplete, Once
  <2>7. ASSUME NEW x \in Baskets, NEW y \in Baskets, x # y
        PROVE  record'[x].deposits \cap record'[y].deposits = {}
    BY <2>3, <2>4, <2>5, <2>7 DEF MatchedOnce
  <2>8. ASSUME NEW d \in Deposits, deposit'[d].status = "matched"
        PROVE  d \in record'[deposit'[d].basket].deposits
    <3>1. CASE d \in S /\ deposit[d].status \in {"waiting", "locked"}
      BY <2>1, <2>4, <3>1 DEF PersistCompleted, CompletedDeposits
    <3>2. CASE ~(d \in S /\ deposit[d].status \in {"waiting", "locked"})
      <4>1. deposit'[d] = deposit[d]
        BY <2>1, <3>2 DEF PersistCompleted, CompletedDeposits
      <4>2. d \in record[deposit[d].basket].deposits
        BY <2>8, <4>1 DEF MatchedOnce
      <4>3. deposit[d].basket # b
        BY <2>6, <4>2
      <4>4. record'[deposit[d].basket] = record[deposit[d].basket]
        BY <2>2, <4>3
      <4>5. QED
        BY <4>1, <4>2, <4>4
    <3>3. QED
      BY <3>1, <3>2
  <2>9. QED
    BY <2>7, <2>8 DEF MatchedOnce
<1>3. ASSUME record' = record,
             \A d \in Deposits : deposit'[d].status = "matched" => deposit'[d] = deposit[d]
      PROVE  MatchedOnce'
  BY <1>3 DEF MatchedOnce
<1>4. CASE RowSaved \/ RowTimedOut
  BY <1>3, <1>4 DEF RowSaved, RowTimedOut, DepositRow
<1>5. CASE RowAttached
  BY <1>3, <1>5 DEF RowAttached, PersistAttached, DepositRow
<1>6. CASE RowInserted
  BY <1>3, <1>6 DEF RowInserted
<1>7. CASE RowReleased
  BY <1>3, <1>7 DEF RowReleased, Timeout, DepositRow
<1>8. CASE RowsExpired
  BY <1>3, <1>8 DEF RowsExpired, ExpiredWith, Timeout, DepositRow
<1>9. QED
  BY <1>1, <1>2, <1>4, <1>5, <1>6, <1>7, <1>8 DEF DbStep

LEMMA RowStep == TypeInv /\ RowInv /\ [Next]_vars => RowInv'
BY EveryDbStep, AttachedStep, OnceStep, MatchedStep DEF RowInv

LEMMA RowInvariant == Spec => [](TypeInv /\ RowInv)
BY InitTyped, NextTyped, InitRows, RowStep, PTL DEF Spec

\* However many instances share the database, and whichever faults and crashes
\* they meet: no closed basket keeps an attached deposit.
THEOREM AttachedCorrect == Spec => []AttachedOnlyToWaiting
<1>1. RowInv => AttachedOnlyToWaiting
  BY DEF RowInv
<1>2. QED
  BY <1>1, RowInvariant, PTL

\* No deposit is counted in two match records, and a matched deposit is in the
\* record of its basket, even when instances complete from stale pools.
THEOREM MatchedOnceCorrect == Spec => []MatchedOnce
<1>1. RowInv => MatchedOnce
  BY DEF RowInv
<1>2. QED
  BY <1>1, RowInvariant, PTL

\* Rows in a final state are in the way of every statement's condition.
LEMMA FinalDeposits ==
  ASSUME TypeInv, DbStep, NEW d \in Deposits
  PROVE  /\ deposit[d].status \in {"matched", "expired"} => deposit'[d] = deposit[d]
         /\ detail[d].status \in {"matched", "released"} => detail'[d] = detail[d]
<1> USE RowsTyped
<1>1. CASE UNCHANGED db
  BY <1>1 DEF db
<1>2. CASE RowSaved \/ RowTimedOut \/ RowInserted
  BY <1>2 DEF RowSaved, RowTimedOut, RowInserted
<1>3. CASE RowAttached
  BY <1>3 DEF RowAttached, CanAttach, PersistAttached
<1>4. CASE RowsCompleted
  <2>1. PICK b \in Baskets, S \in SUBSET Deposits, new \in SUBSET Deposits, n \in Nat :
          PersistCompleted(b, S, n, new) /\ \A x \in new : detail[x].status = "none"
    BY <1>4 DEF RowsCompleted
  <2>2. QED
    BY <2>1 DEF PersistCompleted, CompletedDeposits, CompletedDetails, Attached
<1>5. CASE RowReleased
  BY <1>5 DEF RowReleased, Timeout
<1>6. CASE RowsExpired
  BY <1>6 DEF RowsExpired, ExpiredWith, Timeout, Attached
<1>7. QED
  BY <1>1, <1>2, <1>3, <1>4, <1>5, <1>6 DEF DbStep

LEMMA FinalBaskets ==
  ASSUME TypeInv, DbStep, NEW b \in Baskets
  PROVE  /\ basket[b].status \in {"matched", "expired"} => basket'[b] = basket[b]
         /\ record[b].made => record'[b] = record[b]
<1> USE RowsTyped
<1>1. CASE UNCHANGED db
  BY <1>1 DEF db
<1>2. CASE RowSaved \/ RowTimedOut \/ RowInserted
  BY <1>2 DEF RowSaved, RowTimedOut, RowInserted
<1>3. CASE RowAttached
  BY <1>3 DEF RowAttached, CanAttach, PersistAttached
<1>4. CASE RowsCompleted
  BY <1>4 DEF RowsCompleted, CanComplete, PersistCompleted
<1>5. CASE RowReleased
  BY <1>5 DEF RowReleased
<1>6. CASE RowsExpired
  BY <1>6 DEF RowsExpired
<1>7. QED
  BY <1>1, <1>2, <1>3, <1>4, <1>5, <1>6 DEF DbStep

\* Matched and expired orders, released and matched details and match records
\* never change again, whoever writes and from whatever it read before.
THEOREM FinalCorrect == Spec => FinalRowsStay
<1>1. TypeInv /\ [Next]_vars =>
        [ /\ \A d \in Deposits :
               /\ deposit[d].status \in {"matched", "expired"} => deposit'[d] = deposit[d]
               /\ detail[d].status \in {"matched", "released"} => detail'[d] = detail[d]
          /\ \A b \in Baskets :
               /\ basket[b].status \in {"matched", "expired"} => basket'[b] = basket[b]
               /\ record[b].made => record'[b] = record[b] ]_vars
  BY EveryDbStep, FinalDeposits, FinalBaskets
<1>2. Spec => []TypeInv
  BY InitTyped, NextTyped, PTL DEF Spec
<1>3. QED
  BY <1>1, <1>2, PTL DEF Spec, FinalRowsStay

(***************************************************************************)
(* The sections of the shard                                               *)
(***************************************************************************)
\* A goroutine in a section holds the key: it entered through SetNX, and the TTL
\* only ends a lock whose holder has left or crashed.
Holding == \A p \in Procs : pc[p] \in Critical => lock = p

LEMMA SectionsEntered ==
  \A l \in DOMAIN Section : Section[l] \in Critical /\ l \notin Critical
BY DEF Section, Critical, HandlerCritical, ScannerCritical

\* A step of p that leaves the lock alone, and that only goes on inside its section
\* or stays outside.
LEMMA HoldingStays ==
  ASSUME TypeInv, Holding, lock' = lock, NEW p \in Procs, NEW l,
         l \in Critical => pc[p] \in Critical, pc' = [pc EXCEPT ![p] = l]
  PROVE  Holding'
BY DEF Holding, TypeInv, TypeOK

LEMMA LockHolding ==
  ASSUME TypeInv, Holding, NEW p \in Procs, Lock(p)
  PROVE  Holding'
<1>1. CASE Acquire(p)
  BY <1>1, SectionsEntered, ProcessAssumption
     DEF Acquire, Goto, Free, Holding, TypeInv, TypeOK
<1>2. CASE AcquireFails(p)
  BY <1>2, HoldingStays DEF AcquireFails, Goto, Critical, HandlerCritical, ScannerCritical
<1>3. CASE Unlock(p)
  <2>1. AfterUnlock(p) \notin Critical
    BY DEF AfterUnlock, Critical, HandlerCritical, ScannerCritical
  <2>2. pc[p] \in Critical
    BY <1>3 DEF Unlock, Critical, HandlerCritical, ScannerCritical
  <2>3. \A q \in Procs : q # p => pc[q] \notin Critical
    BY <2>2 DEF Holding
  <2>4. QED
    BY <1>3, <2>1, <2>3 DEF Unlock, Goto, Holding, TypeInv, TypeOK
<1>4. QED
  BY <1>1, <1>2, <1>3 DEF Lock

LEMMA HandlerHolding ==
  ASSUME TypeInv, Holding, NEW h \in Handlers, Request(h) \/ Serve(h)
  PROVE  Holding'
<1>1. h \in Procs
  BY DEF Procs
<1>2. CASE Request(h)
  BY <1>1, <1>2, HoldingStays
     DEF Request, Submit, RequestBasket, Goto, Critical, HandlerCritical, ScannerCritical
<1>3. CASE Serve(h)
  <2>1. pc[h] \in Critical /\ lock' = lock
    BY <1>3 DEF Serve, SaveDeposit, MatchFails, MatchPending, MatchComplete, MatchAttach,
                InsertBasket, AddBasket, Critical, HandlerCritical
  <2>2. \E l : pc' = [pc EXCEPT ![h] = l]
    BY <1>3 DEF Serve, SaveDeposit, MatchFails, MatchPending, MatchComplete, MatchAttach,
                InsertBasket, AddBasket, Goto
  <2>3. QED
    BY <1>1, <2>1, <2>2, HoldingStays
<1>4. QED
  BY <1>2, <1>3

LEMMA ScannerHolding ==
  ASSUME TypeInv, Holding, NEW s \in Scanners, Scan(s)
  PROVE  Holding'
<1>1. s \in Procs
  BY DEF Procs
<1>2. CASE \/ ListWaiting(s) \/ ListLocked(s) \/ ListBaskets(s) \/ EndScan(s)
           \/ \E d \in Deposits : TakeLocked(s, d)
           \/ \E b \in Baskets : TakeBasket(s, b)
  BY <1>1, <1>2, HoldingStays
     DEF ListWaiting, ListLocked, ListBaskets, EndScan, TakeLocked, TakeBasket, Goto,
         Critical, HandlerCritical, ScannerCritical
<1>3. CASE \E d \in Deposits : ExpireWaiting(s, d)
  BY <1>3 DEF ExpireWaiting, Holding
<1>4. CASE \/ ReleaseRow(s) \/ ReleaseFails(s) \/ ForgetDeposit(s)
           \/ CompletePartial(s) \/ CannotComplete(s) \/ ExpireBasket(s) \/ DropBasket(s)
  <2>1. pc[s] \in Critical /\ lock' = lock
    BY <1>4 DEF ReleaseRow, ReleaseFails, ForgetDeposit, CompletePartial, CannotComplete,
                ExpireBasket, DropBasket, Critical, ScannerCritical
  <2>2. \E l : pc' = [pc EXCEPT ![s] = l]
    BY <1>4 DEF ReleaseRow, ReleaseFails, ForgetDeposit, CompletePartial, CannotComplete,
                ExpireBasket, DropBasket, Goto
  <2>3. QED
    BY <1>1, <2>1, <2>2, HoldingStays
<1>5. QED
  BY <1>2, <1>3, <1>4 DEF Scan

LEMMA HoldingStep == TypeInv /\ Holding /\ [Next]_vars => Holding'
<1> SUFFICES ASSUME TypeInv, Holding, [Next]_vars PROVE Holding'
  OBVIOUS
<1>1. ASSUME NEW i \in Instances, Crash(i) PROVE Holding'
  BY <1>1 DEF Crash, Holding, Critical, HandlerCritical, ScannerCritical
<1>2. ASSUME NEW i \in Instances, Restart(i) PROVE Holding'
  BY <1>2 DEF Restart, ListActive, Recovered, RestoreBasket, Holding
<1>3. CASE LockExpires
  BY <1>3 DEF LockExpires, Abandoned, Holding
<1>4. CASE Tick \/ UNCHANGED vars
  BY <1>4 DEF Tick, vars, Holding
<1>5. QED
  BY <1>1, <1>2, <1>3, <1>4, LockHolding, HandlerHolding, ScannerHolding DEF Next

\* Mutual exclusion of the sections of a shard, over all instances.
THEOREM OneHolderCorrect == Spec => []OneHolder
<1>1. Init => Holding
  BY DEF Init, Holding, Critical, HandlerCritical, ScannerCritical
<1>2. Holding => OneHolder
  BY DEF Holding, OneHolder
<1>3. Spec => []TypeInv
  BY InitTyped, NextTyped, PTL DEF Spec
<1>4. QED
  BY <1>1, <1>2, <1>3, HoldingStep, PTL DEF Spec

\* The goroutines in a section: what Mutex sees of this module.
Running == {p \in Procs : pc[p] \in Critical}

LEMMA RunningStays ==
  ASSUME TypeInv, NEW p \in Procs, NEW l, l \in Critical <=> pc[p] \in Critical,
         pc' = [pc EXCEPT ![p] = l]
  PROVE  Running' = Running
BY DEF Running, TypeInv, TypeOK

LEMMA LockMutex ==
  ASSUME TypeInv, Holding, NEW p \in Procs, Lock(p)
  PROVE  Shard!Enter(p) \/ Shard!Leave(p) \/ Running' = Running
<1>1. CASE Acquire(p)
  <2>1. Running = {}
    BY <1>1, ProcessAssumption DEF Acquire, Free, Holding, Running
  <2>2. Running' = {p}
    BY <1>1, <2>1, SectionsEntered DEF Acquire, Goto, Running, TypeInv, TypeOK
  <2>3. QED
    BY <2>1, <2>2 DEF Shard!Enter, Running
<1>2. CASE AcquireFails(p)
  BY <1>2, SectionsEntered, RunningStays
     DEF AcquireFails, Goto, Critical, HandlerCritical, ScannerCritical
<1>3. CASE Unlock(p)
  <2>1. pc[p] \in Critical /\ AfterUnlock(p) \notin Critical
    BY <1>3 DEF Unlock, AfterUnlock, Critical, HandlerCritical, ScannerCritical
  <2>2. Running' = Running \ {p}
    BY <1>3, <2>1 DEF Unlock, Goto, Running, TypeInv, TypeOK
  <2>3. QED
    BY <2>1, <2>2 DEF Shard!Leave, Running
<1>4. QED
  BY <1>1, <1>2, <1>3 DEF Lock

LEMMA HandlerMutex ==
  ASSUME TypeInv, NEW h \in Handlers, Request(h) \/ Serve(h)
  PROVE  Running' = Running
<1>1. h \in Procs
  BY DEF Procs
<1>2. CASE Request(h)
  BY <1>1, <1>2, RunningStays
     DEF Request, Submit, RequestBasket, Goto, Critical, HandlerCritical, ScannerCritical
<1>3. CASE Serve(h)
  <2>1. pc[h] \in Critical /\ \E l \in Critical : pc' = [pc EXCEPT ![h] = l]
    BY <1>3 DEF Serve, SaveDeposit, MatchFails, MatchPending, MatchComplete, MatchAttach,
                InsertBasket, AddBasket, Goto, Critical, HandlerCritical
  <2>2. QED
    BY <1>1, <2>1, RunningStays
<1>4. QED
  BY <1>2, <1>3

LEMMA ScannerMutex ==
  ASSUME TypeInv, NEW s \in Scanners, Scan(s)
  PROVE  Running' = Running
<1>1. s \in Procs
  BY DEF Procs
<1>2. CASE \/ ListWaiting(s) \/ ListLocked(s) \/ ListBaskets(s) \/ EndScan(s)
           \/ \E d \in Deposits : TakeLocked(s, d)
           \/ \E b \in Baskets : TakeBasket(s, b)
  BY <1>1, <1>2, RunningStays
     DEF ListWaiting, ListLocked, ListBaskets, EndScan, TakeLocked, TakeBasket, Goto,
         Critical, HandlerCritical, ScannerCritical
<1>3. CASE \E d \in Deposits : ExpireWaiting(s, d)
  BY <1>3 DEF ExpireWaiting, Running
<1>4. CASE \/ ReleaseRow(s) \/ ReleaseFails(s) \/ ForgetDeposit(s)
           \/ CompletePartial(s) \/ CannotComplete(s) \/ ExpireBasket(s) \/ DropBasket(s)
  <2>1. pc[s] \in Critical /\ \E l \in Critical : pc' = [pc EXCEPT ![s] = l]
    BY <1>4 DEF ReleaseRow, ReleaseFails, ForgetDeposit, CompletePartial, CannotComplete,
                ExpireBasket, DropBasket, Goto, Critical, ScannerCritical
  <2>2. QED
    BY <1>1, <2>1, RunningStays
<1>5. QED
  BY <1>2, <1>3, <1>4 DEF Scan

\* A crash ends the section of at most one goroutine, the holder.
LEMMA CrashMutex ==
  ASSUME TypeInv, Holding, NEW i \in Instances, Crash(i)
  PROVE  (\E p \in Procs : Shard!Leave(p)) \/ Running' = Running
<1>1. pc' = [p \in Procs |-> IF Home[p] = i THEN "idle" ELSE pc[p]]
  BY DEF Crash
<1>2. "idle" \notin Critical
  BY DEF Critical, HandlerCritical, ScannerCritical
<1>3. CASE \E p \in Procs : pc[p] \in Critical /\ Home[p] = i
  <2>1. PICK p \in Procs : pc[p] \in Critical /\ Home[p] = i
    BY <1>3
  <2>2. \A q \in Procs : pc[q] \in Critical => q = p
    BY <2>1 DEF Holding
  <2>3. p \in Running /\ Running' = Running \ {p}
    BY <1>1, <1>2, <2>1, <2>2 DEF Running
  <2>4. Shard!Leave(p)
    BY <2>3 DEF Shard!Leave, Running
  <2>5. QED
    BY <2>4
<1>4. CASE ~\E p \in Procs : pc[p] \in Critical /\ Home[p] = i
  BY <1>1, <1>2, <1>4 DEF Running
<1>5. QED
  BY <1>3, <1>4

\* The use case takes the shard lock to be exactly what ShardLock provides.
THEOREM SectionsCorrect == Spec => SectionsExclude
<1>1. Init => Shard!Init
  BY DEF Init, Shard!Init, Critical, HandlerCritical, ScannerCritical
<1>2. ASSUME TypeInv, Holding, [Next]_vars PROVE [Shard!Next]_Running
  <2>1. ASSUME NEW h \in Handlers, Request(h) \/ Serve(h) PROVE Running' = Running
    BY <1>2, <2>1, HandlerMutex
  <2>2. ASSUME NEW s \in Scanners, Scan(s) PROVE Running' = Running
    BY <1>2, <2>2, ScannerMutex
  <2>3. ASSUME NEW p \in Procs, Lock(p) PROVE Shard!Next \/ Running' = Running
    BY <1>2, <2>3, LockMutex DEF Shard!Next
  <2>4. ASSUME NEW i \in Instances, Crash(i) \/ Restart(i)
        PROVE  Shard!Next \/ Running' = Running
    <3>1. CASE Crash(i)
      BY <1>2, <3>1, CrashMutex DEF Shard!Next
    <3>2. CASE Restart(i)
      BY <3>2 DEF Restart, ListActive, Recovered, RestoreBasket, Running
    <3>3. QED
      BY <2>4, <3>1, <3>2
  <2>5. CASE LockExpires \/ Tick \/ UNCHANGED vars
    BY <2>5 DEF LockExpires, Tick, vars, Running
  <2>6. QED
    BY <1>2, <2>1, <2>2, <2>3, <2>4, <2>5 DEF Next
<1>3. Init => Holding
  BY DEF Init, Holding, Critical, HandlerCritical, ScannerCritical
<1>4. Spec => [](TypeInv /\ Holding)
  BY <1>3, InitTyped, NextTyped, HoldingStep, PTL DEF Spec
<1>5. QED
  BY <1>1, <1>2, <1>4, PTL DEF Spec, SectionsExclude, Shard!Spec, Running
=============================================================================
