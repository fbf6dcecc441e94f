---------------------------- MODULE JournalProofs ----------------------------
(***************************************************************************)
(* Theorems about Journal: what the service has written down is what it    *)
(* has done, for any number of instances, goroutines and orders, with      *)
(* crashes, faults and lost commits.                                       *)
(***************************************************************************)
EXTENDS Journal, MatchingProofs, FiniteSetTheorems, SequenceTheorems

(***************************************************************************)
(* The steps of Journal are steps of Matching                              *)
(***************************************************************************)
LogStatus == DepositStatus \cup BasketStatus
LogEntry  == [from : LogStatus, to : LogStatus]

NotesTyped ==
  /\ log \in [Numbers -> Seq(LogEntry)]
  /\ logging \in [Scanners -> Deposits \cup {NoDeposit}]
  /\ counter \in [Instances -> [success : Nat, short : Nat]]
  /\ made \in [Instances -> [full : Nat, short : Nat]]

\* A scan has an expiry to log only while it is in the loop over the waiting deposits.
LoggingWaits == \A s \in Scanners : ~Idle(s) => pc[s] = "waiting"

\* A goroutine that is elsewhere, or has nothing to log, moves on.
LEMMA MovesOn ==
  ASSUME TypeInv, LoggingWaits, UNCHANGED logging, NEW p \in Procs, NEW l,
         pc' = [pc EXCEPT ![p] = l],
         pc[p] # "waiting" \/ p \in Handlers \/ (p \in Scanners /\ Idle(p))
  PROVE  LoggingWaits'
BY ProcessAssumption DEF LoggingWaits, Idle, Procs, TypeInv, TypeOK

\* Each action of a request is one of Matching,
LEMMA HandlerNotes ==
  ASSUME TypeInv, LoggingWaits, NEW h \in Handlers,
         \/ Complete(h) \/ Attach(h) \/ Fail(h) \/ Create(h)
         \/ (Request(h) \/ SaveDeposit(h) \/ MatchPending(h) \/ AddBasket(h)) /\ Quiet
  PROVE  Next /\ LoggingWaits'
<1> h \in Procs
  BY DEF Procs
<1>1. Request(h) \/ Serve(h)
  BY DEF Complete, Attach, Fail, Create, Serve
<1>2. UNCHANGED logging
  BY DEF Complete, Attach, Fail, Create, Quiet, notes
<1>3. \E l : pc' = [pc EXCEPT ![h] = l]
  <2>1. CASE Request(h)
    BY <2>1 DEF Request, Submit, RequestBasket, Goto
  <2>2. CASE Serve(h)
    BY <2>2 DEF Serve, SaveDeposit, MatchFails, MatchPending, MatchComplete, MatchAttach,
                InsertBasket, AddBasket, Goto
  <2>3. QED
    BY <1>1, <2>1, <2>2
<1>4. LoggingWaits'
  BY <1>2, <1>3, MovesOn
<1>5. QED
  BY <1>1, <1>4 DEF Next


\* and each action of a scan, but for the entry of an expiry, which changes nothing of it.
LEMMA ScannerNotes ==
  ASSUME TypeInv, LoggingWaits, NotesTyped, NEW s \in Scanners,
         \/ Expire(s) \/ LogExpired(s) \/ Release(s) \/ Partial(s) \/ Close(s)
         \/ Unnoted(s) /\ Quiet
  PROVE  (Scan(s) \/ UNCHANGED vars) /\ LoggingWaits'
<1> s \in Procs /\ s \notin Handlers
  BY ProcessAssumption DEF Procs
<1>1. CASE Expire(s)
  <2>1. PICK d \in Deposits : Idle(s) /\ ExpireWaiting(s, d)
                              /\ logging' = [logging EXCEPT ![s] = ToLog(d, deposit' # deposit)]
    BY <1>1 DEF Expire
  <2>2. pc[s] = "waiting" /\ pc' = pc
    BY <2>1 DEF ExpireWaiting
  <2>3. LoggingWaits'
    BY <2>1, <2>2 DEF LoggingWaits, Idle, NotesTyped
  <2>4. QED
    BY <2>1, <2>3 DEF Scan
<1>2. CASE LogExpired(s)
  <2>1. pc[s] = "waiting"
    BY <1>2 DEF LogExpired, LoggingWaits
  <2>2. logging' = [logging EXCEPT ![s] = NoDeposit]
    BY <1>2 DEF LogExpired
  <2>3. CASE UNCHANGED <<budget, scan, pc>>
    <3>1. pc' = pc
      BY <2>3
    <3>2. LoggingWaits'
      BY <2>2, <3>1 DEF LoggingWaits, Idle, NotesTyped
    <3>3. UNCHANGED vars
      BY <1>2, <2>3 DEF LogExpired, vars
    <3>4. QED
      BY <3>2, <3>3
  <2>4. CASE Spend("faults") /\ Goto(s, "idle") /\ scan' = [scan EXCEPT ![s] = NoScan]
    <3>1. EndScan(s)
      BY <1>2, <2>1, <2>4 DEF LogExpired, EndScan
    <3>2. LoggingWaits'
      BY <2>2, <2>4 DEF LoggingWaits, Idle, NotesTyped, Goto, TypeInv, TypeOK, Procs
    <3>3. QED
      BY <3>1, <3>2 DEF Scan
  <2>5. QED
    BY <1>2, <2>3, <2>4 DEF LogExpired
<1>3. CASE Release(s) \/ Partial(s) \/ Close(s)
  <2>1. pc[s] # "waiting" /\ \E l : pc' = [pc EXCEPT ![s] = l]
    BY <1>3 DEF Release, Partial, Close, ReleaseRow, CompletePartial, ExpireBasket, Goto
  <2>2. LoggingWaits'
    BY <1>3, <2>1, MovesOn DEF Release, Partial, Close
  <2>3. QED
    BY <1>3, <2>2 DEF Release, Partial, Close, Scan
<1>4. CASE Unnoted(s) /\ Quiet
  <2>1. pc[s] # "waiting" \/ Idle(s)
    BY <1>4 DEF Unnoted, ListWaiting, TakeLocked, TakeBasket, ListBaskets, ReleaseFails,
                ForgetDeposit, CannotComplete, DropBasket
  <2>2. \E l : pc' = [pc EXCEPT ![s] = l]
    BY <1>4 DEF Unnoted, ListWaiting, ListLocked, EndScan, TakeLocked, TakeBasket, ListBaskets,
                ReleaseFails, ForgetDeposit, CannotComplete, DropBasket, Goto
  <2>3. LoggingWaits'
    BY <1>4, <2>1, <2>2, MovesOn DEF Quiet, notes
  <2>4. QED
    BY <1>4, <2>3 DEF Unnoted, Scan
<1>5. QED
  BY <1>1, <1>2, <1>3, <1>4

\* Whatever is written down beside it, a step is one the matching can take: the log
\* has the entry of an expiry written only where the scan could also have ended.
LEMMA StepOfMatching ==
  ASSUME TypeInv, LoggingWaits, NotesTyped, [JournalNext]_allVars
  PROVE  [Next]_vars /\ LoggingWaits'
<1>1. ASSUME NEW p \in Procs, Lock(p) /\ Quiet PROVE Next /\ LoggingWaits'
  <2>1. pc[p] # "waiting" /\ \E l : pc' = [pc EXCEPT ![p] = l]
    BY <1>1 DEF Lock, Acquire, AcquireFails, Unlock, Section, Goto
  <2>2. QED
    BY <1>1, <2>1, MovesOn DEF Quiet, notes, Next
<1>2. ASSUME NEW i \in Instances, Stop(i) PROVE Next /\ LoggingWaits'
  <2>1. LoggingWaits'
    BY <1>2 DEF Stop, Crash, LoggingWaits, Idle, Procs, TypeInv, TypeOK
  <2>2. QED
    BY <1>2, <2>1 DEF Stop, Next
<1>3. ASSUME NEW i \in Instances, Restart(i) /\ Quiet PROVE Next /\ LoggingWaits'
  BY <1>3 DEF Restart, ListActive, RestoreBasket, Recovered, Next, Quiet, notes, LoggingWaits, Idle
<1>4. CASE (LockExpires \/ Tick) /\ Quiet
  BY <1>4 DEF LockExpires, Tick, Next, Quiet, notes, LoggingWaits, Idle
<1>5. CASE UNCHANGED allVars
  BY <1>5 DEF allVars, notes, vars, LoggingWaits, Idle
<1>6. ASSUME NEW h \in Handlers,
             \/ Complete(h) \/ Attach(h) \/ Fail(h) \/ Create(h)
             \/ (Request(h) \/ SaveDeposit(h) \/ MatchPending(h) \/ AddBasket(h)) /\ Quiet
      PROVE  Next /\ LoggingWaits'
  BY <1>6, HandlerNotes
<1>7. ASSUME NEW s \in Scanners,
             \/ Expire(s) \/ LogExpired(s) \/ Release(s) \/ Partial(s) \/ Close(s)
             \/ Unnoted(s) /\ Quiet
      PROVE  [Next]_vars /\ LoggingWaits'
  BY <1>7, ScannerNotes DEF Next
<1>8. QED
  BY <1>1, <1>2, <1>3, <1>4, <1>5, <1>6, <1>7 DEF JournalNext

-----------------------------------------------------------------------------
(***************************************************************************)
(* Entries and how they are counted                                        *)
(***************************************************************************)
Marks(s, x) == {k \in DOMAIN s : s[k].to = x}

\* An entry is a list of one.
LEMMA EntryTyped ==
  ASSUME NEW f \in LogStatus, NEW t \in LogStatus
  PROVE  /\ Entry(f, t) \in Seq(LogEntry) /\ Len(Entry(f, t)) = 1
         /\ Entry(f, t)[1] = [from |-> f, to |-> t]
BY DEF Entry, LogEntry

\* The elements of a log after one entry more.
LEMMA Appended ==
  ASSUME NEW s \in Seq(LogEntry), NEW f \in LogStatus, NEW t \in LogStatus
  PROVE  /\ s \o Entry(f, t) \in Seq(LogEntry)
         /\ Len(s \o Entry(f, t)) = Len(s) + 1
         /\ (s \o Entry(f, t))[Len(s) + 1] = [from |-> f, to |-> t]
         /\ \A k \in 1..Len(s) : (s \o Entry(f, t))[k] = s[k]
<1>1. DEFINE e == Entry(f, t)
<1>2. e \in Seq(LogEntry) /\ Len(e) = 1 /\ e[1] = [from |-> f, to |-> t]
  BY EntryTyped
<1> HIDE DEF e
<1>3. /\ s \o e \in Seq(LogEntry) /\ Len(s \o e) = Len(s) + 1
      /\ (s \o e)[Len(s) + 1] = [from |-> f, to |-> t]
      /\ \A k \in 1..Len(s) : (s \o e)[k] = s[k]
  <2>1. /\ s \o e \in Seq(LogEntry) /\ Len(s \o e) = Len(s) + Len(e) /\ Len(s) \in Nat
        /\ \A k \in 1..Len(s) + Len(e) :
             (s \o e)[k] = IF k <= Len(s) THEN s[k] ELSE e[k - Len(s)]
    BY <1>2, ConcatProperties, SMTT(30)
  <2>2. Len(s) + 1 \in 1..Len(s) + Len(e) /\ ~(Len(s) + 1 <= Len(s)) /\ (Len(s) + 1) - Len(s) = 1
    BY <1>2, <2>1
  <2>3. (s \o e)[Len(s) + 1] = e[1]
    BY <2>1, <2>2
  <2>4. \A k \in 1..Len(s) : (s \o e)[k] = s[k]
    BY <1>2, <2>1
  <2>5. QED
    BY <1>2, <2>1, <2>3, <2>4
<1>4. QED
  BY <1>3 DEF e

\* Two entries appended at once are two entries appended one after the other.
LEMMA TwoAppended ==
  ASSUME NEW s \in Seq(LogEntry), NEW u \in Seq(LogEntry), NEW v \in Seq(LogEntry)
  PROVE  s \o (u \o v) = (s \o u) \o v /\ s \o <<>> = s
OBVIOUS

\* An entry counts for the status it leads to, and for no other.
LEMMA Counted1 ==
  ASSUME NEW s \in Seq(LogEntry), NEW f \in LogStatus, NEW t \in LogStatus, NEW x
  PROVE  /\ IsFiniteSet(Marks(s, x)) /\ Cardinality(Marks(s, x)) \in Nat
         /\ Cardinality(Marks(s \o Entry(f, t), x))
              = Cardinality(Marks(s, x)) + (IF t = x THEN 1 ELSE 0)
<1> DEFINE n == Len(s) + 1
<1>1. IsFiniteSet(Marks(s, x)) /\ n \notin Marks(s, x)
  <2>1. Marks(s, x) \subseteq 1..Len(s) /\ Len(s) \in Nat
    BY DEF Marks
  <2>2. IsFiniteSet(1..Len(s))
    BY <2>1, FS_Interval
  <2>3. QED
    BY <2>1, <2>2, FS_Subset
<1>2. DOMAIN (s \o Entry(f, t)) = DOMAIN s \cup {n} /\ DOMAIN s = 1..Len(s)
  <2> DEFINE r == s \o Entry(f, t)
  <2>1. r \in Seq(LogEntry) /\ Len(r) = n
    BY Appended
  <2> HIDE DEF r
  <2>2. DOMAIN r = 1..n /\ DOMAIN s = 1..Len(s) /\ Len(s) \in Nat
    BY <2>1
  <2>3. QED
    BY <2>2 DEF r
<1>3. Marks(s \o Entry(f, t), x) = IF t = x THEN Marks(s, x) \cup {n} ELSE Marks(s, x)
  <2> DEFINE r == s \o Entry(f, t)
  <2>1. r[n].to = t /\ \A k \in DOMAIN s : r[k] = s[k]
    <3>1. r[n] = [from |-> f, to |-> t]
      BY Appended
    <3>2. \A k \in 1..Len(s) : r[k] = s[k]
      BY Appended
    <3> HIDE DEF r, n
    <3>3. QED
      BY <1>2, <3>1, <3>2
  <2>2. DOMAIN r = DOMAIN s \cup {n} /\ n \notin DOMAIN s
    BY <1>2
  <2> HIDE DEF r, n
  <2>3. Marks(r, x) = IF t = x THEN Marks(s, x) \cup {n} ELSE Marks(s, x)
    BY <2>1, <2>2 DEF Marks
  <2>4. QED
    BY <2>3 DEF r
<1>4. Cardinality(Marks(s, x) \cup {n}) = Cardinality(Marks(s, x)) + 1
  BY <1>1, FS_AddElement
<1>5. Cardinality(Marks(s, x)) \in Nat
  BY <1>1, FS_CardinalityType
<1>6. QED
  BY <1>1, <1>3, <1>4, <1>5

\* Nothing is counted in an empty log.
LEMMA NothingCounted ==
  ASSUME NEW x
  PROVE  Cardinality(Marks(<<>>, x)) = 0
<1>1. Marks(<<>>, x) = {}
  BY DEF Marks
<1>2. QED
  BY <1>1, FS_EmptySet

-----------------------------------------------------------------------------
(***************************************************************************)
(* What a step can do to the log                                           *)
(***************************************************************************)
StatusKept == \A b \in Baskets : basket'[b].status = basket[b].status
BasketBecomes(b, status) ==
  basket'[b].status = status /\ \A c \in Baskets \ {b} : basket'[c] = basket[c]

Completion ==
  \E b \in Baskets, S \in SUBSET Deposits, new \in SUBSET Deposits, n \in Nat :
    /\ CanComplete(b, S) /\ new \subseteq S
    /\ PersistCompleted(b, S, n, new)
    /\ log' = CompletionLog(b, S, new)

Locking ==
  \E d \in Deposits :
    /\ log' = [log EXCEPT ![d] = (@ \o Entry("waiting", "locked")) \o Entry("waiting", "locked")]
    /\ StatusKept /\ UNCHANGED record

Creation ==
  \E b \in Baskets :
    /\ basket[b].status = "absent" /\ BasketBecomes(b, "waiting")
    /\ log' = [log EXCEPT ![b] = @ \o Entry("absent", "waiting")]
    /\ UNCHANGED record

Expiry ==
  \E s \in Scanners, d \in Deposits, from \in LogStatus :
    /\ (LogExpired(s) /\ d = logging[s]) \/ (Release(s) /\ d = job[s].deposit)
    /\ log' = [log EXCEPT ![d] = @ \o Entry(from, "expired")]
    /\ StatusKept /\ UNCHANGED record

Closing ==
  \E b \in Baskets :
    /\ basket[b].status = "waiting" /\ BasketBecomes(b, "expired")
    /\ log' = [log EXCEPT ![b] = @ \o Entry("waiting", "expired")]
    /\ UNCHANGED record

Silence == UNCHANGED log /\ StatusKept /\ UNCHANGED record

LogStep == Completion \/ Locking \/ Creation \/ Expiry \/ Closing \/ Silence

\* The steps of a request,
LEMMA HandlerLogStep ==
  ASSUME TypeInv, NotesTyped, NEW h \in Handlers,
         \/ Complete(h) \/ Attach(h) \/ Fail(h) \/ Create(h)
         \/ (Request(h) \/ SaveDeposit(h) \/ MatchPending(h) \/ AddBasket(h)) /\ Quiet
  PROVE  LogStep
<1> h \in Procs
  BY DEF Procs
<1>1. CASE Complete(h)
  <2> DEFINE i == Home[h]  d == job[h].deposit
  <2>1. PICK b \in Baskets : MatchComplete(h, b) /\ log' = CompletionLog(b, Members(i, b, d), {d})
    BY <1>1 DEF Complete
  <2>2. d \in Deposits /\ i \in Instances
    BY <2>1, InHand DEF MatchComplete, HasDeposit
  <2>3. NewCurrent(i, b, d) \in Nat /\ Members(i, b, d) \in SUBSET Deposits
        /\ {d} \in SUBSET Deposits /\ {d} \subseteq Members(i, b, d)
    BY <2>2, RowsTyped, AmountAssumption DEF NewCurrent, Members, PoolBasket
  <2>4. /\ CanComplete(b, Members(i, b, d))
        /\ PersistCompleted(b, Members(i, b, d), NewCurrent(i, b, d), {d})
    BY <2>1 DEF MatchComplete
  <2> HIDE DEF i, d
  <2>5. Completion
    BY <2>1, <2>3, <2>4 DEF Completion
  <2>6. QED
    BY <2>5 DEF LogStep
<1>2. CASE Attach(h)
  <2> DEFINE d == job[h].deposit
  <2>1. PICK b \in Baskets : MatchAttach(h, b)
                             /\ Append1(d, Entry("waiting", "locked") \o Entry("waiting", "locked"))
    BY <1>2 DEF Attach
  <2>2. d \in Deposits
    BY <2>1, InHand DEF MatchAttach, HasDeposit
  <2>3. StatusKept /\ UNCHANGED record
    BY <2>1, RowsTyped DEF MatchAttach, PersistAttached, StatusKept
  <2> HIDE DEF d
  <2>4. log[d] \in Seq(LogEntry) /\ Entry("waiting", "locked") \in Seq(LogEntry)
    BY <2>2, EntryTyped DEF NotesTyped, Numbers, LogStatus, DepositStatus
  <2>5. log' = [log EXCEPT ![d] = (@ \o Entry("waiting", "locked")) \o Entry("waiting", "locked")]
    BY <2>1, <2>4, TwoAppended, ZenonT(30) DEF Append1
  <2>6. Locking
    BY <2>2, <2>3, <2>5 DEF Locking
  <2>7. QED
    BY <2>6 DEF LogStep
<1>3. CASE Create(h)
  <2> DEFINE b == job[h].basket
  <2>1. /\ InsertBasket(h) /\ UNCHANGED record
        /\ IF basket' # basket THEN Append1(b, Entry("absent", "waiting")) ELSE UNCHANGED log
    BY <1>3 DEF Create, InsertBasket
  <2>2. b \in Baskets
    BY <2>1, InHand DEF InsertBasket, HasBasket
  <2>3. CASE basket' = basket
    BY <2>1, <2>3 DEF LogStep, Silence, StatusKept
  <2>4. CASE basket' # basket
    <3>1. basket[b].status = "absent" /\ BasketBecomes(b, "waiting")
      BY <2>1, <2>2, <2>4, RowsTyped DEF InsertBasket, BasketBecomes
    <3> HIDE DEF b
    <3>2. Creation
      BY <2>1, <2>2, <2>4, <3>1 DEF Creation, Append1
    <3>3. QED
      BY <3>2 DEF LogStep
  <2>5. QED
    BY <2>3, <2>4
<1>4. CASE \/ Fail(h)
           \/ (Request(h) \/ SaveDeposit(h) \/ MatchPending(h) \/ AddBasket(h)) /\ Quiet
  <2>1. UNCHANGED <<log, basket, record>>
    BY <1>4 DEF Fail, MatchFails, Request, Submit, RequestBasket, SaveDeposit, MatchPending,
                AddBasket, Quiet, notes, db
  <2>2. QED
    BY <2>1 DEF LogStep, Silence, StatusKept
<1>5. QED
  BY <1>1, <1>2, <1>3, <1>4

\* those of a scan,
LEMMA ScannerLogStep ==
  ASSUME TypeInv, NotesTyped, NEW s \in Scanners,
         \/ Expire(s) \/ LogExpired(s) \/ Release(s) \/ Partial(s) \/ Close(s)
         \/ Unnoted(s) /\ Quiet
  PROVE  LogStep
<1> s \in Procs
  BY DEF Procs
<1>1. CASE Expire(s) \/ (Unnoted(s) /\ Quiet)
  <2>1. UNCHANGED <<log, basket, record>>
    BY <1>1 DEF Expire, ExpireWaiting, Quiet, notes, Unnoted, ListWaiting, ListLocked, EndScan,
                TakeLocked, TakeBasket, ListBaskets, ReleaseFails, ForgetDeposit, CannotComplete,
                DropBasket, db
  <2>2. QED
    BY <2>1 DEF LogStep, Silence, StatusKept
<1>2. CASE LogExpired(s)
  <2>1. UNCHANGED <<basket, record>>
    BY <1>2 DEF LogExpired, db
  <2>2. CASE UNCHANGED log
    BY <2>1, <2>2 DEF LogStep, Silence, StatusKept
  <2>3. CASE Append1(logging[s], Entry("waiting", "expired"))
    <3>1. logging[s] \in Deposits
      BY <1>2 DEF LogExpired, Idle, NotesTyped
    <3>2. Expiry
      BY <1>2, <2>1, <2>3, <3>1 DEF Expiry, Append1, StatusKept, LogStatus, DepositStatus
    <3>3. QED
      BY <3>2 DEF LogStep
  <2>4. QED
    BY <1>2, <2>2, <2>3 DEF LogExpired
<1>3. CASE Release(s)
  <2>1. job[s].deposit \in Deposits
    BY <1>3, InHand DEF Release, ReleaseRow, HasDeposit
  <2>2. StatusKept /\ UNCHANGED record
    BY <1>3, RowsTyped DEF Release, ReleaseRow, StatusKept
  <2>3. Expiry
    BY <1>3, <2>1, <2>2 DEF Release, Expiry, Append1, LogStatus, DepositStatus
  <2>4. QED
    BY <2>3 DEF LogStep
<1>4. CASE Partial(s)
  <2> DEFINE b == job[s].basket
  <2>1. b \in Baskets
    BY <1>4, InHand DEF Partial, CompletePartial, HasBasket
  <2>2. CASE record' = record
    <3>1. ~(CanComplete(b, Attached(b)) /\ PersistCompleted(b, Attached(b), Total(Attached(b)), {}))
      BY <2>1, <2>2, RowsTyped DEF CanComplete, PersistCompleted
    <3>2. UNCHANGED db /\ UNCHANGED log
      BY <1>4, <2>2, <3>1 DEF Partial, CompletePartial
    <3>3. QED
      BY <3>2 DEF LogStep, Silence, StatusKept, db
  <2>3. CASE record' # record
    <3>1. /\ CanComplete(b, Attached(b))
          /\ PersistCompleted(b, Attached(b), Total(Attached(b)), {})
          /\ log' = CompletionLog(b, Attached(b), {})
      BY <1>4, <2>3 DEF Partial, CompletePartial, db
    <3>2. Attached(b) \in SUBSET Deposits
      BY DEF Attached
    <3>3. Total(Attached(b)) \in Nat
      BY <3>2, TotalType
    <3> HIDE DEF b
    <3>4. Completion
      BY <2>1, <3>1, <3>2, <3>3 DEF Completion
    <3>5. QED
      BY <3>4 DEF LogStep
  <2>4. QED
    BY <2>2, <2>3
<1>5. CASE Close(s)
  <2> DEFINE b == job[s].basket
  <2>1. b \in Baskets
    BY <1>5, InHand DEF Close, ExpireBasket, HasBasket
  <2>2. UNCHANGED record /\ log' = [log EXCEPT ![b] = @ \o CloseLog(basket' # basket)]
    BY <1>5 DEF Close, ExpireBasket, Append1, db
  <2>3. CASE basket' = basket
    <3>1. log[b] \o CloseLog(basket' # basket) = log[b]
      BY <2>1, <2>3, TwoAppended DEF CloseLog, NotesTyped, Numbers
    <3>2. log' = log
      BY <2>1, <2>2, <3>1 DEF NotesTyped
    <3>3. QED
      BY <2>2, <2>3, <3>2 DEF LogStep, Silence, StatusKept
  <2>4. CASE basket' # basket
    <3>1. basket[b].status = "waiting" /\ BasketBecomes(b, "expired")
      BY <1>5, <2>1, <2>4, RowsTyped DEF Close, ExpireBasket, Closable, BasketBecomes, db
    <3>2. log' = [log EXCEPT ![b] = @ \o Entry("waiting", "expired")]
      BY <2>2, <2>4 DEF CloseLog
    <3> HIDE DEF b
    <3>3. Closing
      BY <2>1, <2>2, <3>1, <3>2 DEF Closing
    <3>4. QED
      BY <3>3 DEF LogStep
  <2>5. QED
    BY <2>3, <2>4
<1>6. QED
  BY <1>1, <1>2, <1>3, <1>4, <1>5

\* and all the others write one of these to the log.
LEMMA EveryLogStep ==
  ASSUME TypeInv, NotesTyped, [JournalNext]_allVars
  PROVE  LogStep
<1>1. ASSUME NEW p \in Procs, Lock(p) /\ Quiet PROVE UNCHANGED <<log, basket, record>>
  BY <1>1 DEF Lock, Acquire, AcquireFails, Unlock, Quiet, notes, db
<1>2. ASSUME NEW i \in Instances, Stop(i) \/ (Restart(i) /\ Quiet)
      PROVE  UNCHANGED <<log, basket, record>>
  BY <1>2 DEF Stop, Crash, Restart, ListActive, RestoreBasket, Recovered, Quiet, notes, db
<1>3. CASE (LockExpires \/ Tick) /\ Quiet
  BY <1>3 DEF LockExpires, Tick, Quiet, notes, db, LogStep, Silence, StatusKept
<1>4. CASE UNCHANGED allVars
  BY <1>4 DEF allVars, notes, vars, db, LogStep, Silence, StatusKept
<1>5. UNCHANGED <<log, basket, record>> => LogStep
  BY DEF LogStep, Silence, StatusKept
<1>6. QED
  BY <1>1, <1>2, <1>3, <1>4, <1>5, HandlerLogStep, ScannerLogStep DEF JournalNext

-----------------------------------------------------------------------------
(***************************************************************************)
(* Typing, and the log of a basket                                         *)
(***************************************************************************)
\* What a completed match adds to each log.
LEMMA CompletionAdds ==
  ASSUME TypeInv, NotesTyped,
         NEW b \in Baskets, NEW S \in SUBSET Deposits, NEW new \in SUBSET Deposits,
         log' = CompletionLog(b, S, new)
  PROVE  /\ log' \in [Numbers -> Seq(LogEntry)]
         /\ log'[b] = log[b] \o Entry("waiting", "matched")
         /\ \A d \in S \ new : log'[d] = log[d] \o Entry(deposit[d].status, "matched")
         /\ \A d \in S \cap new :
              log'[d] = (log[d] \o Entry("waiting", "locked")) \o Entry(deposit[d].status, "matched")
         /\ \A n \in Numbers : n # b /\ n \notin S => log'[n] = log[n]
<1>1. /\ "waiting" \in LogStatus /\ "matched" \in LogStatus /\ "locked" \in LogStatus
      /\ \A d \in Deposits : deposit[d].status \in LogStatus
  BY RowsTyped DEF LogStatus, DepositStatus, BasketStatus, DepositRow
<1>2. \A n \in Numbers : log[n] \in Seq(LogEntry)
  BY DEF NotesTyped
<1>3. \A d \in S : d # b /\ d \in Numbers
  BY NumbersAssumption DEF Numbers
<1>4. \A d \in S \ new : log'[d] = log[d] \o Entry(deposit[d].status, "matched")
  <2> TAKE d \in S \ new
  <2>1. log'[d] = (log[d] \o <<>>) \o Entry(deposit[d].status, "matched")
    BY <1>3 DEF CompletionLog, LoggedDeposits
  <2>2. log[d] \o <<>> = log[d]
    BY <1>2, <1>3, TwoAppended
  <2>3. QED
    BY <2>1, <2>2
<1>5. \A d \in S \cap new :
        log'[d] = (log[d] \o Entry("waiting", "locked")) \o Entry(deposit[d].status, "matched")
  BY <1>3 DEF CompletionLog, LoggedDeposits
<1>6. log'[b] = log[b] \o Entry("waiting", "matched") /\ b \in Numbers
  BY DEF CompletionLog, Numbers
<1>7. \A n \in Numbers : n # b /\ n \notin S => log'[n] = log[n]
  BY DEF CompletionLog, LoggedDeposits
<1>8. \A n \in Numbers : log'[n] \in Seq(LogEntry)
  <2> TAKE n \in Numbers
  <2>1. CASE n = b
    <3>1. log[b] \in Seq(LogEntry)
      BY <1>2, <1>6
    <3>2. log[b] \o Entry("waiting", "matched") \in Seq(LogEntry)
      BY <1>1, <3>1, Appended
    <3>3. QED
      BY <1>6, <2>1, <3>2
  <2>2. CASE n \in S
    <3>1. deposit[n].status \in LogStatus /\ log[n] \in Seq(LogEntry)
      BY <1>1, <1>2, <2>2
    <3>2. log[n] \o Entry("waiting", "locked") \in Seq(LogEntry)
      BY <1>1, <3>1, Appended
    <3>3. /\ log[n] \o Entry(deposit[n].status, "matched") \in Seq(LogEntry)
          /\ (log[n] \o Entry("waiting", "locked")) \o Entry(deposit[n].status, "matched")
               \in Seq(LogEntry)
      BY <1>1, <3>1, <3>2, Appended
    <3>4. QED
      BY <1>4, <1>5, <2>2, <3>3
  <2>3. QED
    BY <1>2, <1>7, <2>1, <2>2
<1>9. log' \in [Numbers -> Seq(LogEntry)]
  <2>1. log' = [n \in Numbers |-> log'[n]]
    BY DEF CompletionLog
  <2>2. QED
    BY <1>8, <2>1
<1>10. QED
  BY <1>4, <1>5, <1>6, <1>7, <1>9

\* An entry added to one log leaves the others.
LEMMA AppendAdds ==
  ASSUME NotesTyped, NEW n \in Numbers, NEW f \in LogStatus, NEW t \in LogStatus,
         log' = [log EXCEPT ![n] = @ \o Entry(f, t)]
  PROVE  /\ log' \in [Numbers -> Seq(LogEntry)]
         /\ log'[n] = log[n] \o Entry(f, t)
         /\ \A m \in Numbers \ {n} : log'[m] = log[m]
<1>1. log[n] \o Entry(f, t) \in Seq(LogEntry)
  BY Appended DEF NotesTyped
<1>2. QED
  BY <1>1 DEF NotesTyped

\* Attaching adds two entries.
LEMMA LockingAdds ==
  ASSUME NotesTyped, NEW d \in Deposits,
         log' = [log EXCEPT ![d] = (@ \o Entry("waiting", "locked")) \o Entry("waiting", "locked")]
  PROVE  /\ log' \in [Numbers -> Seq(LogEntry)]
         /\ log'[d] = (log[d] \o Entry("waiting", "locked")) \o Entry("waiting", "locked")
         /\ \A m \in Numbers \ {d} : log'[m] = log[m]
<1>1. "waiting" \in LogStatus /\ "locked" \in LogStatus /\ d \in Numbers
  BY DEF LogStatus, DepositStatus, Numbers
<1>2. log[d] \o Entry("waiting", "locked") \in Seq(LogEntry)
  BY <1>1, Appended DEF NotesTyped
<1>3. (log[d] \o Entry("waiting", "locked")) \o Entry("waiting", "locked") \in Seq(LogEntry)
  BY <1>1, <1>2, Appended
<1>4. QED
  BY <1>1, <1>3 DEF NotesTyped

\* The log stays well typed.
LEMMA LogTyped ==
  ASSUME TypeInv, NotesTyped, LogStep
  PROVE  log' \in [Numbers -> Seq(LogEntry)]
<1>0. {"absent", "waiting", "locked", "matched", "expired"} \subseteq LogStatus
  BY DEF LogStatus, DepositStatus, BasketStatus
<1>1. CASE Completion
  BY <1>1, CompletionAdds DEF Completion
<1>2. CASE Locking
  BY <1>2, LockingAdds DEF Locking
<1>3. CASE Creation
  <2>1. PICK b \in Baskets : log' = [log EXCEPT ![b] = @ \o Entry("absent", "waiting")]
    BY <1>3 DEF Creation
  <2>2. b \in Numbers /\ "absent" \in LogStatus /\ "waiting" \in LogStatus
    BY <1>0 DEF Numbers
  <2>3. QED
    BY <2>1, <2>2, AppendAdds
<1>4. CASE Expiry
  <2>1. PICK d \in Deposits, from \in LogStatus :
          log' = [log EXCEPT ![d] = @ \o Entry(from, "expired")]
    BY <1>4 DEF Expiry
  <2>2. d \in Numbers /\ "expired" \in LogStatus
    BY <1>0 DEF Numbers
  <2>3. QED
    BY <2>1, <2>2, AppendAdds
<1>5. CASE Closing
  <2>1. PICK b \in Baskets : log' = [log EXCEPT ![b] = @ \o Entry("waiting", "expired")]
    BY <1>5 DEF Closing
  <2>2. b \in Numbers /\ "expired" \in LogStatus /\ "waiting" \in LogStatus
    BY <1>0 DEF Numbers
  <2>3. QED
    BY <2>1, <2>2, AppendAdds
<1>6. CASE Silence
  BY <1>6 DEF Silence, NotesTyped
<1>7. QED
  BY <1>1, <1>2, <1>3, <1>4, <1>5, <1>6 DEF LogStep


\* The log of a basket grows with the changes of its status, and with nothing else.
LEMMA BasketNoted ==
  ASSUME TypeInv, NotesTyped, LogStep, NEW b \in Baskets
  PROVE  \/ log'[b] = log[b] /\ basket'[b].status = basket[b].status
         \/ \E to \in {"waiting", "matched", "expired"} :
              /\ basket'[b].status = to
              /\ log'[b] = log[b] \o Entry(basket[b].status, to)
<1>0. {"absent", "waiting", "locked", "matched", "expired"} \subseteq LogStatus
  BY DEF LogStatus, DepositStatus, BasketStatus
<1>1. b \in Numbers /\ b \notin Deposits
  BY NumbersAssumption DEF Numbers
<1>2. CASE Completion
  <2>1. PICK c \in Baskets, S \in SUBSET Deposits, new \in SUBSET Deposits, n \in Nat :
          CanComplete(c, S) /\ PersistCompleted(c, S, n, new) /\ log' = CompletionLog(c, S, new)
    BY <1>2 DEF Completion
  <2>2. CASE b = c
    <3>1. log'[b] = log[b] \o Entry("waiting", "matched")
      BY <2>1, <2>2, CompletionAdds
    <3>2. basket[b].status = "waiting" /\ basket'[b].status = "matched"
      BY <2>1, <2>2, RowsTyped DEF CanComplete, PersistCompleted
    <3>3. QED
      BY <3>1, <3>2
  <2>3. CASE b # c
    <3>1. b \notin S
      BY <1>1
    <3>2. \A m \in Numbers : m # c /\ m \notin S => log'[m] = log[m]
      BY <2>1, CompletionAdds
    <3>3. log'[b] = log[b]
      BY <1>1, <2>3, <3>1, <3>2
    <3>4. basket'[b] = basket[b]
      BY <2>1, <2>3, RowsTyped DEF PersistCompleted
    <3>5. QED
      BY <3>3, <3>4
  <2>4. QED
    BY <2>2, <2>3
<1>3. CASE Locking
  <2>1. PICK d \in Deposits :
          log' = [log EXCEPT ![d] = (@ \o Entry("waiting", "locked")) \o Entry("waiting", "locked")]
    BY <1>3 DEF Locking
  <2>2. log'[b] = log[b]
    BY <1>1, <2>1, LockingAdds
  <2>3. QED
    BY <1>3, <2>2 DEF Locking, StatusKept
<1>4. CASE Expiry
  <2>1. PICK d \in Deposits, from \in LogStatus :
          log' = [log EXCEPT ![d] = @ \o Entry(from, "expired")]
    BY <1>4 DEF Expiry
  <2>2. d \in Numbers /\ "expired" \in LogStatus /\ b # d
    BY <1>0, <1>1 DEF Numbers
  <2>3. log'[b] = log[b]
    BY <1>1, <2>1, <2>2, AppendAdds
  <2>4. QED
    BY <1>4, <2>3 DEF Expiry, StatusKept
<1>5. CASE Creation \/ Closing
  <2>1. PICK c \in Baskets, to \in {"waiting", "expired"} :
          /\ BasketBecomes(c, to)
          /\ log' = [log EXCEPT ![c] = @ \o Entry(basket[c].status, to)]
    BY <1>5 DEF Creation, Closing
  <2>2. c \in Numbers /\ to \in LogStatus /\ basket[c].status \in LogStatus
    BY <1>0, RowsTyped DEF Numbers, BasketRow, LogStatus
  <2>3. log'[c] = log[c] \o Entry(basket[c].status, to) /\ \A m \in Numbers \ {c} : log'[m] = log[m]
    BY <2>1, <2>2, AppendAdds
  <2>4. CASE b = c
    BY <2>1, <2>3, <2>4 DEF BasketBecomes
  <2>5. CASE b # c
    BY <1>1, <2>1, <2>3, <2>5 DEF BasketBecomes
  <2>6. QED
    BY <2>4, <2>5
<1>6. CASE Silence
  BY <1>6 DEF Silence, StatusKept
<1>7. QED
  BY <1>2, <1>3, <1>4, <1>5, <1>6 DEF LogStep

\* What BasketLogTrue says of one log and one status.
Life(s, status) ==
  /\ (s = <<>>) <=> (status = "absent")
  /\ s # <<>> => s[1].from = "absent" /\ s[Len(s)].to = status
  /\ \A k \in 2..Len(s) : s[k].from = s[k - 1].to

\* The property, by basket.
LEMMA LifeOfAll == BasketLogTrue <=> \A b \in Baskets : Life(log[b], basket[b].status)
BY DEF BasketLogTrue, Life, Last

\* A life goes on from the status it had come to.
LEMMA LifeGoesOn ==
  ASSUME NEW s \in Seq(LogEntry), NEW f \in LogStatus, NEW t \in LogStatus, t # "absent",
         Life(s, f)
  PROVE  Life(s \o Entry(f, t), t)
<1> DEFINE r == s \o Entry(f, t)  n == Len(s) + 1
<1>1. /\ r \in Seq(LogEntry) /\ Len(r) = n /\ r[n] = [from |-> f, to |-> t]
      /\ \A k \in 1..Len(s) : r[k] = s[k]
  BY Appended
<1>2. Len(s) \in Nat /\ (s = <<>> <=> Len(s) = 0)
  OBVIOUS
<1> HIDE DEF r
<1>3. r # <<>>
  BY <1>1, <1>2
<1>4. r[1].from = "absent"
  <2>1. CASE s = <<>>
    BY <1>1, <1>2, <2>1 DEF Life
  <2>2. CASE s # <<>>
    <3>1. 1 \in 1..Len(s)
      BY <1>2, <2>2
    <3>2. QED
      BY <1>1, <2>2, <3>1 DEF Life
  <2>3. QED
    BY <2>1, <2>2
<1>5. ASSUME NEW k \in 2..Len(r) PROVE r[k].from = r[k - 1].to
  <2>1. CASE k = n
    <3>1. Len(s) # 0 /\ k - 1 = Len(s) /\ Len(s) \in 1..Len(s)
      BY <1>1, <1>2, <2>1
    <3>2. s[Len(s)].to = f
      BY <1>2, <3>1 DEF Life
    <3>3. QED
      BY <1>1, <2>1, <3>1, <3>2
  <2>2. CASE k # n
    <3>1. k \in 2..Len(s) /\ k \in 1..Len(s) /\ k - 1 \in 1..Len(s)
      BY <1>1, <1>2, <2>2
    <3>2. QED
      BY <1>1, <3>1 DEF Life
  <2>3. QED
    BY <2>1, <2>2
<1>6. Life(r, t)
  <2>1. (r = <<>>) <=> (t = "absent")
    BY <1>3
  <2>2. r[1].from = "absent" /\ r[Len(r)].to = t
    BY <1>1, <1>4
  <2>3. \A k \in 2..Len(r) : r[k].from = r[k - 1].to
    BY <1>5
  <2>4. QED
    BY <2>1, <2>2, <2>3 DEF Life
<1>7. QED
  BY <1>6 DEF r

\* Every step of a basket is in its log.
LEMMA BasketLogStep ==
  ASSUME TypeInv, NotesTyped, LogStep, BasketLogTrue
  PROVE  BasketLogTrue'
<1>1. ASSUME NEW b \in Baskets PROVE Life(log'[b], basket'[b].status)
  <2>1. Life(log[b], basket[b].status) /\ log[b] \in Seq(LogEntry)
        /\ basket[b].status \in LogStatus
    BY LifeOfAll, RowsTyped DEF NotesTyped, Numbers, LogStatus, BasketRow
  <2>2. CASE log'[b] = log[b] /\ basket'[b].status = basket[b].status
    BY <2>1, <2>2
  <2>3. ASSUME NEW to \in {"waiting", "matched", "expired"},
               basket'[b].status = to, log'[b] = log[b] \o Entry(basket[b].status, to)
        PROVE  Life(log'[b], basket'[b].status)
    <3>1. to \in LogStatus /\ to # "absent"
      BY DEF LogStatus, BasketStatus
    <3>2. Life(log[b] \o Entry(basket[b].status, to), to)
      BY <2>1, <3>1, LifeGoesOn
    <3>3. QED
      BY <2>3, <3>2
  <2>4. QED
    BY <2>2, <2>3, BasketNoted
<1>2. QED
  BY <1>1 DEF BasketLogTrue, Life, Last

-----------------------------------------------------------------------------
(***************************************************************************)
(* What the log of a deposit counts                                        *)
(***************************************************************************)
Matches(d) == Cardinality(Marks(log[d], "matched"))

\* The entries that are counted are counted in natural numbers.
LEMMA CountedTyped ==
  ASSUME NotesTyped, NEW d \in Deposits
  PROVE  Matches(d) \in Nat /\ Expiries(d) \in Nat /\ Expiries(d) = Cardinality(Marks(log[d], "expired"))
<1>1. log[d] \in Seq(LogEntry) /\ "waiting" \in LogStatus
  BY DEF NotesTyped, Numbers, LogStatus, DepositStatus
<1>2. Cardinality(Marks(log[d], "matched")) \in Nat /\ Cardinality(Marks(log[d], "expired")) \in Nat
  BY <1>1, Counted1
<1>3. QED
  BY <1>2 DEF Matches, Expiries, Marks

\* A record is made of deposits that were in none.
LEMMA RecordedGrows ==
  ASSUME TypeInv, RowInv, NEW b \in Baskets, NEW S \in SUBSET Deposits, NEW n, NEW new,
         CanComplete(b, S), PersistCompleted(b, S, n, new)
  PROVE  Recorded' = Recorded \cup S /\ S \cap Recorded = {}
<1>1. record[b].deposits = {}
  BY DEF RowInv, Once, CanComplete
<1>2. /\ record'[b].deposits = S
      /\ \A c \in Baskets \ {b} : record'[c] = record[c]
  BY RowsTyped DEF PersistCompleted
<1>3. Recorded' = Recorded \cup S
  BY <1>1, <1>2 DEF Recorded
<1>4. QED
  BY <1>3 DEF CanComplete

\* A deposit has an entry more of being matched when a record takes it, and one more
\* of expiring when a scan writes it.
LEMMA DepositNoted ==
  ASSUME TypeInv, RowInv, NotesTyped, LogStep, NEW d \in Deposits
  PROVE  /\ Matches(d)' = Matches(d) + (IF d \in Recorded' \ Recorded THEN 1 ELSE 0)
         /\ \/ Expiries(d)' = Expiries(d)
            \/ /\ Expiries(d)' = Expiries(d) + 1
               /\ \E s \in Scanners : \/ LogExpired(s) /\ d = logging[s]
                                      \/ Release(s) /\ d = job[s].deposit
         /\ Recorded \subseteq Recorded'
<1> DEFINE M(s) == Cardinality(Marks(s, "matched"))  X(s) == Cardinality(Marks(s, "expired"))
<1>0. {"absent", "waiting", "locked", "matched", "expired"} \subseteq LogStatus
  BY DEF LogStatus, DepositStatus, BasketStatus
<1>1. d \in Numbers /\ d \notin Baskets /\ log[d] \in Seq(LogEntry)
  BY NumbersAssumption DEF Numbers, NotesTyped
<1>2. /\ Matches(d) = M(log[d]) /\ Matches(d)' = M(log'[d]) /\ M(log[d]) \in Nat
      /\ Expiries(d) = X(log[d]) /\ Expiries(d)' = X(log'[d]) /\ X(log[d]) \in Nat
  BY CountedTyped DEF Matches, Expiries, Marks
<1>3. \A s \in Seq(LogEntry), f \in LogStatus, t \in LogStatus :
        /\ s \o Entry(f, t) \in Seq(LogEntry)
        /\ M(s \o Entry(f, t)) = M(s) + (IF t = "matched" THEN 1 ELSE 0) /\ M(s) \in Nat
        /\ X(s \o Entry(f, t)) = X(s) + (IF t = "expired" THEN 1 ELSE 0) /\ X(s) \in Nat
  <2> TAKE s \in Seq(LogEntry), f \in LogStatus, t \in LogStatus
  <2>1. s \o Entry(f, t) \in Seq(LogEntry)
    BY Appended
  <2>2. M(s \o Entry(f, t)) = M(s) + (IF t = "matched" THEN 1 ELSE 0) /\ M(s) \in Nat
    BY Counted1
  <2>3. X(s \o Entry(f, t)) = X(s) + (IF t = "expired" THEN 1 ELSE 0) /\ X(s) \in Nat
    BY Counted1
  <2>4. QED
    BY <2>1, <2>2, <2>3
<1> HIDE DEF M, X
<1>4. CASE log'[d] = log[d] /\ d \notin Recorded' \ Recorded /\ Recorded \subseteq Recorded'
  BY <1>2, <1>4
<1>5. CASE Completion
  <2>1. PICK b \in Baskets, S \in SUBSET Deposits, new \in SUBSET Deposits, n \in Nat :
          CanComplete(b, S) /\ PersistCompleted(b, S, n, new) /\ log' = CompletionLog(b, S, new)
    BY <1>5 DEF Completion
  <2>2. Recorded' = Recorded \cup S /\ S \cap Recorded = {}
    BY <2>1, RecordedGrows
  <2>3. CASE d \in S
    <3>1. deposit[d].status \in LogStatus
      BY RowsTyped DEF DepositRow, LogStatus
    <3>2. CASE d \notin new
      <4>1. \A x \in S \ new : log'[x] = log[x] \o Entry(deposit[x].status, "matched")
        BY <2>1, CompletionAdds, ZenonT(30)
      <4>2. /\ M(log[d] \o Entry(deposit[d].status, "matched")) = M(log[d]) + 1
            /\ X(log[d] \o Entry(deposit[d].status, "matched")) = X(log[d]) + 0
        BY <1>0, <1>1, <1>3, <3>1
      <4>3. log'[d] = log[d] \o Entry(deposit[d].status, "matched")
        BY <2>3, <3>2, <4>1
      <4>4. QED
        BY <1>2, <2>2, <2>3, <4>2, <4>3
    <3>3. CASE d \in new
      <4> DEFINE r == log[d] \o Entry("waiting", "locked")
      <4>1. \A x \in S \cap new :
              log'[x] = (log[x] \o Entry("waiting", "locked")) \o Entry(deposit[x].status, "matched")
        BY <2>1, CompletionAdds, ZenonT(30)
      <4>2. r \in Seq(LogEntry) /\ M(r) = M(log[d]) + 0 /\ X(r) = X(log[d]) + 0
        BY <1>0, <1>1, <1>3
      <4>3. log'[d] = r \o Entry(deposit[d].status, "matched")
        BY <2>3, <3>3, <4>1
      <4> HIDE DEF r
      <4>4. /\ M(r \o Entry(deposit[d].status, "matched")) = M(r) + 1
            /\ X(r \o Entry(deposit[d].status, "matched")) = X(r) + 0
        BY <1>0, <1>3, <3>1, <4>2
      <4>5. QED
        BY <1>2, <2>2, <2>3, <4>2, <4>3, <4>4
    <3>4. QED
      BY <3>2, <3>3
  <2>4. CASE d \notin S
    <3>1. \A m \in Numbers : m # b /\ m \notin S => log'[m] = log[m]
      BY <2>1, CompletionAdds
    <3>2. log'[d] = log[d]
      BY <1>1, <2>4, <3>1
    <3>3. QED
      BY <1>4, <2>2, <2>4, <3>2
  <2>5. QED
    BY <2>3, <2>4
<1>6. ASSUME UNCHANGED record PROVE Recorded' = Recorded
  BY <1>6 DEF Recorded
<1>7. CASE Locking
  <2>1. PICK c \in Deposits :
          log' = [log EXCEPT ![c] = (@ \o Entry("waiting", "locked")) \o Entry("waiting", "locked")]
    BY <1>7 DEF Locking
  <2>2. Recorded' = Recorded
    BY <1>6, <1>7 DEF Locking
  <2>3. /\ log'[c] = (log[c] \o Entry("waiting", "locked")) \o Entry("waiting", "locked")
        /\ \A m \in Numbers \ {c} : log'[m] = log[m]
    BY <2>1, LockingAdds
  <2>4. CASE d = c
    <3>1. /\ log[d] \o Entry("waiting", "locked") \in Seq(LogEntry)
          /\ M(log[d] \o Entry("waiting", "locked")) = M(log[d]) + 0
          /\ X(log[d] \o Entry("waiting", "locked")) = X(log[d]) + 0
      BY <1>0, <1>1, <1>3
    <3> DEFINE r == log[d] \o Entry("waiting", "locked")
    <3> HIDE DEF r
    <3>2. r \in Seq(LogEntry) /\ M(r) = M(log[d]) /\ X(r) = X(log[d])
      BY <1>2, <3>1 DEF r
    <3>3. M(r \o Entry("waiting", "locked")) = M(r) + 0 /\ X(r \o Entry("waiting", "locked")) = X(r) + 0
      BY <1>0, <1>3, <3>2
    <3>4. log'[d] = r \o Entry("waiting", "locked")
      BY <2>3, <2>4 DEF r
    <3>5. QED
      BY <1>2, <2>2, <3>2, <3>3, <3>4
  <2>5. CASE d # c
    BY <1>1, <1>4, <2>2, <2>3, <2>5
  <2>6. QED
    BY <2>4, <2>5
<1>8. CASE Expiry
  <2>1. PICK s \in Scanners, c \in Deposits, from \in LogStatus :
          /\ (LogExpired(s) /\ c = logging[s]) \/ (Release(s) /\ c = job[s].deposit)
          /\ log' = [log EXCEPT ![c] = @ \o Entry(from, "expired")]
    BY <1>8 DEF Expiry
  <2>2. Recorded' = Recorded
    BY <1>6, <1>8 DEF Expiry
  <2>3. c \in Numbers /\ "expired" \in LogStatus
    BY <1>0 DEF Numbers
  <2>4. log'[c] = log[c] \o Entry(from, "expired") /\ \A m \in Numbers \ {c} : log'[m] = log[m]
    BY <2>1, <2>3, AppendAdds
  <2>5. CASE d = c
    <3>1. /\ M(log[d] \o Entry(from, "expired")) = M(log[d]) + 0
          /\ X(log[d] \o Entry(from, "expired")) = X(log[d]) + 1
      BY <1>1, <1>3, <2>3
    <3>2. QED
      BY <1>2, <2>1, <2>2, <2>4, <2>5, <3>1
  <2>6. CASE d # c
    BY <1>1, <1>4, <2>2, <2>4, <2>6
  <2>7. QED
    BY <2>5, <2>6
<1>9. CASE Creation \/ Closing
  <2>1. PICK c \in Baskets, from \in LogStatus, to \in LogStatus :
          log' = [log EXCEPT ![c] = @ \o Entry(from, to)]
    BY <1>0, <1>9 DEF Creation, Closing
  <2>2. Recorded' = Recorded
    BY <1>6, <1>9 DEF Creation, Closing
  <2>3. \A m \in Numbers \ {c} : log'[m] = log[m]
    BY <2>1, AppendAdds DEF Numbers
  <2>4. QED
    BY <1>1, <1>4, <2>2, <2>3
<1>10. CASE Silence
  BY <1>4, <1>6, <1>10 DEF Silence
<1>11. QED
  BY <1>5, <1>7, <1>8, <1>9, <1>10 DEF LogStep

\* The property, in these terms.
LEMMA MatchesAsMarks == MatchesLogged <=> \A d \in Deposits : Matches(d) = (IF d \in Recorded THEN 1 ELSE 0)
BY DEF MatchesLogged, Matches, Marks

\* A deposit gains an entry of its match when a record takes it, and then only.
LEMMA MatchesStep ==
  ASSUME TypeInv, RowInv, NotesTyped, LogStep, MatchesLogged
  PROVE  MatchesLogged'
<1>1. ASSUME NEW d \in Deposits PROVE Matches(d)' = (IF d \in Recorded' THEN 1 ELSE 0)
  <2>1. /\ Matches(d) = (IF d \in Recorded THEN 1 ELSE 0)
        /\ Matches(d)' = Matches(d) + (IF d \in Recorded' \ Recorded THEN 1 ELSE 0)
        /\ Recorded \subseteq Recorded'
    BY MatchesAsMarks, DepositNoted
  <2>2. CASE d \in Recorded
    BY <2>1, <2>2
  <2>3. CASE d \notin Recorded
    BY <2>1, <2>3
  <2>4. QED
    BY <2>2, <2>3
<1>2. QED
  BY <1>1 DEF MatchesLogged, Matches, Marks

-----------------------------------------------------------------------------
(***************************************************************************)
(* What the scans may release                                              *)
(***************************************************************************)
\* A pool, stale or not, lists a deposit only in the basket its detail names.
PoolNames ==
  \A i \in Instances, b \in Baskets : \A d \in mem[i][b].deposits :
    detail[d].status # "none" /\ detail[d].basket = b

\* So does the row of a locked deposit.
LockedNames ==
  \A d \in Deposits : deposit[d].status = "locked" =>
    detail[d].status # "none" /\ detail[d].basket = deposit[d].basket

\* A deposit that a scan has listed as locked is released only while it still is: if
\* it has been closed since, its detail has been closed with it.
OnceLocked(d) ==
  detail[d].status # "none" /\ (detail[d].status = "attached" => deposit[d].status = "locked")

Listed(s) ==
  (IF pc[s] \in {"idle", "waiting"} THEN {} ELSE scan[s].deposits)
    \cup (IF pc[s] \in {"lockRelease", "release"} THEN {job[s].deposit} ELSE {})

ListedLocked == \A s \in Scanners : \A d \in Listed(s) : OnceLocked(d)

Names == PoolNames /\ LockedNames /\ ListedLocked

\* A detail row, once created, keeps naming its basket.
LEMMA DetailStays ==
  ASSUME TypeInv, DbStep, NEW d \in Deposits, detail[d].status # "none"
  PROVE  detail'[d].status # "none" /\ detail'[d].basket = detail[d].basket
<1> USE RowsTyped
<1>1. CASE UNCHANGED db \/ RowSaved \/ RowInserted \/ RowTimedOut
  BY <1>1 DEF db, RowSaved, RowInserted, RowTimedOut
<1>2. CASE RowAttached
  BY <1>2 DEF RowAttached, CanAttach, PersistAttached
<1>3. CASE RowsCompleted
  BY <1>3 DEF RowsCompleted, PersistCompleted, CompletedDetails, Attached
<1>4. CASE RowReleased
  BY <1>4 DEF RowReleased
<1>5. CASE RowsExpired
  BY <1>5 DEF RowsExpired, Attached
<1>6. QED
  BY <1>1, <1>2, <1>3, <1>4, <1>5 DEF DbStep

\* A pool takes a deposit only with a detail that names the basket.
Takes ==
  \A i \in Instances, b \in Baskets : \A d \in mem'[i][b].deposits :
    \/ d \in mem[i][b].deposits
    \/ detail'[d].status # "none" /\ detail'[d].basket = b

\* A pool basket that only loses deposits takes none.
LEMMA TakesNothing ==
  ASSUME TypeInv, NEW i \in Instances, NEW b \in Baskets, NEW row,
         row.deposits \subseteq mem[i][b].deposits,
         mem' = [mem EXCEPT ![i][b] = row]
  PROVE  Takes
BY RowsTyped DEF Takes

\* A request puts a deposit in the pool once its detail is committed,
LEMMA ServeTakes ==
  ASSUME TypeInv, NEW h \in Handlers, Serve(h)
  PROVE  Takes
<1> h \in Procs
  BY DEF Procs
<1>1. ASSUME NEW b \in Baskets, MatchComplete(h, b) PROVE Takes
  <2>1. Home[h] \in Instances
    BY InHand
  <2>2. mem' = mem \/ mem' = [mem EXCEPT ![Home[h]][b] = Absent]
    BY <1>1 DEF MatchComplete
  <2>3. Absent.deposits \subseteq mem[Home[h]][b].deposits
    BY DEF Absent
  <2>4. CASE mem' = mem
    BY <2>4 DEF Takes
  <2>5. QED
    BY <2>1, <2>2, <2>3, <2>4, TakesNothing
<1>2. ASSUME NEW b \in Baskets, MatchAttach(h, b) PROVE Takes
  <2> DEFINE i == Home[h]  d == job[h].deposit
             row == [in |-> TRUE, current |-> NewCurrent(i, b, d), deposits |-> Members(i, b, d)]
  <2>1. i \in Instances /\ d \in Deposits
    BY <1>2, InHand DEF MatchAttach, HasDeposit
  <2>2. detail' = [detail EXCEPT ![d] = [status |-> "attached", basket |-> b]]
    BY <1>2 DEF MatchAttach, PersistAttached
  <2>3. mem' = mem \/ mem' = [mem EXCEPT ![i][b] = row]
    BY <1>2 DEF MatchAttach
  <2>4. row.deposits = mem[i][b].deposits \cup {d}
    BY DEF Members
  <2>5. detail'[d].status # "none" /\ detail'[d].basket = b
    BY <2>1, <2>2, RowsTyped
  <2> HIDE DEF i, d, row
  <2>6. CASE mem' = mem
    BY <2>6 DEF Takes
  <2>7. CASE mem' = [mem EXCEPT ![i][b] = row]
    BY <2>1, <2>4, <2>5, <2>7, RowsTyped DEF Takes
  <2>8. QED
    BY <2>3, <2>6, <2>7
<1>3. CASE AddBasket(h)
  <2>1. Home[h] \in Instances /\ job[h].basket \in Baskets
    BY <1>3, InHand DEF AddBasket, HasBasket
  <2>2. NewInPool.deposits \subseteq mem[Home[h]][job[h].basket].deposits
    BY DEF NewInPool
  <2>3. QED
    BY <1>3, <2>1, <2>2, TakesNothing DEF AddBasket
<1>4. CASE SaveDeposit(h) \/ MatchFails(h) \/ MatchPending(h) \/ InsertBasket(h)
  BY <1>4 DEF SaveDeposit, MatchFails, MatchPending, InsertBasket, memory, Takes
<1>5. QED
  BY <1>1, <1>2, <1>3, <1>4 DEF Serve

\* a scan takes deposits out,
LEMMA ScanTakes ==
  ASSUME TypeInv, NEW s \in Scanners, Scan(s)
  PROVE  Takes
<1> s \in Procs
  BY DEF Procs
<1>1. CASE ForgetDeposit(s)
  <2> DEFINE i == Home[s]  d == job[s].deposit  b == job[s].basket
             row == IF mem[i][b].in THEN WithoutDeposit(mem[i][b], d) ELSE mem[i][b]
  <2>1. i \in Instances /\ b \in Baskets
    BY <1>1, InHand DEF ForgetDeposit, HasBasket
  <2>2. mem' = [mem EXCEPT ![i][b] = row]
    BY <1>1, <2>1, RowsTyped DEF ForgetDeposit
  <2>3. row.deposits \subseteq mem[i][b].deposits
    BY DEF WithoutDeposit
  <2>4. QED
    BY <2>1, <2>2, <2>3, TakesNothing
<1>2. CASE DropBasket(s)
  <2>1. Home[s] \in Instances /\ job[s].basket \in Baskets
    BY <1>2, InHand DEF DropBasket, HasBasket
  <2>2. Absent.deposits \subseteq mem[Home[s]][job[s].basket].deposits
    BY DEF Absent
  <2>3. QED
    BY <1>2, <2>1, <2>2, TakesNothing DEF DropBasket
<1>3. CASE mem' = mem
  BY <1>3 DEF Takes
<1>4. ForgetDeposit(s) \/ DropBasket(s) \/ mem' = mem
  BY DEF Scan, ListWaiting, ListLocked, ListBaskets, EndScan, ExpireWaiting, TakeLocked, TakeBasket,
         ReleaseRow, ReleaseFails, CompletePartial, CannotComplete, ExpireBasket, memory
<1>5. QED
  BY <1>1, <1>2, <1>3, <1>4

\* and recovery reads them from the details.
LEMMA EveryStepTakes ==
  ASSUME TypeInv, [Next]_vars
  PROVE  Takes
<1>1. ASSUME NEW i \in Instances, Crash(i) \/ Restart(i) PROVE Takes
  <2>1. CASE Crash(i)
    <3>1. mem' = [mem EXCEPT ![i] = [b \in Baskets |-> Absent]]
      BY <2>1 DEF Crash
    <3>2. QED
      BY <3>1, RowsTyped DEF Takes, Absent
  <2>2. ASSUME NEW b \in Baskets, RestoreBasket(i, b) PROVE Takes
    <3>1. mem' = [mem EXCEPT ![i][b] = Restored(i, b)] /\ detail' = detail
      BY <2>2 DEF RestoreBasket, db
    <3>2. \A d \in Restored(i, b).deposits : detail[d].status # "none" /\ detail[d].basket = b
      BY DEF Restored
    <3>3. QED
      BY <3>1, <3>2, RowsTyped DEF Takes
  <2>3. CASE ListActive(i) \/ Recovered(i)
    BY <2>3 DEF ListActive, Recovered, memory, Takes
  <2>4. QED
    BY <1>1, <2>1, <2>2, <2>3 DEF Restart
<1>2. ASSUME NEW p \in Procs, Lock(p) PROVE Takes
  BY <1>2 DEF Lock, Acquire, AcquireFails, Unlock, memory, Takes
<1>3. ASSUME NEW h \in Handlers, Request(h) PROVE Takes
  BY <1>3 DEF Request, Submit, RequestBasket, memory, Takes
<1>4. CASE LockExpires \/ Tick \/ UNCHANGED vars
  BY <1>4 DEF LockExpires, Tick, vars, memory, Takes
<1>5. QED
  BY <1>1, <1>2, <1>3, <1>4, ServeTakes, ScanTakes DEF Next

\* So the deposits of a pool basket keep naming it.
LEMMA PoolNamesStep ==
  ASSUME TypeInv, [Next]_vars, PoolNames
  PROVE  PoolNames'
<1>1. DbStep /\ Takes
  BY EveryDbStep, EveryStepTakes
<1>2. ASSUME NEW i \in Instances, NEW b \in Baskets, NEW d \in mem'[i][b].deposits
      PROVE  detail'[d].status # "none" /\ detail'[d].basket = b
  <2>1. CASE d \in mem[i][b].deposits
    <3>1. d \in Deposits /\ detail[d].status # "none" /\ detail[d].basket = b
      BY <2>1, RowsTyped DEF PoolNames, PoolBasket
    <3>2. QED
      BY <1>1, <3>1, DetailStays
  <2>2. QED
    BY <1>1, <2>1 DEF Takes
<1>3. QED
  BY <1>2 DEF PoolNames


\* A row is locked by the transaction that creates its detail.
LEMMA LockedNamesStep ==
  ASSUME TypeInv, DbStep, LockedNames
  PROVE  LockedNames'
<1> SUFFICES ASSUME NEW d \in Deposits, deposit'[d].status = "locked"
             PROVE  detail'[d].status # "none" /\ detail'[d].basket = deposit'[d].basket
  BY DEF LockedNames
<1>1. CASE deposit'[d] = deposit[d]
  <2>1. detail[d].status # "none" /\ detail[d].basket = deposit[d].basket
    BY <1>1 DEF LockedNames
  <2>2. QED
    BY <1>1, <2>1, DetailStays
<1>2. CASE deposit'[d] # deposit[d]
  <2> USE RowsTyped
  <2>1. RowAttached
    BY <1>2 DEF DbStep, db, RowSaved, RowsCompleted, PersistCompleted, CompletedDeposits, RowInserted,
                RowTimedOut, RowReleased, RowsExpired, ExpiredWith, Timeout
  <2>2. PICK c \in Deposits, b \in Baskets, n \in Nat : CanAttach(c, b) /\ PersistAttached(c, b, n)
    BY <2>1 DEF RowAttached
  <2>3. c = d /\ deposit'[d].basket = b
    BY <1>2, <2>2 DEF PersistAttached
  <2>4. detail'[d] = [status |-> "attached", basket |-> b]
    BY <2>2, <2>3 DEF PersistAttached
  <2>5. QED
    BY <2>3, <2>4
<1>3. QED
  BY <1>1, <1>2

\* What is recorded was attached to the basket, or is attached by the same transaction.
LEMMA CompletedNamed ==
  ASSUME TypeInv, PoolNames, [Next]_vars, record' # record
  PROVE  \E b \in Baskets, S \in SUBSET Deposits, new \in SUBSET Deposits, n \in Nat :
           /\ PersistCompleted(b, S, n, new)
           /\ \A x \in new : detail[x].status = "none"
           /\ \A x \in S : x \in new \/ (detail[x].status # "none" /\ detail[x].basket = b)
<1>1. ASSUME NEW h \in Handlers, NEW b \in Baskets, MatchComplete(h, b)
      PROVE  \E S \in SUBSET Deposits, new \in SUBSET Deposits, n \in Nat :
               /\ PersistCompleted(b, S, n, new)
               /\ \A x \in new : detail[x].status = "none"
               /\ \A x \in S : x \in new \/ (detail[x].status # "none" /\ detail[x].basket = b)
  <2> DEFINE i == Home[h]  d == job[h].deposit
  <2>1. d \in Deposits /\ i \in Instances
    BY <1>1, InHand DEF MatchComplete, HasDeposit, Procs
  <2>2. /\ NewCurrent(i, b, d) \in Nat /\ Members(i, b, d) \in SUBSET Deposits
        /\ {d} \in SUBSET Deposits
    BY <2>1, RowsTyped, AmountAssumption DEF NewCurrent, Members, PoolBasket
  <2>3. /\ PersistCompleted(b, Members(i, b, d), NewCurrent(i, b, d), {d})
        /\ \A x \in {d} : detail[x].status = "none"
    BY <1>1 DEF MatchComplete
  <2>4. \A x \in Members(i, b, d) :
          x \in {d} \/ (detail[x].status # "none" /\ detail[x].basket = b)
    BY <2>1 DEF Members, PoolNames
  <2> HIDE DEF i, d
  <2>5. QED
    BY <2>2, <2>3, <2>4
<1>2. ASSUME NEW s \in Scanners, ClosesWith(s)
      PROVE  \E b \in Baskets, S \in SUBSET Deposits, new \in SUBSET Deposits, n \in Nat :
               /\ PersistCompleted(b, S, n, new)
               /\ \A x \in new : detail[x].status = "none"
               /\ \A x \in S : x \in new \/ (detail[x].status # "none" /\ detail[x].basket = b)
  <2> DEFINE b == job[s].basket
  <2>1. b \in Baskets /\ PersistCompleted(b, Attached(b), Total(Attached(b)), {})
    BY <1>2, InHand DEF ClosesWith, CompletePartial, HasBasket, Procs
  <2>2. Attached(b) \in SUBSET Deposits
    BY DEF Attached
  <2>3. Total(Attached(b)) \in Nat
    BY <2>2, TotalType
  <2>4. \A x \in Attached(b) : detail[x].status # "none" /\ detail[x].basket = b
    BY DEF Attached
  <2> HIDE DEF b
  <2>5. QED
    BY <2>1, <2>2, <2>3, <2>4
<1>3. QED
  BY <1>1, <1>2, RecordWritten

\* What closes a deposit row closes its detail.
LEMMA OnceLockedStep ==
  ASSUME TypeInv, PoolNames, LockedNames, [Next]_vars, NEW d \in Deposits, OnceLocked(d)
  PROVE  OnceLocked(d)'
<1> USE RowsTyped
<1>1. DbStep /\ detail'[d].status # "none"
  BY EveryDbStep, DetailStays DEF OnceLocked
<1>2. SUFFICES ASSUME detail'[d].status = "attached" PROVE deposit'[d].status = "locked"
  BY <1>1 DEF OnceLocked
<1>3. CASE UNCHANGED db \/ RowSaved \/ RowInserted \/ RowTimedOut
  BY <1>2, <1>3 DEF db, RowSaved, RowInserted, RowTimedOut, OnceLocked
<1>4. CASE RowAttached
  <2>1. PICK c \in Deposits, b \in Baskets, n \in Nat : CanAttach(c, b) /\ PersistAttached(c, b, n)
    BY <1>4 DEF RowAttached
  <2>2. c # d
    BY <2>1 DEF CanAttach, OnceLocked
  <2>3. QED
    BY <1>2, <2>1, <2>2 DEF PersistAttached, OnceLocked
<1>5. CASE record' # record
  <2>1. PICK b \in Baskets, S \in SUBSET Deposits, new \in SUBSET Deposits, n \in Nat :
          /\ PersistCompleted(b, S, n, new)
          /\ \A x \in new : detail[x].status = "none"
          /\ \A x \in S : x \in new \/ (detail[x].status # "none" /\ detail[x].basket = b)
    BY <1>5, CompletedNamed
  <2>2. d \notin Attached(b) /\ d \notin new
    BY <1>2, <2>1 DEF PersistCompleted, CompletedDetails
  <2>3. detail[d].status = "attached"
    BY <1>2, <2>1, <2>2 DEF PersistCompleted, CompletedDetails
  <2>4. d \notin S
    BY <2>1, <2>2, <2>3 DEF Attached, DetailRow
  <2>5. deposit'[d] = deposit[d]
    BY <2>1, <2>4 DEF PersistCompleted, CompletedDeposits
  <2>6. QED
    BY <2>3, <2>5 DEF OnceLocked
<1>6. CASE RowsCompleted
  BY <1>5, <1>6 DEF RowsCompleted, CanComplete, PersistCompleted
<1>7. CASE RowReleased
  BY <1>2, <1>7 DEF RowReleased, OnceLocked
<1>8. CASE RowsExpired
  <2>1. PICK b \in Baskets :
          /\ detail' = [x \in Deposits |->
               IF x \in Attached(b) THEN [status |-> "released", basket |-> b] ELSE detail[x]]
          /\ deposit' = ExpiredWith(b)
    BY <1>8 DEF RowsExpired
  <2>2. d \notin Attached(b) /\ detail[d].status = "attached"
    BY <1>2, <2>1
  <2>3. deposit[d].status = "locked" /\ detail[d].basket = deposit[d].basket
    BY <2>2 DEF OnceLocked, LockedNames
  <2>4. deposit[d].basket # b
    BY <2>2, <2>3 DEF Attached, DetailRow
  <2>5. QED
    BY <2>1, <2>3, <2>4 DEF ExpiredWith
<1>9. QED
  BY <1>1, <1>3, <1>4, <1>6, <1>7, <1>8 DEF DbStep


\* A scan lists only deposits whose rows are locked.
Lists(s) == \A d \in Listed(s)' : d \in Listed(s) \/ (d \in Deposits /\ deposit[d].status = "locked")

\* A scan lists only locked deposits,
LEMMA OwnLists ==
  ASSUME TypeInv, NEW s \in Scanners, Scan(s)
  PROVE  Lists(s)
<1> s \in Procs /\ job \in [Procs -> Job] /\ scan \in [Scanners -> ScanState] /\ pc \in [Procs -> HandlerPc \cup ScannerPc]
  BY DEF Procs, TypeInv, TypeOK
<1>1. CASE ListWaiting(s) \/ EndScan(s) \/ \E d \in Deposits : ExpireWaiting(s, d)
  BY <1>1 DEF ListWaiting, EndScan, ExpireWaiting, Goto, Lists, Listed
<1>2. CASE ListLocked(s)
  <2>1. PICK T \in Due({d \in Deposits : deposit[d].status = "locked"}, DepositExpire, scan[s].now) :
          scan' = [scan EXCEPT ![s].deposits = T]
    BY <1>2 DEF ListLocked
  <2>2. T \subseteq {d \in Deposits : deposit[d].status = "locked"}
    BY DueSubset
  <2>3. scan'[s].deposits = T
    BY <2>1 DEF ScanState
  <2>4. pc'[s] = "locked"
    BY <1>2 DEF ListLocked, Goto
  <2>5. QED
    BY <2>2, <2>3, <2>4 DEF Lists, Listed
<1>3. ASSUME NEW d \in Deposits, TakeLocked(s, d) PROVE Lists(s)
  <2>1. /\ pc[s] = "locked" /\ pc'[s] = "lockRelease"
        /\ scan' = [scan EXCEPT ![s].deposits = @ \ {d}] /\ job' = [job EXCEPT ![s].deposit = d]
        /\ d \in scan[s].deposits
    BY <1>3 DEF TakeLocked, Goto, First
  <2>2. scan'[s].deposits \subseteq scan[s].deposits /\ job'[s].deposit = d
    BY <2>1 DEF ScanState, Job
  <2>3. QED
    BY <2>1, <2>2 DEF Lists, Listed
<1>4. CASE ListBaskets(s) \/ \E b \in Baskets : TakeBasket(s, b)
  <2>1. pc[s] \in {"locked", "baskets"} /\ pc'[s] \in {"baskets", "lockClose"}
    BY <1>4 DEF ListBaskets, TakeBasket, Goto
  <2>2. scan'[s].deposits = scan[s].deposits
    BY <1>4, ZenonT(30) DEF ListBaskets, TakeBasket, ScanState, Listing
  <2>3. QED
    BY <2>1, <2>2 DEF Lists, Listed
<1>5. CASE \/ ReleaseRow(s) \/ ReleaseFails(s) \/ ForgetDeposit(s)
           \/ CompletePartial(s) \/ CannotComplete(s) \/ ExpireBasket(s) \/ DropBasket(s)
  <2>1. /\ pc[s] \notin {"idle", "waiting"} /\ pc'[s] \notin {"lockRelease", "release"}
        /\ scan' = scan
    BY <1>5 DEF ReleaseRow, ReleaseFails, ForgetDeposit, CompletePartial, CannotComplete,
                ExpireBasket, DropBasket, Goto
  <2>2. QED
    BY <2>1 DEF Lists, Listed
<1>6. QED
  BY <1>1, <1>2, <1>3, <1>4, <1>5 DEF Scan

\* waiting for the lock adds none to the list,
LEMMA LockLists ==
  ASSUME TypeInv, NEW s \in Scanners, Lock(s)
  PROVE  Lists(s)
<1> s \in Procs /\ job \in [Procs -> Job] /\ scan \in [Scanners -> ScanState] /\ pc \in [Procs -> HandlerPc \cup ScannerPc]
  BY DEF Procs, TypeInv, TypeOK
<1>1. CASE Acquire(s)
  BY <1>1 DEF Acquire, Section, Goto, Lists, Listed
<1>2. CASE AcquireFails(s)
  BY <1>2 DEF AcquireFails, Goto, Lists, Listed
<1>3. CASE Unlock(s)
  <2>1. pc'[s] \in {"idle", "locked", "baskets"} /\ pc[s] \in {"unlock", "abort"}
    BY <1>3 DEF Unlock, AfterUnlock, Goto
  <2>2. scan'[s] = NoScan \/ scan'[s] = scan[s]
    BY <1>3 DEF Unlock
  <2>3. QED
    BY <2>1, <2>2 DEF Lists, Listed, NoScan
<1>4. QED
  BY <1>1, <1>2, <1>3 DEF Lock

\* Nobody else changes what a scanner has listed.
LEMMA OthersList ==
  ASSUME NEW s \in Scanners,
         UNCHANGED <<pc[s], scan[s], job[s]>>
  PROVE  Lists(s)
BY DEF Lists, Listed

\* and nothing else touches it.
LEMMA EveryStepLists ==
  ASSUME TypeInv, [Next]_vars, NEW s \in Scanners
  PROVE  Lists(s)
<1> s \in Procs /\ s \notin Handlers /\ job \in [Procs -> Job] /\ scan \in [Scanners -> ScanState]
    /\ pc \in [Procs -> HandlerPc \cup ScannerPc]
  BY ProcessAssumption DEF Procs, TypeInv, TypeOK
<1>1. ASSUME NEW h \in Handlers, Request(h) \/ Serve(h) PROVE UNCHANGED <<pc[s], scan[s], job[s]>>
  <2>1. CASE Request(h)
    BY <2>1 DEF Request, Submit, RequestBasket, Goto
  <2>2. CASE Serve(h)
    BY <2>2 DEF Serve, SaveDeposit, MatchFails, MatchPending, MatchComplete, MatchAttach,
                InsertBasket, AddBasket, Goto
  <2>3. QED
    BY <1>1, <2>1, <2>2
<1>2. ASSUME NEW t \in Scanners, t # s, Scan(t) PROVE UNCHANGED <<pc[s], scan[s], job[s]>>
  BY <1>2 DEF Scan, ListWaiting, ListLocked, ListBaskets, EndScan, ExpireWaiting, TakeLocked,
              TakeBasket, ReleaseRow, ReleaseFails, ForgetDeposit, CompletePartial, CannotComplete,
              ExpireBasket, DropBasket, Goto
<1>3. ASSUME NEW p \in Procs, p # s, Lock(p) PROVE UNCHANGED <<pc[s], scan[s], job[s]>>
  BY <1>3 DEF Lock, Acquire, AcquireFails, Unlock, Goto
<1>4. ASSUME NEW i \in Instances, Crash(i) PROVE Lists(s)
  <2>1. CASE Home[s] = i
    <3>1. pc'[s] = "idle"
      BY <1>4, <2>1 DEF Crash
    <3>2. QED
      BY <3>1 DEF Lists, Listed
  <2>2. CASE Home[s] # i
    <3>1. UNCHANGED <<pc[s], scan[s], job[s]>>
      BY <1>4, <2>2 DEF Crash
    <3>2. QED
      BY <3>1, OthersList
  <2>3. QED
    BY <2>1, <2>2
<1>5. ASSUME NEW i \in Instances, Restart(i) PROVE UNCHANGED <<pc[s], scan[s], job[s]>>
  BY <1>5 DEF Restart, ListActive, RestoreBasket, Recovered
<1>6. CASE LockExpires \/ Tick \/ UNCHANGED vars
  <2>1. UNCHANGED <<pc[s], scan[s], job[s]>>
    BY <1>6 DEF LockExpires, Tick, vars
  <2>2. QED
    BY <2>1, OthersList
<1>7. QED
  BY <1>1, <1>2, <1>3, <1>4, <1>5, <1>6, OwnLists, LockLists, OthersList DEF Next

\* No step breaks any of the three.
LEMMA NamesStep ==
  ASSUME TypeInv, [Next]_vars, Names
  PROVE  Names'
<1>1. PoolNames' /\ LockedNames'
  BY PoolNamesStep, EveryDbStep, LockedNamesStep DEF Names
<1>2. ASSUME NEW s \in Scanners, NEW d \in Listed(s)' PROVE OnceLocked(d)'
  <2>1. d \in Deposits /\ OnceLocked(d)
    <3>1. CASE d \in Listed(s)
      <4>1. OnceLocked(d)
        BY <3>1 DEF Names, ListedLocked
      <4>2. s \in Procs
        BY DEF Procs
      <4>3. d \in Deposits
        BY <3>1, <4>2, InHand DEF Listed, TypeInv, TypeOK, ScanState, HasDeposit
      <4>4. QED
        BY <4>1, <4>3
    <3>2. CASE d \in Deposits /\ deposit[d].status = "locked"
      BY <3>2 DEF Names, LockedNames, OnceLocked
    <3>3. QED
      BY <3>1, <3>2, EveryStepLists DEF Lists
  <2>2. QED
    BY <2>1, OnceLockedStep DEF Names
<1>3. ListedLocked'
  BY <1>2 DEF ListedLocked
<1>4. QED
  BY <1>1, <1>3 DEF Names

-----------------------------------------------------------------------------
(***************************************************************************)
(* The expiries                                                            *)
(***************************************************************************)
\* An expiry that is still to be logged has no entry yet, and is one scan's to log.
LoggedOnce ==
  /\ \A d \in Deposits :
       Expiries(d) <= 1 /\ (Expiries(d) = 1 => deposit[d].status = "expired")
  /\ \A s \in Scanners : ~Idle(s) =>
       /\ deposit[logging[s]].status = "expired" /\ Expiries(logging[s]) = 0
       /\ \A t \in Scanners : logging[t] = logging[s] => t = s

\* A scan takes an expiry to log when it makes it, and gives it up otherwise.
TakesUp(s, d) ==
  /\ Idle(s) /\ deposit[d].status = "waiting" /\ deposit'[d].status = "expired"
  /\ logging' = [logging EXCEPT ![s] = d] /\ UNCHANGED log

\* No two scans take up the expiry of the same deposit.
LEMMA LoggingStep ==
  ASSUME TypeInv, NotesTyped, [JournalNext]_allVars
  PROVE  /\ \/ \E s \in Scanners, d \in Deposits : TakesUp(s, d)
            \/ \A s \in Scanners : logging'[s] \in {logging[s], NoDeposit}
         /\ \A s \in Scanners : LogExpired(s) => logging'[s] = NoDeposit
<1>1. \A s \in Scanners : LogExpired(s) => logging'[s] = NoDeposit
  BY DEF LogExpired, NotesTyped
<1>2. ASSUME NEW s \in Scanners, Expire(s)
      PROVE  \/ \E d \in Deposits : TakesUp(s, d)
             \/ logging' = logging
  <2>1. PICK d \in Deposits : /\ Idle(s) /\ ExpireWaiting(s, d)
                              /\ logging' = [logging EXCEPT ![s] = ToLog(d, deposit' # deposit)]
    BY <1>2 DEF Expire
  <2>2. CASE deposit' = deposit
    BY <2>1, <2>2 DEF ToLog, Idle, NotesTyped
  <2>3. CASE deposit' # deposit
    <3>1. deposit[d].status = "waiting" /\ deposit'[d].status = "expired"
      BY <2>1, <2>3, RowsTyped DEF ExpireWaiting
    <3>2. TakesUp(s, d)
      BY <1>2, <2>1, <2>3, <3>1 DEF TakesUp, ToLog, Expire
    <3>3. QED
      BY <3>2
  <2>4. QED
    BY <2>2, <2>3
<1>3. ASSUME NEW s \in Scanners, LogExpired(s)
      PROVE  \A t \in Scanners : logging'[t] \in {logging[t], NoDeposit}
  BY <1>3 DEF LogExpired, NotesTyped
<1>4. ASSUME NEW i \in Instances, Stop(i)
      PROVE  \A t \in Scanners : logging'[t] \in {logging[t], NoDeposit}
  BY <1>4 DEF Stop
<1>5. \/ \E s \in Scanners : Expire(s) \/ LogExpired(s)
      \/ \E i \in Instances : Stop(i)
      \/ UNCHANGED logging
  BY DEF JournalNext, Complete, Attach, Fail, Create, Release, Partial, Close, Quiet, notes, allVars
<1>6. QED
  BY <1>1, <1>2, <1>3, <1>4, <1>5

\* What is released is locked, so its expiry has not been logged.
LEMMA ReleasedWasLocked ==
  ASSUME TypeInv, Names, NEW s \in Scanners, Release(s)
  PROVE  /\ job[s].deposit \in Deposits
         /\ deposit[job[s].deposit].status = "locked"
         /\ deposit'[job[s].deposit].status = "expired"
<1> DEFINE d == job[s].deposit
<1>1. s \in Procs /\ pc[s] = "release" /\ detail[d].status = "attached"
      /\ deposit' = [deposit EXCEPT ![d] = Timeout(@)]
  BY DEF Procs, Release, ReleaseRow
<1>2. d \in Deposits
  BY <1>1, InHand DEF HasDeposit
<1>3. OnceLocked(d)
  BY <1>1 DEF Names, ListedLocked, Listed
<1>4. deposit[d].status = "locked"
  BY <1>1, <1>3 DEF OnceLocked
<1>5. QED
  BY <1>1, <1>2, <1>4, RowsTyped DEF Timeout

\* So an expiry is logged at most once.
LEMMA LoggedOnceStep ==
  ASSUME TypeInv, RowInv, Names, NotesTyped, LoggedOnce, [Next]_vars, [JournalNext]_allVars
  PROVE  LoggedOnce'
<1>1. DbStep /\ LogStep
  BY EveryDbStep, EveryLogStep
<1>2. \A d \in Deposits :
        /\ deposit[d].status = "expired" => deposit'[d].status = "expired"
        /\ Expiries(d) \in Nat
        /\ \/ Expiries(d)' = Expiries(d)
           \/ /\ Expiries(d)' = Expiries(d) + 1
              /\ \E s \in Scanners : \/ LogExpired(s) /\ d = logging[s]
                                     \/ Release(s) /\ d = job[s].deposit
  BY <1>1, DepositNoted, CountedTyped, FinalDeposits
<1>3. ASSUME NEW d \in Deposits
      PROVE  Expiries(d)' <= 1 /\ (Expiries(d)' = 1 => deposit'[d].status = "expired")
  <2>1. Expiries(d) \in Nat /\ Expiries(d) <= 1 /\ (Expiries(d) = 1 => deposit[d].status = "expired")
    BY <1>2 DEF LoggedOnce
  <2>2. CASE Expiries(d)' = Expiries(d)
    BY <1>2, <2>1, <2>2
  <2>3. ASSUME NEW s \in Scanners, LogExpired(s), d = logging[s] PROVE Expiries(d) = 0 /\ deposit'[d].status = "expired"
    BY <1>2, <2>3 DEF LogExpired, LoggedOnce
  <2>4. ASSUME NEW s \in Scanners, Release(s), d = job[s].deposit
        PROVE  Expiries(d) = 0 /\ deposit'[d].status = "expired"
    <3>1. deposit[d].status = "locked" /\ deposit'[d].status = "expired"
      BY <2>4, ReleasedWasLocked
    <3>2. QED
      BY <2>1, <3>1
  <2>5. CASE Expiries(d)' = Expiries(d) + 1
             /\ \E s \in Scanners : \/ LogExpired(s) /\ d = logging[s]
                                    \/ Release(s) /\ d = job[s].deposit
    <3>1. Expiries(d) = 0 /\ deposit'[d].status = "expired"
      BY <2>3, <2>4, <2>5
    <3>2. QED
      BY <2>5, <3>1
  <2>6. QED
    BY <1>2, <2>2, <2>5
<1>4. ASSUME NEW s \in Scanners, logging'[s] # NoDeposit
      PROVE  /\ deposit'[logging'[s]].status = "expired" /\ Expiries(logging[s])' = 0
             /\ \A t \in Scanners : logging'[t] = logging'[s] => t = s
  <2>1. CASE \E u \in Scanners, d \in Deposits : TakesUp(u, d)
    <3>1. PICK u \in Scanners, d \in Deposits : TakesUp(u, d)
      BY <2>1
    <3>2. /\ logging' = [logging EXCEPT ![u] = d] /\ log' = log /\ logging[u] = NoDeposit
          /\ deposit[d].status = "waiting" /\ deposit'[d].status = "expired"
      BY <3>1 DEF TakesUp, Idle
    <3>3. Expiries(d) = 0 /\ \A x \in Deposits : Expiries(x)' = Expiries(x)
      <4>1. Expiries(d) # 1 /\ Expiries(d) <= 1 /\ Expiries(d) \in Nat
        BY <1>2, <3>2 DEF LoggedOnce
      <4>2. \A x \in Deposits : Expiries(x)' = Expiries(x)
        BY <3>2 DEF Expiries
      <4>3. QED
        BY <4>1, <4>2
    <3>4. \A t \in Scanners : logging[t] # d
      BY <3>2, ProcessAssumption DEF LoggedOnce, Idle
    <3>5. CASE s = u
      <4>1. logging'[s] = d
        BY <3>2, <3>5 DEF NotesTyped
      <4>2. \A t \in Scanners : logging'[t] = d => t = s
        BY <3>2, <3>4, <3>5 DEF NotesTyped
      <4>3. Expiries(logging[s])' = Expiries(d)'
        BY <4>1 DEF Expiries
      <4>4. QED
        BY <3>2, <3>3, <4>1, <4>2, <4>3
    <3>6. CASE s # u
      <4>1. logging'[s] = logging[s] /\ logging[s] \in Deposits
        BY <1>4, <3>2, <3>6 DEF NotesTyped
      <4>2. /\ deposit[logging[s]].status = "expired" /\ Expiries(logging[s]) = 0
            /\ \A t \in Scanners : logging[t] = logging[s] => t = s
        BY <1>4, <4>1 DEF LoggedOnce, Idle
      <4>3. \A t \in Scanners : logging'[t] = logging[s] => t = s
        BY <3>2, <3>4, <4>1, <4>2 DEF NotesTyped
      <4>4. Expiries(logging[s])' = 0
        BY <3>2, <4>1, <4>2 DEF Expiries
      <4>5. QED
        BY <1>2, <4>1, <4>2, <4>3, <4>4
    <3>7. QED
      BY <3>5, <3>6
  <2>2. CASE \A t \in Scanners : logging'[t] \in {logging[t], NoDeposit}
    <3>1. logging'[s] = logging[s] /\ logging[s] \in Deposits
      BY <1>4, <2>2 DEF NotesTyped
    <3>2. /\ deposit[logging[s]].status = "expired" /\ Expiries(logging[s]) = 0
          /\ \A t \in Scanners : logging[t] = logging[s] => t = s
      BY <1>4, <3>1 DEF LoggedOnce, Idle
    <3>3. \A t \in Scanners : logging'[t] = logging[s] => t = s
      BY <1>4, <2>2, <3>1, <3>2
    <3> DEFINE d == logging[s]
    <3>4. ASSUME NEW t \in Scanners, LogExpired(t), d = logging[t] PROVE FALSE
      BY <1>4, <3>1, <3>2, <3>4, LoggingStep
    <3>5. ASSUME NEW t \in Scanners, Release(t), d = job[t].deposit PROVE FALSE
      BY <3>2, <3>5, ReleasedWasLocked
    <3>6. Expiries(d)' = 0
      <4>1. ASSUME NEW x \in Deposits, x = logging[s] PROVE Expiries(x)' = 0
        BY <1>2, <3>2, <3>4, <3>5, <4>1
      <4>2. QED
        BY <3>1, <4>1 DEF Expiries
    <3>7. QED
      BY <1>2, <3>1, <3>2, <3>3, <3>6
  <2>3. QED
    BY <2>1, <2>2, LoggingStep
<1>5. QED
  BY <1>3, <1>4 DEF LoggedOnce, Idle


\* As long as nothing has failed and nobody crashed, every expiry has its entry, or is
\* about to get it, or came with that of its basket.
Explained ==
  Undisturbed => \A d \in Deposits : deposit[d].status = "expired" =>
    Expiries(d) = 1 \/ (\E s \in Scanners : logging[s] = d) \/ WithBasket(d)

Unspent == budget["faults"] <= Budget["faults"] /\ budget["crashes"] <= Budget["crashes"]

\* As long as nothing has been spent, no statement has failed and no process crashed.
LEMMA UnspentStep ==
  ASSUME TypeInv, Unspent, [Next]_vars
  PROVE  /\ Unspent'
         /\ Undisturbed' => Undisturbed /\ ~Spend("faults") /\ ~Spend("crashes")
<1>1. /\ budget["faults"] \in Nat /\ Budget["faults"] \in Nat
      /\ budget["crashes"] \in Nat /\ Budget["crashes"] \in Nat
  BY BudgetAssumption DEF Fault, TypeInv, TypeOK
<1>2. \A k \in {"faults", "crashes"} :
        budget'[k] = budget[k] \/ (Spend(k) /\ budget'[k] = budget[k] - 1)
  BY BudgetStep DEF Fault, Spend, TypeInv, TypeOK
<1>3. \A k \in {"faults", "crashes"} : Spend(k) => budget'[k] = budget[k] - 1
  BY DEF Fault, Spend, TypeInv, TypeOK
<1>4. QED
  BY <1>1, <1>2, <1>3 DEF Unspent, Undisturbed

\* A row expires alone, in the scan of the waiting or of the locked deposits, or with
\* its basket.
LEMMA BecomesExpired ==
  ASSUME TypeInv, NotesTyped, [JournalNext]_allVars, NEW d \in Deposits,
         deposit[d].status # "expired", deposit'[d].status = "expired"
  PROVE  \/ \E s \in Scanners : logging'[s] = d
         \/ \E s \in Scanners : Release(s) /\ d = job[s].deposit
         \/ WithBasket(d)'
<1>1. ASSUME NEW h \in Handlers, Request(h) \/ Serve(h) PROVE FALSE
  <2>1. CASE SaveDeposit(h)
    BY <2>1, RowsTyped DEF SaveDeposit
  <2>2. ASSUME NEW b \in Baskets, MatchComplete(h, b) PROVE FALSE
    BY <2>2 DEF MatchComplete, PersistCompleted, CompletedDeposits
  <2>3. ASSUME NEW b \in Baskets, MatchAttach(h, b) PROVE FALSE
    BY <2>3, RowsTyped DEF MatchAttach, PersistAttached
  <2>4. CASE Request(h) \/ MatchFails(h) \/ MatchPending(h) \/ InsertBasket(h) \/ AddBasket(h)
    BY <2>4 DEF Request, Submit, RequestBasket, MatchFails, MatchPending, InsertBasket, AddBasket, db
  <2>5. QED
    BY <1>1, <2>1, <2>2, <2>3, <2>4 DEF Serve
<1>2. ASSUME NEW s \in Scanners, Expire(s) PROVE logging'[s] = d
  <2>1. PICK c \in Deposits : /\ ExpireWaiting(s, c)
                              /\ logging' = [logging EXCEPT ![s] = ToLog(c, deposit' # deposit)]
    BY <1>2 DEF Expire
  <2>2. c = d /\ deposit' # deposit
    BY <2>1, RowsTyped DEF ExpireWaiting
  <2>3. QED
    BY <2>1, <2>2 DEF ToLog, NotesTyped
<1>3. ASSUME NEW s \in Scanners, Release(s) PROVE d = job[s].deposit
  BY <1>3, RowsTyped DEF Release, ReleaseRow
<1>4. ASSUME NEW s \in Scanners, Partial(s) PROVE FALSE
  BY <1>4 DEF Partial, CompletePartial, db, PersistCompleted, CompletedDeposits
<1>5. ASSUME NEW s \in Scanners, Close(s) PROVE WithBasket(d)'
  <2> DEFINE b == job[s].basket
  <2>1. b \in Baskets
    BY <1>5, InHand DEF Close, ExpireBasket, HasBasket, Procs
  <2>2. /\ deposit' = ExpiredWith(b)
        /\ basket' = [basket EXCEPT ![b] =
             [status |-> "expired", current |-> @.current, expire |-> @.expire]]
    BY <1>5 DEF Close, ExpireBasket, db
  <2>3. deposit[d].basket = b /\ deposit'[d].basket = b
    BY <2>2 DEF ExpiredWith, Timeout
  <2>4. basket'[b].status = "expired"
    BY <2>1, <2>2, RowsTyped
  <2>5. b # NoBasket
    BY <2>1, ProcessAssumption
  <2>6. QED
    BY <2>3, <2>4, <2>5 DEF WithBasket
<1>6. ASSUME NEW s \in Scanners, LogExpired(s) \/ Unnoted(s) PROVE FALSE
  BY <1>6 DEF LogExpired, Unnoted, ListWaiting, ListLocked, ListBaskets, EndScan, TakeLocked,
              TakeBasket, ReleaseFails, ForgetDeposit, CannotComplete, DropBasket, db
<1>7. ASSUME NEW p \in Procs, Lock(p) PROVE FALSE
  BY <1>7 DEF Lock, Acquire, AcquireFails, Unlock, db
<1>8. ASSUME NEW i \in Instances, Stop(i) \/ Restart(i) PROVE FALSE
  BY <1>8 DEF Stop, Crash, Restart, ListActive, RestoreBasket, Recovered, db
<1>9. CASE LockExpires \/ Tick \/ UNCHANGED allVars
  BY <1>9 DEF LockExpires, Tick, allVars, vars, db
<1>10. ASSUME NEW h \in Handlers,
              \/ Complete(h) \/ Attach(h) \/ Fail(h) \/ Create(h)
              \/ Request(h) \/ SaveDeposit(h) \/ MatchPending(h) \/ AddBasket(h)
       PROVE  FALSE
  <2>1. Request(h) \/ Serve(h)
    BY <1>10 DEF Complete, Attach, Fail, Create, Serve
  <2>2. QED
    BY <1>1, <2>1
<1>11. QED
  BY <1>2, <1>3, <1>4, <1>5, <1>6, <1>7, <1>8, <1>9, <1>10 DEF JournalNext

\* The entry is written by the step of the log itself, and by the release.
LEMMA ExpiryWritten ==
  ASSUME TypeInv, NotesTyped, NEW s \in Scanners, NEW d \in Deposits,
         \/ LogExpired(s) /\ d = logging[s] /\ Append1(d, Entry("waiting", "expired"))
         \/ Release(s) /\ d = job[s].deposit
  PROVE  Expiries(d)' = Expiries(d) + 1
<1>1. d \in Numbers /\ log[d] \in Seq(LogEntry)
      /\ "expired" \in LogStatus /\ "waiting" \in LogStatus /\ "locked" \in LogStatus
  BY DEF Numbers, NotesTyped, LogStatus, DepositStatus
<1>2. \E from \in LogStatus : log' = [log EXCEPT ![d] = @ \o Entry(from, "expired")]
  BY <1>1 DEF Release, Append1
<1>3. PICK from \in LogStatus : log' = [log EXCEPT ![d] = @ \o Entry(from, "expired")]
  BY <1>2
<1>4. log'[d] = log[d] \o Entry(from, "expired")
  BY <1>1, <1>3, AppendAdds
<1>5. Cardinality(Marks(log[d] \o Entry(from, "expired"), "expired"))
        = Cardinality(Marks(log[d], "expired")) + 1
  BY <1>1, Counted1
<1>6. Expiries(d) = Cardinality(Marks(log[d], "expired"))
      /\ Expiries(d)' = Cardinality(Marks(log'[d], "expired"))
  BY DEF Expiries, Marks
<1>7. QED
  BY <1>4, <1>5, <1>6

\* So an expiry has its entry, or will have it, or came with its basket.
LEMMA ExplainedStep ==
  ASSUME TypeInv, RowInv, Names, NotesTyped, LoggedOnce, LoggedOnce', Unspent, Explained,
         [Next]_vars, [JournalNext]_allVars
  PROVE  Explained'
<1> SUFFICES ASSUME Undisturbed', NEW d \in Deposits, deposit'[d].status = "expired"
             PROVE  Expiries(d)' = 1 \/ (\E s \in Scanners : logging'[s] = d) \/ WithBasket(d)'
  BY DEF Explained
<1>1. Undisturbed /\ ~Spend("faults") /\ ~Spend("crashes")
  BY UnspentStep
<1>2. DbStep /\ LogStep
  BY EveryDbStep, EveryLogStep
<1>3. /\ Expiries(d) \in Nat /\ Expiries(d) <= 1 /\ Expiries(d)' <= 1
      /\ Expiries(d)' = Expiries(d) \/ Expiries(d)' = Expiries(d) + 1
  BY <1>2, CountedTyped, DepositNoted DEF LoggedOnce
<1>4. ASSUME NEW s \in Scanners,
             \/ LogExpired(s) /\ d = logging[s] /\ Append1(d, Entry("waiting", "expired"))
             \/ Release(s) /\ d = job[s].deposit
      PROVE  Expiries(d)' = 1
  BY <1>3, <1>4, ExpiryWritten
<1>5. CASE deposit[d].status # "expired"
  BY <1>4, <1>5, BecomesExpired
<1>6. CASE deposit[d].status = "expired"
  <2>1. deposit'[d] = deposit[d]
    BY <1>2, <1>6, FinalDeposits
  <2>2. CASE Expiries(d) = 1
    BY <1>3, <2>2
  <2>3. CASE WithBasket(d)
    <3>1. deposit[d].basket \in Baskets
      BY <2>3, RowsTyped DEF WithBasket, DepositRow
    <3>2. QED
      BY <1>2, <2>1, <2>3, <3>1, FinalBaskets DEF WithBasket
  <2>4. ASSUME NEW s \in Scanners, logging[s] = d, logging'[s] # d PROVE Expiries(d)' = 1
    <3>1. ~Idle(s)
      BY <2>4, ProcessAssumption DEF Idle
    <3>2. LogExpired(s)
      <4>1. ASSUME NEW t \in Scanners, Expire(t) PROVE FALSE
        <5>1. t # s /\ \E x : logging' = [logging EXCEPT ![t] = x]
          BY <3>1, <4>1 DEF Expire
        <5>2. QED
          BY <2>4, <5>1 DEF NotesTyped
      <4>2. ASSUME NEW t \in Scanners, LogExpired(t) PROVE t = s
        BY <2>4, <4>2 DEF LogExpired, NotesTyped
      <4>3. ASSUME NEW i \in Instances, Stop(i) PROVE FALSE
        BY <1>1, <4>3 DEF Stop, Crash
      <4>4. \/ \E t \in Scanners : Expire(t) \/ LogExpired(t)
            \/ \E i \in Instances : Stop(i)
            \/ UNCHANGED logging
        BY DEF JournalNext, Complete, Attach, Fail, Create, Release, Partial, Close, Quiet, notes,
               allVars
      <4>5. QED
        BY <2>4, <4>1, <4>2, <4>3, <4>4
    <3>3. Append1(d, Entry("waiting", "expired"))
      BY <1>1, <2>4, <3>2 DEF LogExpired
    <3>4. QED
      BY <1>4, <2>4, <3>2, <3>3
  <2>5. QED
    BY <1>1, <1>6, <2>2, <2>3, <2>4 DEF Explained
<1>7. QED
  BY <1>5, <1>6


-----------------------------------------------------------------------------
(***************************************************************************)
(* The counters                                                            *)
(***************************************************************************)
\* What a step can do to them: a match is counted, and made if its transaction
\* commits; a process starts again from nothing.
Counts ==
  \/ UNCHANGED <<counter, made>>
  \/ \E i \in Instances, short \in BOOLEAN :
       counter' = Counted(i, short) /\ (made' = Made(i, short) \/ made' = made)
  \/ \E i \in Instances :
       counter' = [counter EXCEPT ![i] = Metrics] /\ made' = [made EXCEPT ![i] = NoRecords]

\* No step does anything else to the counters.
LEMMA EveryStepCounts ==
  ASSUME [JournalNext]_allVars
  PROVE  Counts
<1>1. \A p \in Procs : Home[p] \in Instances
  BY ProcessAssumption
<1>2. ASSUME NEW h \in Handlers,
             \/ Complete(h) \/ Attach(h) \/ Fail(h) \/ Create(h)
             \/ (Request(h) \/ SaveDeposit(h) \/ MatchPending(h) \/ AddBasket(h)) /\ Quiet
      PROVE  Counts
  <2>1. Home[h] \in Instances
    BY <1>1 DEF Procs
  <2>2. CASE Complete(h)
    <3>1. counter' = Counted(Home[h], FALSE) /\ made' = Made(Home[h], FALSE)
      BY <2>2 DEF Complete
    <3>2. QED
      BY <2>1, <3>1 DEF Counts
  <2>3. CASE Fail(h)
    <3>1. made' = made /\ (counter' = counter \/ counter' = Counted(Home[h], FALSE))
      BY <2>3 DEF Fail
    <3>2. QED
      BY <2>1, <3>1 DEF Counts
  <2>4. CASE Attach(h) \/ Create(h) \/ Quiet
    BY <2>4 DEF Attach, Create, Quiet, notes, Counts
  <2>5. QED
    BY <1>2, <2>2, <2>3, <2>4
<1>3. ASSUME NEW s \in Scanners,
             \/ Expire(s) \/ LogExpired(s) \/ Release(s) \/ Partial(s) \/ Close(s)
             \/ Unnoted(s) /\ Quiet
      PROVE  Counts
  <2>1. Home[s] \in Instances
    BY <1>1 DEF Procs
  <2>2. CASE Partial(s)
    <3>. ShortOf(job[s].basket) \in BOOLEAN
      BY DEF ShortOf
    <3>1. PICK short \in BOOLEAN : short = ShortOf(job[s].basket)
      OBVIOUS
    <3>2. \/ counter' = Counted(Home[s], short) /\ (made' = Made(Home[s], short) \/ made' = made)
          \/ UNCHANGED <<counter, made>>
      BY <2>2, <3>1 DEF Partial
    <3>3. QED
      BY <2>1, <3>2 DEF Counts
  <2>3. CASE Expire(s) \/ LogExpired(s) \/ Release(s) \/ Close(s) \/ Quiet
    BY <2>3 DEF Expire, LogExpired, Release, Close, Quiet, notes, Counts
  <2>4. QED
    BY <1>3, <2>2, <2>3
<1>4. ASSUME NEW i \in Instances, Stop(i) PROVE Counts
  BY <1>4 DEF Stop, Counts
<1>5. CASE Quiet \/ UNCHANGED allVars
  BY <1>5 DEF Quiet, notes, allVars, Counts
<1>6. QED
  BY <1>2, <1>3, <1>4, <1>5 DEF JournalNext

\* They stay well typed,
LEMMA CountsTyped ==
  ASSUME NotesTyped, Counts
  PROVE  /\ counter' \in [Instances -> [success : Nat, short : Nat]]
         /\ made' \in [Instances -> [full : Nat, short : Nat]]
<1> USE DEF NotesTyped
<1>1. ASSUME NEW i \in Instances, NEW short \in BOOLEAN
      PROVE  /\ Counted(i, short) \in [Instances -> [success : Nat, short : Nat]]
             /\ Made(i, short) \in [Instances -> [full : Nat, short : Nat]]
  <2>. DEFINE x == IF short THEN 1 ELSE 0
              S == [success : Nat, short : Nat]
              c == [counter EXCEPT ![i].success = @ + 1]
  <2>1. x \in Nat
    OBVIOUS
  <2>2. c \in [Instances -> S]
    OBVIOUS
  <2>3. [c EXCEPT ![i].short = @ + x] \in [Instances -> S]
    <3>. HIDE DEF x, c, NotesTyped
    <3>1. c[i] \in S
      BY <2>2
    <3>2. [c[i] EXCEPT !.short = @ + x] \in S
      BY <2>1, <3>1
    <3>3. QED
      BY <2>2, <3>2
  <2>4. Counted(i, short) \in [Instances -> S]
    BY <2>3 DEF Counted
  <2>5. CASE short
    <3>1. Made(i, short) = [made EXCEPT ![i] = [full |-> @.full, short |-> @.short + 1]]
      BY <2>5 DEF Made
    <3>2. QED
      BY <2>4, <3>1
  <2>6. CASE ~short
    <3>1. Made(i, short) = [made EXCEPT ![i] = [full |-> @.full + 1, short |-> @.short]]
      BY <2>6 DEF Made
    <3>2. QED
      BY <2>4, <3>1
  <2>7. QED
    BY <2>5, <2>6
<1>2. ASSUME NEW i \in Instances
      PROVE  /\ [counter EXCEPT ![i] = Metrics] \in [Instances -> [success : Nat, short : Nat]]
             /\ [made EXCEPT ![i] = NoRecords] \in [Instances -> [full : Nat, short : Nat]]
  BY DEF Metrics, NoRecords
<1>3. ASSUME NEW i \in Instances, NEW short \in BOOLEAN, counter' = Counted(i, short),
             made' = Made(i, short) \/ made' = made
      PROVE  /\ counter' \in [Instances -> [success : Nat, short : Nat]]
             /\ made' \in [Instances -> [full : Nat, short : Nat]]
  <2>. HIDE DEF NotesTyped
  <2>1. made \in [Instances -> [full : Nat, short : Nat]]
    BY DEF NotesTyped
  <2>2. QED
    BY <1>1, <1>3, <2>1
<1>4. ASSUME NEW i \in Instances,
             counter' = [counter EXCEPT ![i] = Metrics], made' = [made EXCEPT ![i] = NoRecords]
      PROVE  /\ counter' \in [Instances -> [success : Nat, short : Nat]]
             /\ made' \in [Instances -> [full : Nat, short : Nat]]
  BY <1>2, <1>4
<1>5. CASE UNCHANGED <<counter, made>>
  BY <1>5
<1>6. QED
  BY <1>3, <1>4, <1>5 DEF Counts

\* and a record is counted before it is made.
LEMMA SuccessStep ==
  ASSUME NotesTyped, Counts, SuccessCounted
  PROVE  SuccessCounted'
<1> USE DEF NotesTyped
<1>1. CASE UNCHANGED <<counter, made>>
  BY <1>1 DEF SuccessCounted
<1>2. ASSUME NEW i \in Instances, NEW short \in BOOLEAN, counter' = Counted(i, short),
             made' = Made(i, short) \/ made' = made
      PROVE  SuccessCounted'
  <2> SUFFICES ASSUME NEW j \in Instances
               PROVE  /\ made'[j].full + made'[j].short <= counter'[j].success
                      /\ made'[j].short <= counter'[j].short
    BY DEF SuccessCounted
  <2>1. /\ made[j].full \in Nat /\ made[j].short \in Nat
        /\ counter[j].success \in Nat /\ counter[j].short \in Nat
        /\ made[j].full + made[j].short <= counter[j].success
        /\ made[j].short <= counter[j].short
    BY DEF SuccessCounted
  <2>2. CASE j # i
    BY <1>2, <2>1, <2>2 DEF Counted, Made
  <2>3. CASE j = i
    <3>1. /\ counter'[j].success = counter[j].success + 1
          /\ counter'[j].short = counter[j].short + (IF short THEN 1 ELSE 0)
      BY <1>2, <2>3 DEF Counted
    <3>2. \/ made'[j] = made[j]
          \/ short /\ made'[j].full = made[j].full /\ made'[j].short = made[j].short + 1
          \/ ~short /\ made'[j].full = made[j].full + 1 /\ made'[j].short = made[j].short
      BY <1>2, <2>3 DEF Made
    <3>3. QED
      BY <2>1, <3>1, <3>2
  <2>4. QED
    BY <2>2, <2>3
<1>3. ASSUME NEW i \in Instances,
             counter' = [counter EXCEPT ![i] = Metrics], made' = [made EXCEPT ![i] = NoRecords]
      PROVE  SuccessCounted'
  BY <1>3 DEF SuccessCounted, Metrics, NoRecords
<1>4. QED
  BY <1>1, <1>2, <1>3 DEF Counts

\* The deposit whose expiry a scan has to log is one of the deposits.
LEMMA LoggingTyped ==
  ASSUME NotesTyped, [JournalNext]_allVars
  PROVE  logging' \in [Scanners -> Deposits \cup {NoDeposit}]
<1> USE DEF NotesTyped
<1>1. ASSUME NEW s \in Scanners, Expire(s) \/ LogExpired(s)
      PROVE  logging' \in [Scanners -> Deposits \cup {NoDeposit}]
  BY <1>1 DEF Expire, LogExpired, ToLog
<1>2. ASSUME NEW i \in Instances, Stop(i)
      PROVE  logging' \in [Scanners -> Deposits \cup {NoDeposit}]
  BY <1>2 DEF Stop
<1>3. CASE logging' = logging
  BY <1>3
<1>4. QED
  BY <1>1, <1>2, <1>3 DEF JournalNext, Complete, Attach, Fail, Create, Release, Partial, Close,
     Quiet, notes, allVars

\* All that is written down stays well typed.
LEMMA NotesTypedStep ==
  ASSUME TypeInv, NotesTyped, [JournalNext]_allVars
  PROVE  NotesTyped'
BY EveryLogStep, LogTyped, LoggingTyped, EveryStepCounts, CountsTyped DEF NotesTyped


-----------------------------------------------------------------------------
(***************************************************************************)
(* The invariant                                                           *)
(***************************************************************************)
JournalInv ==
  /\ TypeInv /\ RowInv /\ Names
  /\ NotesTyped /\ LoggingWaits
  /\ BasketLogTrue /\ MatchesLogged /\ SuccessCounted
  /\ LoggedOnce /\ Unspent /\ Explained

\* Nothing has been done, and nothing is written down.
LEMMA JournalStarts == JournalInit => JournalInv
<1> SUFFICES ASSUME JournalInit PROVE JournalInv
  OBVIOUS
<1> USE DEF JournalInit
<1>1. TypeInv /\ RowInv
  BY InitTyped, InitRows
<1>2. Names
  <2>1. PoolNames
    BY DEF Init, PoolNames, Absent
  <2>2. LockedNames
    BY DEF Init, LockedNames
  <2>3. \A s \in Scanners : pc[s] = "idle"
    BY DEF Init, Procs
  <2>4. \A s \in Scanners : Listed(s) = {}
    BY <2>3 DEF Listed
  <2>5. QED
    BY <2>1, <2>2, <2>4 DEF Names, ListedLocked
<1>3. NotesTyped /\ LoggingWaits /\ SuccessCounted
  BY DEF NotesTyped, LoggingWaits, Idle, SuccessCounted, Metrics, NoRecords
<1>4. BasketLogTrue
  <2>1. \A b \in Baskets : log[b] = <<>> /\ basket[b].status = "absent"
    BY DEF Numbers, Init
  <2>2. QED
    BY <2>1 DEF BasketLogTrue
<1>5. \A d \in Deposits : Matches(d) = 0 /\ Expiries(d) = 0
  <2>1. \A d \in Deposits : log[d] = <<>>
    BY DEF Numbers
  <2>2. \A d \in Deposits : Expiries(d) = Cardinality(Marks(log[d], "expired"))
    BY DEF Expiries, Marks
  <2>3. QED
    BY <2>1, <2>2, NothingCounted DEF Matches
<1>6. MatchesLogged
  <2>1. Recorded = {}
    BY DEF Init, Recorded
  <2>2. QED
    BY <1>5, <2>1, MatchesAsMarks
<1>7. LoggedOnce
  BY <1>5 DEF LoggedOnce, Idle
<1>8. Unspent
  BY BudgetAssumption DEF Unspent, Init, Fault
<1>9. Explained
  BY DEF Explained, Init
<1>10. QED
  BY <1>1, <1>2, <1>3, <1>4, <1>6, <1>7, <1>8, <1>9 DEF JournalInv

\* Every step keeps the invariant.
LEMMA JournalGoesOn == JournalInv /\ [JournalNext]_allVars => JournalInv'
<1> SUFFICES ASSUME JournalInv, [JournalNext]_allVars PROVE JournalInv'
  OBVIOUS
<1> USE DEF JournalInv
<1>1. [Next]_vars /\ LoggingWaits'
  BY StepOfMatching
<1>2. TypeInv' /\ RowInv' /\ Names'
  BY <1>1, NextTyped, RowStep, NamesStep
<1>3. NotesTyped' /\ SuccessCounted'
  BY NotesTypedStep, EveryStepCounts, SuccessStep
<1>4. BasketLogTrue' /\ MatchesLogged'
  BY EveryLogStep, BasketLogStep, MatchesStep
<1>5. LoggedOnce'
  BY <1>1, LoggedOnceStep
<1>6. Unspent' /\ Explained'
  BY <1>1, <1>5, UnspentStep, ExplainedStep
<1>7. QED
  BY <1>1, <1>2, <1>3, <1>4, <1>5, <1>6

\* The invariant of the journal.
LEMMA JournalInvariant == JournalSpec => []JournalInv
BY JournalStarts, JournalGoesOn, PTL DEF JournalSpec

\* With nothing left to log, an undisturbed expiry has its entry.
LEMMA ExpiriesAreLogged == JournalInv => ExpiriesLogged
<1> SUFFICES ASSUME JournalInv, NEW d \in Deposits
             PROVE  /\ Expiries(d) <= 1
                    /\ Expiries(d) = 1 => deposit[d].status = "expired"
                    /\ /\ deposit[d].status = "expired" /\ ~WithBasket(d) /\ Undisturbed
                       /\ \A s \in Scanners : logging[s] # d
                       => Expiries(d) = 1
  BY DEF ExpiriesLogged
<1>1. Expiries(d) <= 1 /\ (Expiries(d) = 1 => deposit[d].status = "expired")
  BY DEF JournalInv, LoggedOnce
<1>2. ASSUME deposit[d].status = "expired", ~WithBasket(d), Undisturbed,
             \A s \in Scanners : logging[s] # d
      PROVE  Expiries(d) = 1
  BY <1>2 DEF JournalInv, Explained
<1>3. QED
  BY <1>1, <1>2

\* What the service has written down is what it has done, for any number of
\* instances, with crashes, faults and lost answers: a basket's log tells its life, a
\* deposit is logged as matched exactly when a record holds it, no record goes
\* uncounted, and an expiry is logged once (createStateLogTx, IncMatchSuccess).
THEOREM NotesCorrect == JournalSpec => []NotesTrue
<1>1. JournalInv => NotesTrue
  BY ExpiriesAreLogged DEF JournalInv, NotesTrue
<1>2. QED
  BY <1>1, JournalInvariant, PTL

\* Writing things down changes nothing else: every step of the journal is one of
\* Matching, so what is proved of Matching holds of it.
THEOREM JournalImplements == JournalSpec => Spec
<1>1. JournalInit => Init
  BY DEF JournalInit
<1>2. JournalInv /\ [JournalNext]_allVars => [Next]_vars
  BY StepOfMatching DEF JournalInv
<1>3. QED
  BY <1>1, <1>2, JournalInvariant, PTL DEF JournalSpec, Spec
=============================================================================
