------------------------------- MODULE Journal -------------------------------
(***************************************************************************)
(* What the service writes down about its work: the state log              *)
(* (match_state_log) of every deposit and basket, and the counters of its  *)
(* matches.  Each action is one of Matching together with the entries and  *)
(* the counts of the same function; made is what the counts are compared   *)
(* with.                                                                   *)
(***************************************************************************)
EXTENDS MatchingProperties, SequencesExt

VARIABLES
  log,       \* match_state_log: per deposit or basket number, its entries
  logging,   \* per scanner: the deposit whose expiry it has still to log
  counter,   \* per instance: IncMatchSuccess and IncShortMatchSuccess
  made       \* history: records an instance has committed since its start

notes   == <<log, logging, counter, made>>
allVars == <<vars, notes>>

Numbers == Deposits \cup Baskets
ASSUME NumbersAssumption == Deposits \cap Baskets = {}

Metrics   == [success |-> 0, short |-> 0]
NoRecords == [full |-> 0, short |-> 0]

JournalInit ==
  /\ Init
  /\ log = [n \in Numbers |-> <<>>]
  /\ logging = [s \in Scanners |-> NoDeposit]
  /\ counter = [i \in Instances |-> Metrics]
  /\ made = [i \in Instances |-> NoRecords]

Entry(from, to) == <<[from |-> from, to |-> to]>>
Append1(n, entries) == log' = [log EXCEPT ![n] = @ \o entries]
Quiet == UNCHANGED notes

(***************************************************************************)
(* A completed match: persistCompletedMatch and persistMatchedDeposit       *)
(***************************************************************************)
OnlyNew(S, new)        == new   \* mutant: only the new deposit is logged
LoggedDeposits(S, new) == S

\* The detail of a new deposit is logged before the match.
CompletionLog(b, S, new) ==
  [n \in Numbers |->
     IF n = b THEN log[n] \o Entry("waiting", "matched")
     ELSE IF n \in LoggedDeposits(S, new)
       THEN log[n] \o (IF n \in new THEN Entry("waiting", "locked") ELSE <<>>)
                   \o Entry(deposit[n].status, "matched")
     ELSE log[n]]

\* The counters go up inside the transaction, before it is known to commit.
Counted(i, short) ==
  [counter EXCEPT ![i].success = @ + 1, ![i].short = @ + (IF short THEN 1 ELSE 0)]

Made(i, short) ==
  [made EXCEPT ![i] = IF short THEN [full |-> @.full, short |-> @.short + 1]
                               ELSE [full |-> @.full + 1, short |-> @.short]]

Answered == budget' = budget

Complete(h) ==
  \E b \in Baskets :
    LET i == Home[h] d == job[h].deposit IN
    /\ MatchComplete(h, b)
    /\ log' = CompletionLog(b, Members(i, b, d), {d})
    /\ counter' = Counted(i, FALSE)
    /\ made' = Made(i, FALSE)
    /\ UNCHANGED logging

\* Attaching logs the deposit twice: with its detail, and with its row.
Attach(h) ==
  \E b \in Baskets :
    /\ MatchAttach(h, b)
    /\ Append1(job[h].deposit, Entry("waiting", "locked") \o Entry("waiting", "locked"))
    /\ UNCHANGED <<logging, counter, made>>

\* When it is the commit of a completed match that fails, it has been counted.
Fail(h) ==
  /\ MatchFails(h)
  /\ \/ UNCHANGED counter
     \/ ~Answered /\ Completable(Home[h], job[h].deposit) # {}
        /\ counter' = Counted(Home[h], FALSE)
  /\ UNCHANGED <<log, logging, made>>

Create(h) ==
  /\ InsertBasket(h)
  /\ IF basket' # basket THEN Append1(job[h].basket, Entry("absent", "waiting")) ELSE UNCHANGED log
  /\ UNCHANGED <<logging, counter, made>>

(***************************************************************************)
(* The scan                                                                *)
(***************************************************************************)
Idle(s) == logging[s] = NoDeposit

\* The row is updated by one statement, and logged by another, outside a transaction.
LogListed(d, changed) == d   \* mutant: RowsAffected is not looked at
ToLog(d, changed)     == IF changed THEN d ELSE NoDeposit

Expire(s) ==
  \E d \in Deposits :
    /\ Idle(s) /\ ExpireWaiting(s, d)
    /\ logging' = [logging EXCEPT ![s] = ToLog(d, deposit' # deposit)]
    /\ UNCHANGED <<log, counter, made>>

LogExpired(s) ==
  /\ ~Idle(s)
  /\ \/ Append1(logging[s], Entry("waiting", "expired")) /\ UNCHANGED <<budget, scan, pc>>
     \/ /\ Spend("faults") /\ Goto(s, "idle")
        /\ scan' = [scan EXCEPT ![s] = NoScan] /\ UNCHANGED log
  /\ logging' = [logging EXCEPT ![s] = NoDeposit]
  /\ UNCHANGED <<now, db, memory, lock, job, node, counter, made>>

Release(s) ==
  /\ ReleaseRow(s)
  /\ Append1(job[s].deposit, Entry("locked", "expired"))
  /\ UNCHANGED <<logging, counter, made>>

ShortOf(b) == Total(Attached(b)) < Target[b]

Partial(s) ==
  LET i == Home[s] b == job[s].basket IN
  /\ CompletePartial(s)
  /\ IF record' # record
       THEN /\ log' = CompletionLog(b, Attached(b), {})
            /\ counter' = Counted(i, ShortOf(b))
            /\ made' = Made(i, ShortOf(b))
       ELSE /\ \/ UNCHANGED counter
               \/ ~Answered /\ CanComplete(b, Attached(b))
                  /\ counter' = Counted(i, ShortOf(b))
            /\ UNCHANGED <<log, made>>
  /\ UNCHANGED logging

\* Closing a basket logs the basket, not the deposits that expire with it.
CloseLog(changed)     == IF changed THEN Entry("waiting", "expired") ELSE <<>>

Close(s) ==
  /\ ExpireBasket(s)
  /\ Append1(job[s].basket, CloseLog(basket' # basket))
  /\ UNCHANGED <<logging, counter, made>>

\* The counters are in memory.
Stop(i) ==
  /\ Crash(i)
  /\ logging' = [s \in Scanners |-> IF Home[s] = i THEN NoDeposit ELSE logging[s]]
  /\ counter' = [counter EXCEPT ![i] = Metrics]
  /\ made' = [made EXCEPT ![i] = NoRecords]
  /\ UNCHANGED log

\* What Matching does without writing anything down; the loop over the waiting
\* deposits goes on once the last one is logged.
Unnoted(s) ==
  \/ ListWaiting(s) \/ (Idle(s) /\ (ListLocked(s) \/ EndScan(s)))
  \/ \E d \in Deposits : TakeLocked(s, d)
  \/ \E b \in Baskets : TakeBasket(s, b)
  \/ ListBaskets(s) \/ ReleaseFails(s) \/ ForgetDeposit(s)
  \/ CannotComplete(s) \/ DropBasket(s)

JournalNext ==
  \/ \E h \in Handlers :
       \/ Complete(h) \/ Attach(h) \/ Fail(h) \/ Create(h)
       \/ (Request(h) \/ SaveDeposit(h) \/ MatchPending(h) \/ AddBasket(h)) /\ Quiet
  \/ \E s \in Scanners :
       \/ Expire(s) \/ LogExpired(s) \/ Release(s) \/ Partial(s) \/ Close(s)
       \/ Unnoted(s) /\ Quiet
  \/ \E p \in Procs : Lock(p) /\ Quiet
  \/ \E i \in Instances : Stop(i) \/ (Restart(i) /\ Quiet)
  \/ (LockExpires \/ Tick) /\ Quiet

JournalSpec == JournalInit /\ [][JournalNext]_allVars

(***************************************************************************)
(* Properties                                                              *)
(***************************************************************************)
\* The log of a basket tells its whole life: it ends in the status of the row, each
\* entry starts where the one before ended, and a race for the last status leaves no
\* entry of the loser (createStateLogTx in createBasketLocked, expireBasket,
\* persistCompletedMatch).
BasketLogTrue ==
  \A b \in Baskets :
    /\ (log[b] = <<>>) <=> (basket[b].status = "absent")
    /\ log[b] # <<>> => log[b][1].from = "absent" /\ Last(log[b]).to = basket[b].status
    /\ \A k \in 2..Len(log[b]) : log[b][k].from = log[b][k - 1].to

\* A deposit has one entry of having been matched exactly when a record holds it,
\* whichever deposit completed the basket (persistMatchedDeposit).
MatchesLogged ==
  \A d \in Deposits :
    Cardinality({k \in DOMAIN log[d] : log[d][k].to = "matched"}) = (IF d \in Recorded THEN 1 ELSE 0)

\* No record goes uncounted, although a commit may succeed without its answer: since
\* its start a process has counted at least what it has committed (IncMatchSuccess).
SuccessCounted ==
  \A i \in Instances :
    /\ made[i].full + made[i].short <= counter[i].success
    /\ made[i].short <= counter[i].short

\* The expiry of a deposit is logged at most once, whichever scans race for it, and
\* only of one that has expired; once, too, as long as no statement has failed and no
\* process crashed, unless it expired with its basket or its entry is about to be
\* written (expireWaitingDeposits, expireLockedDeposit).
Expiries(d) == Cardinality({k \in DOMAIN log[d] : log[d][k].to = "expired"})
WithBasket(d) == deposit[d].basket # NoBasket /\ basket[deposit[d].basket].status = "expired"
Undisturbed == budget.faults = Budget.faults /\ budget.crashes = Budget.crashes

ExpiriesLogged ==
  \A d \in Deposits :
    /\ Expiries(d) <= 1
    /\ Expiries(d) = 1 => deposit[d].status = "expired"
    /\ /\ deposit[d].status = "expired" /\ ~WithBasket(d) /\ Undisturbed
       /\ \A s \in Scanners : logging[s] # d
       => Expiries(d) = 1

\* What the service has written down is what it has done.
NotesTrue == BasketLogTrue /\ MatchesLogged /\ SuccessCounted /\ ExpiriesLogged
===============================================================================
