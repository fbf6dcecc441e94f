------------------------- MODULE MatchingProperties -------------------------
(***************************************************************************)
(* What the matching use case promises: agreement of the pool with the     *)
(* rows, the money of a basket, and the life of deposits and baskets.      *)
(***************************************************************************)
EXTENDS Matching

\* No goroutine of i stands between a commit and its update of the pool.
Settled(i) ==
  /\ boot[i] = "up"
  /\ \A p \in Procs : Home[p] = i => pc[p] \notin {"index", "forget", "drop"}

\* The pool of an instance mirrors the database: its baskets are the waiting
\* rows, with the amount and the attached deposits the rows show.  A failed
\* transaction, a crash or an interleaved scan must not make them drift apart
\* (MatchDepositWithCommit, ReleaseDeposit, RemoveBasket, restoreBasket).
PoolMirrorsRows ==
  \A i \in Instances : Settled(i) =>
    \A b \in Baskets :
      IF basket[b].status = "waiting"
        THEN mem[i][b] = [in |-> TRUE, current |-> basket[b].current, deposits |-> Attached(b)]
        ELSE ~mem[i][b].in

\* current_amount of a waiting basket is the sum of its attached deposits, and
\* a match record's amount the sum of the deposits recorded with it, although
\* attaching overwrites the amount with what the pool computed and releasing
\* subtracts from the row (persistAttachedDeposit, expireLockedDeposit).
LedgerBalanced ==
  \A b \in Baskets :
    /\ basket[b].status = "waiting" => basket[b].current = Total(Attached(b))
    /\ record[b].made => record[b].amount = Total(record[b].deposits)

\* A deposit is only attached while current_amount + amount <= target_amount:
\* what is attached to a basket, or recorded for it, never exceeds its target.
NeverOverfilled ==
  \A b \in Baskets :
    /\ Total(Attached(b)) <= Target[b]
    /\ Total(record[b].deposits) <= Target[b]

\* A locked deposit has an attached detail in the waiting basket it names; the
\* timeout scan fails on a locked deposit without one (expireLockedDeposit).
NoOrphanedLock ==
  \A d \in Deposits : deposit[d].status = "locked" =>
    /\ detail[d] = [status |-> "attached", basket |-> deposit[d].basket]
    /\ basket[deposit[d].basket].status = "waiting"

\* The two tables that say which deposits a basket was matched with agree, and
\* a deposit is matched in at most one record (persistCompletedMatch lists the
\* deposits from the pool, but updates the details by basket number).
RecordsAgree ==
  \A b \in Baskets :
    /\ record[b].made <=> basket[b].status = "matched"
    /\ record[b].deposits = {d \in Deposits : detail[d] = [status |-> "matched", basket |-> b]}

\* Released money is not matched: a deposit whose detail was released is expired
\* and in no record, although pools may have listed it (expireLockedDeposit,
\* expireBasket).
ReleasedNotMatched ==
  \A d \in Deposits : detail[d].status = "released" =>
    deposit[d].status = "expired" /\ d \notin Recorded

\* A record short of the target was made for an expired basket and reaches the
\* minimum; any other record is exact (completeExpiredBasket, bestCompletable).
ShortOnlyAfterTimeout ==
  \A b \in Baskets : record[b].made /\ record[b].amount # Target[b] =>
    basket[b].expire <= now /\ record[b].amount >= MinAmount(b)

\* A detail is attached only while its basket waits: closing a basket, matched
\* or expired, leaves no deposit attached to it, whoever closes it.
AttachedOnlyToWaiting ==
  \A d \in Deposits : detail[d].status = "attached" =>
    basket[detail[d].basket].status = "waiting"

\* A deposit is recorded for at most one basket, and a matched deposit is
\* recorded for the basket its row names (uk_deposit_no of match_record_deposit,
\* persistMatchedDeposit), whatever the pools of the instances say.
MatchedOnce ==
  /\ \A b, c \in Baskets : b # c => record[b].deposits \cap record[c].deposits = {}
  /\ \A d \in Deposits : deposit[d].status = "matched" =>
       d \in record[deposit[d].basket].deposits

\* At most one goroutine of all instances is in a section of the shard.
OneHolder ==
  \A p, q \in Procs : pc[p] \in Critical /\ pc[q] \in Critical => p = q

\* Failing statements, lost unlocks, a crash and a recovery leave all of this as it was.
FaultSafe == PoolMirrorsRows /\ LedgerBalanced /\ NoOrphanedLock /\ OneHolder

\* The sections implement the mutual exclusion that ShardLock implements too: the
\* lock of this module is that one, seen from its callers (withShardLock).
Shard == INSTANCE Mutex WITH Callers <- Procs, inside <- {p \in Procs : pc[p] \in Critical}
SectionsExclude == Shard!Spec

\* Every deposit counted in a record is itself matched: a deposit that timed out
\* is not matched ("the deposit is not waiting for a match", shard.go:97).
RecordedAreMatched ==
  \A d \in Recorded : deposit[d].status = "matched"

\* A deposit is attached to wait only when no waiting row of the shard could be
\* completed with it: reaching target_amount exactly matches at once.
CompletionFirst ==
  [][ \A d \in Deposits : detail[d].status = "none" /\ detail'[d].status = "attached" =>
        \A b \in Baskets : basket[b].status = "waiting" =>
          basket[b].current + Amount[d] # Target[b] ]_vars

\* A deposit is left pending only when no waiting row has room for it: a basket
\* that was created is found by every later deposit (createBasketLocked).
PendingWithoutRoom ==
  [][ \A i \in Instances, d \in Deposits, b \in Baskets :
        d \in pending'[i] \ pending[i] /\ basket[b].status = "waiting"
          => basket[b].current + Amount[d] > Target[b] ]_vars

\* Final rows stay as they are: no scan, retry or second instance revives a
\* matched or expired order, re-attaches a released deposit, or changes a record.
FinalRowsStay ==
  [][ /\ \A d \in Deposits :
           /\ deposit[d].status \in {"matched", "expired"} => deposit'[d] = deposit[d]
           /\ detail[d].status \in {"matched", "released"} => detail'[d] = detail[d]
      /\ \A b \in Baskets :
           /\ basket[b].status \in {"matched", "expired"} => basket'[b] = basket[b]
           /\ record[b].made => record'[b] = record[b] ]_vars

\* An order that is past its deadline is eventually closed by the scans, whatever
\* requests, failed statements and crashes come in between.
DueDepositsClose ==
  \A d \in Deposits :
    deposit[d].status \in {"waiting", "locked"} /\ deposit[d].expire <= now
      ~> deposit[d].status \in {"expired", "matched"}

DueBasketsClose ==
  \A b \in Baskets :
    basket[b].status = "waiting" /\ basket[b].expire <= now
      ~> basket[b].status \in {"expired", "matched"}
=============================================================================
