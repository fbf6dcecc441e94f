# TLA+ models of the matching service

The service matches *deposits* against *withdraw baskets* of the same payment
channel and currency. A deposit fills a basket exactly, or waits in it, or is
left pending; deposits and baskets have deadlines that a periodic scan enforces.
This directory holds specifications of that behaviour, written from the Go
sources (`src/` below), the TLC configurations that check them on small instances,
and TLAPS proofs of properties that hold for every instance.

## 1. The system

| Part | Source | State | Operations |
|---|---|---|---|
| Matching use case | `internal/biz/matching.go` | MySQL rows: deposits, baskets, basket details, match records; the map of shards | `SubmitDeposit`, `CreateBasket`, `ExpireTimeouts`, `RecoverActiveBaskets`, event handlers, queries |
| Engine | `internal/engine` | per shard: the pool of baskets, the need index, `PendingDeposits` | `AddBasket`, `RemoveBasket`, `ReleaseDeposit`, `MatchDepositWithCommit` |
| Shard lock | `pkg/toolbox/redisx/lock.go` | a Redis key per `channel:currency` with a TTL and a random token | `WithLock` |
| Event inbox | `internal/data/event_inbox_repo.go` | one row per `event_id`: processing, succeeded, failed | `TryCreateProcessing`, `GetByEventID`, `RetryFailed`, `MarkSucceeded`, `MarkFailed` |
| Message consumers | `pkg/toolbox/mqx/consumer.go`, `internal/service/consumer.go`, `internal/server/mq.go` | the batch in hand, the workers of a pool | receive, handle, acknowledge |
| Message producers | `internal/server/mqProducer.go`, `pkg/toolbox/mqx/producer.go` | none | `SendDeposit`, `SendWithdraw`, `SendRaw` |
| Replay tool, numbers | `cmd/matching-tools`, `pkg/toolbox/idx` | a counter of the process | send a dead message again; make an order number |
| Timeout worker | `internal/server/worker.go` | none | calls `ExpireTimeouts` on a ticker |
| gRPC service | `internal/service/matching.go`, `internal/server/grpc.go` | none | validate, call the use case, map errors and replies |
| Process | `cmd/matching-service`, `internal/server`, `internal/conf` | which servers run, which connections are open | `wireApp`, recovery, `App.Run`, signals, `Stop` |
| State log, metrics, health | `state_log_repo.go`, `internal/server/metrics.go`, `health.go` | `match_state_log` rows, counters | entries and counts of the use case, `CheckHealth` |
| Logging, tracing | `pkg/toolbox/logx` and others | none that anything reads | section 8 |

How they interact. gRPC requests and messages end in `SubmitDeposit` or
`CreateBasket`. Both, and every item of the last two scan phases, run inside
`withShardLock`, which the Redis lock serialises over all instances; the first
scan phase does not take the lock. Inside a section, decisions are made on the
in-memory pool of the instance and committed in one MySQL transaction; the pool
is changed after the commit. The pool is filled from MySQL when an instance
starts, and afterwards only by the instance's own operations. Queries read the
rows without a lock. A message passes the inbox before it reaches the use case;
it was written by a producer or by the replay tool, and is grouped by its shard.

What is hard about it:

- the pool is a cache: the commit and the update of the pool are two steps, a
  transaction may fail, a process may crash in between, and the commits of other
  instances never reach it;
- the scan works on lists it read earlier and without the lock; so do the queries;
- the lock is a key that can expire, whose requests and unlock scripts can be late,
  lost or repeated;
- messages are delivered at least once, to any consumer, while an earlier delivery
  may still be worked on; the order within a shard is meant to be kept, and deposits and
  withdraws of a shard travel in two topics;
- orders come by two ways, of which only one has a validator, and come again with
  other contents, of which some tables take the first and some the last;
- the index finds candidates through three structures that must stay consistent
  over any sequence of operations;
- the map of shards is shared by goroutines that hold different locks;
- the state log and the counters are written by statements of their own;
- the servers of a process start at once and may be stopped while they still
  connect, one that cannot start stops or ends the process, and none must serve before
  the recovery.

What makes the parts correct: money is conserved and never exceeds a target; the
two tables that record a match agree; a deposit is matched at most once; closed
orders stay closed, for those who asked too; the pool shows what the rows show;
expired orders are eventually closed; the lock excludes; an event is worked on by
one consumer and applied once; messages of a topic are handled in order, acknowledged
when handled, and all leave the queue; what is sent is what is taken; the index finds
what a search of the whole pool finds; the minimum of a short match is the
configured share; rows, answers, log and counters tell one story; a process serves
only what it has recovered, and can be stopped.

## 2. The modules

| Module | What it is |
|---|---|
| `Matching` | the use case with pool, rows, lock, scans, crash and recovery: the core |
| `MatchingProperties` | its invariants, action properties and liveness properties |
| `MCMatching` | the small instances of `Matching` for TLC |
| `MatchingProofs` | theorems about the rows and the lock of `Matching`, for any number of instances |
| `PoolProofs` | theorems about the pool and the money of `Matching`, for one process |
| `Journal`, `MCJournal` | `Matching` together with the state log and the counters of matches |
| `JournalProofs` | theorems about the log and the counters |
| `Queries`, `MCQueries` | `Matching` together with the queries and the manual scan |
| `QueriesProofs` | theorems about what clients are told |
| `Mutex` | the abstract mutual exclusion that the shard lock promises |
| `ShardLock`, `ShardLockProofs` | the Redis lock; refines `Mutex` |
| `Pool` | the abstract pool: which basket a deposit is matched with |
| `EngineShard`, `MCEngineShard` | the engine with its need index; refines `Pool` |
| `EngineShardProofs` | theorems about the index, and the refinement |
| `EventConsumer`, `MCEventConsumer` | the handlers of messages over the event inbox |
| `EventConsumerProofs` | theorems about the inbox |
| `ConsumerLoop` | the receive loops, serial or with a pool of workers |
| `EventMessage` | encoding, addressing, delay, DLQ and replay of a message |
| `OrderNumbers` | the numbers of deposits that come without one |
| `Intake` | validation, repeated orders, amounts and answers |
| `Lifecycle` | assembly, recovery, start and stop of a process |
| `Health` | the health check, over dependencies that go down and come back |
| `ShardMap` | the map of `getShard` under several goroutines |
| `MinComplete` | the minimum of a short match in integers of a fixed width |
| `Service`, `MCService` | the eight modules from `ConsumerLoop` to `MinComplete` side by side, and an instance for TLC |
| `SurroundProofs` | theorems about the modules of `Service` |

How they hang together. `Matching` uses the lock through its effect only
(`Acquire`, `AcquireFails`, `Unlock`, `LockExpires`) and the engine through its
choice (`BestCompletable`, `BestAcceptable`). `Mutex` ties the first pair together:
`ShardLock` refines it, and so do the sections of `Matching`. `EngineShard` looks at
the second in detail, and shows through `Pool` that the index gives the choice
`Matching` makes when the limit of the lookups is not reached. `Journal` and
`Queries` are compositions: each of their steps is a step of `Matching` with what
the same function writes down, or a call beside it. `EventConsumer` has what a
handler does, `ConsumerLoop` the order in which handlers run, `EventMessage` what
they are given. The modules that `Service` brings together (`INSTANCE`) share no state:
a behaviour moves one of them, named by `part`, and the others stay where they began.
One run with eight small graphs in it takes the place of eight runs; the theorems are
about each of them (`Requests!Spec`, `Loop!Spec`, ...).

### Matching and the code

One step is one database statement or transaction, one update of the pool, or
one attempt on the lock. The variables:

| Variable | Code |
|---|---|
| `deposit`, `basket` | rows of `match_deposit_order`, `match_withdraw_basket` |
| `detail` | rows of `match_basket_deposit`; its unique key on `deposit_no` makes it a function of the deposit |
| `record` | `match_record` with its `match_record_deposit` rows |
| `mem`, `pending` | `Shard.Baskets` and `Shard.PendingDeposits` of every instance |
| `lock` | who holds the shard key |
| `pc`, `job`, `scan` | where a goroutine is, its request or item, and the lists a scan has read |
| `boot`, `load` | whether an instance is up, and what its recovery has listed |
| `budget`, `now` | the bounds of an instance of the model, and the clock |

| Operation | Actions |
|---|---|
| `SubmitDeposit` | `Submit`, `Acquire`, `SaveDeposit`, then `MatchComplete`, `MatchAttach`, `MatchFails` or `MatchPending`, `Unlock` |
| `CreateBasket` | `RequestBasket`, `Acquire`, `InsertBasket`, `AddBasket`, `Unlock` |
| `expireWaitingDeposits` | `ListWaiting`, `ExpireWaiting` |
| `expireLockedDeposits` | `ListLocked`, `TakeLocked`, `Acquire`, `ReleaseRow` or `ReleaseFails`, `ForgetDeposit`, `Unlock` |
| `expireBaskets` | `ListBaskets`, `TakeBasket`, `Acquire`, `CompletePartial` or `CannotComplete`, `ExpireBasket`, `DropBasket`, `Unlock`, `EndScan` |
| start | `Crash`, `ListActive`, `RestoreBasket`, `Recovered` |
| `GetDeposit`, `GetBasket` (`Queries`) | `Ask`, `GetDeposit`, `GetBasket`, `CallFails` |
| `GetMatch` (`Queries`) | `Ask`, `GetMatch` (the record), `ListDeposits` (its deposits) |
| `ExpireTimeouts` with `now_unix` (`Queries`) | `ManualScan`, then the steps of a scan |

A match is one step with its pool update because the mutex of the shard is held
over the commit callback. `ReleaseDeposit`, `AddBasket` and `RemoveBasket` run
after their transactions, so each is a step of its own. A scan holds the lists it
read (`scan`), with the amounts it saw, exactly because the code does.

A failing statement is any transaction or statement that may return an error
(`Spend("faults")`); the code's error path follows. A *lost* commit is one that
happened although the driver reported an error (`Spend("lost")`).

`Journal` adds `log` (the entries of each order), `logging` (the entry that
`expireWaitingDeposits` has still to write, since that is a statement of its own),
and `counter`. The entries of a transaction are part of the step that commits it;
counters go up in the commit callback, so a commit that fails may have counted.
`made` is history: what the counters are compared with.

### The modules around it

`ShardLock` keeps the value and the remaining TTL of the key, and for every
caller the age of its grant. Time is relative, so its graph is finite without a
bound on the clock. `Unseen` is a `SET NX` whose answer the client library did not
see and sends again, `LateSetNX` one that Redis executes after its caller has
gone, and an unlock script in `evals` may be executed any number of times.

`EngineShard` has the three structures of `BucketNeedIndex` (`needs`, `buckets`,
`lookup`). A lookup walks Go maps, whose order is random, and stops at `Limit`, so
`FindCompletable` and `FindAcceptable` are the *sets of candidates the code may
return*. The sort of the candidates is stable over a random order: ties are
free. `Pool` says the same without an index: an exact fit before a wait, the
tightest basket first, and among equals the earliest, as far as the limit lets
anyone look.

`EventConsumer` has the broker's view of every message, the inbox row of every
event, and for every serial consumer loop its batch and next call. The handler's
work is one step that succeeds, fails or panics. The broker is external: it hides a
delivered message, shows it again or moves it to the DLQ, and ignores the receipt
of an earlier delivery.

`ConsumerLoop` has the loops with their modes: `Receive`, `Begin` (a handler is
called, or `Submit` finds a worker), `Succeed` and `Fail` (`consumeMessage` returns).
Its messages are those of one channel and currency, numbered as they were sent.
`SendDeposit` and `SendWithdraw` send to two topics (`mqProducer.go:57`, `:67`), and a message
group gives an order within a topic only (`src/README.md:113`): `Batches` takes the
earliest visible messages of *one* topic, and holds a topic back while a message of it is
hidden, but not the other. A withdraw may thus be handled before a deposit that was sent
earlier, by the same loop or another. The handler is found by topic and tag (`TopicKey`). A
message may have a tag that nobody configured, when its topic is subscribed without
one: `ignoreConsumer` acknowledges it.

`EventMessage` follows one message from the fields of an order through its JSON
(`ToPB`, `Envelope`) to the handler (`Decodable`, `FromPB`), through delay levels,
failing attempts and the DLQ, and back by `Replay`. A time is either absent or an
object; that is all the decoder tells apart.

`OrderNumbers` has `idx.New` as it is, a second and a counter cut to `Modulus`,
and `saveDepositIfNeeded`, which takes an existing row for the same deposit.

`Intake` runs one operation at a time, and is about what requests *say*: each passes
`SubmitDepositRequestValid` or `CreateBasketRequestValid` when it came over gRPC, and
`ValidateDeposit` or `ValidateBasket` in any case. A deposit that is known keeps its
row, while the match goes on with the request: the detail and `matched_amount` have the
amount of the request, the line in `match_record_deposit` that of the row (`Lines`,
`matching.go:650-655`). The statuses and amounts of messages are taken as they are, also a
number that is sent for two shards or as locked; a release looks for the basket in the
shard of the deposit row (`Found`).

`Lifecycle` takes a configuration apart into sections and fields, of which any may
be missing. `wireApp` is its chain of constructors; `Start`, `Stop` and `Drain` are
called by Kratos, which is external; `Begin` and `End` are work in the use case on
behalf of a server. `App.Run` calls every `Start` in a goroutine of its own with a context that
nothing cancels, so each is "starting" until `Start` or `StartFails`, in whatever order,
and also after a signal: `Stop` may find it in any state. `StartFails` is a broker
that does not answer, or a port in use; that of the consumers is `logx.Fatalf`
(`consumer.go:44-53`) and ends the process, any other makes Kratos stop the rest.
`App.Run` never returns (see section 7), so nothing after it is in the model.

`Health` is `CheckHealth`: `CheckBegins`, `AskNext` for each dependency, `TimesOut` when the five
seconds are over, and `Outage`.

`ShardMap` splits `getShard` into its three accesses of the map. An access that
overlaps a write has raced: it may end the process (`Throw`, the Go runtime's fatal
error), miss a key, or lose a write. `overlapped` remembers that it has happened.

`MinComplete` computes in integers of `2 * Half` values: `Wrap` is what a width does
to a product, `Quotient` Go's division.

## 3. The runs

| Run | Instance | Question and result |
|---|---|---|
| `matching_core` | 1 instance, 3 deposits (1, 1, 2), 2 baskets (3, 2), 5 requests | Do money, pool and tables agree, and are the matching and timeout rules kept, in every interleaving of requests and the scan? Yes: seven invariants, two action properties. 891,158 states |
| `matching_faults` | `Journal`: 1 instance, 2 scans (the periodic and a manual one), 2 deposits, 1 failing statement or lost unlock, 1 crash | Do pool, rows and lock still agree through failures, crash and recovery, and do state log and counters tell what was done? Yes. 563,649 states |
| `matching_two_instances` | 2 instances, 2 deposits, 1 lost commit, 1 crash | What do the conditions of the SQL statements still guarantee when the pools are stale? A closed basket keeps no attached deposit, nothing is matched twice, closed rows stay closed, sections exclude. 1,076,029 states |
| `matching_liveness` | 1 instance, 1 scan, 2 deposits, 2 baskets, `ScanLimit` 1, `BasketLimit` 1, 1 fault, 1 crash | Is every order past its deadline closed, also the basket that the recovery left out of the pool? With one instance, yes. 68,023 states |
| `shard_lock` | 2 callers, 2 calls each, TTL 3, sections up to 2, 1 lost answer | Does the lock exclude, and does every waiting call end? Yes. 34,507 states |
| `engine_shard` | 3 baskets, 3 deposits, limit 2 | Does the index stay exact, and is the choice the abstract one? Yes. 7,102 states |
| `event_consumer` | 2 consumers, 2 messages of 1 event, 2 deliveries each, batches of 2, 2 faults | One worker, applied once, never acknowledged unseen, success is final, every message leaves. Yes. 37,962 states |
| `queries` | 1 client, 1 instance, 2 deposits, 1 basket, 3 requests, 1 scan also by hand | Are answers whole, and does no answer take back what an earlier one called over? Yes. 881,088 states |
| `service` | intake: 10 good, repeated and misused requests and 10 invalid ones, 2 shards, 4 requests in a behaviour; process: 10 configurations; health: 2 checks, 1 outage; map: 2 keys, 3 goroutines; loops: 2 consumers, 3 messages in 2 topics, both modes, 2 workers, batches of 2, 2 deliveries, 1 failing message; form: 3 orders, 3 delay levels, 2 messages; numbers: 1 instance, 3 events, counter modulo 5; share: 28-bit integers | Do rows, records, lines and answers agree whatever is requested; does the process serve only what it recovered, and get every Stop back; is a shard given to one request at a time; are messages of a topic handled in order, acknowledged when handled, and do all leave; is what is sent what is taken; has every deposit an order; is the minimum the configured share? Yes, as far as section 7 says. 192,223 states |
| `expired_deposit` | 1 instance | violated, finding 1 |
| `overfill` | 2 instances | violated, finding 2 |
| `record_lines` | `service`, with proper orders and deposits sent again with another amount | violated, finding 3 |

Some invariants are conjunctions of parts, each with its own comment in its
module, so that one run speaks of them together:

| Invariant | Parts |
|---|---|
| `FaultSafe` | `PoolMirrorsRows` (the pool shows the rows, except between a commit and its update), `LedgerBalanced` (a basket's amount is the sum of its attached deposits), `NoOrphanedLock` (a locked deposit is attached), `OneHolder` |
| `NotesTrue` | `BasketLogTrue` (the log of a basket is a chain that ends in its status), `MatchesLogged`, `SuccessCounted` (no record goes uncounted), `ExpiriesLogged` (at most once, and exactly once when nothing failed) |
| `FormKept` | `TakenAsSent`, `FormAccepted` (a producer's message is never refused for its form), `GroupedByShard` |
| `IntakeTrue` | `RowsSane`, `SameShard`, `CurrentFromDetails`, `RecordSumsDetails`, `LinesAddUp`, `LockedIsAttached`, `PositiveAnswerTrue` |
| `ProcessSafe` | `RecoveredFirst`, `HealthTrue` |
| `MapSafe` | `ShardsExclusive` (no two goroutines are given one shard, whatever has overlapped), `OneShard` (until accesses overlap, a key keeps its shard), `StaysClosed` (when each key has its shard and what overlapped is through, nothing overlaps again) |

`Intake` says of each part what it depends on: the sums of a basket on `Proper` (it started
empty, and its deposits so far are rows of its shard), the sum of the lines besides on
`KeepsAmount` of their deposits, `SameShard` on `KeepsShard`, `LockedIsAttached` on
`NotSentLocked`. These speak of single numbers, and all are violated by requests of the run:
what is claimed is that a misused number disturbs no order but the ones it is in.

Bounds. Amounts are chosen for their sums: with targets 3 and 2 and deposits 1, 1
and 2 a deposit can complete, wait, be refused for room, and prefer one basket to
the other, and a basket can be short with and without reaching its minimum (the
rate is one half; the default of 30 % makes the same cases with larger numbers).
Two deadlines and two clock values give orders that are due, and orders that are
not yet due but may be created. `Budget` limits requests, faults, lost commits and
crashes; five requests are enough to create both baskets and submit every
deposit. `ScanLimit` 2 lists all that can be due at once in the runs with two
deposits, and makes a scan of three take two rounds; `ScanLimit` 1 and
`BasketLimit` 1 in the liveness run make scans work in batches and a recovery leave
a basket out. The symmetry of `matching_core` exchanges the two deposits of equal
amount. `MaxCalls`, `MaxLost`, `MaxAttempts` and `MaxFaults` are small but large
enough for a late request or script of a first call to meet a second call, and for
a second delivery to meet the first. Two messages of three are in one topic: they come
in one batch or in two, one failing message lets the other overtake it, and the third, of the
other topic, comes before, between or after. With workers all three are in one topic, so
batches are cut. The counter of `OrderNumbers` wraps after 5 instead of
1,000,000, more than the 4 numbers that three events and a retry can ask for in a
second. `MaxRequests` 4 is enough for a basket, two deposits in it and the repetition of
one with another amount or for another shard; the misused and the invalid requests take
the place of one of them. Three goroutines over two keys give a writer, a reader of the
other key, and a third that finds a lock taken; `MaxShards` 3 allows a shard for a key
whose first one went lost. `Half` is 2^27 because TLC's own integers
have 32 bits; the targets include the largest that does not overflow (13420, for
2^63 it is about 9.2 * 10^14), and the rates 0, 3333, 10000 and 20000 the default, a
share that must be rounded, the whole, and one that is cut.

Deadlock is not checked where a bound can stop the model: when the requests and
the clock are used up (`Matching`, `Journal`, `Queries`, `Intake`), the calls or the checks are
(`ShardLock`, `Health`), every message has left (`ConsumerLoop`, `EventMessage`), or a
process has exited or thrown (`Lifecycle`, `ShardMap`).

## 4. Fairness

- `Matching`: a goroutine that has started keeps running (`Serve`, `Scan`,
  `Unlock`), a waiting goroutine retries `SetNX` every 100 ms (`Acquire`), a
  crashed process is restarted (`Restart`), a key nobody uses expires
  (`LockExpires`), time passes, and the worker's ticker starts the next scan (part
  of `Scan`). Only weak fairness is asked for, and nothing of the order in which
  waiting goroutines get the lock. Requests, faults and crashes are not fair: they may
  stop at any time.
- `ShardLock`: retries, the end of a section, and time. Scripts and late requests
  need not ever arrive.
- `EventConsumer` and `ConsumerLoop`: the loops go on, a handler that runs returns
  (one way or the other), and the broker shows a hidden message again. That the
  handler's work ends is what `WaitEnds` of `ShardLock` and the bounded sections give.
- `Lifecycle`: when it stops, Kratos calls every `Stop`, the gRPC server drains, and a gRPC
  call in progress ends. Nothing is asked of any `Start`, of the loops or the ticker:
  they may be going on for ever. Signals, requests and messages are not fair.

## 5. What is proved

TLAPS proves the following for every value of the constants: any number of
goroutines, clients, messages, orders, amounts and bounds, and any number of instances
unless the statement has a hypothesis. Every safety property that a run checks is
proved, with the hypotheses given.

| Theorem | Statement |
|---|---|
| *Rows and lock, `MatchingProofs`* | |
| `TypeCorrect` | `Spec => []TypeOK` |
| `AttachedCorrect` | `Spec => []AttachedOnlyToWaiting` |
| `MatchedOnceCorrect` | `Spec => []MatchedOnce` |
| `FinalCorrect` | `Spec => FinalRowsStay` |
| `OneHolderCorrect` | `Spec => []OneHolder` |
| `SectionsCorrect` | `Spec => SectionsExclude`: `Matching` refines `Mutex` |
| *Money and pool, `PoolProofs`* | |
| `LedgerCorrect` | `OneProcess /\ Spec => [](NoCommitLost => LedgerBalanced)` |
| `FillCorrect`, `LockedCorrect`, `RecordsCorrect`, `ReleasedCorrect` | the same for `NeverOverfilled`, `NoOrphanedLock`, `RecordsAgree`, `ReleasedNotMatched` |
| `MirrorCorrect`, `FaultCorrect` | the same for `PoolMirrorsRows` and `FaultSafe`, with `RecoversAll` |
| `CompletionCorrect`, `PendingCorrect` | `OneProcess /\ RecoversAll /\ NoneCanBeLost /\ Spec => CompletionFirst`, and `PendingWithoutRoom` |
| `ShortCorrect` | `Spec => []ShortOnlyAfterTimeout` |
| *Log and answers* | |
| `NotesCorrect` (`JournalProofs`) | `JournalSpec => []NotesTrue` |
| `JournalImplements` (`JournalProofs`) | `JournalSpec => Spec`: `Journal` refines `Matching` |
| `NeverToldBackCorrect` (`QueriesProofs`) | `QueriesSpec => NeverToldBack` |
| `ReplyCorrect` (`QueriesProofs`) | `OneProcess /\ QueriesSpec => [](NoCommitLost => MatchReplyWhole)` |
| *Engine, `EngineShardProofs`* | |
| `IndexCorrect` | `Spec => []IndexExact` |
| `EngineFindsTheBest` | `Spec => FindsTheBest`: `EngineShard` refines `Pool` |
| *Redis lock, `ShardLockProofs`* | |
| `KeyKept` | `Spec => []SectionKeepsKey` |
| `LockExcludes` | `Spec => Excludes`: `ShardLock` refines `Mutex` |
| *Inbox, `EventConsumerProofs`* | |
| `OneWorkerCorrect`, `AppliedCorrect`, `AckedCorrect` | `Spec => []OneWorker`, `AppliedOnce`, `AckedIsKnown` |
| `SucceededCorrect` | `Spec => SucceededFinal` |
| *What surrounds the matching, `SurroundProofs`* | |
| `LoopCorrect` | `Loop!Spec => [](AckedWasHandled /\ FirstTriesInOrder)` |
| `FormCorrect` | `Form!Spec => []FormKept` |
| `NumbersCorrect` | `OneNumbering /\ Numbers!Spec => []OrderOfItsOwn` |
| `IntakeCorrect` | `Requests!Spec => []IntakeTrue` |
| `ProcessCorrect` | `Process!Spec /\ Health!Spec => []ProcessSafe` |
| `MapCorrect` | `Map!Spec => MapSafe` |
| `ShareCorrect`, `ReachableCorrect` | if `Representable`, `Spec => []ShareDecides`, and `[]Reachable` |

Hypotheses. Each excludes a behaviour of the code in which the property can fail, and
where section 7 knows the reason it is named.

- `OneProcess`: one instance serves the shard. With two, `NeverOverfilled` is violated
  (finding 2), and pools are stale.
- `NoCommitLost`: no transaction has committed although the driver reported an
  error. After one that did, the pool is behind the rows until the process restarts, and
  the next match decides on it. The hypothesis stands inside the box: it is about
  the commits so far, so what is promised holds up to the first one that is lost.
  `NoneCanBeLost` says it of the whole behaviour, which action properties need.
- `RecoversAll`: the limit of the recovery's query is no smaller than the number of
  baskets; else baskets stay out of the pool.
- `OneNumbering`: one process at a time that restarts in a later second, and fewer
  events and failures than the counter has values, since after as many a number comes again.
- `Representable`: no target times 10000 plus 9999 exceeds the width.

Assumptions are those the modules name. Amounts and targets are positive
(`validateDeposit`, `validateBasket`). `Total` is a sum, in `Matching` over the amounts of
deposits, in `Intake` over a function of deposits (`TotalAssumption`: natural, 0 for
none, one summand more for one element more); it is an operator parameter because a sum
over a set is defined by recursion, and it makes `Deposits` finite. The TTL is longer than a section
(`TTLAssumption`, what `configs/config.yaml:68` asks for). In `Matching` the same
assumption is the guard `Abandoned` of `LockExpires`: only a key that no running section
needs expires. Sets that are counted (messages of `EventConsumer`, deposits of
`EngineShard`) are finite.

The arguments:

- *Types.* `TypeInv` adds to `TypeOK` that the constants have their types and that
  a goroutine at a step has the request that step works on; without it the
  steps of a section would index rows with "no deposit".
- *Rows.* The first part of the proof maps every step to one of eight things that
  can happen to the database (`DbStep`), with the conditions of the SQL
  statements as their only guards. The invariants of the rows follow from these
  alone, so they need nothing of pools, locks or the scans' lists: this is why
  they survive stale pools. `AttachedOnlyToWaiting` and `MatchedOnce` are not
  inductive by themselves; `RowInv` adds that the deposits of a record are
  recorded once and for a matched basket.
- *Lock.* `Holding` says that a goroutine in a section is the lock's holder; it is
  inductive because only `Unlock`, `Crash` and `LockExpires` take the lock away, and
  none of them leaves its holder in a section. `OneHolder` and the refinement
  of `Mutex` follow.
- *Money and pool.* The ledger is kept by the rows only if the pool is right when a
  match decides: `PersistAttached` writes the amount the pool computed. The pool in
  turn is behind the rows between a commit and its update. `PoolInv` therefore has
  three parts. `Rows` ties the rows together: a waiting basket has the sum of its
  attached details and no more than its target, a locked deposit is attached where it
  says. `Pool` says that a basket in the pool is its waiting row (`Mirrors`) unless the one
  goroutine in a section (`Holding` makes it one) has committed a release or a close
  that the pool has not seen (`Behind`), and what that goroutine is about to do to it
  (`IndexingAt`, `ForgettingAt`, `DroppingAt`); and that a recovery holds amounts that the
  rows still have, because nothing runs beside it (`Loading`, `Stopped`). `Saved`: a
  deposit has a row before it is matched. For `PoolMirrorsRows`, `MirrorInv` adds the
  converse (`Listed`): no waiting row is missing from the pool but one that is about to
  be added or loaded, which needs a recovery that lists all. The two action properties
  are read off the state before the step: in its section a handler sees every
  waiting row (`HandlerSees`).
- *Short matches.* A scan lists baskets that are due, and acts later. `ScanDue` says that
  what it has listed stays due (the clock never goes back, a deadline is written
  once), `ShortInv` that a record below its target was made of a due basket.
- *Log.* Each step of `Journal` is a step of `Matching` (`JournalImplements`) and one of
  the things that can happen to the log beside the rows (`LogStep`). `PoolNames`,
  `LockedNames` and `ListedLocked` say which deposits a pool, a locked row or a scan's
  list can name: without them a stale pool might make a transaction log a deposit
  that it does not match. `LoggedOnce` is about the one expiry whose entry is a statement
  of its own, and still to be written; `Explained` says that, when nothing failed, every
  expiry has its entry, is about to get it, or came with that of its basket.
- *Answers.* `NeverToldBack` rests on `DbStep`, also for a manual scan with
  any time. `ReadInv` says that what a client was told to be over is what the rows
  say now (`ToldTrue`), that a call between its two reads holds a record as it still
  is (`ReadOfRecord`, why `GetMatch` needs no transaction), and that a matched basket
  holds the amount of its record (`AmountKept`). `MatchReplyWhole` adds `RecordsFull` and the
  ledger of `PoolProofs`.
- *Engine.* `IndexExact` is inductive as it stands; the work is in the lemmas about
  `InsertNeed` and `RemoveNeed` on a sorted sequence, whose binary search becomes the
  least position that is not smaller (`PositionFinds`, from `LeastNatural`). For the
  refinement, `AcceptableIsFound` says that the walk over the larger needs meets the
  baskets that a search of the pool would find, and `BestOfPart` that the best of those
  looked at before `Limit` is one that `Pool` allows (it has fewer better ones than the
  limit leaves out). With `CompletableBest` and `AcceptableBest` each operation maps to
  one of `Pool`.
- *Redis lock.* `LockInv` adds to `SectionKeepsKey` that everything on its way
  (`late`, `evals`) carries a token of a call that is over (`Fresh`): that is what
  makes a late script or request harmless, and it rests on `randomToken` drawing a
  new token for every call.
- *Inbox.* `OneWorker` bounds a cardinality; the proof works with `OneBusy` (two busy
  consumers of one event are the same, and the row then says "processing").
  `Counted` adds what has been applied: nothing while the row is new or failed or
  somebody is before the work, once behind a row that succeeded. A row leaves "none" and
  "failed" only through the unique key and the conditional update, each of which lets
  one consumer pass. `AckInv` adds where deliveries are (`HeldOnce`, `HeldOpen`), that what
  is past `beginEvent` or acknowledged is known (`Known`), and that an event that is known
  and not applied has a message that is being worked on, or whose first delivery
  ended without an acknowledgement (`Explained`).
- *Loops.* In a topic, whatever comes before a message that a serial loop tries was
  handled, failed or given up (`Passed`); whatever comes before one in a batch has passed
  too, is being tried, or is ahead of it in the batch (`InOrder`). Nothing is said of
  messages of two topics.
- *Form.* `WellFormed` says that a message is addressed as its data says, that the use case
  has tried one of a producer at every attempt, and that none is given up early.
  `RoundTrip` is the lemma that decoding undoes encoding.
- *Numbers.* The counter is at most the number of events that have drawn a number and
  of failures (`Charged`), so within a second it cannot come round; a number drawn in an
  earlier second differs in it (`Drawn`).
- *Requests.* Nothing is assumed of what upstream sends. `RowsOfRequests` and
  `DetailsOfRequests` say that a row and a detail have the shard and the amount of *some* request
  for the number, not of the same one. A locked deposit names the basket it is attached
  to, unless it came locked (`LockedInBasket`), so closing a basket leaves none locked.
  `PoolOfRows` says that the pool has the waiting rows and no fewer deposits than are
  attached, and has exactly them for a `Proper` basket; `SumsHold` has the sums of a basket,
  and that one without a record has no matched detail, which is why the recovery may count
  matched details of a waiting basket too. A basket that is proper after a step was so
  before it, as a detail never moves and a row keeps its shard (`SaneStep`); so a
  misused number takes away the promise for its own basket and for no other
  (`OthersKept`). Sums follow by one summand.
- *Process and map.* `RecoveredInv` says that a server is only up in a phase after the
  recovery, `CheckInv` that what a check has found up was up when it asked. `KeysLocked` says that
  goroutines inside `getShard` have different keys (they hold different locks),
  `OwnShards` that no shard was ever made for two keys, also when the map lost one,
  and `NoOverlap` that, while no accesses have overlapped, who writes is alone in the map.
  Once each key has a shard, nobody writes: a goroutine whose access did not race finds
  its key.
- *Minimum.* `Wrap` is the identity on what fits (`WrapFits`); then adding 9999 before
  dividing compares as the exact share does (`RoundedUp`).

## 6. What is only model-checked

Liveness: `DueDepositsClose`, `DueBasketsClose`, `WaitEnds`, `EveryMessageLeaves`,
`MessagesLeave` and `StopsReturn` are beyond the prover and hold on the instances of
the runs. So does that the hypotheses of section 5 can be met: every passing run with one
instance meets `OneProcess` and `NoCommitLost`, and `service` `OneNumbering`.
That a sum computed by recursion satisfies `TotalAssumption` is evaluated by
TLC for the sums of the runs, not proved. `matching_two_instances` and the
counterexample of `overfill` show what remains, and what does not, without `OneProcess`.

## 7. Findings and deviations

Three have a run whose counterexample shows them.

1. **An expired deposit is matched** (`expired_deposit`). `expireWaitingDeposits` does
   not take the shard lock, and the matching transaction updates the deposit row
   under a condition on its status without looking at the number of rows. A deposit
   that expires between its save and its match, or is submitted again later, is
   attached or recorded in a match and stays expired. The engine's own check
   (`shard.go:97`) sees the status of the request.
2. **A basket is filled beyond its target** (`overfill`). Two instances decide from
   pools that do not know of each other's commits, and attaching overwrites
   `current_amount`.
3. **The lines of a match do not add up to its amount** (`record_lines`). A deposit that is
   known, because it was left pending or its event failed after the save, and that is sent
   again with another amount keeps its row (`matching.go:527-538`) and is matched with the new
   amount: detail and `matched_amount` have that of the request, the line of
   `match_record_deposit`, which `GetMatch` returns, that of the row (`matching.go:650-655`).

The others were met while modelling. No run shows them; the models keep the
behaviour where they have its cause, or leave it out by an assumption, as said for each.
They are what a property of these modules may *not* claim.

| Where | What | In the models |
|---|---|---|
| `biz/matching.go:430` | `canCompletePartial` decides on the row listed before the lock was taken: a basket that reached its minimum in between expires | kept in `Matching` (`Listing`); the properties do not claim the opposite |
| `biz/matching.go:372` | A locked deposit whose detail is missing or matched makes every later scan fail at it; orders behind it are not closed. With several instances a completion from a stale pool leaves such a deposit | kept; `DueDepositsClose` is claimed for one instance |
| `biz/matching.go:305` | A redelivery that meets the event in processing is acknowledged; when the first delivery then fails, or its process dies, the event is lost | kept; `AckedIsKnown` is claimed for events that were delivered once |
| `biz/matching.go:719` | `target * rate + 9999` overflows `int64` for targets from 2^63/10000 on: the minimum becomes negative or small | the targets stay below (`Representable`) |
| `pkg/toolbox/mqx/consumer.go:211` | After a failed message the serial loop goes on with the next of the batch, which takes effect first; `src/README.md:111` says the queue is suspended | kept; `FirstTriesInOrder` excepts messages that failed |
| `internal/server/mqProducer.go:65`, `:74` | Deposits and withdraws of a shard go to two topics, and are not ordered among each other | kept in `ConsumerLoop`; `FirstTriesInOrder` is about a topic |
| `biz/matching.go:207` | A known deposit sent again for another channel or currency is attached in the shard of the request; its release looks in that of the row and leaves the pool as it is | kept in `Intake`; `SameShard` and `Proper` except such a deposit and its basket |
| `internal/service/consumer.go:66` | A message may carry any status: a deposit saved as locked has no detail and stops the scans | kept in `Intake`; `LockedIsAttached` excepts it |
| `internal/service/consumer.go:87` | A message may carry a current amount, which the basket then pays out although no deposit brought it | kept in `Intake`; `Proper` excepts the basket |
| `biz/matching.go:554` | An attached deposit sent again gets an error, or the answer that it is not attached | kept; `PositiveAnswerTrue` is about positive answers only |
| `biz/matching.go:769` | A deposit without a number gets a new one each time its event is retried: a second order beside the first | kept in `OrderNumbers`; `OrderOfItsOwn` claims at least one |
| `pkg/toolbox/idx/idgen.go:13` | Two instances, or a process started again within the second, give the same number; the second deposit disappears behind the first one's row | `OrderNumbers` is run with one instance whose restart takes a second; the theorem assumes it (`OneNumbering`) |
| `src/README.md:178` | The example shows `expire_at` as a string; `encoding/json` refuses one | the strings are a mutant of `TimeToJSON` |
| `cmd/matching-tools/main.go:17`, `:115` | The tool reads and writes `eventId`, producer and consumer `event_id`: a dead message cannot be replayed as it is, and with an id given the consumer refuses it | kept in `EventMessage` (`ReplayId`, `ReplayBody`) |
| `internal/server/worker.go:50`, `consumer.go:222` | `Stop` of the worker does nothing, and that of the consumers leaves the receive loop running: `App.Run` does not return | kept in `Lifecycle` |
| `pkg/toolbox/mqx/consumer.go:46` | Consumers that cannot connect end the process with `logx.Fatalf`, also while it is being stopped: calls in progress are cut off and the other Stops do not return | kept in `Lifecycle`; `StopsReturn` excepts it |
| `pkg/toolbox/mqx/consumer.go:226` | A message of a subscribed topic whose tag has no handler is acknowledged | kept in `ConsumerLoop`; `AckedWasHandled` excepts such tags only |
| `biz/matching.go:588` | `from_status` in the log of a deposit is the status of the request, so two entries in a row start from waiting | kept in `Journal`; `BasketLogTrue` is about baskets |
| `biz/matching.go:341`, `:457` | The expiry of a deposit is not logged when the second statement fails, or when it expires with its basket | kept; the last part of `ExpiriesLogged` excepts both |
| `biz/matching.go:637`, `:346` | The counter of full matches counts short ones and failed commits too; that of expirations what was listed | the first is kept (`SuccessCounted` is a lower bound), the second not modelled |
| `biz/matching.go:520` | The map of shards is written while goroutines of other keys read it: the process may end, or a shard and the baskets in it go lost | kept in `ShardMap`; `OneShard` holds until it happens, the rest of `MapSafe` in any case |
| `biz/matching.go:133` | `basket_limit` leaves baskets out of the pool after a restart | kept; `DueBasketsClose` covers them, `PoolMirrorsRows` is run with a limit that is not reached |
| `internal/engine/shard.go:116` | `PendingDeposits` only grows; a deposit left pending is not matched with a basket created later | kept; `PendingWithoutRoom` says when a deposit may be left so |

## 8. Not modelled, and abstractions

- *Several shards together.* `Matching` has one. Shards share the tables, which
  `Intake` covers with two of them, and the map of `getShard` (`ShardMap`).
- *Logging, tracing and its headers, Sentry's reports.* Nothing decides on them.
- *The counters of expirations, consumed messages and recovered baskets, and the HTTP
  endpoint of the metrics.* They are counted beside the work and only exported.
- *Generated code* is modelled as far as the rules reach it: messages by the fields the
  rules read, the validators of the requests, the handlers of the calls, the sections
  of the configuration. The validators of replies and the client stubs are never
  called; descriptors and reflection hold no rule.
- *Code that nothing calls*: `LoadWaitingBaskets`, and the repository methods `Save`,
  `UpdateAmount`, `MarkMatched`, `ListWaitingByShard` and the like.
- *Requests of `Matching`* carry the status 0 or waiting, a current amount of 0, and
  one amount per deposit number; `Intake` has the others.
- *A transaction* is atomic, and an update counts the rows that matched its condition.
- *The order of messages in a queue* is in `ConsumerLoop` only; `EventConsumer` and
  `Matching` allow any order.
- *Time* is a few ticks; timeouts are steps that may happen at any time, except where a
  property is about them (`ShardLock`). The interval of the worker is not modelled.
- *Names, texts, formats* are model values, except the form of a message.

## 9. Plan

The safety properties of the runs are proved. What is left:

1. `Matching` with several instances: state and prove what holds of the money
   without `OneProcess` (a record still pays out each deposit once, `MatchedOnce`; how far
   a basket can be overfilled by the commits that a pool has not seen).
2. After a lost commit: prove that the agreement of pool and rows comes back with the
   next restart, in place of `NoCommitLost`.
3. Extensions: `ConsumerLoop` in front of `EventConsumer` in one instance; two shards in
   `Matching`; requests with a status of their own beside the scans.
