------------------------------ MODULE Service ------------------------------
(***************************************************************************)
(* The models of what surrounds the matching: the arithmetic of a short    *)
(* match, the orders a process takes, its life, its health check and its   *)
(* map of shards, and of a message on its way: the loops that receive it,  *)
(* its form, and the numbers of the orders it makes.  They share no state: *)
(* a behaviour is one of one of them, the others stay in an initial state  *)
(* of theirs.                                                              *)
(***************************************************************************)
EXTENDS MinComplete

CONSTANTS
  Deposits, Baskets, NoNumber, Shards, NoShard, DepositRequests, BasketRequests,  \* Intake
  MinRate, MaxRequests, Total(_),
  Configs, MaxOutages, MaxChecks,                                     \* Lifecycle, Health
  Keys, Goroutines, MaxShards, NoKey,                                 \* ShardMap
  MaxAttempts,                                                        \* ConsumerLoop, EventMessage
  Consumers, LastMessage, Traffic, Configured, NoTag, WorkerNum, MaxWorkers, MaxBatch,
  MaxFailures,                                                        \* ConsumerLoop
  Orders, Events, NoEvent, Levels, MaxLevel, MaxMessages, MaxUseFailures, \* EventMessage
  Instances, Unnumbered, Modulus, MaxSecond, MaxSaveFailures, MaxRestarts, \* OrderNumbers
  RestartTakes

VARIABLES
  part,                                                               \* the model that moves
  deposit, basket, detail, record, pool, answer, left,                \* Intake
  config, phase, open, recovered, server, stopped, busy, polling,     \* Lifecycle
  up, check, live, outages, checks,                                   \* Health
  known, shards, next, pc, key, held, raced, overlapped, thrown,      \* ShardMap
  serial, sent, broker, batch, running, handled, failed,              \* ConsumerLoop
  message, taken, useFailures,                                        \* EventMessage
  second, seq, order, attempt, inbox, saveFailures, restarts          \* OrderNumbers

shareVars   == vars
orderVars   == <<deposit, basket, detail, record, pool, answer, left>>
processVars == <<config, phase, open, recovered, server, stopped, busy, polling>>
healthVars  == <<up, check, live, outages, checks>>
mapVars     == <<known, shards, next, pc, key, held, raced, overlapped, thrown>>
loopVars    == <<serial, sent, broker, batch, running, handled, failed>>
formVars    == <<message, taken, useFailures>>
numberVars  == <<second, seq, order, attempt, inbox, saveFailures, restarts>>
messageVars == <<loopVars, formVars, numberVars>>

Requests == INSTANCE Intake
Process  == INSTANCE Lifecycle
Health   == INSTANCE Health
Map      == INSTANCE ShardMap
Loop     == INSTANCE ConsumerLoop
Form     == INSTANCE EventMessage WITH MaxFailures <- MaxUseFailures, failures <- useFailures
Numbers  == INSTANCE OrderNumbers WITH
  Events <- Unnumbered, MaxFailures <- MaxSaveFailures, failures <- saveFailures

ASSUME RequestsAssumption == Requests!RequestAssumption /\ Requests!TotalAssumption
ASSUME ProcessAssumption  == Process!LifecycleAssumption
ASSUME MapAssumption      == Map!ShardMapAssumption
ASSUME ReceiveAssumption  == Loop!LoopAssumption /\ Loop!SubscriptionAssumption
ASSUME FormAssumption     == Form!MessageAssumption
ASSUME NumberAssumption   == Numbers!NumberAssumption

\* The initial state of a model that does not move.
One(S) == CHOOSE x \in S : TRUE

ServiceInit ==
  /\ part \in {"share", "requests", "process", "health", "map", "loop", "form", "numbers"}
  /\ Init /\ (part # "share" => rate = One(MinRates) /\ target = One(Targets))
  /\ Requests!Init
  /\ Process!Init /\ (part # "process" => config = One(Configs))
  /\ Health!Init /\ (part # "health" => up = {})
  /\ Map!Init /\ (part # "map" => known = {})
  /\ Loop!Init /\ (part # "loop" => serial /\ sent = One(Traffic[TRUE]))
  /\ Form!Init /\ Numbers!Init

ServiceNext ==
  \/ /\ part \in {"share", "requests", "process", "health", "map"} /\ UNCHANGED <<part, messageVars>>
     /\ \/ part = "share" /\ Next /\ UNCHANGED <<orderVars, processVars, healthVars, mapVars>>
        \/ part = "requests" /\ Requests!Next /\ UNCHANGED <<shareVars, processVars, healthVars, mapVars>>
        \/ part = "process" /\ Process!Next /\ UNCHANGED <<shareVars, orderVars, healthVars, mapVars>>
        \/ part = "health" /\ Health!Next /\ UNCHANGED <<shareVars, orderVars, processVars, mapVars>>
        \/ part = "map" /\ Map!Next /\ UNCHANGED <<shareVars, orderVars, processVars, healthVars>>
  \/ /\ part \in {"loop", "form", "numbers"}
     /\ UNCHANGED <<part, shareVars, orderVars, processVars, healthVars, mapVars>>
     /\ \/ part = "loop" /\ Loop!Next /\ UNCHANGED <<formVars, numberVars>>
        \/ part = "form" /\ Form!Next /\ UNCHANGED <<loopVars, numberVars>>
        \/ part = "numbers" /\ Numbers!Next /\ UNCHANGED <<loopVars, formVars>>

\* A process that has not been started has nothing to be fair to.
ServiceSpec ==
  /\ ServiceInit
  /\ [][ServiceNext]_<<part, shareVars, orderVars, processVars, healthVars, mapVars, messageVars>>
  /\ Process!Fairness
  /\ part = "loop" => Loop!Fairness

(***************************************************************************)
(* The properties of the eight, each commented in its module               *)
(***************************************************************************)
\* Rows, records, lines and answers agree whatever is requested (SubmitDeposit,
\* CreateBasket).
IntakeTrue == Requests!IntakeTrue

\* The lines of a match add up to its matched_amount (persistMatchedDeposit): "MatchRecordDeposit
\* 是撮合记录里的入金明细", "matched_amount 是实际撮合金额" (matching.proto).
EveryLineCounted == Requests!EveryLineCounted

\* Nothing is served before the recovery, and a good health check is true
\* (NewMatchingUsecase, App.Run, CheckHealth).
ProcessSafe == Process!RecoveredFirst /\ Health!HealthTrue

\* A process that is told to stop calls every Stop to its end (App.Run).
StopsReturn == Process!StopsReturn

\* No two goroutines get one shard, a key keeps its own, and the accesses of the map
\* stop overlapping once each key has one (getShard).
MapSafe == Map!MapSafe

\* Serial loops handle the messages of a shard and a topic in order (receiveLoopSerial).
FirstTriesInOrder == Loop!FirstTriesInOrder

\* A message is acknowledged only when its handler has succeeded, or none is configured
\* for its tag (consumeMessage).
AckedWasHandled == Loop!AckedWasHandled

\* Every message is handled or ends in the DLQ (receiveLoopSerial, receiveLoopPool).
MessagesLeave == part = "loop" => Loop!AllLeave

\* What is sent is what is taken, and where (sendPayload, HandleDepositMessage).
FormKept == Form!FormKept

\* No two deposits are merged behind one number (idx.New, saveDepositIfNeeded).
OrderOfItsOwn == Numbers!OrderOfItsOwn
=============================================================================
