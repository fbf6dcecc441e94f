---------------------------- MODULE ConsumerLoop ----------------------------
(***************************************************************************)
(* The receive loops of pkg/toolbox/mqx/consumer.go, serial or with a pool *)
(* of workers, as NewConsumerManager sets them up: which handler a message *)
(* gets, in which order messages are handled, and when they are            *)
(* acknowledged.  EventConsumer has what a handler does.                   *)
(*                                                                         *)
(* The broker is external.  The messages are those of one channel:currency,*)
(* numbered in the order they were sent.  Deposits and withdraws go to two *)
(* topics (SendDeposit, SendWithdraw), and within a topic they are one     *)
(* message group, which the broker hands out in order (README.md,          *)
(* scripts/rocketmq): nothing of it while a message of it is hidden.       *)
(* Between the topics there is no order.                                   *)
(***************************************************************************)
EXTENDS Integers, FiniteSets, Sequences, SequencesExt

CONSTANTS
  Consumers,     \* the loops, one per instance
  LastMessage,   \* the messages are 1..LastMessage
  Traffic,       \* per value of consumer.serial, what may be sent
  Configured,    \* deposit_topic and withdraw_topic, as <<topic, tag>>
  NoTag,         \* a message or a configured topic without a tag
  WorkerNum,     \* consumer.worker_num
  MaxWorkers,    \* maxWorkers
  MaxBatch,      \* maxMessageNum
  MaxAttempts,   \* max_reconsume_times of the consumer group
  MaxFailures    \* bound: handlers that return an error or panic

Messages == 1..LastMessage
\* What the constants must be; the modules that use this one assume it.
LoopAssumption ==
  /\ LastMessage \in Nat /\ WorkerNum \in Int
  /\ MaxWorkers \in Nat \ {0} /\ MaxBatch \in Nat \ {0} /\ MaxAttempts \in Nat \ {0}
  /\ MaxFailures \in Nat
  /\ \A k \in Configured : k = <<k[1], k[2]>>
  /\ DOMAIN Traffic = BOOLEAN
  /\ \A mode \in BOOLEAN : \A t \in Traffic[mode] : DOMAIN t = Messages
\* A topic is subscribed with the tag it is configured with, or with all tags.
SubscriptionAssumption ==
  \A mode \in BOOLEAN : \A t \in Traffic[mode] : \A m \in Messages :
    t[m] \in Configured \/ <<t[m][1], NoTag>> \in Configured

VARIABLES
  serial,    \* consumer.serial of this deployment
  sent,      \* the messages, with the topic and the tag of each
  broker,    \* where each message is, and how often it was delivered
  batch,     \* per loop: the deliveries received and not yet begun
  running,   \* per loop: the deliveries whose handler is running
  handled,   \* the messages in the order their handlers first succeeded
  failed     \* the messages whose handler has failed

vars == <<serial, sent, broker, batch, running, handled, failed>>

Delivery == [message : Messages, receipt : 1..MaxAttempts]

Init ==
  /\ serial \in BOOLEAN /\ sent \in Traffic[serial]
  /\ broker = [m \in Messages |-> [state |-> "visible", attempts |-> 0]]
  /\ batch = [c \in Consumers |-> <<>>]
  /\ running = [c \in Consumers |-> {}]
  /\ handled = <<>>
  /\ failed = {}

\* buildTopicKey names a handler by topic and tag, or by the topic alone; what is
\* configured as "topic:tag" is registered under that name without a tag.
TopicKey(topic, tag) == <<topic, tag>>

Handlers == Configured

Topic(m)      == sent[m][1]
HasHandler(m) == TopicKey(Topic(m), sent[m][2]) \in Handlers

\* NewConsumerManager has at least one worker, and Start a default of its own.
Workers ==
  LET configured == IF WorkerNum <= 0 THEN 1 ELSE WorkerNum IN
  IF configured <= 0 THEN MaxWorkers ELSE configured

(***************************************************************************)
(* The broker                                                              *)
(***************************************************************************)
In(state) == {m \in Messages : broker[m].state = state}

\* A Receive asks one topic: the earliest messages of its group, in order.
BatchesOf(t) ==
  LET visible == {m \in In("visible") : Topic(m) = t} IN
  IF \E m \in In("hidden") : Topic(m) = t THEN {}
  ELSE {s \in UNION {[1..n -> visible] : n \in 1..MaxBatch} :
          /\ \A i, j \in DOMAIN s : i < j => s[i] < s[j]
          /\ \A m \in visible, i \in DOMAIN s : m < s[i] => m \in Range(s)}

Batches == UNION {BatchesOf(k[1]) : k \in Configured}

\* invisibleDuration is over: the message is shown again, or moved to the DLQ.
Reappear(m) ==
  /\ broker[m].state = "hidden"
  /\ broker' = [broker EXCEPT ![m].state =
       IF broker[m].attempts < MaxAttempts THEN "visible" ELSE "dead"]
  /\ UNCHANGED <<serial, sent, batch, running, handled, failed>>

\* An acknowledgement counts with the receipt of the last delivery only.
Acknowledged(r) ==
  [broker EXCEPT ![r.message].state =
     IF @ = "hidden" /\ broker[r.message].attempts = r.receipt THEN "acked" ELSE @]

(***************************************************************************)
(* The loops                                                               *)
(***************************************************************************)
\* receiveLoopSerial asks again once the batch is through, receiveLoopPool once it
\* is handed to the pool.  A Receive that finds nothing or fails is repeated.
Receive(c) ==
  /\ batch[c] = <<>> /\ (serial => running[c] = {})
  /\ \E s \in Batches :
       /\ batch' = [batch EXCEPT ![c] = [i \in DOMAIN s |->
            [message |-> s[i], receipt |-> broker[s[i]].attempts + 1]]]
       /\ broker' = [m \in Messages |-> IF m \in Range(s)
            THEN [state |-> "hidden", attempts |-> broker[m].attempts + 1] ELSE broker[m]]
  /\ UNCHANGED <<serial, sent, running, handled, failed>>

\* The next handler runs when the one before has returned, or Submit finds a worker.
AnyWorker(c) == Cardinality(running[c]) < Workers   \* mutant: the mode is ignored
Room(c) == IF serial THEN running[c] = {} ELSE Cardinality(running[c]) < Workers

Begin(c) ==
  /\ batch[c] # <<>> /\ Room(c)
  /\ running' = [running EXCEPT ![c] = @ \cup {Head(batch[c])}]
  /\ batch' = [batch EXCEPT ![c] = Tail(@)]
  /\ UNCHANGED <<serial, sent, broker, handled, failed>>

LeakWorker(c, r) == running' = running   \* mutant: the worker is not given back
Return(c, r) == running' = [running EXCEPT ![c] = @ \ {r}]

\* consumeMessage acknowledges when the handler returned nil, which ignoreConsumer
\* always does; an error of Ack is only logged.
Succeed(c, r) ==
  LET m == r.message IN
  /\ r \in running[c]
  /\ Return(c, r)
  /\ handled' = IF HasHandler(m) /\ m \notin Range(handled) THEN Append(handled, m) ELSE handled
  /\ broker' \in {broker, Acknowledged(r)}
  /\ UNCHANGED <<serial, sent, batch, failed>>

\* The handler returned an error, or panicked and was recovered: the loop goes on
\* with the next message, and this one comes back when it is visible again.
AckFailed(r) == Acknowledged(r)   \* mutant: acknowledged in the deferred function
LeaveHidden(r) == broker

Fail(c, r) ==
  /\ r \in running[c] /\ HasHandler(r.message)
  /\ Cardinality(failed) < MaxFailures \/ r.message \in failed
  /\ Return(c, r)
  /\ failed' = failed \cup {r.message}
  /\ broker' = LeaveHidden(r)
  /\ UNCHANGED <<serial, sent, batch, handled>>

LoopSteps(c) ==
  \/ Receive(c) \/ Begin(c)
  \/ \E r \in running[c] : Succeed(c, r) \/ Fail(c, r)

Next == (\E c \in Consumers : LoopSteps(c)) \/ \E m \in Messages : Reappear(m)

Spec == Init /\ [][Next]_vars

\* Each loop and its handlers go on, and the broker shows a message again.
Fairness ==
  (\A c \in Consumers : WF_vars(LoopSteps(c))) /\ WF_vars(\E m \in Messages : Reappear(m))

FairSpec == Spec /\ Fairness

(***************************************************************************)
(* Properties                                                              *)
(***************************************************************************)
Before(m, n) == \E i, j \in DOMAIN handled : i < j /\ handled[i] = m /\ handled[j] = n

\* Serial loops handle the deposits of a channel:currency in the order they were sent,
\* and so the withdraws, as long as none fails or is given up, with any number of
\* instances, slow handlers and redeliveries (receiveLoopSerial).  A withdraw may be
\* handled before a deposit that was sent earlier, and the other way round.
FirstTriesInOrder ==
  serial => \A n \in Range(handled), m \in Messages :
    m < n /\ Topic(m) = Topic(n) /\ HasHandler(m) =>
      Before(m, n) \/ m \in failed \/ broker[m].state = "dead"

\* A message is acknowledged only when its handler has succeeded, however often it has
\* failed or been delivered twice at a time.  Those that are acknowledged and dropped
\* have a tag that is not configured (consumeMessage, getHandler, ignoreConsumer).
AckedWasHandled ==
  \A m \in Messages : broker[m].state = "acked" => m \in Range(handled) \/ sent[m] \notin Configured

\* Every message is handled or ends in the DLQ; a pool with all its workers busy, and
\* messages that fail, hold up no other message for ever.
AllLeave == <>(\A m \in Messages : broker[m].state \in {"acked", "dead"})
=============================================================================
