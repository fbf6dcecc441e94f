--------------------------- MODULE EventConsumer ---------------------------
(***************************************************************************)
(* RocketMQ messages, the consumer loop of every instance (pkg/toolbox/    *)
(* mqx/consumer.go, serial mode) and the event inbox that makes a          *)
(* redelivered or resent event harmless (ProcessDepositEvent and           *)
(* ProcessWithdrawEvent, event_inbox_repo.go).                             *)
(*                                                                         *)
(* The broker is external: it hands out a visible message, hides it for    *)
(* invisibleDuration, and then shows it again, or moves it to the DLQ when *)
(* it has been delivered too often.  A batch may hold its messages in any  *)
(* order, so nothing here depends on the order of a queue.  A step of a    *)
(* consumer is one call of the broker or the database.                     *)
(***************************************************************************)
EXTENDS Integers, FiniteSets, Sequences, SequencesExt

CONSTANTS
  Consumers,     \* the serial loops, one per instance
  Messages,
  Events,        \* event_id values
  Event,         \* [Messages -> Events]: a producer may send an event twice
  MaxBatch,      \* maxMessageNum
  MaxAttempts,   \* max_reconsume_times of the consumer group
  MaxFaults      \* bound: failing calls, panics and crashes

ASSUME EventAssumption == Event \in [Messages -> Events] /\ IsFiniteSet(Messages)
ASSUME BoundAssumption ==
  /\ MaxBatch \in Nat \ {0} /\ MaxAttempts \in Nat \ {0} /\ MaxFaults \in Nat

VARIABLES
  queue,     \* the broker: where each message is, and how often it was delivered
  inbox,     \* event_inbox rows: uk_event_id makes this a function
  applied,   \* how often SubmitDeposit or CreateBasket returned nil for the event
  pc,        \* per consumer: its next call
  batch,     \* per consumer: the messages received and not yet through; the first is in hand
  faults     \* what is left of MaxFaults

vars == <<queue, inbox, applied, pc, batch, faults>>

Delivery == [message : Messages, receipt : 1..MaxAttempts]

Init ==
  /\ queue = [m \in Messages |-> [state |-> "visible", attempts |-> 0]]
  /\ inbox = [e \in Events |-> "none"]
  /\ applied = [e \in Events |-> 0]
  /\ pc = [c \in Consumers |-> "receive"]
  /\ batch = [c \in Consumers |-> <<>>]
  /\ faults = MaxFaults

InHand(c)  == Head(batch[c]).message
EventOf(c) == Event[InHand(c)]

Goto(c, l) == pc' = [pc EXCEPT ![c] = l] /\ UNCHANGED batch
Fault      == faults > 0 /\ faults' = faults - 1

\* consumeMessage returns; the loop goes on with the next message of the batch.
Done(c) ==
  /\ batch' = [batch EXCEPT ![c] = Tail(@)]
  /\ pc' = [pc EXCEPT ![c] = IF Len(batch[c]) > 1 THEN "begin" ELSE "receive"]

\* The handler returned an error: the message is not acknowledged.
AckAnyway(c) == Goto(c, "ack")   \* mutant: a failed message is acknowledged
Refuse(c)    == Done(c)

(***************************************************************************)
(* The broker                                                              *)
(***************************************************************************)
Visible == {m \in Messages : queue[m].state = "visible"}

\* Receive returns up to maxMessageNum messages and hides them.
Receive(c) ==
  /\ pc[c] = "receive"
  /\ \E S \in (SUBSET Visible) \ {{}} :
       /\ Cardinality(S) <= MaxBatch
       /\ \E s \in SetToSeqs(S) :
            batch' = [batch EXCEPT ![c] =
              [i \in DOMAIN s |-> [message |-> s[i], receipt |-> queue[s[i]].attempts + 1]]]
       /\ queue' = [m \in Messages |-> IF m \in S
            THEN [state |-> "hidden", attempts |-> queue[m].attempts + 1] ELSE queue[m]]
  /\ pc' = [pc EXCEPT ![c] = "begin"]
  /\ UNCHANGED <<inbox, applied, faults>>

\* An error of Receive is logged, and the loop goes on.
LoopEnds          == "stopped"   \* mutant: the loop returns on an error
AfterReceiveError == "receive"

ReceiveFails(c) ==
  /\ pc[c] = "receive"
  /\ Goto(c, AfterReceiveError)
  /\ UNCHANGED <<queue, inbox, applied, faults>>

\* invisibleDuration is over.
Reappear(m) ==
  /\ queue[m].state = "hidden"
  /\ queue' = [queue EXCEPT ![m].state =
       IF queue[m].attempts < MaxAttempts THEN "visible" ELSE "dead"]
  /\ UNCHANGED <<inbox, applied, pc, batch, faults>>

\* Acknowledging with the receipt of an earlier delivery does nothing.  An error is
\* only logged.
Ack(c) ==
  LET m == InHand(c) IN
  /\ pc[c] = "ack"
  /\ \/ /\ queue' = [queue EXCEPT ![m].state =
              IF @ = "hidden" /\ queue[m].attempts = Head(batch[c]).receipt THEN "acked" ELSE @]
        /\ UNCHANGED faults
     \/ Fault /\ UNCHANGED queue
  /\ Done(c)
  /\ UNCHANGED <<inbox, applied>>

(***************************************************************************)
(* beginEvent                                                              *)
(***************************************************************************)
Upsert(e)    == TRUE                 \* mutant: a duplicate key is not an error
Creatable(e) == inbox[e] = "none"

Processing(e) == inbox' = [inbox EXCEPT ![e] = "processing"]

\* TryCreateProcessing: a duplicate key says the event is known.  After any other
\* error the row may have been written or not.  Without a row, and as often as it is
\* delivered, a message may also be refused before the database is asked: its body
\* does not parse, or it has no data or event_id.
TryCreateProcessing(c) ==
  LET e == EventOf(c) IN
  /\ pc[c] = "begin"
  /\ \/ Creatable(e) /\ Processing(e) /\ Goto(c, "work") /\ UNCHANGED faults
     \/ ~Creatable(e) /\ UNCHANGED inbox /\ Goto(c, "get") /\ UNCHANGED faults
     \/ Creatable(e) /\ Processing(e) /\ Fault /\ Refuse(c)
     \/ UNCHANGED <<inbox, faults>> /\ Refuse(c)
  /\ UNCHANGED <<queue, applied>>

\* GetByEventID: only a failed event is tried again; for any other the handler
\* returns nil, whether the event is through or still being processed.
GetByEventID(c) ==
  /\ pc[c] = "get"
  /\ \/ Goto(c, IF inbox[EventOf(c)] = "failed" THEN "retry" ELSE "ack") /\ UNCHANGED faults
     \/ Fault /\ Refuse(c)
  /\ UNCHANGED <<queue, inbox, applied>>

RetryAny(e)  == TRUE                  \* mutant: UPDATE without the status condition
Retriable(e) == inbox[e] = "failed"

\* RetryFailed counts the rows it updated: another consumer may have been first.
RetryFailed(c) ==
  LET e == EventOf(c) IN
  /\ pc[c] = "retry"
  /\ \/ Retriable(e) /\ Processing(e) /\ Goto(c, "work") /\ UNCHANGED faults
     \/ ~Retriable(e) /\ UNCHANGED inbox /\ Goto(c, "ack") /\ UNCHANGED faults
     \/ Retriable(e) /\ Processing(e) /\ Fault /\ Refuse(c)
     \/ UNCHANGED inbox /\ Fault /\ Refuse(c)
  /\ UNCHANGED <<queue, applied>>

(***************************************************************************)
(* The work, and what becomes of the row                                   *)
(***************************************************************************)
\* SubmitDeposit or CreateBasket, as one step: see Matching.  A panic is recovered
\* in consumeMessage, which neither marks the row nor acknowledges.
Work(c) ==
  LET e == EventOf(c) IN
  /\ pc[c] = "work"
  /\ \/ /\ applied' = [applied EXCEPT ![e] = @ + 1]
        /\ Goto(c, "succeed") /\ UNCHANGED faults
     \/ Goto(c, "fail") /\ UNCHANGED <<applied, faults>>
     \/ Fault /\ Done(c) /\ UNCHANGED applied
  /\ UNCHANGED <<queue, inbox>>

MarkedFailed(c)   == Goto(c, "fail")   \* mutant: the event is marked failed
AfterMarkError(c) == Refuse(c)

\* An error of MarkSucceeded is returned: the message comes back.
MarkSucceeded(c) ==
  LET succeeded == inbox' = [inbox EXCEPT ![EventOf(c)] = "succeeded"] IN
  /\ pc[c] = "succeed"
  /\ \/ succeeded /\ Goto(c, "ack") /\ UNCHANGED faults
     \/ succeeded /\ Fault /\ AfterMarkError(c)
     \/ UNCHANGED inbox /\ Fault /\ AfterMarkError(c)
  /\ UNCHANGED <<queue, applied>>

\* An error of MarkFailed is ignored.
MarkFailed(c) ==
  /\ pc[c] = "fail"
  /\ \/ inbox' = [inbox EXCEPT ![EventOf(c)] = "failed"] /\ UNCHANGED faults
     \/ Fault /\ UNCHANGED inbox
  /\ Refuse(c)
  /\ UNCHANGED <<queue, applied>>

\* The process ends and is started again: the batch is gone.
Crash(c) ==
  /\ pc[c] # "receive" /\ Fault
  /\ pc' = [pc EXCEPT ![c] = "receive"]
  /\ batch' = [batch EXCEPT ![c] = <<>>]
  /\ UNCHANGED <<queue, inbox, applied>>

Consume(c) ==
  \/ TryCreateProcessing(c) \/ GetByEventID(c) \/ RetryFailed(c)
  \/ Work(c) \/ MarkSucceeded(c) \/ MarkFailed(c) \/ Ack(c)

Next ==
  \/ \E c \in Consumers : Receive(c) \/ ReceiveFails(c) \/ Consume(c) \/ Crash(c)
  \/ \E m \in Messages : Reappear(m)

Spec == Init /\ [][Next]_vars

\* A loop goes on, and the broker shows a hidden message again.
Fairness ==
  /\ \A c \in Consumers : WF_vars(Receive(c)) /\ WF_vars(Consume(c))
  /\ \A m \in Messages : WF_vars(Reappear(m))

FairSpec == Spec /\ Fairness

-----------------------------------------------------------------------------
TypeOK ==
  /\ queue \in [Messages -> [state : {"visible", "hidden", "acked", "dead"},
                             attempts : 0..MaxAttempts]]
  /\ inbox \in [Events -> {"none", "processing", "succeeded", "failed"}]
  /\ applied \in [Events -> Nat]
  /\ pc \in [Consumers -> {"receive", "begin", "get", "retry", "work", "succeed", "fail", "ack"}]
  /\ batch \in [Consumers -> Seq(Delivery)]
  /\ faults \in 0..MaxFaults

Busy    == {"work", "succeed", "fail"}
Workers(e) == {c \in Consumers : pc[c] \in Busy /\ EventOf(c) = e}

\* However often a message is delivered while it is being worked on, and however many
\* messages carry the event, one consumer at a time works on it (beginEvent).
OneWorker == \A e \in Events : Cardinality(Workers(e)) <= 1

\* The use case answers nil at most once for an event: neither a redelivery, nor a
\* retry, nor an error of MarkSucceeded has it done again (ProcessDepositEvent).
AppliedOnce == \A e \in Events : applied[e] <= 1

\* A row that says succeeded keeps saying so, and the work behind it is done:
\* the update of MarkFailed has no condition on the status.
SucceededFinal ==
  [][\A e \in Events : inbox[e] = "succeeded" => inbox'[e] = "succeeded" /\ applied'[e] = 1]_vars

\* What is acknowledged is known to the inbox, and an event is lost only through a
\* redelivery: when each of its messages was delivered once and all are acknowledged,
\* it has been applied, although those that find it in processing are acknowledged
\* while it may still fail (beginEvent, consumeMessage).
AckedIsKnown ==
  /\ \A m \in Messages : queue[m].state = "acked" => inbox[Event[m]] # "none"
  /\ \A e \in Events :
       LET sent == {m \in Messages : Event[m] = e} IN
       sent # {} /\ (\A m \in sent : queue[m].state = "acked" /\ queue[m].attempts = 1)
         => applied[e] = 1

\* Every message leaves the queue, acknowledged or for the DLQ: no message is
\* delivered forever, and none stops the loop.
EveryMessageLeaves ==
  \A m \in Messages : queue[m].state = "visible" ~> queue[m].state \in {"acked", "dead"}
=============================================================================
