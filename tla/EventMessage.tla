---------------------------- MODULE EventMessage ----------------------------
(***************************************************************************)
(* An order on its way through RocketMQ: how RocketMQProducer encodes and  *)
(* addresses it, how the consumer decodes it, the DLQ, and the replay tool *)
(* (cmd/matching-tools).  Bodies are JSON: what matters is which keys they *)
(* have and how a time is written.  What the use case then does is an      *)
(* outcome: it takes the order, or fails.                                  *)
(***************************************************************************)
EXTENDS Integers, Sequences

CONSTANTS
  Orders,       \* the orders upstream has, as model.DepositOrder or WithdrawBasket
  Events, NoEvent,
  Levels,       \* the delay levels passed to the producer
  MaxLevel,     \* the last level of the table
  MaxAttempts,  \* max_reconsume_times
  MaxMessages,  \* bound: messages sent
  MaxFailures   \* bound: orders the use case fails to process

Kinds == {"deposit", "withdraw"}
Times == {"zero", "set"}

\* The fields of an order that the service reads; a deposit has no current amount.
Order == [kind : Kinds, no : STRING, shard : STRING, amount : Int, current : Int,
          status : Int, expire : Times]

\* What the constants must be; the modules that use this one assume it.
MessageAssumption ==
  /\ Orders \subseteq Order
  /\ NoEvent \notin Events /\ MaxLevel \in Nat /\ Levels \subseteq Int
  /\ MaxAttempts \in Nat \ {0} /\ MaxMessages \in Nat /\ MaxFailures \in Nat

VARIABLES
  message,    \* what was sent, in order; a message is hidden until its delay is over
  taken,      \* the orders the use case has taken, with their events
  failures    \* what the use case has failed to process

vars == <<message, taken, failures>>

Init == message = <<>> /\ taken = {} /\ failures = 0

(***************************************************************************)
(* Encoding                                                                *)
(***************************************************************************)
\* timeToTimestamp and timestampToTime; encoding/json writes a Timestamp as an object
\* with seconds and nanos, and reads nothing else into one.
TimeAsString(t)  == IF t = "zero" THEN "absent" ELSE "string"   \* mutant: written as protojson does
TimeToJSON(t)    == IF t = "zero" THEN "absent" ELSE "object"
TimeFromJSON(j)  == IF j = "absent" THEN "zero" ELSE "set"

\* depositToPB and basketToPB, and the structs' JSON.
ToPB(o) == [o EXCEPT !.expire = TimeToJSON(@)]

\* depositPBToModel and withdrawPBToModel.
FromPB(x)      == [x EXCEPT !.expire = TimeFromJSON(@)]

\* DepositEventMessage and WithdrawEventMessage: the tag of the id is "event_id".
Envelope(e, x) == [event_id |-> e, eventId |-> NoEvent, data |-> x]

\* json.Unmarshal into the envelope, and beginEvent's first check.
Decodable(body) == body.data.expire # "string" /\ body.event_id # NoEvent

(***************************************************************************)
(* Sending                                                                 *)
(***************************************************************************)
Topic(kind) == kind   \* deposit_topic and withdraw_topic

\* delayLevelToDuration: a level outside the table is no delay.
Delayed(level) == level \in 1..MaxLevel

Send(topic, group, level, body, from) ==
  /\ Len(message) < MaxMessages
  /\ message' = Append(message,
       [topic |-> topic, group |-> group, body |-> body, from |-> from, attempts |-> 0,
        tried |-> 0, state |-> IF Delayed(level) THEN "delayed" ELSE "visible"])

\* SendDeposit and SendWithdraw, through sendPayload and SendRaw.
Group(o, e) == o.shard

SendOrder(o, e, level) ==
  /\ Send(Topic(o.kind), Group(o, e), level, Envelope(e, ToPB(o)), "producer")
  /\ UNCHANGED <<taken, failures>>

Due(i) ==
  /\ message[i].state = "delayed"
  /\ message' = [message EXCEPT ![i].state = "visible"]
  /\ UNCHANGED <<taken, failures>>

(***************************************************************************)
(* Consuming                                                               *)
(***************************************************************************)
Failed(m, tried) ==
  [m EXCEPT !.attempts = @ + 1, !.tried = @ + tried,
            !.state = IF m.attempts + 1 < MaxAttempts THEN "visible" ELSE "dead"]

\* HandleDepositMessage and HandleWithdrawMessage, by topic: the body is not valid.
Reject(i) ==
  /\ message[i].state = "visible" /\ ~Decodable(message[i].body)
  /\ message' = [message EXCEPT ![i] = Failed(@, 0)]
  /\ UNCHANGED <<taken, failures>>

Take(i) ==
  LET m == message[i] IN
  /\ m.state = "visible" /\ Decodable(m.body)
  /\ taken' = taken \cup {[event |-> m.body.event_id, handler |-> m.topic,
                           order |-> FromPB(m.body.data)]}
  /\ message' = [message EXCEPT ![i].state = "acked"]
  /\ UNCHANGED failures

Fail(i) ==
  /\ message[i].state = "visible" /\ Decodable(message[i].body)
  /\ failures < MaxFailures /\ failures' = failures + 1
  /\ message' = [message EXCEPT ![i] = Failed(@, 1)]
  /\ UNCHANGED taken

(***************************************************************************)
(* The replay tool                                                         *)
(***************************************************************************)
\* loadReplayBody reads the id from the key "eventId".  An id given on the command
\* line replaces it, and the body is written again from the struct; without one the
\* body stays as it is.
ReplayId(body, e) == IF e # NoEvent THEN e ELSE body.eventId
ReplayBody(body, e) ==
  IF e # NoEvent THEN [event_id |-> NoEvent, eventId |-> e, data |-> body.data] ELSE body

\* runReplay: the message group is the shard of the data, the topic that of the kind.
\* Without an id nothing is sent.
Replay(i, e) ==
  LET m == message[i] IN
  /\ m.state = "dead" /\ ReplayId(m.body, e) # NoEvent
  /\ Send(Topic(m.body.data.kind), m.body.data.shard, 0, ReplayBody(m.body, e), "replay")
  /\ UNCHANGED <<taken, failures>>

Next ==
  \/ \E o \in Orders, e \in Events, level \in Levels : SendOrder(o, e, level)
  \/ \E i \in DOMAIN message :
       \/ Due(i) \/ Reject(i) \/ Take(i) \/ Fail(i)
       \/ \E e \in Events \cup {NoEvent} : Replay(i, e)

Spec == Init /\ [][Next]_vars

(***************************************************************************)
(* Properties                                                              *)
(***************************************************************************)
From(source) == {i \in DOMAIN message : message[i].from = source}

\* What a handler takes is an order that was sent, field by field, and by the handler
\* of its kind: encoding, the envelope and decoding lose nothing the rules read.
TakenAsSent == \A t \in taken : t.order \in Orders /\ t.handler = Topic(t.order.kind)

\* Messages of the producer are never refused for their form: those that end in the
\* DLQ were tried by the use case each time (sendPayload, HandleDepositMessage).
FormAccepted ==
  \A i \in From("producer") : message[i].state = "dead" => message[i].tried = MaxAttempts

\* All messages of a channel:currency, replayed ones too, are in one message group
\* (README.md: 分片顺序; "保证同一业务分片顺序" of the replay tool).
GroupedByShard ==
  \A i, j \in DOMAIN message :
    message[i].body.data.shard = message[j].body.data.shard => message[i].group = message[j].group

\* An order that is sent reaches the handler of its kind in the order of its shard.
FormKept == TakenAsSent /\ FormAccepted /\ GroupedByShard
=============================================================================
