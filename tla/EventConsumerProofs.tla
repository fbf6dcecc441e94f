------------------------ MODULE EventConsumerProofs ------------------------
(***************************************************************************)
(* Theorems about EventConsumer, for any number of consumers, messages and *)
(* events, and any size of the batches, with redeliveries, failing calls   *)
(* and crashes.                                                            *)
(***************************************************************************)
EXTENDS EventConsumer, FiniteSetTheorems, SequenceTheorems, TLAPS

\* A consumer that is not receiving has a message in hand, and the broker can deliver
\* a visible message once more.
HandsFull ==
  /\ \A c \in Consumers : pc[c] # "receive" => batch[c] # <<>>
  /\ \A m \in Messages : queue[m].state = "visible" => queue[m].attempts < MaxAttempts

TypeInv == TypeOK /\ HandsFull

\* The initial state is well typed.
LEMMA InitTyped == Init => TypeInv
BY BoundAssumption DEF Init, TypeInv, TypeOK, HandsFull

\* The first and the rest of a batch.
LEMMA HeadAndTail ==
  ASSUME NEW T, NEW s \in Seq(T), s # <<>>
  PROVE  Head(s) \in T /\ Tail(s) \in Seq(T) /\ (Len(s) > 1 => Tail(s) # <<>>)
<1>1. Head(s) \in T /\ Tail(s) \in Seq(T) /\ Len(Tail(s)) = Len(s) - 1
  <2>1. Head(s) \in T
    BY HeadTailProperties
  <2>2. QED
    BY <2>1, HeadTailProperties
<1>2. Len(s) \in Nat /\ Len(<<>>) = 0
  BY LenProperties, EmptySeq
<1>3. ASSUME Len(s) > 1 PROVE Tail(s) # <<>>
  <2>1. Len(Tail(s)) # 0
    BY <1>1, <1>2, <1>3
  <2>2. QED
    BY <1>2, <2>1, Zenon
<1>4. QED
  BY <1>1, <1>3

\* What is in hand is a message of the model, and so is its event.
LEMMA InHandTyped ==
  ASSUME TypeInv, NEW c \in Consumers, pc[c] # "receive"
  PROVE  InHand(c) \in Messages /\ EventOf(c) \in Events
<1>1. Head(batch[c]) \in Delivery
  BY HeadAndTail DEF TypeInv, TypeOK, HandsFull
<1>2. QED
  BY <1>1, EventAssumption DEF Delivery, InHand, EventOf

\* The next message of a batch, if there is one.
LEMMA DoneTyped ==
  ASSUME TypeInv, NEW c \in Consumers, pc[c] # "receive", Done(c)
  PROVE  /\ pc' \in [Consumers -> {"receive", "begin", "get", "retry", "work", "succeed", "fail", "ack"}]
         /\ batch' \in [Consumers -> Seq(Delivery)]
         /\ \A x \in Consumers : pc'[x] # "receive" => batch'[x] # <<>>
<1> DEFINE t == Tail(batch[c])
<1>1. batch[c] \in Seq(Delivery) /\ batch[c] # <<>>
  BY DEF TypeInv, TypeOK, HandsFull
<1>2. t \in Seq(Delivery) /\ (Len(batch[c]) > 1 => t # <<>>)
  BY <1>1, HeadAndTail
<1>3. batch' = [batch EXCEPT ![c] = t]
  BY DEF Done
<1> HIDE DEF t
<1>4. QED
  BY <1>2, <1>3 DEF Done, TypeInv, TypeOK, HandsFull

\* A worker that goes on stays well typed.
LEMMA GotoTyped ==
  ASSUME TypeInv, NEW c \in Consumers, pc[c] # "receive",
         NEW l \in {"receive", "begin", "get", "retry", "work", "succeed", "fail", "ack"}, Goto(c, l)
  PROVE  /\ pc' \in [Consumers -> {"receive", "begin", "get", "retry", "work", "succeed", "fail", "ack"}]
         /\ batch' \in [Consumers -> Seq(Delivery)]
         /\ \A x \in Consumers : pc'[x] # "receive" => batch'[x] # <<>>
BY DEF Goto, TypeInv, TypeOK, HandsFull

\* The broker hands out messages that are visible, each with its next receipt.
LEMMA ReceiveTyped ==
  ASSUME TypeInv, NEW c \in Consumers, Receive(c)
  PROVE  TypeInv'
<1>1. PICK S \in (SUBSET Visible) \ {{}} :
        /\ Cardinality(S) <= MaxBatch
        /\ \E s \in SetToSeqs(S) :
             batch' = [batch EXCEPT ![c] =
               [i \in DOMAIN s |-> [message |-> s[i], receipt |-> queue[s[i]].attempts + 1]]]
        /\ queue' = [m \in Messages |-> IF m \in S
             THEN [state |-> "hidden", attempts |-> queue[m].attempts + 1] ELSE queue[m]]
  BY DEF Receive
<1>2. PICK s \in SetToSeqs(S) :
        batch' = [batch EXCEPT ![c] =
          [i \in DOMAIN s |-> [message |-> s[i], receipt |-> queue[s[i]].attempts + 1]]]
  BY <1>1
<1>3. S \subseteq Messages /\ IsFiniteSet(S)
  BY EventAssumption, FS_Subset DEF Visible
<1>4. Cardinality(S) \in Nat \ {0}
  <2>1. S # {}
    BY <1>1
  <2>2. QED
    BY <1>3, <2>1, FS_CardinalityType, FS_EmptySet
<1>5. \A m \in S : queue[m].attempts + 1 \in 1..MaxAttempts
  BY <1>3, BoundAssumption DEF Visible, TypeInv, TypeOK, HandsFull
<1> DEFINE n == Cardinality(S)
           r == [i \in 1..n |-> [message |-> s[i], receipt |-> queue[s[i]].attempts + 1]]
<1>6. s \in [1..n -> S]
  BY DEF SetToSeqs
<1>7. r \in [1..n -> Delivery]
  BY <1>3, <1>5, <1>6 DEF Delivery
<1> HIDE DEF r
<1>8. r \in Seq(Delivery) /\ r # <<>>
  <2>1. n \in Nat /\ n # 0
    BY <1>4
  <2> HIDE DEF n
  <2>2. r \in Seq(Delivery) /\ Len(r) = n
    BY <1>7, <2>1
  <2>3. QED
    BY <2>1, <2>2
<1>9. batch' = [batch EXCEPT ![c] = r]
  BY <1>2, <1>6 DEF r
<1>10. queue' \in [Messages -> [state : {"visible", "hidden", "acked", "dead"}, attempts : 0..MaxAttempts]]
  BY <1>1, <1>3, <1>5 DEF TypeInv, TypeOK
<1>11. \A m \in Messages : queue'[m].state = "visible" => queue'[m].attempts < MaxAttempts
  BY <1>1 DEF TypeInv, HandsFull
<1>12. QED
  BY <1>8, <1>9, <1>10, <1>11 DEF Receive, TypeInv, TypeOK, HandsFull

\* A call is made with a message in hand, and ends in the next call or message.
Places == {"receive", "begin", "get", "retry", "work", "succeed", "fail", "ack"}

\* A call goes on to another place, or is done.
LEMMA CallEnds ==
  ASSUME NEW c \in Consumers, Consume(c)
  PROVE  pc[c] # "receive" /\ (Done(c) \/ \E l \in Places : Goto(c, l))
<1> USE DEF Places, Refuse
<1>1. CASE TryCreateProcessing(c)
  BY <1>1, Zenon DEF TryCreateProcessing
<1>2. CASE GetByEventID(c)
  <2>1. CASE inbox[EventOf(c)] = "failed"
    BY <1>2, <2>1 DEF GetByEventID
  <2>2. CASE inbox[EventOf(c)] # "failed"
    BY <1>2, <2>2 DEF GetByEventID
  <2>3. QED
    BY <2>1, <2>2
<1>3. CASE RetryFailed(c)
  BY <1>3, Zenon DEF RetryFailed
<1>4. CASE Work(c)
  BY <1>4, Zenon DEF Work
<1>5. CASE MarkSucceeded(c)
  BY <1>5, Zenon DEF MarkSucceeded, AfterMarkError
<1>6. CASE MarkFailed(c)
  BY <1>6, Zenon DEF MarkFailed
<1>7. CASE Ack(c)
  BY <1>7, Zenon DEF Ack
<1>8. QED
  BY <1>1, <1>2, <1>3, <1>4, <1>5, <1>6, <1>7 DEF Consume

\* The calls of a consumer keep the types.
LEMMA ConsumeTyped ==
  ASSUME TypeInv, NEW c \in Consumers, Consume(c)
  PROVE  TypeInv'
<1>1. pc[c] # "receive"
  BY CallEnds
<1>2. InHand(c) \in Messages /\ EventOf(c) \in Events
  BY <1>1, InHandTyped
<1>3. Done(c) \/ \E l \in Places : Goto(c, l)
  BY CallEnds
<1>4. /\ pc' \in [Consumers -> Places]
      /\ batch' \in [Consumers -> Seq(Delivery)]
      /\ \A x \in Consumers : pc'[x] # "receive" => batch'[x] # <<>>
  BY <1>1, <1>3, DoneTyped, GotoTyped DEF Places
<1>5. /\ inbox' \in [Events -> {"none", "processing", "succeeded", "failed"}]
      /\ applied' \in [Events -> Nat]
  <2>1. \/ UNCHANGED <<inbox, applied>>
        \/ /\ \E st \in {"processing", "succeeded", "failed"} :
                inbox' = [inbox EXCEPT ![EventOf(c)] = st]
           /\ UNCHANGED applied
        \/ applied' = [applied EXCEPT ![EventOf(c)] = @ + 1] /\ UNCHANGED inbox
    BY DEF Consume, TryCreateProcessing, GetByEventID, RetryFailed, Work, MarkSucceeded, MarkFailed, Ack,
           Processing
  <2>2. inbox \in [Events -> {"none", "processing", "succeeded", "failed"}] /\ applied \in [Events -> Nat]
    BY DEF TypeInv, TypeOK
  <2>3. inbox' \in [Events -> {"none", "processing", "succeeded", "failed"}]
    BY <1>2, <2>1, <2>2
  <2>4. applied' \in [Events -> Nat]
    BY <1>2, <2>1, <2>2
  <2>5. QED
    BY <2>3, <2>4
<1>6. faults' \in 0..MaxFaults
  BY BoundAssumption DEF Consume, TryCreateProcessing, GetByEventID, RetryFailed, Work, MarkSucceeded,
     MarkFailed, Ack, Fault, TypeInv, TypeOK
<1>7. /\ queue' \in [Messages -> [state : {"visible", "hidden", "acked", "dead"}, attempts : 0..MaxAttempts]]
      /\ \A m \in Messages : queue'[m].state = "visible" => queue'[m].attempts < MaxAttempts
  <2>1. CASE UNCHANGED queue
    BY <2>1 DEF TypeInv, TypeOK, HandsFull
  <2>2. CASE Ack(c)
    BY <1>2, <2>2, ZenonT(30) DEF Ack, TypeInv, TypeOK, HandsFull
  <2>3. QED
    BY <2>1, <2>2 DEF Consume, TryCreateProcessing, GetByEventID, RetryFailed, Work, MarkSucceeded, MarkFailed
<1>8. QED
  BY <1>4, <1>5, <1>6, <1>7 DEF TypeInv, TypeOK, HandsFull, Places

\* So does every step.
LEMMA NextTyped == TypeInv /\ [Next]_vars => TypeInv'
<1> SUFFICES ASSUME TypeInv, [Next]_vars PROVE TypeInv'
  OBVIOUS
<1>1. ASSUME NEW c \in Consumers, ReceiveFails(c) PROVE TypeInv'
  BY <1>1 DEF ReceiveFails, Goto, AfterReceiveError, TypeInv, TypeOK, HandsFull
<1>2. ASSUME NEW c \in Consumers, Crash(c) PROVE TypeInv'
  BY <1>2, BoundAssumption DEF Crash, Fault, TypeInv, TypeOK, HandsFull
<1>3. ASSUME NEW m \in Messages, Reappear(m) PROVE TypeInv'
  BY <1>3, BoundAssumption DEF Reappear, TypeInv, TypeOK, HandsFull
<1>4. CASE UNCHANGED vars
  BY <1>4 DEF vars, TypeInv, TypeOK, HandsFull
<1>5. QED
  BY <1>1, <1>2, <1>3, <1>4, ReceiveTyped, ConsumeTyped DEF Next

-----------------------------------------------------------------------------
(***************************************************************************)
(* One worker, and applied once.                                           *)
(***************************************************************************)
\* Only one consumer works on an event, and only while its row says processing.
OneBusy ==
  \A c \in Consumers : pc[c] \in Busy =>
    /\ inbox[EventOf(c)] = "processing"
    /\ \A x \in Consumers : pc[x] \in Busy /\ EventOf(x) = EventOf(c) => x = c

\* How often an event has been applied follows from its row and from who works on it.
Counted ==
  /\ \A e \in Events :
       /\ applied[e] \in {0, 1}
       /\ inbox[e] \in {"none", "failed"} => applied[e] = 0
       /\ inbox[e] = "succeeded" => applied[e] = 1
  /\ \A c \in Consumers :
       /\ pc[c] \in {"work", "fail"} => applied[EventOf(c)] = 0
       /\ pc[c] = "succeed" => applied[EventOf(c)] = 1

InboxInv == OneBusy /\ Counted

\* At first no row has been written.
LEMMA InitInbox == Init => InboxInv
BY DEF Init, InboxInv, OneBusy, Counted, Busy

\* A consumer that stays with its message, or goes on, changes nothing of the others.
LEMMA OthersStay ==
  ASSUME TypeInv, NEW c \in Consumers, pc[c] # "receive",
         Done(c) \/ \E l : Goto(c, l)
  PROVE  /\ \A x \in Consumers \ {c} : pc'[x] = pc[x] /\ batch'[x] = batch[x]
         /\ \A x \in Consumers \ {c} : EventOf(x)' = EventOf(x)
         /\ Done(c) => pc'[c] \notin Busy
         /\ \A l : Goto(c, l) => pc'[c] = l /\ EventOf(c)' = EventOf(c)
BY DEF Done, Goto, EventOf, InHand, Busy, TypeInv, TypeOK

\* An event is taken up when nobody works on it, and let go of with its row.
LEMMA ConsumeInbox ==
  ASSUME TypeInv, InboxInv, NEW c \in Consumers, Consume(c)
  PROVE  InboxInv' /\ \A e \in Events : inbox[e] = "succeeded" => inbox'[e] = "succeeded"
<1> DEFINE e == EventOf(c)
<1>1. pc[c] # "receive"
  BY CallEnds
<1>2. e \in Events
  BY <1>1, InHandTyped
<1>3. \A x \in Consumers : pc[x] \in Busy => EventOf(x) \in Events
  BY InHandTyped DEF Busy
<1>4. Done(c) \/ \E l : Goto(c, l)
  BY CallEnds
<1>5. /\ \A x \in Consumers \ {c} : pc'[x] = pc[x] /\ EventOf(x)' = EventOf(x)
      /\ Done(c) => pc'[c] \notin Busy
      /\ \A l : Goto(c, l) => pc'[c] = l /\ EventOf(c)' = e
  BY <1>1, <1>4, OthersStay
<1>6. inbox \in [Events -> {"none", "processing", "succeeded", "failed"}] /\ applied \in [Events -> Nat]
  BY DEF TypeInv, TypeOK
<1> HIDE DEF e
<1>7. CASE TryCreateProcessing(c)
  BY <1>2, <1>3, <1>5, <1>6, <1>7
     DEF TryCreateProcessing, Creatable, Processing, Refuse, InboxInv, OneBusy, Counted, Busy, e
<1>8. CASE GetByEventID(c)
  BY <1>2, <1>3, <1>5, <1>6, <1>8
     DEF GetByEventID, Refuse, InboxInv, OneBusy, Counted, Busy, e
<1>9. CASE RetryFailed(c)
  BY <1>2, <1>3, <1>5, <1>6, <1>9
     DEF RetryFailed, Retriable, Processing, Refuse, InboxInv, OneBusy, Counted, Busy, e
<1>10. CASE Work(c)
  BY <1>2, <1>3, <1>5, <1>6, <1>10 DEF Work, InboxInv, OneBusy, Counted, Busy, e
<1>11. CASE MarkSucceeded(c)
  BY <1>2, <1>3, <1>5, <1>6, <1>11
     DEF MarkSucceeded, AfterMarkError, Refuse, InboxInv, OneBusy, Counted, Busy, e
<1>12. CASE MarkFailed(c)
  BY <1>2, <1>3, <1>5, <1>6, <1>12 DEF MarkFailed, Refuse, InboxInv, OneBusy, Counted, Busy, e
<1>13. CASE Ack(c)
  BY <1>2, <1>3, <1>5, <1>6, <1>13 DEF Ack, InboxInv, OneBusy, Counted, Busy, e
<1>14. QED
  BY <1>7, <1>8, <1>9, <1>10, <1>11, <1>12, <1>13 DEF Consume

\* No step but those of ConsumeInbox is about an event; the others may only drop a batch.
LEMMA StepInbox ==
  ASSUME TypeInv, InboxInv, [Next]_vars
  PROVE  InboxInv' /\ \A e \in Events : inbox[e] = "succeeded" => inbox'[e] = "succeeded"
<1> DEFINE Untouched ==
      /\ UNCHANGED <<inbox, applied>>
      /\ \A c \in Consumers : pc'[c] \in Busy => pc[c] = pc'[c] /\ EventOf(c)' = EventOf(c)
<1>1. ASSUME Untouched PROVE InboxInv'
  BY <1>1 DEF InboxInv, OneBusy, Counted, Busy
<1>2. ASSUME NEW c \in Consumers, Receive(c) \/ ReceiveFails(c) \/ Crash(c) PROVE Untouched
  BY <1>2 DEF Receive, ReceiveFails, AfterReceiveError, Crash, Goto, Busy, EventOf, InHand, TypeInv, TypeOK
<1>3. ASSUME NEW m \in Messages, Reappear(m) PROVE Untouched
  BY <1>3 DEF Reappear, EventOf, InHand
<1>4. CASE UNCHANGED vars
  BY <1>1, <1>4 DEF vars, EventOf, InHand
<1>5. QED
  BY <1>1, <1>2, <1>3, <1>4, ConsumeInbox DEF Next

\* The invariant of the inbox rows.
LEMMA InboxInvariant == Spec => [](TypeInv /\ InboxInv)
<1>1. Init => TypeInv /\ InboxInv
  BY InitTyped, InitInbox
<1>2. TypeInv /\ InboxInv /\ [Next]_vars => (TypeInv /\ InboxInv)'
  BY NextTyped, StepInbox
<1>3. QED
  BY <1>1, <1>2, PTL DEF Spec

\* One consumer at a time works on an event, however often it is delivered (beginEvent).
THEOREM OneWorkerCorrect == Spec => []OneWorker
<1>1. TypeInv /\ InboxInv => OneWorker
  <2> SUFFICES ASSUME TypeInv, InboxInv, NEW e \in Events
               PROVE  Cardinality(Workers(e)) <= 1
    BY DEF OneWorker
  <2>1. CASE Workers(e) = {}
    BY <2>1, FS_EmptySet
  <2>2. CASE Workers(e) # {}
    <3>1. PICK c \in Consumers : c \in Workers(e)
      BY <2>2 DEF Workers
    <3>2. Workers(e) = {c}
      BY <3>1 DEF InboxInv, OneBusy, Workers
    <3>3. QED
      BY <3>2, FS_Singleton
  <2>3. QED
    BY <2>1, <2>2
<1>2. QED
  BY <1>1, InboxInvariant, PTL

\* The use case takes an event at most once (ProcessDepositEvent, ProcessWithdrawEvent).
THEOREM AppliedCorrect == Spec => []AppliedOnce
<1>1. InboxInv => AppliedOnce
  BY DEF InboxInv, Counted, AppliedOnce
<1>2. QED
  BY <1>1, InboxInvariant, PTL

\* A row that says succeeded is final, and true: MarkFailed of a slow consumer, which
\* has no condition on the status, cannot reach it (MarkSucceeded, MarkFailed).
THEOREM SucceededCorrect == Spec => SucceededFinal
<1>1. TypeInv /\ InboxInv /\ [Next]_vars
        => [\A e \in Events : inbox[e] = "succeeded" => inbox'[e] = "succeeded" /\ applied'[e] = 1]_vars
  BY StepInbox DEF InboxInv, Counted
<1>2. QED
  BY <1>1, InboxInvariant, PTL DEF Spec, SucceededFinal

-----------------------------------------------------------------------------
(***************************************************************************)
(* What an acknowledgement means.                                          *)
(***************************************************************************)
Delivered(c) == 1..Len(batch[c])

\* A delivery is in one batch, once.
HeldOnce ==
  \A c, x \in Consumers : \A i \in Delivered(c), j \in Delivered(x) :
    batch[c][i] = batch[x][j] => c = x /\ i = j

\* Receipts are of deliveries made, and the last one is held only until it is acked.
HeldOpen ==
  \A c \in Consumers : \A i \in Delivered(c) :
    /\ batch[c][i].receipt <= queue[batch[c][i].message].attempts
    /\ batch[c][i].receipt = queue[batch[c][i].message].attempts
         => queue[batch[c][i].message].state # "acked"

\* A message past beginEvent, or acknowledged, is known to the inbox.
Known ==
  /\ \A c \in Consumers : pc[c] \notin {"receive", "begin"} => inbox[EventOf(c)] # "none"
  /\ \A m \in Messages : queue[m].state = "acked" => inbox[Event[m]] # "none"

\* The only delivery of a message is over without an acknowledgement, or there was another.
Missed(m) ==
  \/ queue[m].attempts > 1
  \/ /\ queue[m].attempts = 1 /\ queue[m].state # "acked"
     /\ \A c \in Consumers : \A i \in Delivered(c) : batch[c][i] # [message |-> m, receipt |-> 1]

Undone(e) == applied[e] = 0 /\ inbox[e] # "none"

\* While a known event is not applied, one of its messages is being worked on, or missed.
Trying(m) == \E c \in Consumers : pc[c] \in {"work", "fail"} /\ InHand(c) = m
Explained ==
  \A e \in Events : Undone(e) => \E m \in Messages : Event[m] = e /\ (Missed(m) \/ Trying(m))

AckInv == HeldOnce /\ HeldOpen /\ Known /\ Explained

\* The elements of a tail.
LEMMA TailAt ==
  ASSUME NEW T, NEW s \in Seq(T), s # <<>>
  PROVE  /\ 1 \in 1..Len(s) /\ Head(s) = s[1]
         /\ \A i \in 1..Len(Tail(s)) : i + 1 \in 1..Len(s) /\ Tail(s)[i] = s[i + 1]
<1>1. Len(s) \in Nat /\ Len(s) # 0
  BY LenProperties, EmptySeq
<1>2. Len(Tail(s)) = Len(s) - 1 /\ \A i \in 1..Len(Tail(s)) : Tail(s)[i] = s[i + 1]
  BY HeadTailProperties
<1>3. QED
  BY <1>1, <1>2

\* Every step but a delivery drops messages from the front of the batches, or none.
Shrunk ==
  \A c \in Consumers : \E k \in Nat : \A i \in 1..Len(batch'[c]) :
    i + k \in Delivered(c) /\ batch'[c][i] = batch[c][i + k]

\* A worker takes messages from the front of its batch, or loses it whole.
LEMMA DropShrinks ==
  ASSUME TypeInv, NEW c \in Consumers,
         \/ UNCHANGED batch
         \/ pc[c] # "receive" /\ batch' = [batch EXCEPT ![c] = Tail(batch[c])]
         \/ batch' = [batch EXCEPT ![c] = <<>>]
  PROVE  Shrunk
<1> SUFFICES ASSUME NEW x \in Consumers
             PROVE  \E k \in Nat : \A i \in 1..Len(batch'[x]) :
                      i + k \in Delivered(x) /\ batch'[x][i] = batch[x][i + k]
  BY DEF Shrunk
<1>1. batch \in [Consumers -> Seq(Delivery)] /\ Len(batch[x]) \in Nat
  BY LenProperties DEF TypeInv, TypeOK
<1>2. CASE batch'[x] = batch[x]
  <2>1. \A i \in 1..Len(batch'[x]) : i + 0 \in Delivered(x) /\ batch'[x][i] = batch[x][i + 0]
    BY <1>1, <1>2 DEF Delivered
  <2>2. QED
    BY <2>1
<1>3. CASE pc[x] # "receive" /\ batch'[x] = Tail(batch[x])
  <2>1. batch[x] # <<>>
    BY <1>3 DEF TypeInv, HandsFull
  <2>2. \A i \in 1..Len(batch'[x]) : i + 1 \in Delivered(x) /\ batch'[x][i] = batch[x][i + 1]
    BY <1>1, <1>3, <2>1, TailAt DEF Delivered
  <2>3. QED
    BY <2>2
<1>4. CASE batch'[x] = <<>>
  <2>1. 1..Len(batch'[x]) = {}
    BY <1>4
  <2>2. QED
    BY <2>1
<1>5. QED
  BY <1>1, <1>2, <1>3, <1>4

\* So a delivery stays in one place of one batch,
LEMMA OnceShrinks ==
  ASSUME TypeInv, HeldOnce, Shrunk
  PROVE  HeldOnce'
<1> SUFFICES ASSUME NEW c \in Consumers, NEW x \in Consumers, NEW i \in 1..Len(batch'[c]),
                    NEW j \in 1..Len(batch'[x]), batch'[c][i] = batch'[x][j]
             PROVE  c = x /\ i = j
  BY DEF HeldOnce, Delivered
<1>1. PICK k \in Nat : \A n \in 1..Len(batch'[c]) :
        n + k \in Delivered(c) /\ batch'[c][n] = batch[c][n + k]
  BY DEF Shrunk
<1>2. PICK l \in Nat : \A n \in 1..Len(batch'[x]) :
        n + l \in Delivered(x) /\ batch'[x][n] = batch[x][n + l]
  BY DEF Shrunk
<1>3. c = x
  BY <1>1, <1>2 DEF HeldOnce
<1>4. i + k = j + k
  <2>1. j + k \in Delivered(c) /\ batch'[c][j] = batch[c][j + k]
    BY <1>1, <1>3
  <2>2. i + k \in Delivered(c) /\ batch[c][i + k] = batch[c][j + k]
    BY <1>1, <1>3, <2>1
  <2>3. QED
    BY <2>1, <2>2 DEF HeldOnce
<1>5. QED
  BY <1>3, <1>4

\* What a shrunk batch still holds was held before, by the same consumer.
LEMMA HeldBefore ==
  ASSUME TypeInv, Shrunk, NEW c \in Consumers, NEW i \in 1..Len(batch'[c])
  PROVE  batch'[c][i] \in Delivery /\ \E j \in Delivered(c) : batch'[c][i] = batch[c][j]
<1>1. PICK k \in Nat : i + k \in Delivered(c) /\ batch'[c][i] = batch[c][i + k]
  BY DEF Shrunk
<1>2. batch[c] \in Seq(Delivery)
  BY DEF TypeInv, TypeOK
<1>3. batch[c][i + k] \in Delivery
  BY <1>1, <1>2, ElementOfSeq DEF Delivered
<1>4. QED
  BY <1>1, <1>3

\* The delivery in hand is the first of the batch, and no other place has it.
LEMMA HandHeld ==
  ASSUME TypeInv, HeldOnce, HeldOpen, NEW c \in Consumers, pc[c] # "receive"
  PROVE  /\ Head(batch[c]) \in Delivery /\ InHand(c) \in Messages
         /\ Head(batch[c]) = [message |-> InHand(c), receipt |-> Head(batch[c]).receipt]
         /\ Head(batch[c]).receipt \in Nat \ {0}
         /\ Head(batch[c]).receipt <= queue[InHand(c)].attempts
         /\ Head(batch[c]).receipt = queue[InHand(c)].attempts => queue[InHand(c)].state # "acked"
         /\ \A x \in Consumers \ {c} : \A i \in Delivered(x) : batch[x][i] # Head(batch[c])
         /\ \A i \in 1..Len(Tail(batch[c])) : Tail(batch[c])[i] # Head(batch[c])
<1>1. batch[c] \in Seq(Delivery) /\ batch[c] # <<>>
  BY DEF TypeInv, TypeOK, HandsFull
<1>2. Head(batch[c]) \in Delivery
  BY <1>1, HeadAndTail
<1>3. /\ 1 \in Delivered(c) /\ Head(batch[c]) = batch[c][1]
      /\ \A i \in 1..Len(Tail(batch[c])) :
           i + 1 \in Delivered(c) /\ Tail(batch[c])[i] = batch[c][i + 1]
  BY <1>1, TailAt DEF Delivered
<1>4. /\ Head(batch[c]).receipt <= queue[InHand(c)].attempts
      /\ Head(batch[c]).receipt = queue[InHand(c)].attempts => queue[InHand(c)].state # "acked"
  BY <1>3 DEF HeldOpen, InHand
<1>5. /\ InHand(c) \in Messages /\ Head(batch[c]).receipt \in Nat \ {0}
      /\ Head(batch[c]) = [message |-> InHand(c), receipt |-> Head(batch[c]).receipt]
  BY <1>2, BoundAssumption DEF InHand, Delivery
<1>6. \A x \in Consumers \ {c} : \A i \in Delivered(x) : batch[x][i] # Head(batch[c])
  BY <1>3 DEF HeldOnce
<1>7. ASSUME NEW i \in 1..Len(Tail(batch[c])) PROVE Tail(batch[c])[i] # Head(batch[c])
  <2>1. i + 1 # 1
    BY LenProperties
  <2>2. QED
    BY <1>3, <2>1 DEF HeldOnce
<1>8. QED
  BY <1>2, <1>4, <1>5, <1>6, <1>7

\* A message that is let go of without an acknowledgement is missed.
LEMMA Dropped ==
  ASSUME TypeInv, HeldOnce, HeldOpen, NEW c \in Consumers, pc[c] # "receive",
         UNCHANGED queue,
         batch' = [batch EXCEPT ![c] = Tail(batch[c])] \/ batch' = [batch EXCEPT ![c] = <<>>]
  PROVE  \A m \in Messages : m = InHand(c) => Missed(m)'
<1> SUFFICES ASSUME NEW m \in Messages, m = InHand(c)
             PROVE  Missed(m)'
  OBVIOUS
<1> DEFINE r == Head(batch[c]).receipt
<1>1. /\ Head(batch[c]) = [message |-> m, receipt |-> r]
      /\ r \in Nat \ {0} /\ r <= queue[m].attempts
      /\ r = queue[m].attempts => queue[m].state # "acked"
  BY HandHeld
<1> HIDE DEF r
<1>2. queue[m].attempts \in Nat /\ (queue[m].attempts > 1 \/ queue[m].attempts = 1)
  <2>1. queue[m].attempts \in 0..MaxAttempts /\ MaxAttempts \in Nat
    BY BoundAssumption DEF TypeInv, TypeOK
  <2>2. QED
    BY <1>1, <2>1
<1>3. CASE queue[m].attempts = 1
  <2>1. Head(batch[c]) = [message |-> m, receipt |-> 1] /\ queue[m].state # "acked"
    <3>1. r = 1
      BY <1>1, <1>3
    <3>2. QED
      BY <1>1, <1>3, <3>1
  <2>2. ASSUME NEW x \in Consumers, NEW i \in 1..Len(batch'[x])
        PROVE  batch'[x][i] # [message |-> m, receipt |-> 1]
    <3>1. batch \in [Consumers -> Seq(Delivery)]
      BY DEF TypeInv, TypeOK
    <3>2. CASE x # c
      BY <2>1, <3>1, <3>2, HandHeld DEF Delivered
    <3>3. CASE x = c /\ batch' = [batch EXCEPT ![c] = Tail(batch[c])]
      BY <2>1, <3>1, <3>3, HandHeld
    <3>4. CASE x = c /\ batch' = [batch EXCEPT ![c] = <<>>]
      BY <3>1, <3>4
    <3>5. QED
      BY <3>2, <3>3, <3>4
  <2>3. QED
    BY <1>3, <2>1, <2>2 DEF Missed, Delivered
<1>4. CASE queue[m].attempts > 1
  BY <1>4 DEF Missed
<1>5. QED
  BY <1>2, <1>3, <1>4

\* Attempts are as they were, and nothing is newly acknowledged.
NotAcked(m) ==
  /\ queue'[m].attempts = queue[m].attempts
  /\ queue'[m].state = "acked" => queue[m].state = "acked"

\* and its receipt stays as good as it was.
LEMMA OpenShrinks ==
  ASSUME TypeInv, HeldOpen, Shrunk, \A m \in Messages : NotAcked(m)
  PROVE  HeldOpen'
<1> SUFFICES ASSUME NEW c \in Consumers, NEW i \in 1..Len(batch'[c])
             PROVE  /\ batch'[c][i].receipt <= queue'[batch'[c][i].message].attempts
                    /\ batch'[c][i].receipt = queue'[batch'[c][i].message].attempts
                         => queue'[batch'[c][i].message].state # "acked"
  BY DEF HeldOpen, Delivered
<1>1. PICK t \in Delivery : t = batch'[c][i] /\ \E j \in Delivered(c) : t = batch[c][j]
  BY HeldBefore
<1>2. t.message \in Messages
  BY DEF Delivery
<1>3. /\ t.receipt <= queue[t.message].attempts
      /\ t.receipt = queue[t.message].attempts => queue[t.message].state # "acked"
  BY <1>1 DEF HeldOpen
<1>4. QED
  BY <1>1, <1>2, <1>3 DEF NotAcked

\* What has been missed stays missed.
LEMMA MissedStays ==
  ASSUME TypeInv, Shrunk, NEW m \in Messages, Missed(m),
         NotAcked(m) \/ (queue[m].attempts > 1 /\ queue'[m].attempts = queue[m].attempts)
  PROVE  Missed(m)'
<1>1. \A c \in Consumers : \A i \in 1..Len(batch'[c]) :
        \E j \in Delivered(c) : batch'[c][i] = batch[c][j]
  BY HeldBefore
<1>2. CASE queue[m].attempts > 1
  BY <1>2 DEF Missed, NotAcked
<1>3. CASE ~(queue[m].attempts > 1)
  BY <1>1, <1>3 DEF Missed, NotAcked, Delivered
<1>4. QED
  BY <1>2, <1>3

\* An acknowledgement by the last receipt is of a message nobody else holds.
LEMMA AckQueue ==
  ASSUME TypeInv, HeldOnce, HeldOpen, NEW c \in Consumers, Ack(c)
  PROVE  HeldOpen' /\ \A m \in Messages : Missed(m) => Missed(m)'
<1>1. pc[c] # "receive" /\ batch' = [batch EXCEPT ![c] = Tail(batch[c])]
  BY DEF Ack, Done
<1>2. Shrunk
  BY <1>1, DropShrinks
<1> DEFINE h == InHand(c)
           r == Head(batch[c]).receipt
<1>3. /\ h \in Messages /\ Head(batch[c]) = [message |-> h, receipt |-> r]
      /\ r \in Nat \ {0} /\ r <= queue[h].attempts
      /\ \A x \in Consumers \ {c} : \A i \in Delivered(x) : batch[x][i] # Head(batch[c])
      /\ \A i \in 1..Len(Tail(batch[c])) : Tail(batch[c])[i] # Head(batch[c])
  BY <1>1, HandHeld
<1>4. /\ \A m \in Messages : queue'[m].attempts = queue[m].attempts
      /\ \A m \in Messages : m # h \/ r # queue[h].attempts => NotAcked(m)
  BY ZenonT(30) DEF Ack, NotAcked, TypeInv, TypeOK
<1>5. \A x \in Consumers : \A i \in 1..Len(batch'[x]) : batch'[x][i] # Head(batch[c])
  BY <1>1, <1>3 DEF TypeInv, TypeOK, Delivered
<1>6. 1 \in Delivered(c) /\ Head(batch[c]) = batch[c][1]
  BY <1>1, TailAt DEF Delivered, TypeInv, TypeOK, HandsFull
<1> HIDE DEF h, r
<1>7. HeldOpen'
  <2> SUFFICES ASSUME NEW x \in Consumers, NEW i \in 1..Len(batch'[x])
               PROVE  /\ batch'[x][i].receipt <= queue'[batch'[x][i].message].attempts
                      /\ batch'[x][i].receipt = queue'[batch'[x][i].message].attempts
                           => queue'[batch'[x][i].message].state # "acked"
    BY DEF HeldOpen, Delivered
  <2>1. PICK t \in Delivery : t = batch'[x][i] /\ \E j \in Delivered(x) : t = batch[x][j]
    BY <1>2, HeldBefore
  <2>2. t.message \in Messages /\ t = [message |-> t.message, receipt |-> t.receipt]
    BY DEF Delivery
  <2>3. /\ t.receipt <= queue[t.message].attempts
        /\ t.receipt = queue[t.message].attempts => queue[t.message].state # "acked"
    BY <2>1 DEF HeldOpen
  <2>4. CASE t.message = h /\ r = queue[h].attempts
    <3>1. t.receipt # r
      BY <1>3, <1>5, <2>1, <2>2, <2>4
    <3>2. QED
      BY <1>4, <2>1, <2>2, <2>3, <2>4, <3>1
  <2>5. CASE ~(t.message = h /\ r = queue[h].attempts)
    BY <1>4, <2>1, <2>2, <2>3, <2>5 DEF NotAcked
  <2>6. QED
    BY <2>4, <2>5
<1>8. ASSUME NEW m \in Messages, Missed(m) PROVE Missed(m)'
  <2>1. CASE m # h \/ r # queue[h].attempts
    BY <1>2, <1>4, <1>8, <2>1, MissedStays
  <2>2. CASE m = h /\ r = queue[h].attempts
    <3>1. r # 1
      BY <1>3, <1>6, <1>8, <2>2 DEF Missed
    <3>2. queue[m].attempts > 1
      BY <1>3, <2>2, <3>1
    <3>3. QED
      BY <1>2, <1>4, <1>8, <3>2, MissedStays
  <2>3. QED
    BY <2>1, <2>2
<1>9. QED
  BY <1>7, <1>8

\* What a consumer's call does to the batches and the queue.
LEMMA ConsumeHeld ==
  ASSUME TypeInv, HeldOnce, HeldOpen, NEW c \in Consumers, Consume(c)
  PROVE  /\ HeldOnce' /\ HeldOpen' /\ \A m \in Messages : Missed(m) => Missed(m)'
         /\ \A m \in Messages : queue'[m].state = "acked" =>
              queue[m].state = "acked" \/ (pc[c] = "ack" /\ m = InHand(c))
         /\ Done(c) /\ pc[c] # "ack" => \A m \in Messages : m = InHand(c) => Missed(m)'
<1>1. pc[c] # "receive" /\ (Done(c) \/ \E l \in Places : Goto(c, l))
  BY CallEnds
<1>2. UNCHANGED batch \/ batch' = [batch EXCEPT ![c] = Tail(batch[c])]
  BY <1>1 DEF Done, Goto
<1>3. Shrunk
  BY <1>1, <1>2, DropShrinks
<1>4. HeldOnce'
  BY <1>3, OnceShrinks
<1>5. CASE Ack(c)
  <2>1. \A m \in Messages : queue'[m].state = "acked" =>
          queue[m].state = "acked" \/ (pc[c] = "ack" /\ m = InHand(c))
    BY <1>5 DEF Ack, TypeInv, TypeOK
  <2>2. QED
    BY <1>4, <1>5, <2>1, AckQueue DEF Ack
<1>6. CASE UNCHANGED queue
  <2>1. \A m \in Messages : NotAcked(m)
    BY <1>6 DEF NotAcked
  <2>2. HeldOpen' /\ \A m \in Messages : Missed(m) => Missed(m)'
    BY <1>3, <2>1, OpenShrinks, MissedStays
  <2>3. Done(c) => \A m \in Messages : m = InHand(c) => Missed(m)'
    BY <1>1, <1>6, Dropped DEF Done
  <2>4. QED
    BY <1>4, <1>6, <2>2, <2>3
<1>7. QED
  BY <1>5, <1>6 DEF Consume, TryCreateProcessing, GetByEventID, RetryFailed, Work, MarkSucceeded,
                    MarkFailed

\* A row never disappears, and applied never falls.
LEMMA ConsumeKnown ==
  ASSUME TypeInv, InboxInv, AckInv, NEW c \in Consumers, Consume(c)
  PROVE  Known' /\ \A e \in Events : inbox[e] # "none" => inbox'[e] # "none"
<1> DEFINE e == EventOf(c)
<1>1. /\ pc[c] # "receive" /\ e \in Events /\ InHand(c) \in Messages /\ e = Event[InHand(c)]
      /\ Done(c) \/ \E l : Goto(c, l)
  BY CallEnds, InHandTyped DEF EventOf
<1>2. /\ \A x \in Consumers \ {c} : pc'[x] = pc[x] /\ EventOf(x)' = EventOf(x)
      /\ Done(c) => pc'[c] \in {"receive", "begin"}
      /\ \A l : Goto(c, l) => pc'[c] = l /\ EventOf(c)' = e
  BY <1>1, OthersStay DEF Done, TypeInv, TypeOK
<1>3. inbox \in [Events -> {"none", "processing", "succeeded", "failed"}]
  BY DEF TypeInv, TypeOK
<1>4. \A x \in Consumers : pc[x] # "receive" => EventOf(x) \in Events
  BY InHandTyped
<1>5. pc[c] # "begin" => inbox[e] # "none"
  BY <1>1 DEF AckInv, Known
<1> HIDE DEF e
<1>6. inbox' = inbox \/ \E st \in {"processing", "succeeded", "failed"} :
                          inbox' = [inbox EXCEPT ![e] = st]
  BY DEF Consume, TryCreateProcessing, GetByEventID, RetryFailed, Work, MarkSucceeded, MarkFailed,
         Ack, Processing, e
<1>7. \A x \in Events : inbox[x] # "none" => inbox'[x] # "none"
  BY <1>1, <1>3, <1>6
<1>8. ASSUME NEW l, Goto(c, l) PROVE inbox'[e] # "none"
  <2>1. pc[c] = "begin" => inbox'[e] # "none"
    <3> SUFFICES ASSUME pc[c] = "begin" PROVE inbox'[e] # "none"
      OBVIOUS
    <3>1. TryCreateProcessing(c)
      BY DEF Consume, GetByEventID, RetryFailed, Work, MarkSucceeded, MarkFailed, Ack
    <3>2. inbox[e] # "none" \/ inbox' = [inbox EXCEPT ![e] = "processing"] \/ Done(c)
      BY <3>1 DEF TryCreateProcessing, Creatable, Processing, Refuse, e
    <3>3. Done(c) => FALSE
      <4>1. batch[c] \in Seq(Delivery) /\ batch[c] # <<>> /\ batch \in [Consumers -> Seq(Delivery)]
        BY <1>1 DEF TypeInv, TypeOK, HandsFull
      <4>2. Len(Tail(batch[c])) = Len(batch[c]) - 1 /\ Len(batch[c]) \in Nat
        BY <4>1, HeadTailProperties, LenProperties
      <4>3. Len(Tail(batch[c])) # Len(batch[c])
        BY <4>2
      <4>4. QED
        BY <1>8, <4>1, <4>3 DEF Done, Goto
    <3>4. QED
      BY <1>1, <1>3, <1>7, <3>2, <3>3
  <2>2. QED
    BY <1>1, <1>5, <1>7, <2>1
<1>9. \A x \in Consumers : pc'[x] \notin {"receive", "begin"} => inbox'[EventOf(x)'] # "none"
  <2>1. ASSUME NEW x \in Consumers \ {c}, pc'[x] \notin {"receive", "begin"}
        PROVE  inbox'[EventOf(x)'] # "none"
    BY <1>2, <1>4, <1>7, <2>1 DEF AckInv, Known
  <2>2. ASSUME pc'[c] \notin {"receive", "begin"} PROVE inbox'[EventOf(c)'] # "none"
    BY <1>1, <1>2, <1>8, <2>2
  <2>3. QED
    BY <2>1, <2>2
<1>10. ASSUME NEW m \in Messages, queue'[m].state = "acked" PROVE inbox'[Event[m]] # "none"
  <2>1. queue[m].state = "acked" \/ (pc[c] = "ack" /\ m = InHand(c))
    BY <1>10, ConsumeHeld DEF AckInv
  <2>2. Event[m] \in Events
    BY EventAssumption
  <2>3. QED
    BY <1>1, <1>5, <1>7, <2>1, <2>2 DEF AckInv, Known, e
<1>11. QED
  BY <1>7, <1>9, <1>10 DEF Known

\* The steps on the event in hand keep every event that is not applied explained.
LEMMA ConsumeExplained ==
  ASSUME TypeInv, InboxInv, AckInv, NEW c \in Consumers, Consume(c)
  PROVE  Explained'
<1> SUFFICES ASSUME NEW e \in Events, applied'[e] = 0, inbox'[e] # "none"
             PROVE  \E m \in Messages : Event[m] = e /\ (Missed(m)' \/ Trying(m)')
  BY DEF Explained, Undone
<1>1. /\ pc[c] # "receive" /\ InHand(c) \in Messages /\ EventOf(c) = Event[InHand(c)]
      /\ EventOf(c) \in Events /\ (Done(c) \/ \E l : Goto(c, l))
  BY CallEnds, InHandTyped DEF EventOf
<1>2. /\ \A x \in Consumers \ {c} : pc'[x] = pc[x] /\ InHand(x)' = InHand(x)
      /\ \A l : Goto(c, l) => pc'[c] = l /\ InHand(c)' = InHand(c)
  BY <1>1, OthersStay DEF InHand, Goto, TypeInv, TypeOK
<1>3. /\ \A m \in Messages : Missed(m) => Missed(m)'
      /\ Done(c) /\ pc[c] # "ack" => \A m \in Messages : m = InHand(c) => Missed(m)'
  BY ConsumeHeld DEF AckInv
<1>4. applied[e] = 0
  BY <1>1 DEF Consume, TryCreateProcessing, GetByEventID, RetryFailed, Work, MarkSucceeded,
              MarkFailed, Ack, TypeInv, TypeOK, InboxInv, Counted
<1>5. CASE inbox[e] # "none"
  <2>1. PICK m \in Messages : Event[m] = e /\ (Missed(m) \/ Trying(m))
    BY <1>4, <1>5 DEF AckInv, Explained, Undone
  <2>2. CASE Missed(m)
    BY <1>3, <2>1, <2>2
  <2>3. ASSUME NEW x \in Consumers \ {c}, pc[x] \in {"work", "fail"}, InHand(x) = m
        PROVE  Trying(m)'
    BY <1>2, <2>3 DEF Trying
  <2>4. CASE pc[c] \in {"work", "fail"} /\ InHand(c) = m
    <3>1. e = EventOf(c)
      BY <1>1, <2>1, <2>4
    <3>2. Done(c) \/ Goto(c, "fail")
      <4>1. CASE Work(c)
        <5>1. applied' # [applied EXCEPT ![EventOf(c)] = @ + 1]
          BY <1>4, <3>1 DEF TypeInv, TypeOK
        <5>2. QED
          BY <4>1, <5>1 DEF Work
      <4>2. CASE MarkFailed(c)
        BY <4>2 DEF MarkFailed, Refuse
      <4>3. QED
        BY <2>4, <4>1, <4>2 DEF Consume, TryCreateProcessing, GetByEventID, RetryFailed,
                                MarkSucceeded, Ack
    <3>3. CASE Done(c)
      BY <1>3, <2>1, <2>4, <3>3
    <3>4. CASE Goto(c, "fail")
      <4>1. Trying(m)'
        BY <1>2, <2>4, <3>4 DEF Trying
      <4>2. QED
        BY <2>1, <4>1
    <3>5. QED
      BY <3>2, <3>3, <3>4
  <2>5. QED
    BY <2>1, <2>2, <2>3, <2>4 DEF Trying
<1>6. CASE inbox[e] = "none"
  <2>1. TryCreateProcessing(c)
    <3>1. pc[c] # "begin" => inbox[EventOf(c)] # "none"
      BY <1>1 DEF AckInv, Known
    <3>2. inbox'[e] # inbox[e]
      BY <1>6
    <3>3. ASSUME pc[c] # "begin" PROVE FALSE
      <4>1. e # EventOf(c)
        BY <1>6, <3>1, <3>3
      <4>2. inbox'[e] = inbox[e]
        BY <1>1, <4>1 DEF Consume, TryCreateProcessing, GetByEventID, RetryFailed, Work,
                          MarkSucceeded, MarkFailed, Ack, Processing, TypeInv, TypeOK
      <4>3. QED
        BY <3>2, <4>2
    <3>4. QED
      BY <3>3 DEF Consume, GetByEventID, RetryFailed, Work, MarkSucceeded, MarkFailed, Ack
  <2>2. /\ pc[c] = "begin" /\ inbox' = [inbox EXCEPT ![EventOf(c)] = "processing"]
        /\ Goto(c, "work") \/ Done(c)
    BY <1>6, <2>1 DEF TryCreateProcessing, Creatable, Processing, Refuse
  <2>3. e = EventOf(c)
    BY <1>6, <2>2 DEF TypeInv, TypeOK
  <2>4. CASE Goto(c, "work")
    <3>1. Trying(InHand(c))'
      BY <1>2, <2>4 DEF Trying
    <3>2. PICK m \in Messages : m = InHand(c)
      BY <1>1
    <3>3. Trying(m)'
      BY <1>2, <2>4, <3>2 DEF Trying
    <3>4. QED
      BY <1>1, <2>3, <3>2, <3>3
  <2>5. CASE Done(c)
    BY <1>1, <1>3, <2>2, <2>3, <2>5
  <2>6. QED
    BY <2>2, <2>4, <2>5
<1>7. QED
  BY <1>5, <1>6

\* Receiving a batch keeps the invariant.
LEMMA ReceiveAck ==
  ASSUME TypeInv, AckInv, NEW c \in Consumers, Receive(c)
  PROVE  AckInv'
<1>1. PICK S \in (SUBSET Visible) \ {{}} :
        /\ \E s \in SetToSeqs(S) :
             batch' = [batch EXCEPT ![c] =
               [i \in DOMAIN s |-> [message |-> s[i], receipt |-> queue[s[i]].attempts + 1]]]
        /\ queue' = [m \in Messages |-> IF m \in S
             THEN [state |-> "hidden", attempts |-> queue[m].attempts + 1] ELSE queue[m]]
  BY DEF Receive
<1>2. PICK s \in SetToSeqs(S) :
        batch' = [batch EXCEPT ![c] =
          [i \in DOMAIN s |-> [message |-> s[i], receipt |-> queue[s[i]].attempts + 1]]]
  BY <1>1
<1>3. S \subseteq Messages /\ IsFiniteSet(S) /\ Cardinality(S) \in Nat
  BY EventAssumption, FS_Subset, FS_CardinalityType DEF Visible
<1> DEFINE n == Cardinality(S)
           r == [i \in 1..n |-> [message |-> s[i], receipt |-> queue[s[i]].attempts + 1]]
<1>4. s \in [1..n -> S] /\ \A i, j \in 1..n : i # j => s[i] # s[j]
  BY DEF SetToSeqs
<1>5. batch' = [batch EXCEPT ![c] = r]
  BY <1>2, <1>4
<1>6. n \in Nat
  BY <1>3
<1> HIDE DEF n
<1>7. Len(r) = n
  BY <1>6
<1>8. /\ \A x \in Consumers \ {c} : batch'[x] = batch[x] /\ pc'[x] = pc[x]
      /\ batch'[c] = r /\ pc'[c] = "begin" /\ UNCHANGED <<inbox, applied>>
  BY <1>5 DEF Receive, TypeInv, TypeOK
<1>9. \A i \in 1..n : r[i].message = s[i] /\ r[i].receipt = queue[s[i]].attempts + 1
  OBVIOUS
<1> HIDE DEF r
<1>10. \A m \in Messages : queue[m].attempts \in Nat
  BY BoundAssumption DEF TypeInv, TypeOK
<1>11. ASSUME NEW x \in Consumers, NEW i \in Delivered(x)
       PROVE  batch[x][i] \in Delivery /\ batch[x][i].message \in Messages
  <2>1. batch[x] \in Seq(Delivery)
    BY DEF TypeInv, TypeOK
  <2>2. batch[x][i] \in Delivery
    BY <2>1, ElementOfSeq DEF Delivered
  <2>3. QED
    BY <2>2 DEF Delivery
<1>12. \A x \in Consumers : \A i \in Delivered(x), j \in 1..n : batch[x][i] # r[j]
  <2> SUFFICES ASSUME NEW x \in Consumers, NEW i \in Delivered(x), NEW j \in 1..n,
                      batch[x][i] = r[j]
               PROVE  FALSE
    OBVIOUS
  <2>1. s[j] \in Messages /\ batch[x][i].message = s[j]
        /\ batch[x][i].receipt = queue[s[j]].attempts + 1
    BY <1>3, <1>4, <1>9
  <2>2. batch[x][i].receipt <= queue[s[j]].attempts
    BY <2>1 DEF AckInv, HeldOpen
  <2>3. QED
    BY <1>10, <2>1, <2>2
<1>13. HeldOnce'
  <2> SUFFICES ASSUME NEW x \in Consumers, NEW y \in Consumers, NEW i \in 1..Len(batch'[x]),
                      NEW j \in 1..Len(batch'[y]), batch'[x][i] = batch'[y][j]
               PROVE  x = y /\ i = j
    BY DEF HeldOnce, Delivered
  <2>1. CASE x = c /\ y = c
    BY <1>4, <1>7, <1>8, <1>9, <2>1
  <2>2. CASE x # c /\ y # c
    BY <1>8, <2>2 DEF AckInv, HeldOnce, Delivered
  <2>3. CASE x = c /\ y # c
    BY <1>7, <1>8, <1>12, <2>3 DEF Delivered
  <2>4. CASE x # c /\ y = c
    BY <1>7, <1>8, <1>12, <2>4 DEF Delivered
  <2>5. QED
    BY <2>1, <2>2, <2>3, <2>4
<1>14. /\ \A m \in S : m \in Messages /\ queue'[m].attempts = queue[m].attempts + 1
                       /\ queue'[m].state = "hidden"
       /\ \A m \in Messages \ S : queue'[m] = queue[m]
  BY <1>1, <1>3
<1>15. HeldOpen'
  <2> SUFFICES ASSUME NEW x \in Consumers, NEW i \in 1..Len(batch'[x])
               PROVE  /\ batch'[x][i].receipt <= queue'[batch'[x][i].message].attempts
                      /\ batch'[x][i].receipt = queue'[batch'[x][i].message].attempts
                           => queue'[batch'[x][i].message].state # "acked"
    BY DEF HeldOpen, Delivered
  <2>1. CASE x = c
    <3>1. s[i] \in S /\ batch'[x][i].message = s[i] /\ batch'[x][i].receipt = queue[s[i]].attempts + 1
      BY <1>4, <1>7, <1>8, <1>9, <2>1
    <3>2. QED
      BY <1>10, <1>14, <3>1
  <2>2. CASE x # c
    <3>1. i \in Delivered(x) /\ batch'[x][i] = batch[x][i]
      BY <1>8, <2>2 DEF Delivered
    <3>2. PICK t \in Delivery : t = batch[x][i]
      BY <1>11, <3>1
    <3>3. /\ t.message \in Messages /\ t.receipt \in Nat
          /\ t.receipt <= queue[t.message].attempts
          /\ t.receipt = queue[t.message].attempts => queue[t.message].state # "acked"
      BY <3>1, <3>2, BoundAssumption DEF AckInv, HeldOpen, Delivery
    <3>4. QED
      BY <1>10, <1>14, <3>1, <3>2, <3>3, SMTT(30)
  <2>3. QED
    BY <2>1, <2>2
<1>16. Known'
  <2>1. \A x \in Consumers \ {c} : EventOf(x)' = EventOf(x)
    BY <1>8 DEF EventOf, InHand
  <2>2. \A m \in Messages : queue'[m].state = "acked" => queue[m].state = "acked"
    BY <1>14
  <2>3. QED
    BY <1>8, <2>1, <2>2 DEF AckInv, Known
<1>17. ASSUME NEW m \in Messages, Missed(m) PROVE Missed(m)'
  <2>1. CASE m \in S
    BY <1>10, <1>14, <1>17, <2>1 DEF Missed
  <2>2. CASE m \notin S
    <3>1. queue'[m] = queue[m]
      BY <1>14, <2>2
    <3>2. CASE queue[m].attempts > 1
      BY <3>1, <3>2 DEF Missed
    <3>3. CASE ~(queue[m].attempts > 1)
      <4>1. ASSUME NEW x \in Consumers, NEW i \in 1..Len(batch'[x])
            PROVE  batch'[x][i] # [message |-> m, receipt |-> 1]
        <5>1. CASE x = c
          <6>1. batch'[x][i].message # m
            BY <1>4, <1>7, <1>8, <1>9, <2>2, <5>1
          <6>2. QED
            BY <6>1
        <5>2. CASE x # c
          BY <1>8, <1>17, <3>3, <5>2 DEF Missed, Delivered
        <5>3. QED
          BY <5>1, <5>2
      <4>2. QED
        BY <1>17, <3>1, <3>3, <4>1 DEF Missed, Delivered
    <3>4. QED
      BY <3>2, <3>3
  <2>3. QED
    BY <2>1, <2>2
<1>18. Explained'
  <2> SUFFICES ASSUME NEW e \in Events, Undone(e)
               PROVE  \E m \in Messages : Event[m] = e /\ (Missed(m)' \/ Trying(m)')
    BY <1>8 DEF Explained, Undone
  <2>1. PICK m \in Messages : Event[m] = e /\ (Missed(m) \/ Trying(m))
    BY DEF AckInv, Explained
  <2>2. Trying(m) => Trying(m)'
    <3>1. pc[c] = "receive"
      BY DEF Receive
    <3>2. QED
      BY <1>8, <3>1 DEF Trying, InHand
  <2>3. QED
    BY <1>17, <2>1, <2>2
<1>19. QED
  BY <1>13, <1>15, <1>16, <1>18 DEF AckInv

\* So does a crash: its batch will be delivered again.
LEMMA CrashAck ==
  ASSUME TypeInv, AckInv, NEW c \in Consumers, Crash(c)
  PROVE  AckInv'
<1>1. /\ pc[c] # "receive" /\ batch' = [batch EXCEPT ![c] = <<>>] /\ pc'[c] = "receive"
      /\ UNCHANGED <<queue, inbox, applied>>
      /\ \A x \in Consumers \ {c} : pc'[x] = pc[x] /\ batch'[x] = batch[x]
  BY DEF Crash, TypeInv, TypeOK
<1>2. Shrunk
  BY <1>1, DropShrinks
<1>3. \A m \in Messages : NotAcked(m)
  BY <1>1 DEF NotAcked
<1>4. HeldOnce' /\ HeldOpen' /\ \A m \in Messages : Missed(m) => Missed(m)'
  BY <1>2, <1>3, OnceShrinks, OpenShrinks, MissedStays DEF AckInv
<1>5. \A x \in Consumers \ {c} : InHand(x)' = InHand(x) /\ EventOf(x)' = EventOf(x)
  BY <1>1 DEF EventOf, InHand
<1>6. Known'
  BY <1>1, <1>5 DEF AckInv, Known
<1>7. \A m \in Messages : m = InHand(c) => Missed(m)'
  BY <1>1, Dropped DEF AckInv
<1>8. ASSUME NEW m \in Messages, Trying(m) PROVE Missed(m)' \/ Trying(m)'
  BY <1>1, <1>5, <1>7, <1>8 DEF Trying
<1>9. Explained'
  BY <1>1, <1>4, <1>8 DEF AckInv, Explained, Undone
<1>10. QED
  BY <1>4, <1>6, <1>9 DEF AckInv

\* The other steps touch neither batches nor rows.
LEMMA QuietAck ==
  ASSUME TypeInv, AckInv, UNCHANGED <<inbox, applied, pc, batch>>, \A m \in Messages : NotAcked(m)
  PROVE  AckInv'
<1>1. Shrunk
  <2>1. ASSUME NEW c \in Consumers PROVE Shrunk
    BY DropShrinks
  <2>2. QED
    BY <2>1 DEF Shrunk
<1>2. HeldOnce' /\ HeldOpen' /\ \A m \in Messages : Missed(m) => Missed(m)'
  BY <1>1, OnceShrinks, OpenShrinks, MissedStays DEF AckInv
<1>3. \A x \in Consumers : InHand(x)' = InHand(x) /\ EventOf(x)' = EventOf(x)
  BY DEF EventOf, InHand
<1>4. Known'
  BY <1>3 DEF AckInv, Known, NotAcked
<1>5. \A m \in Messages : Trying(m) => Trying(m)'
  BY <1>3 DEF Trying
<1>6. Explained'
  BY <1>2, <1>5 DEF AckInv, Explained, Undone
<1>7. QED
  BY <1>2, <1>4, <1>6 DEF AckInv

\* Every step keeps the invariant.
LEMMA AckStep == TypeInv /\ InboxInv /\ AckInv /\ [Next]_vars => AckInv'
<1> SUFFICES ASSUME TypeInv, InboxInv, AckInv, [Next]_vars PROVE AckInv'
  OBVIOUS
<1>1. ASSUME NEW c \in Consumers, Consume(c) PROVE AckInv'
  BY <1>1, ConsumeHeld, ConsumeKnown, ConsumeExplained DEF AckInv
<1>2. ASSUME NEW c \in Consumers, ReceiveFails(c) PROVE AckInv'
  <2>1. pc' = pc
    BY <1>2 DEF ReceiveFails, Goto, AfterReceiveError, TypeInv, TypeOK
  <2>2. QED
    BY <1>2, <2>1, QuietAck DEF ReceiveFails, Goto, NotAcked
<1>3. ASSUME NEW m \in Messages, Reappear(m) PROVE AckInv'
  <2>1. \A x \in Messages : NotAcked(x)
    BY <1>3 DEF Reappear, NotAcked, TypeInv, TypeOK
  <2>2. QED
    BY <1>3, <2>1, QuietAck DEF Reappear
<1>4. CASE UNCHANGED vars
  BY <1>4, QuietAck DEF vars, NotAcked
<1>5. QED
  BY <1>1, <1>2, <1>3, <1>4, ReceiveAck, CrashAck DEF Next

\* What Trying has in hand was not acknowledged by its only delivery.
LEMMA TriedOnce ==
  ASSUME TypeInv, AckInv, NEW m \in Messages, Missed(m) \/ Trying(m)
  PROVE  ~(queue[m].state = "acked" /\ queue[m].attempts = 1)
<1>1. CASE Missed(m)
  BY <1>1 DEF Missed
<1>2. CASE Trying(m)
  <2>1. PICK c \in Consumers : pc[c] \in {"work", "fail"} /\ InHand(c) = m
    BY <1>2 DEF Trying
  <2>2. /\ Head(batch[c]).receipt \in Nat \ {0}
        /\ Head(batch[c]).receipt <= queue[m].attempts
        /\ Head(batch[c]).receipt = queue[m].attempts => queue[m].state # "acked"
    BY <2>1, HandHeld DEF AckInv
  <2>3. QED
    BY <2>2
<1>3. QED
  BY <1>1, <1>2

\* An acknowledged message is known to the inbox, and an event all of whose messages were
\* acknowledged at their first delivery has been applied (beginEvent, consumeMessage).
THEOREM AckedCorrect == Spec => []AckedIsKnown
<1>1. Init => AckInv
  <2> SUFFICES ASSUME Init PROVE AckInv
    OBVIOUS
  <2>1. \A c \in Consumers : Delivered(c) = {}
    BY EmptySeq DEF Init, Delivered
  <2>2. QED
    BY <2>1 DEF Init, AckInv, HeldOnce, HeldOpen, Known, Explained, Undone
<1>2. TypeInv /\ InboxInv /\ AckInv => AckedIsKnown
  <2> SUFFICES ASSUME TypeInv, InboxInv, AckInv PROVE AckedIsKnown
    OBVIOUS
  <2>1. ASSUME NEW e \in Events, NEW n \in Messages, Event[n] = e,
               \A m \in Messages : Event[m] = e => queue[m].state = "acked" /\ queue[m].attempts = 1
        PROVE  applied[e] = 1
    <3>1. inbox[e] # "none"
      BY <2>1 DEF AckInv, Known
    <3>2. ~Undone(e)
      BY <2>1, TriedOnce DEF AckInv, Explained
    <3>3. QED
      BY <3>1, <3>2 DEF Undone, InboxInv, Counted
  <2>2. QED
    BY <2>1 DEF AckedIsKnown, AckInv, Known
<1>3. QED
  BY <1>1, <1>2, AckStep, InboxInvariant, PTL DEF Spec
=============================================================================
