---------------------------- MODULE OrderNumbers ----------------------------
(***************************************************************************)
(* Deposits that come as messages without a number.  normalizeDeposit      *)
(* gives them one made by pkg/toolbox/idx: the current second and a        *)
(* counter of the process; saveDepositIfNeeded takes a row that already    *)
(* has the number for the same deposit.  A message that fails is tried     *)
(* again, and gets a number again.                                         *)
(***************************************************************************)
EXTENDS Integers, FiniteSets

CONSTANTS
  Instances,   \* service processes
  Events,      \* one unnumbered deposit each
  Modulus,     \* 1000000: the counter is cut to six digits
  MaxSecond,   \* bound: the clock stops here
  MaxFailures, \* bound: failures after the row was saved
  MaxRestarts, \* bound: processes started again
  RestartTakes,\* the seconds from the last number to the first of the next process
  NoEvent

\* What the constants must be; the modules that use this one assume it.
NumberAssumption ==
  /\ Modulus \in Nat \ {0} /\ MaxSecond \in Nat
  /\ MaxFailures \in Nat /\ MaxRestarts \in Nat /\ RestartTakes \in Nat
  /\ NoEvent \notin Events /\ "none" \notin Instances

VARIABLES
  second,      \* the clock
  seq,         \* per process: the counter of idx
  order,       \* deposit_order rows: the event that created each number
  attempt,     \* per event: the instance working on it and the number it made
  inbox,       \* event_inbox rows
  failures, restarts

vars == <<second, seq, order, attempt, inbox, failures, restarts>>

Number == (0..MaxSecond) \X (0..Modulus - 1)
Idle   == [at |-> "none", no |-> <<0, 0>>]

Init ==
  /\ second = 0
  /\ seq = [i \in Instances |-> 0]
  /\ order = [n \in Number |-> NoEvent]
  /\ attempt = [e \in Events |-> Idle]
  /\ inbox = [e \in Events |-> "none"]
  /\ failures = 0 /\ restarts = 0

\* idx.New: atomic, but for the process only; the date is read after the counter.
NewOfSecond(i) == <<second, 0>>   \* mutant: the second alone
New(i) == <<second, (seq[i] + 1) % Modulus>>

\* beginEvent admits a new event and a failed one; normalizeDeposit numbers it.
Normalize(i, e) ==
  /\ inbox[e] \in {"none", "failed"}
  /\ inbox' = [inbox EXCEPT ![e] = "processing"]
  /\ attempt' = [attempt EXCEPT ![e] = [at |-> i, no |-> New(i)]]
  /\ seq' = [seq EXCEPT ![i] = @ + 1]
  /\ UNCHANGED <<second, order, failures, restarts>>

\* saveDepositIfNeeded, then the match, which succeeds or fails.
Save(e) ==
  LET n == attempt[e].no IN
  /\ attempt[e] # Idle
  /\ order' = [order EXCEPT ![n] = IF @ = NoEvent THEN e ELSE @]
  /\ attempt' = [attempt EXCEPT ![e] = Idle]
  /\ \/ inbox' = [inbox EXCEPT ![e] = "succeeded"] /\ UNCHANGED failures
     \/ /\ failures < MaxFailures /\ failures' = failures + 1
        /\ inbox' = [inbox EXCEPT ![e] = "failed"]
  /\ UNCHANGED <<second, seq, restarts>>

\* The counter starts from zero; what the process was working on stays "processing".
Restart(i) ==
  /\ restarts < MaxRestarts /\ restarts' = restarts + 1
  /\ second + RestartTakes <= MaxSecond /\ second' = second + RestartTakes
  /\ seq' = [seq EXCEPT ![i] = 0]
  /\ attempt' = [e \in Events |-> IF attempt[e].at = i THEN Idle ELSE attempt[e]]
  /\ UNCHANGED <<order, inbox, failures>>

Tick ==
  /\ second < MaxSecond /\ second' = second + 1
  /\ UNCHANGED <<seq, order, attempt, inbox, failures, restarts>>

Next ==
  \/ \E e \in Events : Save(e) \/ \E i \in Instances : Normalize(i, e)
  \/ \E i \in Instances : Restart(i)
  \/ Tick

Spec == Init /\ [][Next]_vars

(***************************************************************************)
(* Properties                                                              *)
(***************************************************************************)
OrdersOf(e) == {n \in Number : order[n] = e}

\* A deposit that was taken has an order of its own: no two are merged into the one
\* row that bears their number (saveDepositIfNeeded).
OrderOfItsOwn == \A e \in Events : inbox[e] = "succeeded" => OrdersOf(e) # {}
=============================================================================
