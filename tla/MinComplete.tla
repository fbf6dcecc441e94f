---------------------------- MODULE MinComplete ----------------------------
(***************************************************************************)
(* The share of the target that a timed-out basket must have reached to be *)
(* paid out short, computed in integers of a fixed width as Go does        *)
(* (minCompleteAmount, canCompletePartial).  A basket is created with any  *)
(* target, deposits are attached to it, and it times out.                  *)
(***************************************************************************)
EXTENDS Integers

CONSTANTS
  Half,       \* 2^(w-1) for integers of w bits; 2^63 in the code
  Targets,    \* target amounts a request may carry
  MinRates,   \* min_complete_rate as configured
  Steps       \* the amounts of deposits, small enough for TLC

ASSUME WidthAssumption ==
  /\ Half \in Nat \ {0} /\ Half > 100000000   \* holds 10000 * 10000
  /\ Targets \subseteq 1..(Half - 1)
  /\ MinRates \subseteq Int
  /\ Steps \subseteq Nat \ {0}

VARIABLES rate, target, current, outcome

vars == <<rate, target, current, outcome>>

\* Signed arithmetic wraps, and Go's division truncates towards zero.
Wrap(x)        == ((x + Half) % (2 * Half)) - Half
Quotient(x, y) == IF x >= 0 THEN x \div y ELSE -((-x) \div y)

\* cfgMinCompleteRate: the share in 1/10000.
CfgMinCompleteRate(r) == IF r <= 0 THEN 3000 ELSE IF r > 10000 THEN 10000 ELSE r

MinRoundedDown(t, r) ==   \* mutant: the share is rounded down
  Quotient(Wrap(t * CfgMinCompleteRate(r)), 10000)
MinCompleteAmount(t, r) ==
  IF t <= 0 THEN 0 ELSE Quotient(Wrap(Wrap(t * CfgMinCompleteRate(r)) + 9999), 10000)

CanCompletePartial(t, r, c) == c > 0 /\ c >= MinCompleteAmount(t, r)

Init ==
  /\ rate \in MinRates
  /\ target \in Targets
  /\ current = 0
  /\ outcome = "waiting"

\* A deposit fits and leaves something open.
Attach(amount) ==
  /\ outcome = "waiting"
  /\ current + amount < target
  /\ current' = current + amount
  /\ UNCHANGED <<rate, target, outcome>>

ExpireBasket ==
  /\ outcome = "waiting"
  /\ outcome' = IF CanCompletePartial(target, rate, current) THEN "short" ELSE "expired"
  /\ UNCHANGED <<rate, target, current>>

Next == ExpireBasket \/ \E amount \in Steps : Attach(amount)

Spec == Init /\ [][Next]_vars

(***************************************************************************)
(* Properties                                                              *)
(***************************************************************************)
\* A basket is paid out short exactly when it holds something and at least the
\* configured share of its target, in exact arithmetic: "已凑金额达到
\* min_complete_rate 时少发成交；否则篮子过期" (expireBasket).
ShareDecides ==
  /\ outcome = "short" => current > 0 /\ current * 10000 >= target * CfgMinCompleteRate(rate)
  /\ outcome = "expired" => current = 0 \/ current * 10000 < target * CfgMinCompleteRate(rate)

\* The minimum never exceeds the target: a basket that is almost full can be paid
\* out short, whatever rate is configured.
Reachable == 1 <= MinCompleteAmount(target, rate) /\ MinCompleteAmount(target, rate) <= target

\* The targets for which nothing overflows.
Representable == \A t \in Targets : t * 10000 + 9999 < Half
=============================================================================
