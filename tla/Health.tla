------------------------------- MODULE Health -------------------------------
(***************************************************************************)
(* CheckHealth of a process that serves: MySQL, Redis and RocketMQ are     *)
(* asked one after the other, within five seconds for all, while each may  *)
(* go down or come back.  They are external.                               *)
(***************************************************************************)
EXTENDS Integers

CONSTANTS
  MaxChecks,   \* bound: health checks
  MaxOutages   \* bound: dependencies going down or coming back

Deps == {"mysql", "redis", "rocketmq"}

VARIABLES
  up,          \* the dependencies that answer
  check,       \* the health check: where it is, and what has answered so far
  live,        \* history: the dependencies that were up during the check
  outages, checks

vars == <<up, check, live, outages, checks>>

NoCheck == [at |-> "none", ok |-> {}]

Init ==
  /\ up \in SUBSET Deps
  /\ check = NoCheck /\ live = {}
  /\ outages = 0 /\ checks = 0

CheckBegins ==
  /\ check.at \in {"none", "answered"} /\ checks < MaxChecks
  /\ check' = [at |-> "mysql", ok |-> {}]
  /\ checks' = checks + 1
  /\ live' = up
  /\ UNCHANGED <<up, outages>>

\* A check that fails, or is not through when the time is over, does not end the others.
After == [mysql |-> "redis", redis |-> "rocketmq", rocketmq |-> "answered"]

\* The producer that the check starts need not notice that the broker is down.
Answers(d) == IF d \in up THEN {TRUE} ELSE {FALSE, d = "rocketmq"}

AskNext ==
  /\ check.at \in Deps
  /\ \E ok \in Answers(check.at) :
       check' = [at |-> After[check.at], ok |-> check.ok \cup {d \in {check.at} : ok}]
  /\ UNCHANGED <<up, live, checks, outages>>

TimesOut ==
  /\ check.at \in Deps
  /\ check' = [check EXCEPT !.at = After[check.at]]
  /\ UNCHANGED <<up, live, checks, outages>>

HealthyIfAny(ok) == ok # {}   \* mutant: one component that answers is enough
Healthy(ok) == ok = Deps

Reply == [ok |-> Healthy(check.ok), components |-> check.ok]

Outage(d) ==
  /\ outages < MaxOutages /\ outages' = outages + 1
  /\ up' = (IF d \in up THEN up \ {d} ELSE up \cup {d})
  /\ live' = live \cup up'
  /\ UNCHANGED <<check, checks>>

Next == CheckBegins \/ AskNext \/ TimesOut \/ \E d \in Deps : Outage(d)

Spec == Init /\ [][Next]_vars

(***************************************************************************)
(* Properties                                                              *)
(***************************************************************************)
\* CheckHealth says ok only when MySQL and Redis were each up at some time during the
\* check, although it asks one after the other and each may go down or time out
\* (HealthChecker.Check).
HealthTrue == check.at = "answered" /\ Reply.ok => {"mysql", "redis"} \subseteq live
=============================================================================
