------------------------------ MODULE ShardLock ------------------------------
(***************************************************************************)
(* The Redis lock of one shard key (pkg/toolbox/redisx/lock.go): SET NX    *)
(* with a TTL and a random token, a retry every 100 ms, and a script that  *)
(* deletes the key if it still holds the token.                            *)
(*                                                                         *)
(* Requests travel: a SET NX can be executed without its caller learning   *)
(* of it, and a script can be executed late, twice or never.  Time is      *)
(* relative: what is left of the TTL, and the age of each caller's grant.  *)
(***************************************************************************)
EXTENDS Integers

CONSTANTS
  Callers,    \* goroutines of all instances that call WithLock with this key
  TTL,        \* shard_lock_ttl_second
  Section,    \* the longest a section runs, from the grant on
  MaxCalls,   \* bound: calls of each goroutine
  MaxLost,    \* bound: answers of Redis that are lost and asked for again
  NoToken

\* config.yaml: the TTL must be larger than the time of one matching section.
ASSUME TTLAssumption == TTL \in Nat /\ Section \in Nat /\ Section < TTL
ASSUME BoundsAssumption == MaxCalls \in Nat /\ MaxLost \in Nat

VARIABLES
  holder,     \* the value of the key, NoToken when it is absent
  left,       \* what is left of its TTL
  pc,         \* "idle", "waiting" in waitLock, or in its "section"
  calls,      \* per goroutine, the number of its calls: its tokens are all different
  age,        \* per goroutine, the time since SET NX granted it the key
  late,       \* tokens of SET NX requests whose callers no longer wait
  evals,      \* tokens of unlock scripts that are on their way
  lost        \* answers lost so far

vars == <<holder, left, pc, calls, age, late, evals, lost>>

Tokens   == Callers \X (1..MaxCalls)
Token(c) == <<c, calls[c]>>

ASSUME TokenAssumption == NoToken \notin Tokens

Init ==
  /\ holder = NoToken /\ left = 0
  /\ pc = [c \in Callers |-> "idle"]
  /\ calls = [c \in Callers |-> 0]
  /\ age = [c \in Callers |-> 0]
  /\ late = {} /\ evals = {} /\ lost = 0

\* WithLock draws a token.
Call(c) ==
  /\ pc[c] = "idle" /\ calls[c] < MaxCalls
  /\ calls' = [calls EXCEPT ![c] = @ + 1]
  /\ pc' = [pc EXCEPT ![c] = "waiting"]
  /\ UNCHANGED <<holder, left, age, late, evals, lost>>

\* SET key token NX EX ttl, as Redis executes it.
SetWithoutNX(t) == holder' = t /\ left' = TTL   \* mutant: SET without NX
SetNX(t) == holder = NoToken /\ holder' = t /\ left' = TTL

\* The answer arrives: waitLock returns, and fn runs.
Granted(c) ==
  /\ pc[c] = "waiting"
  /\ SetNX(Token(c))
  /\ pc' = [pc EXCEPT ![c] = "section"]
  /\ age' = [age EXCEPT ![c] = 0]
  /\ UNCHANGED <<calls, late, evals, lost>>

\* The answer is lost and the client library sends the command again, which finds
\* the key taken: the caller waits for a key that holds its own token.
Unseen(c) ==
  /\ pc[c] = "waiting"
  /\ lost < MaxLost /\ lost' = lost + 1
  /\ SetNX(Token(c))
  /\ UNCHANGED <<pc, calls, age, late, evals>>

\* The context is done or Redis answers with an error; a request may still be
\* on its way.
GiveUp(c) ==
  /\ pc[c] = "waiting"
  /\ pc' = [pc EXCEPT ![c] = "idle"]
  /\ late' \in {late, late \cup {Token(c)}}
  /\ UNCHANGED <<holder, left, calls, age, evals, lost>>

LateSetNX(t) ==
  /\ t \in late
  /\ late' = late \ {t}
  /\ \/ SetNX(t)
     \/ UNCHANGED <<holder, left>>
  /\ UNCHANGED <<pc, calls, age, evals, lost>>

\* fn has returned or panicked: the deferred unlock sends the script, whose error
\* is dropped.
Unlock(c) ==
  /\ pc[c] = "section"
  /\ pc' = [pc EXCEPT ![c] = "idle"]
  /\ evals' = evals \cup {Token(c)}
  /\ UNCHANGED <<holder, left, calls, age, late, lost>>

\* unlockScript: GET key = token, then DEL key.
DelAlways(t) == holder' = NoToken   \* mutant: the token is not compared
Del(t)       == holder' = IF holder = t THEN NoToken ELSE holder

\* A script is executed, perhaps not for the last time, or is lost.
Eval(t) ==
  /\ t \in evals
  /\ \/ Del(t) /\ evals' \in {evals, evals \ {t}}
     \/ evals' = evals \ {t} /\ UNCHANGED holder
  /\ UNCHANGED <<left, pc, calls, age, late, lost>>

\* The process of c stops: nothing is sent.
Crash(c) ==
  /\ pc[c] # "idle"
  /\ pc' = [pc EXCEPT ![c] = "idle"]
  /\ late' \in {late, IF pc[c] = "waiting" THEN late \cup {Token(c)} ELSE late}
  /\ UNCHANGED <<holder, left, calls, age, evals, lost>>

\* A unit of time passes, unless a section has to end first.  Redis drops the key
\* when its TTL is over.
NoTTL     == holder                                    \* mutant: SET NX without EX
Surviving == IF left <= 1 THEN NoToken ELSE holder

Tick ==
  /\ \A c \in Callers : pc[c] = "section" => age[c] < Section
  /\ holder' = Surviving
  /\ left' = IF left > 0 THEN left - 1 ELSE 0
  /\ age' = [c \in Callers |-> IF pc[c] = "section" THEN age[c] + 1 ELSE age[c]]
  /\ UNCHANGED <<pc, calls, late, evals, lost>>

Next ==
  \/ \E c \in Callers :
       Call(c) \/ Granted(c) \/ Unseen(c) \/ GiveUp(c) \/ Unlock(c) \/ Crash(c)
  \/ \E t \in Tokens : LateSetNX(t) \/ Eval(t)
  \/ Tick

Spec == Init /\ [][Next]_vars

\* A waiting goroutine retries, a section ends, and time passes.  Scripts and late
\* requests need not arrive.
Fairness ==
  /\ \A c \in Callers : WF_vars(Granted(c)) /\ WF_vars(Unlock(c))
  /\ WF_vars(Tick)

FairSpec == Spec /\ Fairness

-----------------------------------------------------------------------------
TypeOK ==
  /\ holder \in Tokens \cup {NoToken}
  /\ left \in 0..TTL
  /\ pc \in [Callers -> {"idle", "waiting", "section"}]
  /\ calls \in [Callers -> 0..MaxCalls]
  /\ age \in [Callers -> 0..Section]
  /\ late \in SUBSET Tokens /\ evals \in SUBSET Tokens /\ lost \in 0..MaxLost

\* The key is the section's own for as long as it runs: no expiry, no script of an
\* earlier call and no late request takes it away (WithLock, unlockScript).
SectionKeepsKey ==
  \A c \in Callers : pc[c] = "section" =>
    /\ holder = Token(c)
    /\ left + age[c] = TTL
    /\ Token(c) \notin evals

\* WithLock gives mutual exclusion.
Abstract == INSTANCE Mutex WITH inside <- {c \in Callers : pc[c] = "section"}
Excludes == Abstract!Spec

\* A call does not wait forever, although unlock scripts may be lost, holders may
\* crash, and a key may hold a token nobody knows: the TTL ends every such key.
WaitEnds == \A c \in Callers : pc[c] = "waiting" ~> pc[c] # "waiting"
=============================================================================
