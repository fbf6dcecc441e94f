--------------------------- MODULE ShardLockProofs ---------------------------
(***************************************************************************)
(* ShardLock gives mutual exclusion for any number of goroutines, calls,   *)
(* lost answers and late requests, provided that the TTL is longer than a  *)
(* section.                                                                *)
(***************************************************************************)
EXTENDS ShardLock, TLAPS

\* What is on its way names a call that is over: a token is drawn for one call, and
\* the call ends before its script, or its forsaken request, is left on its way.
Fresh ==
  /\ \A t \in late \cup evals : t[2] <= calls[t[1]]
  /\ \A c \in Callers : pc[c] # "idle" => calls[c] > 0 /\ Token(c) \notin late \cup evals

LockInv == TypeOK /\ Fresh /\ SectionKeepsKey

LEMMA InitLock == Init => LockInv
BY TTLAssumption, BoundsAssumption
   DEF Init, LockInv, TypeOK, Fresh, SectionKeepsKey

\* A goroutine in a call has a token, which is no absent key.
LEMMA TokenType ==
  ASSUME LockInv, NEW c \in Callers, pc[c] # "idle"
  PROVE  Token(c) \in Tokens /\ Token(c) # NoToken
<1>1. calls[c] \in 1..MaxCalls
  BY BoundsAssumption DEF LockInv, TypeOK, Fresh
<1>2. QED
  BY <1>1, TokenAssumption DEF Token, Tokens

\* Two goroutines never draw the same token.
LEMMA TokensDiffer ==
  ASSUME NEW c, NEW d, Token(c) = Token(d)
  PROVE  c = d
BY DEF Token

\* While a section runs the key is taken.
LEMMA SectionTakes ==
  ASSUME LockInv, NEW c \in Callers, pc[c] = "section"
  PROVE  holder # NoToken
BY TokenType DEF LockInv, SectionKeepsKey

\* At most one section runs.
LEMMA OneSection ==
  ASSUME LockInv, NEW c \in Callers, NEW d \in Callers, pc[c] = "section", pc[d] = "section"
  PROVE  c = d
BY TokensDiffer DEF LockInv, SectionKeepsKey

LEMMA TypeStep ==
  ASSUME LockInv, [Next]_vars
  PROVE  TypeOK'
<1> USE TTLAssumption, BoundsAssumption DEF TypeOK
<1>0. TypeOK
  BY DEF LockInv
<1>1. ASSUME NEW c \in Callers, Call(c) PROVE TypeOK'
  BY <1>0, <1>1 DEF Call
<1>2. ASSUME NEW c \in Callers, Granted(c) PROVE TypeOK'
  BY <1>0, <1>2, TokenType DEF Granted, SetNX
<1>3. ASSUME NEW c \in Callers, Unseen(c) PROVE TypeOK'
  BY <1>0, <1>3, TokenType DEF Unseen, SetNX
<1>4. ASSUME NEW c \in Callers, GiveUp(c) PROVE TypeOK'
  BY <1>0, <1>4, TokenType DEF GiveUp
<1>5. ASSUME NEW c \in Callers, Unlock(c) PROVE TypeOK'
  BY <1>0, <1>5, TokenType DEF Unlock
<1>6. ASSUME NEW c \in Callers, Crash(c) PROVE TypeOK'
  BY <1>0, <1>6, TokenType DEF Crash
<1>7. ASSUME NEW t \in Tokens, LateSetNX(t) PROVE TypeOK'
  BY <1>0, <1>7 DEF LateSetNX, SetNX
<1>8. ASSUME NEW t \in Tokens, Eval(t) PROVE TypeOK'
  BY <1>0, <1>8 DEF Eval, Del
<1>9. CASE Tick
  BY <1>0, <1>9 DEF Tick, Surviving
<1>10. CASE UNCHANGED vars
  BY <1>0, <1>10 DEF vars
<1>11. QED
  BY <1>1, <1>2, <1>3, <1>4, <1>5, <1>6, <1>7, <1>8, <1>9, <1>10 DEF Next

LEMMA FreshStep ==
  ASSUME LockInv, [Next]_vars
  PROVE  Fresh'
<1> USE DEF Fresh, Token
<1>0. TypeOK /\ Fresh
  BY DEF LockInv
<1>1. ASSUME NEW c \in Callers, Call(c) PROVE Fresh'
  BY <1>0, <1>1 DEF Call, TypeOK, Tokens
<1>2. ASSUME NEW c \in Callers, Granted(c) PROVE Fresh'
  BY <1>0, <1>2 DEF Granted, TypeOK
<1>3. ASSUME NEW c \in Callers, Unseen(c) PROVE Fresh'
  BY <1>0, <1>3 DEF Unseen
<1>4. ASSUME NEW c \in Callers, GiveUp(c) PROVE Fresh'
  BY <1>0, <1>4 DEF GiveUp, TypeOK
<1>5. ASSUME NEW c \in Callers, Unlock(c) PROVE Fresh'
  BY <1>0, <1>5 DEF Unlock, TypeOK
<1>6. ASSUME NEW c \in Callers, Crash(c) PROVE Fresh'
  BY <1>0, <1>6 DEF Crash, TypeOK
<1>7. ASSUME NEW t \in Tokens, LateSetNX(t) PROVE Fresh'
  BY <1>0, <1>7 DEF LateSetNX
<1>8. ASSUME NEW t \in Tokens, Eval(t) PROVE Fresh'
  BY <1>0, <1>8 DEF Eval
<1>9. CASE Tick \/ UNCHANGED vars
  BY <1>0, <1>9 DEF Tick, vars
<1>10. QED
  BY <1>1, <1>2, <1>3, <1>4, <1>5, <1>6, <1>7, <1>8, <1>9 DEF Next

LEMMA KeyStep ==
  ASSUME LockInv, [Next]_vars
  PROVE  SectionKeepsKey'
<1> USE DEF SectionKeepsKey
<1>0. TypeOK /\ Fresh /\ SectionKeepsKey
  BY DEF LockInv
<1>1. ASSUME NEW c \in Callers, Call(c) PROVE SectionKeepsKey'
  BY <1>0, <1>1 DEF Call, TypeOK, Token
<1>2. ASSUME NEW c \in Callers, Granted(c) PROVE SectionKeepsKey'
  <2>1. \A d \in Callers \ {c} : pc'[d] # "section"
    BY <1>0, <1>2, SectionTakes DEF Granted, SetNX, TypeOK
  <2>2. holder' = Token(c) /\ left' = TTL /\ age'[c] = 0 /\ Token(c) \notin evals
    BY <1>0, <1>2 DEF Granted, SetNX, TypeOK, Fresh
  <2>3. QED
    BY <1>2, <2>1, <2>2, TTLAssumption DEF Granted, Token
<1>3. ASSUME NEW c \in Callers, Unseen(c) PROVE SectionKeepsKey'
  BY <1>0, <1>3, SectionTakes DEF Unseen, SetNX
<1>4. ASSUME NEW c \in Callers, GiveUp(c) PROVE SectionKeepsKey'
  BY <1>0, <1>4 DEF GiveUp, TypeOK, Token
<1>5. ASSUME NEW c \in Callers, Unlock(c) PROVE SectionKeepsKey'
  <2>1. \A d \in Callers : pc'[d] # "section"
    BY <1>0, <1>5, OneSection DEF Unlock, TypeOK
  <2>2. QED
    BY <2>1
<1>6. ASSUME NEW c \in Callers, Crash(c) PROVE SectionKeepsKey'
  BY <1>0, <1>6 DEF Crash, TypeOK, Token
<1>7. ASSUME NEW t \in Tokens, LateSetNX(t) PROVE SectionKeepsKey'
  BY <1>0, <1>7, SectionTakes DEF LateSetNX, SetNX, Token
<1>8. ASSUME NEW t \in Tokens, Eval(t) PROVE SectionKeepsKey'
  BY <1>0, <1>8 DEF Eval, Del, Token
<1>9. CASE Tick
  <2>1. SUFFICES ASSUME NEW c \in Callers, pc[c] = "section"
                 PROVE  holder' = Token(c) /\ left' + age'[c] = TTL /\ Token(c) \notin evals
    BY <1>9 DEF Tick, Token
  <2>2. age[c] < Section /\ age'[c] = age[c] + 1
    BY <1>9, <2>1 DEF Tick
  <2>3. left \in Nat /\ left > 1 /\ left + age[c] = TTL
    BY <1>0, <2>1, <2>2, TTLAssumption DEF TypeOK
  <2>4. holder' = holder /\ left' = left - 1
    BY <1>9, <2>3 DEF Tick, Surviving
  <2>5. left' + age'[c] = TTL
    BY <1>0, <2>1, <2>2, <2>3, <2>4, TTLAssumption DEF TypeOK
  <2>6. QED
    BY <1>0, <2>1, <2>4, <2>5
<1>10. CASE UNCHANGED vars
  BY <1>0, <1>10 DEF vars, Token
<1>11. QED
  BY <1>1, <1>2, <1>3, <1>4, <1>5, <1>6, <1>7, <1>8, <1>9, <1>10 DEF Next

LEMMA LockInvariant == Spec => []LockInv
<1>1. LockInv /\ [Next]_vars => LockInv'
  BY TypeStep, FreshStep, KeyStep DEF LockInv
<1>2. QED
  BY InitLock, <1>1, PTL DEF Spec

\* The key stays the section's own until the section ends.
THEOREM KeyKept == Spec => []SectionKeepsKey
<1>1. LockInv => SectionKeepsKey
  BY DEF LockInv
<1>2. QED
  BY <1>1, LockInvariant, PTL

\* The lock implements mutual exclusion: every step enters a section when none runs,
\* leaves one, or leaves the running sections as they are.
THEOREM LockExcludes == Spec => Excludes
<1> DEFINE running == {c \in Callers : pc[c] = "section"}
<1>1. Init => Abstract!Init
  BY DEF Init, Abstract!Init
<1>2. ASSUME LockInv, [Next]_vars PROVE [Abstract!Next]_running
  <2>1. TypeOK
    BY <1>2 DEF LockInv
  <2>2. ASSUME NEW c \in Callers, Granted(c) PROVE Abstract!Enter(c)
    <3>1. running = {}
      BY <1>2, <2>2, SectionTakes DEF Granted, SetNX
    <3>2. running' = {c}
      BY <2>1, <2>2, <3>1 DEF Granted, TypeOK
    <3>3. QED
      BY <3>1, <3>2 DEF Abstract!Enter
  <2>3. ASSUME NEW c \in Callers, pc[c] = "section", pc' = [pc EXCEPT ![c] = "idle"]
        PROVE  Abstract!Leave(c)
    BY <2>1, <2>3 DEF Abstract!Leave, TypeOK
  <2>4. ASSUME NEW c \in Callers, pc[c] # "section",
               \E l \in {"idle", "waiting"} : pc' = [pc EXCEPT ![c] = l]
        PROVE  running' = running
    BY <2>1, <2>4 DEF TypeOK
  <2>5. ASSUME NEW c \in Callers, Call(c) \/ GiveUp(c) PROVE running' = running
    BY <2>4, <2>5 DEF Call, GiveUp
  <2>6. ASSUME NEW c \in Callers, Unlock(c) \/ Crash(c)
        PROVE  Abstract!Leave(c) \/ running' = running
    BY <2>3, <2>4, <2>6 DEF Unlock, Crash
  <2>7. CASE (\E c \in Callers : Unseen(c)) \/ (\E t \in Tokens : LateSetNX(t) \/ Eval(t))
             \/ Tick \/ UNCHANGED vars
    BY <2>7 DEF Unseen, LateSetNX, Eval, Tick, vars
  <2>8. QED
    BY <1>2, <2>2, <2>5, <2>6, <2>7 DEF Next, Abstract!Next
<1>3. QED
  BY <1>1, <1>2, LockInvariant, PTL DEF Spec, Excludes, Abstract!Spec
=============================================================================
