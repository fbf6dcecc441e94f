--------------------------- MODULE QueriesProofs ---------------------------
(***************************************************************************)
(* What clients are told, for any number of clients, instances and orders: *)
(* the answers rest on the rows, which MatchingProofs shows to be final,   *)
(* and PoolProofs to add up.                                               *)
(***************************************************************************)
EXTENDS Queries, PoolProofs

Match == [match : Baskets \cup {NoBasket}, amount : Nat, deposits : SUBSET Deposits]
Answers == [deposit : [Deposits -> DepositStatus \cup {NotAsked}],
          basket : [Baskets -> (BasketStatus \cup {NotAsked}) \X Nat],
          match : [Baskets -> Match]]

\* The number a call carries is one of the kind it asks for.
ReadTyped ==
  /\ told \in [Clients -> Answers]
  /\ DOMAIN query = Clients
  /\ \A c \in Clients :
       /\ query[c].at = "deposit" => query[c].no \in Deposits
       /\ query[c].at \in {"basket", "match"} => query[c].no \in Baskets

\* A call between its two reads holds a record as it still is.
ReadOfRecord ==
  \A c \in Clients : query[c].at = "deposits" =>
    LET m == query[c].match IN
    /\ m \in Match /\ m.match \in Baskets
    /\ record[m.match].made /\ m.amount = record[m.match].amount

\* What was told to be over is what the rows say now.
ToldTrue ==
  \A c \in Clients :
    /\ \A d \in Deposits :
         told[c].deposit[d] \in {"matched", "expired"} => deposit[d].status = told[c].deposit[d]
    /\ \A b \in Baskets :
         /\ told[c].basket[b][1] \in {"matched", "expired"} =>
              told[c].basket[b] = <<basket[b].status, basket[b].current>>
         /\ told[c].match[b] # NoMatch =>
              /\ record[b].made
              /\ told[c].match[b] =
                   [match |-> b, amount |-> record[b].amount, deposits |-> record[b].deposits]

\* A basket that is paid out holds the amount of its record.
AmountKept == \A b \in Baskets : record[b].made => basket[b].current = record[b].amount

ReadInv == ReadTyped /\ ReadOfRecord /\ ToldTrue /\ AmountKept

LEMMA InitRead == QueriesInit => ReadInv
<1> SUFFICES ASSUME QueriesInit PROVE ReadInv
  OBVIOUS
<1> USE DEF QueriesInit
<1>1. ReadTyped
  BY DEF ReadTyped, Answers, Match, NoMatch, NotAsked, DepositStatus, BasketStatus, Idle
<1>2. ReadOfRecord
  BY DEF ReadOfRecord, Idle
<1>3. ToldTrue
  BY DEF ToldTrue, NotAsked, NoMatch
<1>4. AmountKept
  BY DEF Init, AmountKept
<1>5. QED
  BY <1>1, <1>2, <1>3, <1>4 DEF ReadInv

-----------------------------------------------------------------------------
(***************************************************************************)
(* The work of the use case beside the calls                               *)
(***************************************************************************)
\* A manual scan lists deposits as the periodic one does, with a time of its own.
LEMMA ManualTyped ==
  ASSUME TypeInv, NEW s \in Scanners, NEW t \in NowUnix, ManualScan(s, t)
  PROVE  TypeInv' /\ UNCHANGED db
<1> DEFINE at == IF t > 0 THEN t ELSE now
<1>1. PICK T \in Due({d \in Deposits : deposit[d].status = "waiting"}, DepositExpire, at) :
        scan' = [scan EXCEPT ![s] = [now |-> at, deposits |-> T, listing |-> NoListing]]
  BY DEF ManualScan
<1>2. T \in SUBSET Deposits
  BY DueSubset
<1>3. at \in Nat
  BY QueriesAssumption DEF TypeInv, TypeOK
<1> HIDE DEF at
<1>4. scan' \in [Scanners -> ScanState]
  BY <1>1, <1>2, <1>3, EmptyTyped DEF ScanState, TypeInv, TypeOK
<1>5. QED
  BY <1>4 DEF ManualScan, TypeInv, TypeOK, JobOK, HasDeposit, HasBasket, db, memory, node, Goto,
     Procs, HandlerPc, ScannerPc

LEMMA StepTyped ==
  ASSUME TypeInv, RowInv, [QueriesNext]_queryVars
  PROVE  TypeInv' /\ RowInv' /\ DbStep
<1>1. CASE Work
  <2>1. Next
    BY <1>1 DEF Work, Next
  <2>2. QED
    BY <2>1, NextTyped, RowStep, EveryDbStep
<1>2. CASE \E s \in Scanners, t \in NowUnix : ManualScan(s, t)
  <2>1. TypeInv' /\ UNCHANGED db
    BY <1>2, ManualTyped
  <2>2. DbStep
    BY <2>1 DEF DbStep
  <2>3. QED
    BY <2>1, <2>2, AttachedStep, OnceStep, MatchedStep DEF RowInv
<1>3. CASE UNCHANGED vars
  BY <1>3, NextTyped, RowStep, EveryDbStep
<1>4. QED
  BY <1>1, <1>2, <1>3
     DEF QueriesNext, queryVars, Ask, Call, GetDeposit, GetBasket, GetMatch, ListDeposits, CallFails

LEMMA AmountStep ==
  ASSUME TypeInv, RowInv, AmountKept, DbStep
  PROVE  AmountKept'
<1> USE RowsTyped
<1>1. CASE UNCHANGED db
  BY <1>1 DEF db, AmountKept
<1>2. CASE RowSaved \/ RowTimedOut
  BY <1>2 DEF RowSaved, RowTimedOut, AmountKept
<1>3. CASE RowInserted
  BY <1>3 DEF RowInserted, AmountKept, RowInv, Once
<1>4. CASE RowAttached
  BY <1>4 DEF RowAttached, CanAttach, PersistAttached, AmountKept, RowInv, Once
<1>5. CASE RowsCompleted
  BY <1>5 DEF RowsCompleted, CanComplete, PersistCompleted, AmountKept
<1>6. CASE RowReleased
  BY <1>6 DEF RowReleased, AmountKept, RowInv, Once
<1>7. CASE RowsExpired
  BY <1>7 DEF RowsExpired, AmountKept
<1>8. QED
  BY <1>1, <1>2, <1>3, <1>4, <1>5, <1>6, <1>7 DEF DbStep

\* The final rows under a step of either kind.
LEMMA FinalKept ==
  ASSUME TypeInv, DbStep
  PROVE  /\ \A d \in Deposits : deposit[d].status \in {"matched", "expired"} => deposit'[d] = deposit[d]
         /\ \A b \in Baskets :
              /\ basket[b].status \in {"matched", "expired"} => basket'[b] = basket[b]
              /\ record[b].made => record'[b] = record[b]
BY FinalDeposits, FinalBaskets

\* While nobody asks and nobody is answered, what was told stays true.
LEMMA QuietRead ==
  ASSUME TypeInv, RowInv, ReadInv, DbStep, UNCHANGED <<query, told>>
  PROVE  ReadInv'
<1>1. ReadTyped'
  BY DEF ReadInv, ReadTyped
<1>2. ReadOfRecord'
  BY FinalKept DEF ReadInv, ReadOfRecord
<1>3. ToldTrue'
  <2> SUFFICES ASSUME NEW c \in Clients PROVE ToldTrue!(c)'
    BY DEF ToldTrue
  <2>1. ASSUME NEW d \in Deposits, told[c].deposit[d] \in {"matched", "expired"}
        PROVE  deposit'[d].status = told[c].deposit[d]
    BY <2>1, FinalKept DEF ReadInv, ToldTrue
  <2>2. ASSUME NEW b \in Baskets, told[c].basket[b][1] \in {"matched", "expired"}
        PROVE  told[c].basket[b] = <<basket'[b].status, basket'[b].current>>
    <3>1. told[c].basket[b] = <<basket[b].status, basket[b].current>>
      BY <2>2 DEF ReadInv, ToldTrue
    <3>2. basket[b].status \in {"matched", "expired"}
      BY <2>2, <3>1
    <3>3. QED
      BY <3>1, <3>2, FinalKept
  <2>3. ASSUME NEW b \in Baskets, told[c].match[b] # NoMatch
        PROVE  /\ record'[b].made
               /\ told[c].match[b] =
                    [match |-> b, amount |-> record'[b].amount, deposits |-> record'[b].deposits]
    <3>1. /\ record[b].made
          /\ told[c].match[b] =
               [match |-> b, amount |-> record[b].amount, deposits |-> record[b].deposits]
      BY <2>3 DEF ReadInv, ToldTrue
    <3>2. record'[b] = record[b]
      BY <3>1, FinalKept
    <3>3. QED
      BY <2>3, <3>1, <3>2
  <2>4. QED
    BY <2>1, <2>2, <2>3
<1>4. QED
  BY <1>1, <1>2, <1>3, AmountStep DEF ReadInv

-----------------------------------------------------------------------------
(***************************************************************************)
(* The calls                                                               *)
(***************************************************************************)
\* A call that begins or ends says nothing.
LEMMA SilentRead ==
  ASSUME ReadInv, NEW c \in Clients, (\E i \in Instances : Ask(c, i)) \/ CallFails(c)
  PROVE  ReadInv' /\ UNCHANGED told
<1>1. UNCHANGED <<told, vars>>
  BY DEF Ask, Call, CallFails
<1>2. ToldTrue' /\ AmountKept'
  BY <1>1 DEF ReadInv, ToldTrue, AmountKept, vars, db
<1>3. CASE CallFails(c)
  BY <1>1, <1>2, <1>3 DEF CallFails, Done, Idle, ReadInv, ReadTyped, ReadOfRecord, vars, db
<1>4. ASSUME NEW i \in Instances, Ask(c, i) PROVE ReadTyped' /\ ReadOfRecord'
  <2>1. PICK at \in {"deposit", "basket", "match"}, no \in Deposits \cup Baskets :
          /\ Call(c, i, at, no)
          /\ at = "deposit" => no \in Deposits
          /\ at # "deposit" => no \in Baskets
    BY <1>4 DEF Ask, GetDepositRequest, GetBasketRequest, GetMatchRequest, GetDepositRequestValid,
                GetBasketRequestValid, Wanted
  <2>2. query' = [query EXCEPT ![c] = [at |-> at, node |-> i, no |-> no, match |-> NoMatch]]
    BY <2>1 DEF Call
  <2>3. QED
    BY <1>1, <2>1, <2>2 DEF ReadInv, ReadTyped, ReadOfRecord, vars, db
<1>5. QED
  BY <1>1, <1>2, <1>3, <1>4 DEF ReadInv

\* Answers: the parts of an answer that a call replaces.
LEMMA ToldParts ==
  ASSUME ReadInv, NEW c \in Clients
  PROVE  /\ told[c].deposit \in [Deposits -> DepositStatus \cup {NotAsked}]
         /\ told[c].basket \in [Baskets -> (BasketStatus \cup {NotAsked}) \X Nat]
         /\ told[c].match \in [Baskets -> Match]
         /\ \A x \in [Deposits -> DepositStatus \cup {NotAsked}] :
              [told EXCEPT ![c].deposit = x] \in [Clients -> Answers]
         /\ \A x \in [Baskets -> (BasketStatus \cup {NotAsked}) \X Nat] :
              [told EXCEPT ![c].basket = x] \in [Clients -> Answers]
         /\ \A x \in [Baskets -> Match] : [told EXCEPT ![c].match = x] \in [Clients -> Answers]
<1>1. told \in [Clients -> Answers]
  BY DEF ReadInv, ReadTyped
<1>2. told[c] \in Answers
  BY <1>1
<1>3. /\ told[c].deposit \in [Deposits -> DepositStatus \cup {NotAsked}]
      /\ told[c].basket \in [Baskets -> (BasketStatus \cup {NotAsked}) \X Nat]
      /\ told[c].match \in [Baskets -> Match]
  BY <1>2 DEF Answers
<1>4. ASSUME NEW x \in [Deposits -> DepositStatus \cup {NotAsked}]
      PROVE  [told EXCEPT ![c].deposit = x] \in [Clients -> Answers]
  <2>1. [told[c] EXCEPT !.deposit = x] \in Answers
    BY <1>2, <1>4 DEF Answers
  <2>2. QED
    BY <1>1, <2>1
<1>5. ASSUME NEW x \in [Baskets -> (BasketStatus \cup {NotAsked}) \X Nat]
      PROVE  [told EXCEPT ![c].basket = x] \in [Clients -> Answers]
  <2>1. [told[c] EXCEPT !.basket = x] \in Answers
    BY <1>2, <1>5 DEF Answers
  <2>2. QED
    BY <1>1, <2>1
<1>6. ASSUME NEW x \in [Baskets -> Match]
      PROVE  [told EXCEPT ![c].match = x] \in [Clients -> Answers]
  <2>1. [told[c] EXCEPT !.match = x] \in Answers
    BY <1>2, <1>6 DEF Answers
  <2>2. QED
    BY <1>1, <2>1
<1>7. QED
  BY <1>3, <1>4, <1>5, <1>6

LEMMA DepositRead ==
  ASSUME TypeInv, ReadInv, NEW c \in Clients, GetDeposit(c)
  PROVE  /\ ReadInv'
         /\ \A x \in Clients : told'[x].basket = told[x].basket /\ told'[x].match = told[x].match
         /\ \A x \in Clients, d \in Deposits :
              told[x].deposit[d] \in {"matched", "expired"} => told'[x].deposit[d] = told[x].deposit[d]
<1> DEFINE d == query[c].no
           new == [told[c].deposit EXCEPT ![d] = Found(deposit[d])]
<1>1. d \in Deposits /\ Found(deposit[d]) \in DepositStatus \cup {NotAsked}
  BY RowsTyped DEF GetDeposit, ReadInv, ReadTyped, Found, DepositRow
<1>2. new \in [Deposits -> DepositStatus \cup {NotAsked}]
  BY <1>1, ToldParts
<1>3. told' = [told EXCEPT ![c].deposit = new] /\ UNCHANGED vars
  BY DEF GetDeposit
<1>4. /\ \A x \in Clients : told'[x].basket = told[x].basket /\ told'[x].match = told[x].match
      /\ \A x \in Clients \ {c} : told'[x].deposit = told[x].deposit
      /\ told'[c].deposit = new
  BY <1>3 DEF ReadInv, ReadTyped, Answers
<1>5. \A x \in Deposits : new[x] = IF x = d THEN Found(deposit[d]) ELSE told[c].deposit[x]
  BY <1>1, ToldParts
<1>6. Found(deposit[d]) \in {"matched", "expired"} => deposit[d].status = Found(deposit[d])
  BY DEF Found, NotAsked
<1>7. told[c].deposit[d] \in {"matched", "expired"} => Found(deposit[d]) = told[c].deposit[d]
  BY <1>1 DEF ReadInv, ToldTrue, Found
<1>8. ReadTyped'
  BY <1>2, <1>3, ToldParts, SMTT(30) DEF GetDeposit, Done, Idle, ReadInv, ReadTyped
<1> HIDE DEF new, d
<1>9. ToldTrue'
  BY <1>3, <1>4, <1>5, <1>6 DEF ReadInv, ToldTrue, vars, db
<1>10. ReadOfRecord' /\ AmountKept'
  BY <1>3 DEF GetDeposit, Done, Idle, ReadInv, ReadTyped, ReadOfRecord, AmountKept, vars, db
<1>11. QED
  BY <1>4, <1>5, <1>7, <1>8, <1>9, <1>10 DEF ReadInv

LEMMA BasketReadTrue ==
  ASSUME TypeInv, RowInv, ReadInv, NEW c \in Clients, GetBasket(c)
  PROVE  /\ ReadInv'
         /\ \A x \in Clients : told'[x].deposit = told[x].deposit /\ told'[x].match = told[x].match
         /\ \A x \in Clients, b \in Baskets :
              /\ told[x].basket[b][1] \in {"matched", "expired"} => told'[x].basket[b] = told[x].basket[b]
              /\ told[x].match[b] # NoMatch /\ told'[x].basket[b] # told[x].basket[b] =>
                   told'[x].basket[b] = <<"matched", told[x].match[b].amount>>
<1> DEFINE b == query[c].no
           row == <<Found(basket[b]), basket[b].current>>
           new == [told[c].basket EXCEPT ![b] = row]
<1>1. b \in Baskets /\ row \in (BasketStatus \cup {NotAsked}) \X Nat
  BY RowsTyped DEF GetBasket, ReadInv, ReadTyped, Found, BasketRow
<1>2. new \in [Baskets -> (BasketStatus \cup {NotAsked}) \X Nat]
  BY <1>1, ToldParts
<1>3. told' = [told EXCEPT ![c].basket = new] /\ UNCHANGED vars
  BY DEF GetBasket, BasketRead
<1>4. /\ \A x \in Clients : told'[x].deposit = told[x].deposit /\ told'[x].match = told[x].match
      /\ \A x \in Clients \ {c} : told'[x].basket = told[x].basket
      /\ told'[c].basket = new
  BY <1>3 DEF ReadInv, ReadTyped, Answers
<1>5. \A x \in Baskets : new[x] = IF x = b THEN row ELSE told[c].basket[x]
  BY <1>1, ToldParts
<1>6. row[1] \in {"matched", "expired"} => row = <<basket[b].status, basket[b].current>>
  BY DEF Found, NotAsked
<1>7. told[c].basket[b][1] \in {"matched", "expired"} => row = told[c].basket[b]
  <2> SUFFICES ASSUME told[c].basket[b][1] \in {"matched", "expired"} PROVE row = told[c].basket[b]
    OBVIOUS
  <2>1. told[c].basket[b] = <<basket[b].status, basket[b].current>>
    BY <1>1 DEF ReadInv, ToldTrue
  <2>2. QED
    BY <2>1 DEF Found
<1>8. told[c].match[b] # NoMatch => row = <<"matched", told[c].match[b].amount>>
  <2> SUFFICES ASSUME told[c].match[b] # NoMatch PROVE row = <<"matched", told[c].match[b].amount>>
    OBVIOUS
  <2> DEFINE m == [match |-> b, amount |-> record[b].amount, deposits |-> record[b].deposits]
  <2>0. record[b].made /\ told[c].match[b] = m
    BY <1>1 DEF ReadInv, ToldTrue
  <2>1. record[b].made /\ told[c].match[b].amount = record[b].amount
    BY <2>0
  <2>2. basket[b].status = "matched" /\ basket[b].current = record[b].amount
    BY <1>1, <2>1 DEF RowInv, Once, ReadInv, AmountKept
  <2>3. QED
    BY <2>1, <2>2 DEF Found
<1>9. ReadTyped'
  <2>1. told' \in [Clients -> Answers]
    <3> HIDE DEF new
    <3> QED BY <1>2, <1>3, ToldParts
  <2>2. QED
    BY <2>1 DEF GetBasket, Done, Idle, ReadInv, ReadTyped
<1> HIDE DEF new, row, b
<1>10. ToldTrue'
  BY <1>3, <1>4, <1>5, <1>6 DEF ReadInv, ToldTrue, vars, db, row
<1>11. ReadOfRecord' /\ AmountKept'
  BY <1>3 DEF GetBasket, Done, Idle, ReadInv, ReadTyped, ReadOfRecord, AmountKept, vars, db
<1>12. QED
  BY <1>4, <1>5, <1>7, <1>8, <1>9, <1>10, <1>11 DEF ReadInv

LEMMA MatchRead ==
  ASSUME TypeInv, ReadInv, NEW c \in Clients, GetMatch(c)
  PROVE  ReadInv' /\ UNCHANGED told
<1> DEFINE b == query[c].no
<1>1. b \in Baskets /\ record[b].amount \in Nat /\ UNCHANGED vars
  BY RowsTyped DEF GetMatch, ReadInv, ReadTyped, RecordRow
<1>2. CASE record[b].made
  <2> DEFINE m == [match |-> b, amount |-> record[b].amount, deposits |-> {}]
  <2>1. query' = [query EXCEPT ![c].at = "deposits", ![c].match = m] /\ UNCHANGED told
    BY <1>2 DEF GetMatch
  <2>2. m \in Match /\ m.match = b /\ m.amount = record[b].amount
    BY <1>1 DEF Match
  <2> HIDE DEF m
  <2>3. ReadTyped'
    BY <1>1, <2>1 DEF ReadInv, ReadTyped, GetMatch
  <2>4. ReadOfRecord'
    BY <1>1, <1>2, <2>1, <2>2 DEF ReadInv, ReadTyped, ReadOfRecord, GetMatch, vars, db
  <2>5. ToldTrue' /\ AmountKept'
    BY <1>1, <2>1 DEF ReadInv, ToldTrue, AmountKept, vars, db
  <2>6. QED
    BY <2>1, <2>3, <2>4, <2>5 DEF ReadInv
<1>3. CASE ~record[b].made
  <2>1. told[c].match[b] = NoMatch
    BY <1>1, <1>3 DEF ReadInv, ToldTrue
  <2>2. told' = [told EXCEPT ![c].match[b] = NoMatch] /\ Done(c)
    BY <1>3 DEF GetMatch
  <2>3. told' = told
    BY <2>1, <2>2, ToldParts DEF ReadInv, ReadTyped, Answers
  <2>4. ReadTyped' /\ ReadOfRecord'
    BY <1>1, <2>2, <2>3 DEF Done, Idle, ReadInv, ReadTyped, ReadOfRecord, vars, db
  <2>5. ToldTrue' /\ AmountKept'
    BY <1>1, <2>3 DEF ReadInv, ToldTrue, AmountKept, vars, db
  <2>6. QED
    BY <2>3, <2>4, <2>5 DEF ReadInv
<1>4. QED
  BY <1>2, <1>3

LEMMA ListRead ==
  ASSUME TypeInv, ReadInv, NEW c \in Clients, ListDeposits(c)
  PROVE  /\ ReadInv'
         /\ \A x \in Clients : told'[x].deposit = told[x].deposit /\ told'[x].basket = told[x].basket
         /\ \A x \in Clients, b \in Baskets :
              told[x].match[b] # NoMatch => told'[x].match[b] = told[x].match[b]
<1> DEFINE m == query[c].match
           b == m.match
           full == [match |-> b, amount |-> record[b].amount, deposits |-> record[b].deposits]
           new == [told[c].match EXCEPT ![b] = full]
<1>1. m \in Match /\ b \in Baskets /\ record[b].made /\ m.amount = record[b].amount
  BY DEF ListDeposits, ReadInv, ReadOfRecord
<1>2. [m EXCEPT !.deposits = DepositsOf(b)] = full
  BY <1>1 DEF Match, DepositsOf
<1>3. record[b].amount \in Nat /\ record[b].deposits \in SUBSET Deposits
  BY <1>1, RowsTyped DEF RecordRow
<1>4. full \in Match
  BY <1>1, <1>3 DEF Match
<1>5. told' = [told EXCEPT ![c].match = new] /\ UNCHANGED vars
  BY <1>2 DEF ListDeposits
<1> HIDE DEF m, b, full
<1>6. new \in [Baskets -> Match]
  BY <1>1, <1>4, ToldParts
<1>7. \A x \in Baskets : new[x] = IF x = b THEN full ELSE told[c].match[x]
  BY <1>1, ToldParts
<1> HIDE DEF new
<1>8. /\ \A x \in Clients : told'[x].deposit = told[x].deposit /\ told'[x].basket = told[x].basket
      /\ \A x \in Clients \ {c} : told'[x].match = told[x].match
      /\ told'[c].match = new
  BY <1>5 DEF ReadInv, ReadTyped, Answers
<1>9. told[c].match[b] # NoMatch => full = told[c].match[b]
  BY <1>1 DEF ReadInv, ToldTrue, full
<1>10. ReadTyped'
  <2>1. told' \in [Clients -> Answers]
    BY <1>5, <1>6, ToldParts
  <2>2. QED
    BY <2>1 DEF ListDeposits, Done, Idle, ReadInv, ReadTyped
<1>11. ToldTrue'
  BY <1>1, <1>5, <1>7, <1>8 DEF ReadInv, ToldTrue, vars, db, full
<1>12. ReadOfRecord' /\ AmountKept'
  BY <1>5 DEF ListDeposits, Done, Idle, ReadInv, ReadTyped, ReadOfRecord, AmountKept, vars, db
<1>13. QED
  BY <1>7, <1>8, <1>9, <1>10, <1>11, <1>12 DEF ReadInv

-----------------------------------------------------------------------------
(***************************************************************************)
(* All steps, and the theorem                                              *)
(***************************************************************************)
\* What one step may not take back.
KeptWord ==
  \A c \in Clients :
    /\ \A d \in Deposits :
         told[c].deposit[d] \in {"matched", "expired"} => told'[c].deposit[d] = told[c].deposit[d]
    /\ \A b \in Baskets :
         /\ told[c].basket[b][1] \in {"matched", "expired"} => told'[c].basket[b] = told[c].basket[b]
         /\ told[c].match[b] # NoMatch =>
              /\ told'[c].match[b] = told[c].match[b]
              /\ told'[c].basket[b] # told[c].basket[b] =>
                   told'[c].basket[b] = <<"matched", told[c].match[b].amount>>

LEMMA StepRead ==
  ASSUME TypeInv, RowInv, ReadInv, [QueriesNext]_queryVars
  PROVE  ReadInv' /\ KeptWord
<1>1. CASE UNCHANGED <<query, told>>
  BY <1>1, StepTyped, QuietRead DEF KeptWord
<1>2. ASSUME NEW c \in Clients, (\E i \in Instances : Ask(c, i)) \/ CallFails(c)
      PROVE  ReadInv' /\ KeptWord
  BY <1>2, SilentRead DEF KeptWord
<1>3. ASSUME NEW c \in Clients, GetDeposit(c)
      PROVE  ReadInv' /\ KeptWord
  BY <1>3, DepositRead DEF KeptWord
<1>4. ASSUME NEW c \in Clients, GetBasket(c)
      PROVE  ReadInv' /\ KeptWord
  BY <1>4, BasketReadTrue DEF KeptWord
<1>5. ASSUME NEW c \in Clients, GetMatch(c)
      PROVE  ReadInv' /\ KeptWord
  BY <1>5, MatchRead DEF KeptWord
<1>6. ASSUME NEW c \in Clients, ListDeposits(c)
      PROVE  ReadInv' /\ KeptWord
  BY <1>6, ListRead DEF KeptWord
<1>7. CASE \E s \in Scanners, t \in NowUnix : ManualScan(s, t)
  BY <1>1, <1>7 DEF ManualScan
<1>8. QED
  BY <1>1, <1>2, <1>3, <1>4, <1>5, <1>6, <1>7 DEF QueriesNext, queryVars

\* What a client was told to be over (a final status, a match) is what every later
\* answer tells it, for any number of clients, instances, orders and manual scans.
THEOREM NeverToldBackCorrect == QueriesSpec => NeverToldBack
<1>1. QueriesInit => TypeInv /\ RowInv /\ ReadInv
  BY InitTyped, InitRows, InitRead DEF QueriesInit
<1>2. TypeInv /\ RowInv /\ ReadInv /\ [QueriesNext]_queryVars
        => (TypeInv /\ RowInv /\ ReadInv)'
  BY StepTyped, StepRead
<1>3. TypeInv /\ RowInv /\ ReadInv /\ [QueriesNext]_queryVars => [KeptWord]_queryVars
  BY StepRead
<1>4. [][KeptWord]_queryVars => NeverToldBack
  BY PTL DEF KeptWord, NeverToldBack
<1>5. QED
  BY <1>1, <1>2, <1>3, <1>4, PTL DEF QueriesSpec


-----------------------------------------------------------------------------
(***************************************************************************)
(* What a reply of GetMatch adds up to                                     *)
(***************************************************************************)
\* No record is empty: a completing deposit is in it, and a close has some attached.
RecordsFull == \A b \in Baskets : record[b].made => record[b].deposits # {}

LEMMA FullStep ==
  ASSUME TypeInv, RecordsFull, [QueriesNext]_queryVars
  PROVE  RecordsFull'
<1> USE RowsTyped
<1>1. SUFFICES ASSUME record' # record PROVE RecordsFull'
  BY DEF RecordsFull
<1>2. [Next]_vars
  BY <1>1 DEF QueriesNext, queryVars, vars, db, Work, Next, ManualScan, Ask, Call, GetDeposit,
              GetBasket, GetMatch, ListDeposits, CallFails
<1>3. ASSUME NEW h \in Handlers, NEW c \in Baskets, MatchComplete(h, c) PROVE RecordsFull'
  <2>1. record' = [record EXCEPT ![c] =
          [made |-> TRUE, deposits |-> Members(Home[h], c, job[h].deposit),
           amount |-> NewCurrent(Home[h], c, job[h].deposit)]]
    BY <1>3 DEF MatchComplete, PersistCompleted
  <2>2. Members(Home[h], c, job[h].deposit) # {}
    BY DEF Members
  <2>3. QED
    BY <2>1, <2>2 DEF RecordsFull
<1>4. ASSUME NEW s \in Scanners, ClosesWith(s) PROVE RecordsFull'
  <2> DEFINE c == job[s].basket
  <2>1. record' = [record EXCEPT ![c] = [made |-> TRUE, deposits |-> Attached(c),
                                         amount |-> Total(Attached(c))]]
    BY <1>4 DEF ClosesWith, PersistCompleted
  <2>2. Attached(c) # {}
    BY <1>4 DEF ClosesWith, CompletePartial, PartialEnough
  <2>3. QED
    BY <2>1, <2>2 DEF RecordsFull
<1>5. QED
  BY <1>1, <1>2, <1>3, <1>4, RecordWritten

\* A scan by hand only lists: the pool and the rows stay as they are.
LEMMA ManualKeeps ==
  ASSUME PoolInv, NEW s \in Scanners, NEW t \in NowUnix, ManualScan(s, t)
  PROVE  PoolInv'
<1>1. /\ s \in Procs /\ pc[s] = "idle" /\ boot[Home[s]] = "up"
      /\ pc' = [pc EXCEPT ![s] = "waiting"]
      /\ UNCHANGED <<db, mem, job, boot, load, lock, budget>>
  BY DEF ManualScan, Up, Goto, Procs, memory, node
<1>2. TypeInv' /\ UNCHANGED db
  BY ManualTyped DEF PoolInv
<1>3. RowInv'
  <2>1. DbStep
    BY <1>2 DEF DbStep
  <2>2. QED
    BY <2>1, AttachedStep, OnceStep, MatchedStep DEF RowInv, PoolInv
<1>4. \A p \in Procs : pc'[p] = IF p = s THEN "waiting" ELSE pc[p]
  BY <1>1 DEF PoolInv, TypeInv, TypeOK
<1>5. Holding'
  BY <1>1, <1>4 DEF PoolInv, Holding, Critical, HandlerCritical, ScannerCritical
<1>6. Bounded' /\ OneProcess' /\ (NoCommitLost' <=> NoCommitLost)
  BY <1>1 DEF PoolInv, Bounded, OneProcess, NoCommitLost
<1>7. ASSUME NoCommitLost PROVE (Rows /\ Pool /\ Saved)'
  <2>1. TypeInv /\ RowInv /\ Rows /\ Pool /\ Saved
    BY <1>7 DEF PoolInv
  <2>2. Pool'
    <3>1. "waiting" \notin Told /\ pc[s] \notin Told
      BY <1>1 DEF Told
    <3>2. QED
      BY <1>1, <2>1, <3>1, IdleStep DEF db
  <2>3. SoundStep
    BY <1>1 DEF SoundStep
  <2>4. Rows'
    BY <2>1, <2>3, RowsStep
  <2>5. Saved'
    BY <1>1, <1>4, <2>1 DEF Saved, db
  <2>6. QED
    BY <2>2, <2>4, <2>5
<1>8. QED
  BY <1>2, <1>3, <1>5, <1>6, <1>7 DEF PoolInv

\* The calls change nothing that the pool and the rows rest on.
LEMMA PoolKept ==
  ASSUME PoolInv, [QueriesNext]_queryVars
  PROVE  PoolInv'
<1>1. CASE Work
  <2>1. Next
    BY <1>1 DEF Work, Next
  <2>2. QED
    BY <2>1, PoolStep
<1>2. CASE UNCHANGED vars
  BY <1>2, PoolStep
<1>3. ASSUME NEW s \in Scanners, NEW t \in NowUnix, ManualScan(s, t) PROVE PoolInv'
  BY <1>3, ManualKeeps
<1>4. QED
  BY <1>1, <1>2, <1>3
     DEF QueriesNext, queryVars, Ask, Call, GetDeposit, GetBasket, GetMatch, ListDeposits, CallFails

\* A GetMatch reply is whole, although its two reads take no lock and the deposits are
\* read while everything else goes on: it names some deposits, and their amounts add up
\* to that of the record.  One process whose commits are all answered, as in LedgerCorrect.
THEOREM ReplyCorrect == OneProcess /\ QueriesSpec => [](NoCommitLost => MatchReplyWhole)
<1> DEFINE Inv == PoolInv /\ ReadInv /\ RecordsFull
<1>1. OneProcess /\ QueriesInit => Inv
  <2>1. Init => Holding /\ Bounded
    BY BudgetAssumption
       DEF Init, Holding, Critical, HandlerCritical, ScannerCritical, Bounded, Fault
  <2>2. Init => RecordsFull
    BY DEF Init, RecordsFull
  <2>3. QED
    BY <2>1, <2>2, InitTyped, InitRows, InitPool, InitRead DEF QueriesInit, PoolInv
<1>2. Inv /\ [QueriesNext]_queryVars => Inv'
  BY PoolKept, StepRead, FullStep DEF PoolInv
<1>3. ASSUME Inv, NoCommitLost PROVE MatchReplyWhole
  <2>1. SUFFICES ASSUME NEW c \in Clients, NEW b \in Baskets, told[c].match[b] # NoMatch
                 PROVE  LET m == told[c].match[b] IN
                        m.match = b /\ m.deposits # {} /\ Total(m.deposits) = m.amount
    BY DEF MatchReplyWhole
  <2> DEFINE m == [match |-> b, amount |-> record[b].amount, deposits |-> record[b].deposits]
  <2>2. record[b].made /\ told[c].match[b] = m
    BY <1>3, <2>1 DEF ReadInv, ToldTrue
  <2>3. record[b].deposits # {} /\ record[b].amount = Total(record[b].deposits)
    BY <1>3, <2>2 DEF RecordsFull, PoolInv, Rows, BasketTrue
  <2>4. QED
    BY <2>2, <2>3
<1>4. Inv => (NoCommitLost => MatchReplyWhole)
  BY <1>3
<1> HIDE DEF Inv
<1>5. QED
  BY <1>1, <1>2, <1>4, PTL DEF QueriesSpec
=============================================================================
