------------------------------- MODULE Queries -------------------------------
(***************************************************************************)
(* The reads of the gRPC service beside the work of Matching: GetDeposit,  *)
(* GetBasket and GetMatch, which take no lock, and the manual timeout scan *)
(* (ExpireTimeouts).  GetMatch reads twice: the record, then its deposits. *)
(***************************************************************************)
EXTENDS Matching

CONSTANTS
  Clients,   \* gRPC clients, one call at a time
  NowUnix    \* the values of now_unix a manual scan may carry

VARIABLES
  query,     \* per client: where its call is, the instance, the number, the record read
  told       \* per client: the last answer about each order and match

queryVars == <<vars, query, told>>

ASSUME QueriesAssumption == NowUnix \subseteq Nat

\* An empty deposit_no or basket_no is NoDeposit or NoBasket.  A basket has one
\* withdraw order and at most one record, so one name stands for its three numbers.
GetDepositRequest == [deposit : Deposits \cup {NoDeposit}]
GetBasketRequest  == [basket : Baskets \cup {NoBasket}]
GetMatchRequest   == [match : Baskets \cup {NoBasket}, of_basket : Baskets \cup {NoBasket},
                      withdraw : Baskets \cup {NoBasket}]

GetDepositRequestValid(q) == q.deposit # NoDeposit
GetBasketRequestValid(q)  == q.basket # NoBasket

\* The first number that is given decides; without one the call is refused.
Wanted(q) ==
  IF q.match # NoBasket THEN q.match
  ELSE IF q.of_basket # NoBasket THEN q.of_basket ELSE q.withdraw

\* GetMatchReply; NoMatch, or the status "none", is NotFound.
NoMatch  == [match |-> NoBasket, amount |-> 0, deposits |-> {}]
Idle     == [at |-> "idle", node |-> NoProc, no |-> NoProc, match |-> NoMatch]
NotAsked == "none"

QueriesInit ==
  /\ Init
  /\ query = [c \in Clients |-> Idle]
  /\ told = [c \in Clients |-> [deposit |-> [d \in Deposits |-> NotAsked],
                                basket |-> [b \in Baskets |-> <<NotAsked, 0>>],
                                match |-> [b \in Baskets |-> NoMatch]]]

\* A call reaches its handler only when validate.Validator accepts the request.
Call(c, i, at, no) ==
  /\ query[c].at = "idle" /\ boot[i] = "up"
  /\ query' = [query EXCEPT ![c] = [at |-> at, node |-> i, no |-> no, match |-> NoMatch]]
  /\ UNCHANGED <<vars, told>>

Ask(c, i) ==
  \/ \E q \in GetDepositRequest : GetDepositRequestValid(q) /\ Call(c, i, "deposit", q.deposit)
  \/ \E q \in GetBasketRequest : GetBasketRequestValid(q) /\ Call(c, i, "basket", q.basket)
  \/ \E q \in GetMatchRequest : Wanted(q) # NoBasket /\ Call(c, i, "match", Wanted(q))

Found(row) == IF row.status = "absent" THEN NotAsked ELSE row.status
Done(c)    == query' = [query EXCEPT ![c] = Idle]

GetDeposit(c) ==
  LET d == query[c].no IN
  /\ query[c].at = "deposit"
  /\ told' = [told EXCEPT ![c].deposit[d] = Found(deposit[d])]
  /\ Done(c) /\ UNCHANGED vars

PoolRow(i, b) ==   \* mutant: the basket is answered from the pool
  IF mem[i][b].in THEN <<"waiting", mem[i][b].current>> ELSE <<Found(basket[b]), basket[b].current>>
BasketRead(i, b) == <<Found(basket[b]), basket[b].current>>

GetBasket(c) ==
  LET b == query[c].no IN
  /\ query[c].at = "basket"
  /\ told' = [told EXCEPT ![c].basket[b] = BasketRead(query[c].node, b)]
  /\ Done(c) /\ UNCHANGED vars

\* GetByNo, GetByBasketNo or GetByWithdrawNo; without a record the call ends here.
GetMatch(c) ==
  LET b == query[c].no IN
  /\ query[c].at = "match"
  /\ IF record[b].made
       THEN /\ query' = [query EXCEPT ![c].at = "deposits",
                           ![c].match = [match |-> b, amount |-> record[b].amount, deposits |-> {}]]
            /\ UNCHANGED told
       ELSE Done(c) /\ told' = [told EXCEPT ![c].match[b] = NoMatch]
  /\ UNCHANGED vars

ByBasket(b)   == {d \in Deposits : detail[d].basket = b}   \* mutant: through the details
DepositsOf(b) == record[b].deposits

ListDeposits(c) ==
  LET m == query[c].match IN
  /\ query[c].at = "deposits"
  /\ told' = [told EXCEPT ![c].match[m.match] = [m EXCEPT !.deposits = DepositsOf(m.match)]]
  /\ Done(c) /\ UNCHANGED vars

\* A database error ends the call, and so does a crash of the instance; to the rows a
\* crash does nothing, and it is left to the runs of Matching.
CallFails(c) ==
  /\ query[c].at # "idle"
  /\ Done(c) /\ UNCHANGED <<vars, told>>

\* ExpireTimeouts by hand: with a time of the caller's, in place of the clock's.
ManualScan(s, t) ==
  /\ Up(s) /\ pc[s] = "idle"
  /\ \E T \in Due({d \in Deposits : deposit[d].status = "waiting"}, DepositExpire,
                  IF t > 0 THEN t ELSE now) :
       scan' = [scan EXCEPT ![s] =
         [now |-> IF t > 0 THEN t ELSE now, deposits |-> T, listing |-> NoListing]]
  /\ Goto(s, "waiting")
  /\ UNCHANGED <<now, db, memory, lock, job, node, budget, query, told>>

Work ==
  \/ \E h \in Handlers : Request(h) \/ Serve(h)
  \/ \E s \in Scanners : Scan(s)
  \/ \E p \in Procs : Lock(p)
  \/ Tick

QueriesNext ==
  \/ Work /\ UNCHANGED <<query, told>>
  \/ \E s \in Scanners, t \in NowUnix : ManualScan(s, t)
  \/ \E c \in Clients :
       \/ \E i \in Instances : Ask(c, i)
       \/ GetDeposit(c) \/ GetBasket(c) \/ GetMatch(c) \/ ListDeposits(c)
       \/ CallFails(c)

QueriesSpec == QueriesInit /\ [][QueriesNext]_queryVars

(***************************************************************************)
(* Properties                                                              *)
(***************************************************************************)
\* A GetMatch reply is whole, although it is read in two steps without a lock: its
\* deposits add up to the amount of its record (MatchingUsecase.GetMatch).
MatchReplyWhole ==
  \A c \in Clients, b \in Baskets :
    LET m == told[c].match[b] IN
    m # NoMatch => m.match = b /\ m.deposits # {} /\ Total(m.deposits) = m.amount

\* What a client has been told to be over stays so in every later answer, of whichever
\* call and instance: a final status, and a match with the amount of its basket.
NeverToldBack ==
  [][ \A c \in Clients :
        /\ \A d \in Deposits :
             told[c].deposit[d] \in {"matched", "expired"} =>
               told'[c].deposit[d] = told[c].deposit[d]
        /\ \A b \in Baskets :
             /\ told[c].basket[b][1] \in {"matched", "expired"} =>
                  told'[c].basket[b] = told[c].basket[b]
             /\ told[c].match[b] # NoMatch =>
                  /\ told'[c].match[b] = told[c].match[b]
                  /\ told'[c].basket[b] # told[c].basket[b] =>
                       told'[c].basket[b] = <<"matched", told[c].match[b].amount>> ]_queryVars
=============================================================================
