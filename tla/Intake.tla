------------------------------- MODULE Intake -------------------------------
(***************************************************************************)
(* What a request says and what becomes of it: the validation of the gRPC  *)
(* interface and of the use case, the order that is already known, the     *)
(* amounts that go into the details, the rows and the match records, and   *)
(* the answer.  Requests come over gRPC or as RocketMQ messages, whose     *)
(* data may carry a status and a current_amount.                           *)
(*                                                                         *)
(* One operation at a time, each under its shard lock, without failures:   *)
(* Matching has the interleavings, EngineShard the choice of a basket in   *)
(* full.  An order's deadline may pass at any time.                        *)
(***************************************************************************)
EXTENDS Integers

CONSTANTS
  Deposits, Baskets, NoNumber,   \* deposit_no and withdraw_no, and a number left out
  Shards, NoShard,               \* channel:currency, and one of the two left out
  DepositRequests,               \* the requests and messages upstream sends
  BasketRequests,
  MinRate,                       \* min_complete_rate, within 1..10000
  Total(_),                      \* the sum of the values of a function of deposits
  MaxRequests                    \* bound

Statuses == {"unset", "waiting", "locked", "matched", "expired"}
Via      == {"grpc", "mq"}
Expiry   == {"unset", "past", "later"}

\* The requests; a gRPC request has no status and no current amount.
DepositRequest ==
  [via : Via, no : Deposits \cup {NoNumber}, shard : Shards \cup {NoShard},
   amount : Int, status : Statuses, expire : Expiry]
BasketRequest ==
  [via : Via, no : Baskets \cup {NoNumber}, shard : Shards \cup {NoShard},
   target : Int, current : Int, status : Statuses, expire : Expiry]

\* What the constants must be; the modules that use this one assume it.
RequestAssumption ==
  /\ DepositRequests \subseteq DepositRequest /\ BasketRequests \subseteq BasketRequest
  /\ \A r \in DepositRequests \cup BasketRequests : r.via = "grpc" => r.status = "unset"
  /\ \A r \in DepositRequests : r.via = "mq" => r.no # NoNumber   \* or gets one: OrderNumbers
  /\ \A r \in BasketRequests : r.via = "grpc" => r.current = 0
  /\ MinRate \in 1..10000 /\ MaxRequests \in Nat /\ NoNumber \notin Baskets

\* The amounts that a deposit may have, and what a sum of them is.
Sizes == {r.amount : r \in {q \in DepositRequests : q.amount > 0}}

TotalAssumption ==
  /\ \A S \in SUBSET Deposits : \A f \in [S -> Sizes] : Total(f) \in Nat
  /\ \A f \in [{} -> Sizes] : Total(f) = 0
  /\ \A S \in SUBSET Deposits : \A d \in Deposits \ S : \A f \in [S \cup {d} -> Sizes] :
       Total(f) = Total([x \in S |-> f[x]]) + f[d]

VARIABLES
  deposit,   \* deposit_order rows
  basket,    \* withdraw_basket rows
  detail,    \* basket_deposit rows
  record,    \* match_record rows, and the match_record_deposit rows of each, its lines
  pool,      \* the baskets of the in-memory shards
  answer,    \* the last reply
  left       \* what is left of MaxRequests

rows == <<deposit, basket, detail, record>>
vars == <<rows, pool, answer, left>>

NoBasket == NoNumber

NoDepositRow == [shard |-> NoShard, amount |-> 0, status |-> "absent", basket |-> NoBasket]
NoBasketRow  == [shard |-> NoShard, target |-> 0, current |-> 0, status |-> "absent"]
NoDetail     == [basket |-> NoBasket, amount |-> 0, status |-> "none"]
NoRecord     == [made |-> FALSE, amount |-> 0, lines |-> [d \in {} |-> 0]]
Out          == [in |-> FALSE, current |-> 0, status |-> "unset", deposits |-> {}]

\* engine.MatchResult in a SubmitDepositReply: for a deposit that waits, or has been
\* refused by the shard, everything but "pending" is zero.
Nothing == [code |-> "ok", no |-> NoNumber, basket |-> NoBasket, amount |-> 0,
            matched |-> FALSE, attached |-> FALSE, pending |-> FALSE]
\* toGRPCError: every error of an order is InvalidArgument.
Error   == [Nothing EXCEPT !.code = "InvalidArgument"]

Init ==
  /\ deposit = [d \in Deposits |-> NoDepositRow]
  /\ basket = [b \in Baskets |-> NoBasketRow]
  /\ detail = [d \in Deposits |-> NoDetail]
  /\ record = [b \in Baskets |-> NoRecord]
  /\ pool = [b \in Baskets |-> Out]
  /\ answer = Nothing
  /\ left = MaxRequests

Amounts(S)  == Total([d \in S |-> detail[d].amount])
Attached(b) == {d \in Deposits : detail[d].basket = b /\ detail[d].status = "attached"}
Recorded    == UNION {DOMAIN record[b].lines : b \in Baskets}
MinAmount(b) == (basket[b].target * MinRate + 9999) \div 10000

(***************************************************************************)
(* Validation                                                              *)
(***************************************************************************)
\* The rules of matching.proto, checked by the gRPC server before the handler.
SubmitDepositRequestValid(r) == r.no # NoNumber /\ r.shard # NoShard /\ r.amount > 0
CreateBasketRequestValid(r)  == r.no # NoNumber /\ r.shard # NoShard /\ r.target > 0

\* normalizeDeposit fills in a deadline; a basket must have one.
ValidateDeposit(r) == r.shard # NoShard /\ r.amount > 0 /\ r.expire # "past"
ValidateBasket(r)  ==
  r.no # NoNumber /\ r.shard # NoShard /\ r.target > 0 /\ r.expire = "later"

DepositAccepted(r) == (r.via = "grpc" => SubmitDepositRequestValid(r)) /\ ValidateDeposit(r)
BasketAccepted(r)  == (r.via = "grpc" => CreateBasketRequestValid(r)) /\ ValidateBasket(r)

Status(r) == IF r.status = "unset" THEN "waiting" ELSE r.status

(***************************************************************************)
(* SubmitDeposit                                                           *)
(***************************************************************************)
\* saveDepositIfNeeded leaves the row of a known number alone.
Saved(r) ==
  [deposit EXCEPT ![r.no] = IF @.status # "absent" THEN @
     ELSE [shard |-> r.shard, amount |-> r.amount, status |-> Status(r), basket |-> NoBasket]]

\* The baskets of the request's shard, judged with the request's amount.
InShard(r)  == {b \in Baskets : pool[b].in /\ pool[b].status = "waiting" /\ basket[b].shard = r.shard}

Need(b)       == basket[b].target - pool[b].current
CompletableBy(r) == {b \in InShard(r) : r.amount = Need(b)}
AcceptableTo(r)  ==
  LET fits == {b \in InShard(r) : r.amount < Need(b)} IN
  {b \in fits : \A c \in fits : Need(b) <= Need(c)}

\* A detail is unique per deposit, a record per basket and a recorded deposit too;
\* the basket row must be waiting.
Committable(r, b) ==
  /\ detail[r.no].status = "none"
  /\ basket[b].status = "waiting"
  /\ r.amount = Need(b) => ~record[b].made /\ (pool[b].deposits \cup {r.no}) \cap Recorded = {}

\* buildCompleteResult and buildWaitResult: what is persisted and answered.
Result(r, b, matched) ==
  [Nothing EXCEPT !.no = r.no, !.basket = b, !.attached = TRUE, !.matched = matched,
                  !.amount = pool[b].current + r.amount]

\* persistMatchedDeposit: the line of a deposit has the amount of its row.
Lines(S, saved) == [d \in S |-> saved[d].amount]

\* persistCompletedMatch: S are the deposits of the match, "saved" the deposit rows.
Completed(b, S, amount, saved, details) ==
  /\ record' = [record EXCEPT ![b] = [made |-> TRUE, amount |-> amount, lines |-> Lines(S, saved)]]
  /\ deposit' = [d \in Deposits |->
       IF d \in S /\ saved[d].status \in {"waiting", "locked"}
         THEN [saved[d] EXCEPT !.status = "matched", !.basket = b] ELSE saved[d]]
  /\ basket' = [basket EXCEPT ![b].status = "matched", ![b].current = amount]
  /\ detail' = [d \in Deposits |->
       IF details[d].basket = b /\ details[d].status = "attached"
         THEN [details[d] EXCEPT !.status = "matched"] ELSE details[d]]
  /\ pool' = [pool EXCEPT ![b] = Out]

\* createBasketDeposit: the detail has the amount of the request.
WithDetail(r, b) ==
  [detail EXCEPT ![r.no] = [basket |-> b, amount |-> r.amount, status |-> "attached"]]

Complete(r, b) ==
  /\ b \in CompletableBy(r) /\ Committable(r, b)
  /\ Completed(b, pool[b].deposits \cup {r.no}, Result(r, b, TRUE).amount, Saved(r), WithDetail(r, b))
  /\ answer' = Result(r, b, TRUE)

AttachedRow(r, b) ==
  [Saved(r) EXCEPT ![r.no] = IF @.status = "waiting"
     THEN [@ EXCEPT !.status = "locked", !.basket = b] ELSE @]

Attach(r, b) ==
  /\ CompletableBy(r) = {} /\ b \in AcceptableTo(r) /\ Committable(r, b)
  /\ detail' = WithDetail(r, b)
  /\ basket' = [basket EXCEPT ![b].current = Result(r, b, FALSE).amount]
  /\ deposit' = AttachedRow(r, b)
  /\ pool' = [pool EXCEPT ![b].current = @ + r.amount, ![b].deposits = @ \cup {r.no}]
  /\ answer' = Result(r, b, FALSE)
  /\ UNCHANGED record

\* The transaction is rolled back; the deposit row stays.
Refused(r) ==
  /\ \E b \in IF CompletableBy(r) # {} THEN CompletableBy(r) ELSE AcceptableTo(r) : ~Committable(r, b)
  /\ deposit' = Saved(r)
  /\ answer' = Error
  /\ UNCHANGED <<basket, detail, record, pool>>

\* No basket fits, or the status the message carries is not "waiting".
Wait(r) ==
  /\ Status(r) # "waiting" \/ CompletableBy(r) \cup AcceptableTo(r) = {}
  /\ deposit' = Saved(r)
  /\ answer' = [Nothing EXCEPT !.no = r.no, !.pending = (Status(r) = "waiting")]
  /\ UNCHANGED <<basket, detail, record, pool>>

Invalid == answer' = Error /\ UNCHANGED <<rows, pool>>

SubmitDeposit(r) ==
  /\ left > 0 /\ left' = left - 1
  /\ \/ ~DepositAccepted(r) /\ Invalid
     \/ DepositAccepted(r) /\ Wait(r)
     \/ /\ DepositAccepted(r) /\ Status(r) = "waiting"
        /\ Refused(r) \/ \E b \in Baskets : Complete(r, b) \/ Attach(r, b)

(***************************************************************************)
(* CreateBasket                                                            *)
(***************************************************************************)
\* The row takes the status and the current amount of the message; a number that is
\* taken is refused by its unique key.
CreateBasket(r) ==
  /\ left > 0 /\ left' = left - 1
  /\ IF BasketAccepted(r) /\ basket[r.no].status = "absent"
       THEN /\ basket' = [basket EXCEPT ![r.no] = [shard |-> r.shard, target |-> r.target,
                            current |-> r.current, status |-> Status(r)]]
            /\ pool' = [pool EXCEPT ![r.no] = [in |-> TRUE, current |-> r.current,
                          status |-> Status(r), deposits |-> {}]]
            /\ answer' = [Nothing EXCEPT !.basket = r.no]
            /\ UNCHANGED <<deposit, detail, record>>
       ELSE Invalid

(***************************************************************************)
(* Timeouts and restart                                                    *)
(***************************************************************************)
Silent == answer' = Nothing /\ UNCHANGED left

ExpireWaiting(d) ==
  /\ deposit[d].status = "waiting"
  /\ deposit' = [deposit EXCEPT ![d].status = "expired"]
  /\ Silent /\ UNCHANGED <<basket, detail, record, pool>>

\* The amount that is taken off a basket: of the detail, in the row and in the pool.
MinusRow(d)   == deposit[d].amount   \* mutant: the amount of the deposit row
ReleasedAmount(d) == detail[d].amount

Less(a, d) == IF a > ReleasedAmount(d) THEN a - ReleasedAmount(d) ELSE 0

\* The basket is looked for in the shard of the deposit row.
Found(b, d) == pool[b].in /\ basket[b].shard = deposit[d].shard

ReleaseDeposit(d) ==
  LET b == detail[d].basket IN
  /\ deposit[d].status = "locked" /\ detail[d].status = "attached"
  /\ deposit' = [deposit EXCEPT ![d].status = "expired"]
  /\ detail' = [detail EXCEPT ![d].status = "released"]
  /\ basket' = [basket EXCEPT ![b].current =
       IF basket[b].status = "waiting" THEN Less(@, d) ELSE @]
  /\ pool' = [pool EXCEPT ![b] = IF ~Found(b, d) THEN pool[b]
       ELSE [pool[b] EXCEPT !.current = Less(pool[b].current, d), !.deposits = pool[b].deposits \ {d}]]
  /\ Silent /\ UNCHANGED record

\* The deposits of a basket that expires.
ExpiredWith(b) ==
  [d \in Deposits |-> IF deposit[d].basket = b /\ deposit[d].status = "locked"
     THEN [deposit[d] EXCEPT !.status = "expired"] ELSE deposit[d]]

CloseBasket(b) ==
  LET S == Attached(b) IN
  /\ basket[b].status = "waiting"
  /\ IF basket[b].current > 0 /\ basket[b].current >= MinAmount(b)
        /\ S # {} /\ Amounts(S) >= MinAmount(b)
       THEN Completed(b, S, Amounts(S), deposit, detail)
       ELSE /\ basket' = [basket EXCEPT ![b].status = "expired"]
            /\ detail' = [d \in Deposits |->
                 IF d \in S THEN [detail[d] EXCEPT !.status = "released"] ELSE detail[d]]
            /\ deposit' = ExpiredWith(b)
            /\ pool' = [pool EXCEPT ![b] = Out]
            /\ UNCHANGED record
  /\ Silent

\* RecoverActiveBaskets.
Restart ==
  /\ pool' = [b \in Baskets |-> IF basket[b].status # "waiting" THEN Out
       ELSE [in |-> TRUE, current |-> basket[b].current, status |-> "waiting",
             deposits |-> {d \in Deposits : detail[d].basket = b
                                            /\ detail[d].status \in {"attached", "matched"}}]]
  /\ Silent /\ UNCHANGED rows

Next ==
  \/ \E r \in DepositRequests : SubmitDeposit(r)
  \/ \E r \in BasketRequests : CreateBasket(r)
  \/ \E d \in Deposits : ExpireWaiting(d) \/ ReleaseDeposit(d)
  \/ \E b \in Baskets : CloseBasket(b)
  \/ Restart

Spec == Init /\ [][Next]_vars

(***************************************************************************)
(* Properties                                                              *)
(***************************************************************************)
\* No row has an amount that is not positive or lacks its channel or currency, by
\* whichever way the order came: a message is not seen by the rules of the proto.
RowsSane ==
  /\ \A d \in Deposits : deposit[d].status # "absent" =>
       deposit[d].amount > 0 /\ deposit[d].shard # NoShard
  /\ \A b \in Baskets : basket[b].status # "absent" =>
       basket[b].target > 0 /\ basket[b].shard # NoShard

\* What upstream keeps to for a number: the requests for it that are accepted.
RequestsFor(d) == {r \in DepositRequests : DepositAccepted(r) /\ r.no = d}
KeepsShard(d)  == \A r, q \in RequestsFor(d) : r.shard = q.shard
KeepsAmount(d) == \A r, q \in RequestsFor(d) : r.amount = q.amount
NotSentLocked(d) == \A r \in RequestsFor(d) : r.status # "locked"
StartsEmpty(b) == \A r \in BasketRequests : BasketAccepted(r) /\ r.no = b => r.current = 0

\* A basket that started empty, and whose deposits so far are of its shard.
OfItsShard(d) == deposit[d].shard = basket[detail[d].basket].shard
Proper(b) ==
  /\ StartsEmpty(b)
  /\ \A d \in Deposits : detail[d].status # "none" /\ detail[d].basket = b => OfItsShard(d)

\* A deposit is in a basket of its own channel and currency, unless its number is sent
\* for two: "入金渠道或币种不属于当前分片" is what the shard says of any other
\* (MatchDepositWithCommit), but of the request, not of the row.
SameShard == \A d \in Deposits : detail[d].status # "none" /\ KeepsShard(d) => OfItsShard(d)

\* The current amount of an open basket ('已凑金额', 001_init_schema.sql) is the sum of
\* its attached details, whatever amounts requests for a known deposit name and
\* whatever is wrong with other baskets.
CurrentFromDetails ==
  \A b \in Baskets : basket[b].status = "waiting" /\ Proper(b) => basket[b].current = Amounts(Attached(b))

\* matched_amount ('实际撮合金额') is what the matched details of the basket add up to,
\* whatever amounts were released from it before.
RecordSumsDetails ==
  \A b \in Baskets : record[b].made /\ Proper(b) =>
    record[b].amount = Amounts({d \in Deposits : detail[d].basket = b /\ detail[d].status = "matched"})

\* The lines of a match ('撮合结果入金明细'), which GetMatch answers, are those matched
\* details.  They add up to matched_amount if none of their numbers was sent with two
\* amounts: a detail has the amount of the request, a line that of the row
\* (createBasketDeposit, persistMatchedDeposit).
LinesAddUp ==
  \A b \in Baskets : record[b].made /\ Proper(b) =>
    LET lines == record[b].lines IN
    /\ DOMAIN lines = {d \in Deposits : detail[d].basket = b /\ detail[d].status = "matched"}
    /\ (\A d \in DOMAIN lines : KeepsAmount(d)) => Total(lines) = record[b].amount

\* The lines of every match add up to its amount, whatever is sent.
EveryLineCounted == \A b \in Baskets : record[b].made => Total(record[b].lines) = record[b].amount

\* A locked deposit is attached to a basket, unless it was sent as locked: the scan
\* stops at one that is not (expireLockedDeposit).
LockedIsAttached ==
  \A d \in Deposits : deposit[d].status = "locked" /\ NotSentLocked(d) => detail[d].status = "attached"

\* An answer that says attached or matched is what the tables say.
PositiveAnswerTrue ==
  answer.attached =>
    /\ detail[answer.no].basket = answer.basket
    /\ detail[answer.no].status = IF answer.matched THEN "matched" ELSE "attached"
    /\ basket[answer.basket].current = answer.amount
    /\ answer.matched => record[answer.basket].made /\ answer.amount = basket[answer.basket].target

\* Whatever is requested, in whichever order and however often, the rows, the records
\* and the answers agree, and a number that upstream misuses disturbs no others.
IntakeTrue ==
  /\ RowsSane /\ SameShard /\ CurrentFromDetails /\ RecordSumsDetails /\ LinesAddUp
  /\ LockedIsAttached /\ PositiveAnswerTrue
=============================================================================
