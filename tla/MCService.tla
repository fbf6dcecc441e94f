----------------------------- MODULE MCService -----------------------------
(***************************************************************************)
(* A small instance of Service for TLC                                     *)
(***************************************************************************)
EXTENDS Service, FiniteSetsExt

CONSTANTS d1, d2, d3, b1, b2, s1, s2, none, e1, e2, e3

\* Integers of 28 bits; the largest target for which nothing overflows is 13420.
Bits28 == 134217728

\* The sum that RequestsAssumption asks for.
SumOfValues(f) == MapThenSumSet(LAMBDA d : f[d], DOMAIN f)

(***************************************************************************)
(* The requests                                                            *)
(***************************************************************************)
Dep(via, d, s, a, status, expire) ==
  [via |-> via, no |-> d, shard |-> s, amount |-> a, status |-> status, expire |-> expire]
Bas(via, b, s, t, c, status, expire) ==
  [via |-> via, no |-> b, shard |-> s, target |-> t, current |-> c, status |-> status,
   expire |-> expire]

\* Orders as they should be, in two shards, and deposits sent again with another amount.
GoodDeposits == {Dep("mq", d1, s1, 1, "unset", "unset"), Dep("grpc", d2, s1, 2, "unset", "later"),
                 Dep("mq", d3, s2, 1, "waiting", "later")}
SentAgain    == {Dep("mq", d1, s1, 2, "unset", "later"), Dep("grpc", d2, s1, 1, "unset", "later")}
GoodBaskets  == {Bas("grpc", b1, s1, 3, 0, "unset", "later"), Bas("mq", b2, s2, 2, 0, "waiting", "later")}

\* Numbers that upstream misuses: a deposit sent for two shards, one sent as locked, and
\* a basket that starts with an amount no detail accounts for.
Misused       == {Dep("mq", d3, s1, 1, "locked", "later"), Dep("mq", d2, s2, 2, "unset", "later")}
MisusedBasket == {Bas("mq", b2, s2, 2, 1, "waiting", "later")}

\* Requests each of which one of the two validations has to refuse.
BadDeposits == {Dep("grpc", none, s1, 1, "unset", "later"), Dep("mq", d1, s1, -1, "unset", "later"),
                Dep("mq", d2, none, 2, "unset", "unset"), Dep("grpc", d3, s2, 1, "unset", "past"),
                Dep("mq", d3, s2, 0, "unset", "unset")}
BadBaskets  == {Bas("mq", none, s1, 3, 0, "unset", "later"),
                Bas("grpc", none, s1, 3, 0, "unset", "later"), Bas("mq", b2, s2, 0, 0, "unset", "later"),
                Bas("mq", b1, none, 3, 0, "unset", "later"), Bas("grpc", b1, s1, 3, 0, "unset", "unset")}

\* Nothing but proper orders, and the same deposits with another amount.
Resent == GoodDeposits \cup SentAgain

SomeDepositRequests == GoodDeposits \cup SentAgain \cup Misused \cup BadDeposits
SomeBasketRequests  == GoodBaskets \cup MisusedBasket \cup BadBaskets

(***************************************************************************)
(* The process: the full configuration, and one section or field missing   *)
(***************************************************************************)
Full == {"mysql", "redis", "rocketmq", "endpoint", "topics", "group", "match", "grpc", "metrics"}

SomeConfigs ==
  {Full \cup {"trace", "sentry"}} \cup {Full \ {x} : x \in Full \ {"rocketmq"}}
    \cup {Full \ {"rocketmq", "endpoint", "topics", "group"}}

(***************************************************************************)
(* The messages: deposits, withdraws in a tagged topic, and some of a tag  *)
(* nobody configured                                                       *)
(***************************************************************************)
DepositTopic  == <<"match_deposit", none>>
WithdrawTopic == <<"match_withdraw", "A">>
OtherTag      == <<"match_deposit", "B">>
Topics        == {DepositTopic, WithdrawTopic}

SomeTraffic ==
  [mode \in BOOLEAN |-> IF mode THEN {<<DepositTopic, WithdrawTopic, DepositTopic>>}
                         ELSE {<<DepositTopic, OtherTag, DepositTopic>>}]

\* Deposits of two shards, with and without a deadline, and a basket.
DepOrder(no, shard, status, expire) ==
  [kind |-> "deposit", no |-> no, shard |-> shard, amount |-> 1, current |-> 0,
   status |-> status, expire |-> expire]
BasOrder(no, shard, c) ==
  [kind |-> "withdraw", no |-> no, shard |-> shard, amount |-> 3, current |-> c,
   status |-> 1, expire |-> "set"]
SomeOrders == {DepOrder("D1", "bank:CNY", 0, "zero"), DepOrder("D2", "bank:USD", 1, "set"),
               BasOrder("B1", "bank:CNY", 1)}
=============================================================================
