--------------------------- MODULE MCKafkaReplay ---------------------------
(* Sessions for KafkaReplay.                                                 *)
EXTENDS KafkaReplay

Order(id) ==
  [type |-> "order",
   fields |-> [order_id |-> id, account_id |-> <<"a">>, instrument_id |-> <<"i">>, side |-> <<"Buy">>,
               price |-> <<"1", ".", "2">>, qty |-> <<"1">>, order_type |-> <<"Limit">>,
               timestamp_ns |-> <<"1", "0">>, status |-> <<"New">>, venue |-> <<>>, orig_order_id |-> <<>>]]
Execution(id) ==
  [type |-> "execution",
   fields |-> [trade_id |-> <<"t">>, order_id |-> id, account_id |-> <<"a">>, instrument_id |-> <<"i">>,
               side |-> <<"Sell">>, price |-> <<"-", "1">>, qty |-> <<"2">>, timestamp_ns |-> <<"2">>,
               counterparty_account_id |-> <<"b">>, venue |-> <<"v">>]]

\* Ids of up to two characters that the syntax of a payload gives a meaning to, one event
\* each; and three and four events.
Awkward == {Quote, Backslash, Newline, "n"}
Longest == <<Order(<<"x">>), Execution(<<"x">>), Order(<<"y">>), Order(<<"z">>)>>
MCSessions ==
  {<<Order(id)>> : id \in {<<>>} \cup [1 .. 1 -> Awkward] \cup [1 .. 2 -> Awkward]}
    \cup {SubSeq(Longest, 1, 3), Longest}
=============================================================================
