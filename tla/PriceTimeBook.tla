--------------------------- MODULE PriceTimeBook ---------------------------
(***************************************************************************)
(* The price-time priority rules OrderBook promises its users, as stated   *)
(* at OrderBook::apply (cpp/orderbook/order_book.hpp:64-104) and in        *)
(* cpp/orderbook/README.md: one queue of orders per side and price, every  *)
(* order in one place, an event either takes effect or changes nothing.    *)
(***************************************************************************)
EXTENDS Naturals, Sequences, SequencesExt

CONSTANTS Ids, Sides, Prices, Qtys

VARIABLE book  \* [side, price] -> queue of [id, qty], highest priority first

Levels == Sides \X Prices

Init == book = [l \in Levels |-> <<>>]

\* An order is designated by its level l and its rank i in the queue.
Resting(id) == \E l \in Levels : \E i \in DOMAIN book[l] : book[l][i].id = id
MayName(orig, id) == id = orig \/ ~Resting(id)

Without(l, i) == [book EXCEPT ![l] = RemoveAt(@, i)]
Joined(b, level, id, qty) == [b EXCEPT ![level] = Append(@, [id |-> id, qty |-> qty])]

\* A new order joins the back of its level; its id must not be resting.
New(id, level, qty) ==
  /\ ~Resting(id)
  /\ book' = Joined(book, level, id, qty)

Cancel(l, i) == book' = Without(l, i)

\* A lower or equal quantity at the same price keeps the place in the queue.
AmendInPlace(l, i, id, qty) ==
  /\ MayName(book[l][i].id, id)
  /\ qty <= book[l][i].qty
  /\ book' = [book EXCEPT ![l][i] = [id |-> id, qty |-> qty]]

\* Any other change goes to the back of the (possibly new) level.
AmendToBack(l, i, id, level, qty) ==
  /\ MayName(book[l][i].id, id)
  /\ level[2] # l[2] \/ qty > book[l][i].qty
  /\ book' = Joined(Without(l, i), level, id, qty)

\* A partial fill keeps the place; a complete one removes the order.
Fill(l, i, qty) ==
  \/ qty = book[l][i].qty /\ book' = Without(l, i)
  \/ qty < book[l][i].qty /\ book' = [book EXCEPT ![l][i].qty = @ - qty]

Next ==
  \/ \E id \in Ids, level \in Levels, qty \in Qtys : New(id, level, qty)
  \/ \E l \in Levels : \E i \in DOMAIN book[l] :
       \/ Cancel(l, i)
       \/ \E qty \in Qtys : Fill(l, i, qty)
       \/ \E id \in Ids, qty \in Qtys : AmendInPlace(l, i, id, qty)
       \/ \E id \in Ids, level \in Levels, qty \in Qtys : AmendToBack(l, i, id, level, qty)

Spec == Init /\ [][Next]_book
=============================================================================
