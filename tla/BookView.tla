------------------------------ MODULE BookView ------------------------------
(***************************************************************************)
(* What the detectors see of an instrument's book: its resting orders as a   *)
(* set, the quantity at a price and the best price of a side                 *)
(* (cpp/orderbook/order_book.cpp).  Priority and the id index, which no      *)
(* detector reads, are the subject of OrderBook.                             *)
(*                                                                          *)
(* An event is a record of the fields of fix::Order and fix::Execution that  *)
(* the book or a detector reads: kind, id, orig, account, counterparty,      *)
(* instrument, side, price, qty, ts.                                         *)
(***************************************************************************)
EXTENDS Integers, FiniteSetsExt

CONSTANT NoPrice  \* a side without orders has no best price

Opposite(side) == IF side = "buy" THEN "sell" ELSE "buy"

\* Resting orders: [id, side, price, qty], at most one per id.
Named(book, id) == {o \in book : o.id = id}
Resting(book, id) == Named(book, id) # {}
OrderOf(book, id) == CHOOSE o \in book : o.id = id

QtyAtPrice(book, side, price) ==
  MapThenSumSet(LAMBDA o : o.qty, {o \in book : o.side = side /\ o.price = price})

BestPrice(book, side) ==
  LET prices == {o.price : o \in {p \in book : p.side = side}}
  IN IF prices = {} THEN NoPrice ELSE IF side = "buy" THEN Max(prices) ELSE Min(prices)

Entry(event) == [id |-> event.id, side |-> event.side, price |-> event.price, qty |-> event.qty]

\* insert_new throws if the id is taken.
Insert(book, event) == IF Resting(book, event.id) THEN book ELSE book \cup {Entry(event)}

\* A Replace keeps the side of the resting order when it keeps its priority, and
\* takes the side of the message when it is inserted anew.
LosesPriority(book, event) ==
  LET old == OrderOf(book, event.orig) IN event.price # old.price \/ event.qty > old.qty

Amend(book, event) ==
  LET old == OrderOf(book, event.orig)
      rest == book \ {old}
  IN IF LosesPriority(book, event) THEN Insert(rest, event)
     ELSE rest \cup {[Entry(event) EXCEPT !.side = old.side]}

Fill(book, event) ==
  LET old == OrderOf(book, event.id)
      rest == book \ {old}
  IN IF old.qty = event.qty THEN rest ELSE rest \cup {[old EXCEPT !.qty = @ - event.qty]}

\* The events apply() throws std::invalid_argument on.
Overfills(book, event) == event.qty > OrderOf(book, event.id).qty
TakesOtherId(book, event) ==
  LosesPriority(book, event) /\ Resting(book \ Named(book, event.orig), event.id)

Rejects(book, event) ==
  \/ /\ event.kind = "New"
     /\ Resting(book, event.id)
  \/ /\ event.kind = "Execution"
     /\ Resting(book, event.id) => Overfills(book, event)
  \/ /\ event.kind = "Replace"
     /\ Resting(book, event.orig) => TakesOtherId(book, event)

\* apply(): a Replace that throws in insert_new has already taken the old order out.
Applied(book, event) ==
  CASE event.kind = "New" -> Insert(book, event)
    [] event.kind = "Cancel" -> book \ Named(book, event.orig)
    [] event.kind = "Replace" -> IF Resting(book, event.orig) THEN Amend(book, event) ELSE book
    [] event.kind = "Execution" -> IF Rejects(book, event) THEN book ELSE Fill(book, event)
=============================================================================
