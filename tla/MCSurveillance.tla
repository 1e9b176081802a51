--------------------------- MODULE MCSurveillance ---------------------------
(* Feeds for Surveillance, one for each of the things the detectors watch.   *)
EXTENDS Surveillance

CONSTANTS a, b, c, d, i1, i2

Order(account, instrument, side, price, qty) ==
  [account |-> account, instrument |-> instrument, side |-> side, price |-> price, qty |-> qty]

\* b and a both know owner 1; c names b without b naming it; d is unknown.
Entities(owner, links) == [owner |-> owner, links |-> links]
Unrelated == [x \in {a, b, c, d} |-> Entities(NoOwner, {})]
Chained == [x \in {a, b, c} |-> CASE x = a -> Entities("owner1", {})
                                  [] x = b -> Entities("owner1", {})
                                  [] x = c -> Entities("owner2", {b})]
\* b joins the groups of a and of c, which know nothing of each other.
Bridged == [x \in {a, b, c, d} |-> IF x = b THEN Entities("owner1", {a, c}) ELSE Entities(NoOwner, {})]

Plain == [registries |-> {Chained}, opening |-> <<>>, orders |-> {}, cancels |-> FALSE,
          replaces |-> {}, fills |-> {}, gaps |-> {0}, reuse |-> FALSE, drops |-> 0, length |-> 0]

\* Quotes of two accounts against two resting offers of b: layers, moves of the best
\* offer, cancels, replaces and partial fills, with a clock that goes back.
Quotes ==
  [Plain EXCEPT !.opening = <<Order(b, i1, "sell", 3, 2), Order(b, i1, "sell", 2, 2)>>,
                !.orders = {Order(a, i1, "buy", 1, 2), Order(b, i1, "buy", 1, 2)},
                !.cancels = TRUE, !.replaces = {[price |-> 1, qty |-> 1]},
                !.fills = {[qty |-> 1, counterparty |-> NoAccount]},
                !.gaps = {1, 3, -2}, !.drops = 1, !.length = 5]

\* Orders of three accounts, large and small, on one side.
Placements ==
  [Plain EXCEPT !.orders = {Order(x, i1, "buy", 1, q) : x \in {a, b}, q \in {1, 2, 10}}
                            \cup {Order(d, i1, "buy", 1, 2)},
                !.gaps = {0, 2, -3}, !.length = 4]

\* Trades of the accounts on two large orders, before and after the close.
Trades ==
  [Plain EXCEPT !.registries = {Unrelated, Chained, Bridged},
                !.opening = <<Order(a, i1, "sell", 2, 20), Order(c, i1, "buy", 1, 20)>>,
                !.fills = [qty : {1, 3}, counterparty : {a, b, c, d, NoAccount}],
                !.gaps = {4, 5}, !.length = 5]

MCFeeds == {Quotes, Placements, Trades}
MCCloseTime == [i \in {i1} |-> 12]
\* Order ids reused across instruments, as in a second session of the demo server.
MCReuse == {[Plain EXCEPT !.orders = {Order(a, i1, "buy", 1, 2), Order(a, i2, "buy", 1, 2)},
                          !.cancels = TRUE, !.gaps = {1}, !.reuse = TRUE, !.length = 4]}
=============================================================================
