----------------------------- MODULE Simulator -----------------------------
(***************************************************************************)
(* The session generator (cpp/simulator): the accounts, and the orders and   *)
(* executions of one scenario of each kind of abuse, as functions of the     *)
(* draws of the random generator.  SimulatedSession puts them together.      *)
(*                                                                          *)
(* A stream of draws is a sequence of booleans: a draw from a range is its   *)
(* lower or its upper end.  Times are in units of 20 ms, delays below that   *)
(* being one unit (the 1 to 20 ms of a trade at the close: one or two);      *)
(* prices are in units of 0.0001 relative to the reference price, quantities *)
(* in lots, severities in percent.                                           *)
(***************************************************************************)
EXTENDS Integers, Sequences, SequencesExt, Functions

CONSTANTS
  Synthetic,    \* kSyntheticCounterparty, which no registry knows
  TickSize,     \* tick_size of every instrument
  SessionClose  \* session_close_ns

TicksAreWhole == \A i \in DOMAIN TickSize : TickSize[i] \in Nat \ {0}

Millisecond == 1
LayerStagger == 1
SafeZone == 8      \* kAnchorSafeZoneTicks
WindowAnchor == 15000   \* 300 s

Smaller(a, b) == IF a <= b THEN a ELSE b
Larger(a, b) == IF a >= b THEN a ELSE b
Other(side) == IF side = "buy" THEN "sell" ELSE "buy"

\* uniform_int64, and the coin that is uniform_double < 0.5.
Coin(u, k) == u[((k - 1) % Len(u)) + 1]
Draw(u, k, lo, hi) == IF hi <= lo THEN lo ELSE IF Coin(u, k) THEN hi ELSE lo
SideDraw(u, k) == IF Coin(u, k) THEN "buy" ELSE "sell"

Lerp(lo, hi, severity) == lo + ((hi - lo) * severity) \div 100

\* lo + llround(span * severity)
Count(lo, span, severity) == lo + (2 * span * severity + 100) \div 200

\* AccountRegistry: an owner for every independent account, one for each linked pair.
RegistryOf(independent, pairs) ==
  LET Partner(a) == {p[2] : p \in {q \in pairs : q[1] = a}} \cup {p[1] : p \in {q \in pairs : q[2] = a}}
      Client(a) == (CHOOSE p \in pairs : a \in {p[1], p[2]})[1]
  IN [a \in independent \cup UNION {{p[1], p[2]} : p \in pairs} |->
        IF a \in independent THEN [owner |-> a, links |-> {}]
        ELSE [owner |-> Client(a), links |-> Partner(a)]]

-----------------------------------------------------------------------------
\* The records of types.hpp.
SimOrder(id, account, instrument, side, price, qty, ts, label) ==
  [id |-> id, account |-> account, instrument |-> instrument, side |-> side, price |-> price,
   qty |-> qty, ts |-> ts, status |-> "new", label |-> label]

CancelOf(order, ts) == [order EXCEPT !.status = "cancelled", !.ts = ts]

SimTrade(trade, order, qty, ts, counterparty) ==
  [trade |-> trade, id |-> order.id, account |-> order.account, instrument |-> order.instrument,
   qty |-> qty, ts |-> ts, counterparty |-> counterparty, label |-> order.label]

\* A scenario: its orders and executions in the order they are appended, with the number
\* of ids it took.  ids holds the last numbers given out.
Scenario(orders, executions, taken) == [orders |-> orders, executions |-> executions, taken |-> taken]

\* Fault: the second leg is filled by the quantity of the first.
FirstLeg(a, b) == a
FilledQty(a, b) == Smaller(a, b)

\* generate_wash_trade_scenario
WashTrade(u, ids, label, instrument, first, second, anchor, severity) ==
  LET side == SideDraw(u, 1)
      qtyA == Draw(u, 2, 2, 20)
      noise == (Lerp(20, 0, severity) * qtyA) \div 100
      gap == Lerp(1500, 10, severity) + Draw(u, 3, 0, 25)
      qtyB == Larger(1, qtyA + Draw(u, 4, -noise, noise))
      offset == Draw(u, 5, -1, 1) * Lerp(3 * TickSize[instrument], 0, severity)
      orderA == SimOrder(ids.order + 1, first, instrument, side, 0, qtyA, anchor, label)
      orderB == SimOrder(ids.order + 2, second, instrument, Other(side), offset, qtyB, anchor + gap, label)
      at == orderB.ts + Draw(u, 6, 1, 10)
      filled == FilledQty(qtyA, qtyB)
  IN Scenario(<<orderA, orderB>>,
              <<SimTrade(ids.trade - 1, orderA, filled, at, second),
                SimTrade(ids.trade - 2, orderB, filled, at, first)>>,
              [order |-> 2, trade |-> 2])

-----------------------------------------------------------------------------
\* Spoofing and layering.
Dwell(u, severity) == Lerp(450, 50, severity) + Draw(u, 2, -25, 25)
ClusterJitter(severity) == Lerp(250, 2, severity)

\* Fault: the anchor moves when the layers are cancelled.
MoveAtCancel(anchor, dwell, lastLayer, earliestCancel) == anchor + dwell

\* anchor_move_ts: half-way through the dwell, after the last layer, before any cancel.
AnchorMove(anchor, dwell, lastLayer, earliestCancel) ==
  LET half == anchor + dwell \div 2
      after == IF half <= lastLayer THEN lastLayer + Millisecond ELSE half
  IN IF after >= earliestCancel THEN earliestCancel - Millisecond ELSE after

FallbackPrice(away, tick) == -(away * tick)

LayerTime(anchor, i) == anchor + (i - 1) * LayerStagger
LayerCancelTime(u, i, layer, cancelAnchor, jitter) ==
  Larger(layer.ts + Millisecond, cancelAnchor + Draw(u, 6 + i, -(jitter \div 2), jitter \div 2))

\* generate_spoofing_layering_scenario
SpoofingScenario(u, ids, label, baseline, instrument, account, anchor, severity) ==
  LET n == Count(3, 3, severity)
      qty == (Draw(u, 1, 2, 10) * Lerp(15, 100, severity)) \div 10
      dwell == Dwell(u, severity)
      jitter == ClusterJitter(severity)
      spoofed == SideDraw(u, 3)
      away == IF spoofed = "sell" THEN 1 ELSE -1
      tick == TickSize[instrument]
      layers == [i \in 1 .. n |->
                   SimOrder(ids.order + i, account, instrument, spoofed,
                            away * (SafeZone + i) * tick, qty, LayerTime(anchor, i), label)]
      lastLayer == layers[n].ts
      move == AnchorMove(anchor, dwell, lastLayer, anchor + dwell - jitter \div 2)
      dominant == SimOrder(ids.order + n + 1, Synthetic, instrument, Other(spoofed),
                           away * (SafeZone - 1) * tick, 3, anchor, baseline)
      fallback == SimOrder(ids.order + n + 2, Synthetic, instrument, Other(spoofed),
                           FallbackPrice(away, tick), 3, move + Millisecond, baseline)
      before == anchor + dwell - Draw(u, 4, 3, 15)
      genuine == SimOrder(ids.order + n + 3, account, instrument, Other(spoofed), -(away * tick),
                          Draw(u, 5, 1, 5), IF before <= lastLayer THEN lastLayer + 1 ELSE before, label)
      cancels == [i \in 1 .. n |->
                    CancelOf(layers[i], LayerCancelTime(u, i, layers[i], anchor + dwell, jitter))]
  IN Scenario(layers \o <<dominant, CancelOf(dominant, move), fallback, genuine>> \o cancels,
              <<SimTrade(ids.trade - 1, genuine, genuine.qty, genuine.ts + Draw(u, 6, 1, 5), Synthetic)>>,
              [order |-> n + 3, trade |-> 1])

-----------------------------------------------------------------------------
\* generate_marking_the_close_scenario
AccountsUsed(accounts, severity) ==
  Smaller(Larger(1, IF severity <= 50 THEN 2 ELSE 1), Len(accounts))

QtyPerTrade(ambientQty, severity, trades) ==
  LET share == Lerp(15, 65, severity)
  IN Larger(1, (share * ambientQty) \div ((100 - share) * trades))

TradeTime(u, i, n, window) ==
  Smaller(SessionClose - window + (i * window) \div n - Draw(u, 2 * i, 0, window \div (2 * n)),
          SessionClose - Millisecond)

MarkingScenario(u, ids, label, instrument, accounts, ambientQty, severity) ==
  LET n == Count(3, 7, severity)
      window == Lerp(WindowAnchor, 400, severity)
      side == SideDraw(u, 1)
      towards == IF side = "buy" THEN 1 ELSE -1
      step == (Lerp(50, 400, severity) * TickSize[instrument]) \div 100
      used == AccountsUsed(accounts, severity)
      orders == [i \in 1 .. n |->
                   SimOrder(ids.order + i, accounts[((i - 1) % used) + 1], instrument, side,
                            towards * i * step, QtyPerTrade(ambientQty, severity, n),
                            TradeTime(u, i, n, window), label)]
  IN Scenario(orders,
              [i \in 1 .. n |-> SimTrade(ids.trade - i, orders[i], orders[i].qty,
                                         orders[i].ts + Draw(u, 2 * i + 1, 1, 2), Synthetic)],
              [order |-> n, trade |-> n])

-----------------------------------------------------------------------------
\* generate_front_running_scenario
FrontRunningScenario(u, ids, label, instrument, client, related, anchor, severity) ==
  LET side == SideDraw(u, 1)
      towards == IF side = "buy" THEN 1 ELSE -1
      tick == TickSize[instrument]
      qty == Draw(u, 3, 1, 5)
      reaction == Draw(u, 4, 1, 7)
      fill == Draw(u, 5, 1, 5)
      lead == Larger(reaction + fill + 1, Lerp(1000, 15, severity) + Draw(u, 6, 0, 25))
      clientPrice == towards * Draw(u, 7, 1, 3) * tick
      large == SimOrder(ids.order + 1, client, instrument, side, clientPrice,
                        Draw(u, 2, 10, 40), anchor, label)
      small == SimOrder(ids.order + 2, related, instrument, side, 0, qty, anchor + reaction, label)
      reversal == SimOrder(ids.order + 3, related, instrument, Other(side),
                           clientPrice + towards * tick * Draw(u, 8, 1, 2), qty,
                           anchor + lead + Draw(u, 9, 3, 25), label)
      trades == <<SimTrade(ids.trade - 1, small, qty, small.ts + fill, Synthetic),
                  SimTrade(ids.trade - 2, large, large.qty, anchor + lead, Synthetic)>>
  IN IF severity >= 50
     THEN Scenario(<<large, small, reversal>>,
                   Append(trades, SimTrade(ids.trade - 3, reversal, qty,
                                           reversal.ts + Draw(u, 10, 1, 5), Synthetic)),
                   [order |-> 3, trade |-> 3])
     ELSE Scenario(<<large, small>>, trades, [order |-> 2, trade |-> 2])

-----------------------------------------------------------------------------
\* generate_baseline_flow, one order: its fate is decided when it is placed.
PartialQty(qty) == Larger(1, qty \div 2)

BaselineFates == {"filled", "partial", "cancelled", "open"}

BaselineScenario(ids, label, instrument, account, side, price, qty, ts, fate, delay, counterparty) ==
  LET order == SimOrder(ids.order + 1, account, instrument, side, price, qty, ts, label)
      Fill(n) == Scenario(<<order>>, <<SimTrade(ids.trade - 1, order, n, ts + delay, counterparty)>>,
                          [order |-> 1, trade |-> 1])
      Orders(s) == Scenario(s, <<>>, [order |-> 1, trade |-> 0])
  IN CASE fate = "filled" -> Fill(qty)
       [] fate = "partial" -> Fill(PartialQty(qty))
       [] fate = "cancelled" -> Orders(<<order, CancelOf(order, ts + delay)>>)
       [] fate = "open" -> Orders(<<order>>)
=============================================================================
