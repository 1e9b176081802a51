-------------------------- MODULE MessageTranslator --------------------------
(***************************************************************************)
(* Orders and executions as FIX 4.2 messages and back                        *)
(* (cpp/fix/message_translator.cpp).  A message is a record of the tags it   *)
(* carries; what has no tag does not arrive.                                 *)
(***************************************************************************)
EXTENDS Integers

CONSTANTS NoAccount,   \* an event without a counterparty
          Second       \* time units in a second

SideToFix(side) == IF side = "buy" THEN "1" ELSE "2"
SideFromFix(tag) == IF tag = "1" THEN "buy" ELSE "sell"

\* Division rounds towards zero: a negative rest borrows a second.
ToTransactTime(ts) ==
  LET whole == IF ts < 0 THEN -((-ts) \div Second) ELSE ts \div Second
      rest == ts - whole * Second
  IN IF rest < 0 THEN [seconds |-> whole - 1, fraction |-> rest + Second]
                 ELSE [seconds |-> whole, fraction |-> rest]
FromTransactTime(time) == time.seconds * Second + time.fraction

\* The fields every message has.
Common(e) ==
  [Account |-> e.account, Symbol |-> e.instrument, Side |-> SideToFix(e.side),
   TransactTime |-> ToTransactTime(e.ts)]
FromCommon(message, kind, id, orig, price, qty, counterparty, trade) ==
  [kind |-> kind, id |-> id, orig |-> orig, account |-> message.common.Account,
   instrument |-> message.common.Symbol, side |-> SideFromFix(message.common.Side),
   price |-> price, qty |-> qty, counterparty |-> counterparty, trade |-> trade,
   ts |-> FromTransactTime(message.common.TransactTime)]

\* A new order does not say which order it replaces: it replaces none.
ToNewOrderSingle(o) ==
  [type |-> "NewOrderSingle", common |-> Common(o), ClOrdID |-> o.id, Price |-> o.price, OrderQty |-> o.qty]
FromNewOrderSingle(m) == FromCommon(m, "New", m.ClOrdID, 0, m.Price, m.OrderQty, NoAccount, 0)

\* A cancel has no price: it arrives as zero.
ToOrderCancelRequest(o) ==
  [type |-> "OrderCancelRequest", common |-> Common(o), OrigClOrdID |-> o.orig, ClOrdID |-> o.id,
   OrderQty |-> o.qty]
FromOrderCancelRequest(m) ==
  FromCommon(m, "Cancel", m.ClOrdID, m.OrigClOrdID, 0, m.OrderQty, NoAccount, 0)

\* Every report is a complete fill; the counterparty travels as the contra broker.
ToExecutionReport(e) ==
  [type |-> "ExecutionReport", common |-> Common(e), OrderID |-> e.id, ExecID |-> e.trade,
   LastPx |-> e.price, LastShares |-> e.qty, ContraBroker |-> e.counterparty,
   LeavesQty |-> 0, CumQty |-> e.qty]
FromExecutionReport(m) ==
  FromCommon(m, "Execution", m.OrderID, m.OrderID, m.LastPx, m.LastShares, m.ContraBroker, m.ExecID)

\* to_fix_messages, and crack() to the handler of a type.
ToFix(event) ==
  CASE event.kind = "New" -> ToNewOrderSingle(event)
    [] event.kind = "Cancel" -> ToOrderCancelRequest(event)
    [] event.kind = "Execution" -> ToExecutionReport(event)

FromFix(message) ==
  CASE message.type = "NewOrderSingle" -> FromNewOrderSingle(message)
    [] message.type = "OrderCancelRequest" -> FromOrderCancelRequest(message)
    [] message.type = "ExecutionReport" -> FromExecutionReport(message)
=============================================================================
