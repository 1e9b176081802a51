----------------------------- MODULE OrderBook -----------------------------
(***************************************************************************)
(* OrderBook (cpp/orderbook/order_book.cpp): the resting orders of one      *)
(* instrument.  Every price level of a side is a std::list in priority      *)
(* order, and order_index_ maps an order id to its side, its price and an   *)
(* iterator into that list.  An iterator is modelled by the identity of the *)
(* list node it points at.                                                  *)
(*                                                                          *)
(* The class is single-threaded: one action per apply().  A throw is the    *)
(* outcome "thrown" of the action, with whatever the code had changed       *)
(* before it.                                                               *)
(***************************************************************************)
EXTENDS Integers, Sequences, FiniteSets, SequencesExt

CONSTANTS Ids,         \* order ids
          Prices,      \* prices a level can have
          Qtys,        \* quantities an event can carry
          Nodes,       \* list nodes; bounds the number of resting orders
          MaxEvents,   \* bound on the calls of apply()
          NoEntry,     \* an id that order_index_ does not hold
          FreshIds     \* TRUE: a Replace never names the id of another resting order

ASSUME QtyAssumption == Qtys \subseteq Nat
ASSUME MaxEventsAssumption == MaxEvents \in Nat
ASSUME FreshIdsAssumption == FreshIds \in BOOLEAN

Sides == {"buy", "sell"}
Levels == Sides \X Prices

VARIABLES
  queues,    \* bids_ and asks_: the list of every level, <<>> for a level that is absent
  index,     \* order_index_
  sequence,  \* sequence_
  outcome    \* how the last apply() ended, and which one it was

vars == <<queues, index, sequence, outcome>>

RestingOrder == [node : Nodes, id : Ids, qty : Nat]
IndexEntry == [level : Levels, node : Nodes]
ASSUME NoEntryAssumption == NoEntry \notin IndexEntry

TypeOK ==
  /\ queues \in [Levels -> Seq(RestingOrder)]
  /\ index \in [Ids -> IndexEntry \cup {NoEntry}]
  /\ sequence \in Nat
  /\ outcome \in {"none", "ok", "thrown"}

Init ==
  /\ queues = [l \in Levels |-> <<>>]
  /\ index = [id \in Ids |-> NoEntry]
  /\ sequence = 0
  /\ outcome = "none"

-----------------------------------------------------------------------------
\* The list node an iterator designates.
NodesOf(queue) == {queue[i].node : i \in DOMAIN queue}
Rank(queue, node) == CHOOSE i \in DOMAIN queue : queue[i].node = node
Deref(entry) == queues[entry.level][Rank(queues[entry.level], entry.node)]

Used == UNION {NodesOf(queues[l]) : l \in Levels}
FreshNode == CHOOSE n \in Nodes : n \notin Used

Indexed(id) == index[id] # NoEntry

\* remove_resting: erase the node from its level and the id from the index.
Without(entry) ==
  [queues EXCEPT ![entry.level] = RemoveAt(@, Rank(@, entry.node))]
Unfiled(id) == [index EXCEPT ![id] = NoEntry]

Throw == outcome' = "thrown"
Reject == Throw /\ UNCHANGED <<queues, index>>

PushBack(qs, level, order) == [qs EXCEPT ![level] = Append(@, order)]

\* Fault: the order is queued before its id is looked up.
InsertThenCheck(qs, idx, id, level, qty) ==
  /\ queues' = PushBack(qs, level, [node |-> FreshNode, id |-> id, qty |-> qty])
  /\ index' = [idx EXCEPT ![id] = IF @ = NoEntry THEN [level |-> level, node |-> FreshNode] ELSE @]
  /\ outcome' = IF idx[id] = NoEntry THEN "ok" ELSE "thrown"

\* insert_new, on the queues and the index as the caller left them.
InsertNew(qs, idx, id, level, qty) ==
  \/ /\ idx[id] # NoEntry
     /\ queues' = qs /\ index' = idx
     /\ Throw
  \/ /\ idx[id] = NoEntry
     /\ queues' = PushBack(qs, level, [node |-> FreshNode, id |-> id, qty |-> qty])
     /\ index' = [idx EXCEPT ![id] = [level |-> level, node |-> FreshNode]]
     /\ outcome' = "ok"

\* What both overloads of apply() do first; the test on the instrument id before
\* it is in MismatchedInstrument.
CountEvent ==
  /\ sequence < MaxEvents
  /\ sequence' = sequence + 1

ApplyNew(id, level, qty) ==
  /\ CountEvent
  /\ Used # Nodes
  /\ InsertNew(queues, index, id, level, qty)

\* A Cancel of an order that is not resting is a silent no-op.
ApplyCancel(orig) ==
  /\ CountEvent
  /\ outcome' = "ok"
  /\ \/ Indexed(orig) /\ queues' = Without(index[orig]) /\ index' = Unfiled(orig)
     \/ ~Indexed(orig) /\ UNCHANGED <<queues, index>>

\* Fault: only a change of price loses priority.
LosesPriorityByPrice(orig, level, qty) == level[2] # index[orig].level[2]

LosesPriority(orig, level, qty) ==
  level[2] # index[orig].level[2] \/ qty > Deref(index[orig]).qty

\* A priority-retaining amend: same node, new id and quantity; the side of the
\* message is ignored.
Amended(entry, id, qty) ==
  [queues EXCEPT ![entry.level][Rank(queues[entry.level], entry.node)] =
     [@ EXCEPT !.id = id, !.qty = qty]]

\* Fault: the old id stays in the index.
FiledTwice(orig, id) == [index EXCEPT ![id] = index[orig]]

\* The entry moves to the new id, over the entry that id may have had.
Refiled(orig, id) == [Unfiled(orig) EXCEPT ![id] = index[orig]]

\* A priority-losing amend leaves its level and is inserted as if it were new,
\* on the side of the message: insert_new throws if the new id is taken by then.
ApplyReplace(id, orig, level, qty) ==
  /\ CountEvent
  /\ Used # Nodes
  /\ FreshIds => id = orig \/ ~Indexed(id)
  /\ \/ /\ Indexed(orig) /\ LosesPriority(orig, level, qty)
        /\ InsertNew(Without(index[orig]), Unfiled(orig), id, level, qty)
     \/ /\ Indexed(orig) /\ ~LosesPriority(orig, level, qty)
        /\ queues' = Amended(index[orig], id, qty)
        /\ index' = Refiled(orig, id)
        /\ outcome' = "ok"
     \/ ~Indexed(orig) /\ Reject

Overfills(id, qty) == qty > Deref(index[id]).qty

ApplyExecution(id, qty) ==
  /\ CountEvent
  /\ \/ (Indexed(id) => Overfills(id, qty)) /\ Reject
     \/ /\ Indexed(id) /\ ~Overfills(id, qty)
        /\ outcome' = "ok"
        /\ LET entry == index[id]
               left == Deref(entry).qty - qty
           IN \/ left = 0 /\ queues' = Without(entry) /\ index' = Unfiled(id)
              \/ left # 0 /\ queues' = Amended(entry, id, left) /\ UNCHANGED index

\* apply() of an event of another instrument throws before it counts the event.
MismatchedInstrument ==
  /\ Throw
  /\ UNCHANGED <<queues, index, sequence>>

Next ==
  \/ \E id \in Ids, level \in Levels, qty \in Qtys : ApplyNew(id, level, qty)
  \/ \E orig \in Ids : ApplyCancel(orig)
  \/ \E id, orig \in Ids, level \in Levels, qty \in Qtys : ApplyReplace(id, orig, level, qty)
  \/ \E id \in Ids, qty \in Qtys : ApplyExecution(id, qty)
  \/ MismatchedInstrument

Spec == Init /\ [][Next]_vars

-----------------------------------------------------------------------------
\* Properties

\* The index and the queues describe the same orders: every entry designates a
\* node of the level it names, under the id it is filed under, and every resting
\* order is filed.  Otherwise an order could neither be cancelled, nor filled,
\* nor amended any more, or an iterator would dangle.
IndexMatchesQueues ==
  /\ TypeOK
  /\ \A id \in Ids : Indexed(id) =>
       \E i \in DOMAIN queues[index[id].level] :
         /\ queues[index[id].level][i].node = index[id].node
         /\ queues[index[id].level][i].id = id
  /\ \A l \in Levels : \A i \in DOMAIN queues[l] :
       index[queues[l][i].id] = [level |-> l, node |-> queues[l][i].node]

\* An event that apply() rejects changes no resting order: LivePipeline::process
\* counts it as skipped and carries on with the same book.
RejectedEventChangesNothing ==
  [][outcome' = "thrown" => UNCHANGED <<queues, index>>]_vars

\* The snapshot of the book: per level the orders by priority.
Snapshot == [l \in Levels |-> [i \in DOMAIN queues[l] |->
               [id |-> queues[l][i].id, qty |-> queues[l][i].qty]]]

Rules == INSTANCE PriceTimeBook WITH book <- Snapshot

\* Every apply() is an event of the price-time book or leaves the snapshot as it is.
ImplementsPriceTimeBook == Rules!Spec
=============================================================================
