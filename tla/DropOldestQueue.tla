-------------------------- MODULE DropOldestQueue --------------------------
(***************************************************************************)
(* What SpscRingBuffer promises its two users (the contract stated at the  *)
(* top of cpp/ingestion/spsc_ring_buffer.hpp and in                        *)
(* cpp/ingestion/README.md): a FIFO queue of the items pushed, in which a  *)
(* push that finds its slot occupied discards from the front.              *)
(*                                                                         *)
(* The slot of an item is the one of the item pushed Capacity earlier, so  *)
(* the queue is full for a push as long as that item is queued or is still *)
(* being handed to the consumer.                                           *)
(***************************************************************************)
EXTENDS Naturals, Sequences

CONSTANT Capacity

VARIABLES
  queue,      \* items pushed and not claimed, oldest first
  pushed,     \* number of items pushed; the next item's number
  held,       \* the item the consumer is taking out, as a sequence of length <= 1
  pressed,    \* a push in progress found its slot occupied
  delivered,  \* items handed to the consumer, in order
  discarded   \* items thrown away, in order

vars == <<queue, pushed, held, pressed, delivered, discarded>>

Init ==
  /\ queue = <<>> /\ pushed = 0 /\ held = <<>> /\ pressed = FALSE
  /\ delivered = <<>> /\ discarded = <<>>

Items(s) == {s[i] : i \in 1 .. Len(s)}

\* The item that used the slot the next push needs has not left.
SlotOccupied == \E item \in Items(queue \o held) : item + Capacity = pushed

Push ==
  /\ ~SlotOccupied
  /\ queue' = Append(queue, pushed)
  /\ pushed' = pushed + 1
  /\ UNCHANGED <<held, pressed, delivered, discarded>>

FindFull ==
  /\ SlotOccupied
  /\ pressed' = TRUE
  /\ UNCHANGED <<queue, pushed, held, delivered, discarded>>

\* The push looks again without having discarded anything.
Relent ==
  /\ pressed' = FALSE
  /\ UNCHANGED <<queue, pushed, held, delivered, discarded>>

Discard ==
  /\ pressed /\ queue # <<>>
  /\ queue' = Tail(queue)
  /\ discarded' = Append(discarded, Head(queue))
  /\ pressed' = FALSE
  /\ UNCHANGED <<pushed, held, delivered>>

Claim ==
  /\ queue # <<>> /\ held = <<>>
  /\ queue' = Tail(queue)
  /\ held' = <<Head(queue)>>
  /\ UNCHANGED <<pushed, pressed, delivered, discarded>>

Deliver ==
  /\ held # <<>>
  /\ delivered' = delivered \o held
  /\ held' = <<>>
  /\ UNCHANGED <<queue, pushed, pressed, discarded>>

Next == Push \/ FindFull \/ Relent \/ Discard \/ Claim \/ Deliver

Spec == Init /\ [][Next]_vars
=============================================================================
