------------------------ MODULE RingBufferInvariant ------------------------
(***************************************************************************)
(* Why SpscRingBuffer is correct: the relation its sequence numbers keep    *)
(* between head_, tail_ and the cells, strong enough to be inductive.  The   *)
(* comment above the capacity check of the constructor and the one inside    *)
(* push() argue for it in prose; RingBufferProofs proves it.                *)
(***************************************************************************)
EXTENDS RingBuffer

\* Every push() publishes one position: the calls made are the positions
\* advanced over, and one more while a call is in progress.
CallsMatchTail == calls = IF pc[Producer] = "idle" THEN tail ELSE tail + 1

\* The queue lies between head and Published and fits into the cells.
QueueFits == head <= Published /\ Published <= head + Capacity

\* A claimed position is behind head, its cell still carries the published
\* number, and the producer has not come round to it.
ClaimsBehindHead ==
  \A t \in Threads : Owns(t) =>
    /\ pos[t] < head /\ Published <= pos[t] + Capacity
    /\ sequence[Cell(pos[t])] = pos[t] + 1

\* The two threads never own the same position.
ClaimsApart == Owns(Producer) /\ Owns(Consumer) => pos[Producer] # pos[Consumer]

\* A queued position's cell says "published".
QueuedCells ==
  \A i \in head .. Published - 1 : sequence[Cell(i)] = i + 1

\* A position not yet published finds its cell marked as vacated for it, unless
\* a claimant has still to free that cell.
VacatedCells ==
  \A i \in Published .. head + Capacity - 1 :
    (\A t \in Threads : Owns(t) => pos[t] + Capacity # i) => sequence[Cell(i)] = i

\* Past its check, push() has a cell that is neither queued nor being read.
RoomToWrite ==
  pc[Producer] \in {"write", "publish"} =>
    /\ tail < head + Capacity
    /\ Owns(Consumer) => pos[Consumer] + Capacity # tail

\* A loaded position may be stale but is never ahead; if it is current at the
\* compare-exchange, there is an element to take.
LoadedPositions ==
  \A t \in Threads :
    /\ pc[t] \in {"cell", "cas"} => pos[t] <= head
    /\ pc[t] = "cas" /\ pos[t] = head => head < Published

\* The cell of a position that was published has moved past it.
SequencesAhead == \A i \in 0 .. Published - 1 : sequence[Cell(i)] > i

\* The sequence numbers keep the two threads apart (the invariant the safety
\* proofs rest on; spsc_ring_buffer.hpp:115-143 and 176-208).
SequenceInvariant ==
  /\ TypeOK
  /\ CallsMatchTail
  /\ QueueFits
  /\ ClaimsBehindHead
  /\ ClaimsApart
  /\ QueuedCells
  /\ VacatedCells
  /\ RoomToWrite
  /\ LoadedPositions
  /\ SequencesAhead

-----------------------------------------------------------------------------
\* The k-th position holds the k-th item from the producer's write on, and
\* until its claimant has moved it out.
ItemsInPlace ==
  /\ \A i \in head .. Published - 1 : data[Cell(i)] = i
  /\ pc[Producer] = "publish" => data[Cell(tail)] = tail
  /\ \A t \in Threads :
       /\ pc[t] = "move" => data[Cell(pos[t])] = pos[t]
       /\ pc[t] = "free" => out[t] = pos[t]
  /\ pc[Producer] = "count" => out[Producer] = pos[Producer]

\* A thread holds the item of its claimed position until it records what became
\* of it.
Taken(t) == pc[t] \in Holding \cup {"count"}

\* What was handed out or thrown away is behind head; the consumer's next item
\* is newer than all it returned; and no item has two fates.
FatesApart ==
  /\ \A i \in DOMAIN delivered : delivered[i] \in Nat /\ delivered[i] < head
  /\ \A j \in DOMAIN discarded : discarded[j] \in Nat /\ discarded[j] < head
  /\ \A i \in DOMAIN delivered, j \in DOMAIN discarded : delivered[i] # discarded[j]
  /\ \A i, j \in DOMAIN delivered : i < j => delivered[i] < delivered[j]
  /\ Taken(Consumer) =>
       /\ \A i \in DOMAIN delivered : delivered[i] < pos[Consumer]
       /\ \A j \in DOMAIN discarded : discarded[j] # pos[Consumer]
  /\ Taken(Producer) =>
       /\ pos[Producer] < head
       /\ \A i \in DOMAIN delivered : delivered[i] # pos[Producer]
       /\ Taken(Consumer) => pos[Producer] # pos[Consumer]

\* Each item is in one place and meets one fate (the invariant the ordering
\* proof rests on).
ItemInvariant == SequenceInvariant /\ ItemsInPlace /\ FatesApart
=============================================================================
