----------------------------- MODULE RingBuffer -----------------------------
(***************************************************************************)
(* SpscRingBuffer (cpp/ingestion/spsc_ring_buffer.hpp): one producer thread *)
(* calling push(), one consumer thread calling pop(), a sequence number per *)
(* cell, and a claim protocol on head_ that both threads run: pop() always, *)
(* push() when its target cell is not free.                                *)
(*                                                                         *)
(* Every load, store and compare-exchange of a shared atomic is a step of  *)
(* its own, so is every access to a cell's data; the steps of the two      *)
(* threads interleave freely.  Positions are unbounded naturals (size_t    *)
(* would wrap after 2^64 pushes).  The k-th item pushed is the number k.   *)
(***************************************************************************)
EXTENDS Naturals, Sequences

CONSTANTS Capacity,  \* number of cells
          MaxPush,   \* bound on the calls of push()
          NoItem     \* content of a cell nothing was moved into

\* The constructor rejects a capacity below 2 (and one that is not a power of
\* two, which only makes `pos & mask_` equal `pos % capacity_`).
ASSUME CapacityAssumption == Capacity \in Nat /\ Capacity >= 2
ASSUME MaxPushAssumption == MaxPush \in Nat
ASSUME NoItemAssumption == NoItem \notin Nat

Producer == "producer"
Consumer == "consumer"
Threads == {Producer, Consumer}

VARIABLES
  sequence,   \* Cell::sequence of every cell
  data,       \* Cell::data of every cell
  head,       \* head_
  tail,       \* tail_
  dropped,    \* dropped_
  pc,         \* the step each thread takes next; "idle" outside a call
  pos,        \* local `pos` of each thread's try_claim_front()
  out,        \* local `out` / `discarded` of each thread's claim
  calls,      \* number of push() calls made so far
  delivered,  \* history: what pop() returned, in order
  discarded   \* history: what push() threw away, in order

vars == <<sequence, data, head, tail, dropped, pc, pos, out, calls,
          delivered, discarded>>

Cells == 0 .. Capacity - 1
Cell(position) == position % Capacity

\* The states of try_claim_front() before and after it owns the front element.
Claiming == {"head", "cell", "cas"}
Holding == {"move", "free"}

TypeOK ==
  /\ sequence \in [Cells -> Nat]
  /\ data \in [Cells -> Nat \cup {NoItem}]
  /\ head \in Nat /\ tail \in Nat /\ dropped \in Nat
  /\ pc \in [Threads -> {"idle", "check", "count", "write", "publish", "tail"}
                          \cup Claiming \cup Holding]
  /\ pc[Consumer] \in {"idle"} \cup Claiming \cup Holding
  /\ pos \in [Threads -> Nat]
  /\ out \in [Threads -> Nat \cup {NoItem}]
  /\ calls \in Nat
  /\ delivered \in Seq(Nat \cup {NoItem})
  /\ discarded \in Seq(Nat \cup {NoItem})

Init ==
  /\ sequence = [c \in Cells |-> c]
  /\ data = [c \in Cells |-> NoItem]
  /\ head = 0 /\ tail = 0 /\ dropped = 0
  /\ pc = [t \in Threads |-> "idle"]
  /\ pos = [t \in Threads |-> 0]
  /\ out = [t \in Threads |-> NoItem]
  /\ calls = 0
  /\ delivered = <<>> /\ discarded = <<>>

Goto(t, step) == pc' = [pc EXCEPT ![t] = step]

-----------------------------------------------------------------------------
\* push()

\* Entry: read tail_ (only the producer writes it, so tail stands for `pos`).
PushCall ==
  /\ pc[Producer] = "idle" /\ calls < MaxPush
  /\ calls' = calls + 1
  /\ Goto(Producer, "check")
  /\ UNCHANGED <<sequence, data, head, tail, dropped, pos, out, delivered, discarded>>

\* Fault: the earlier design's test on head_ and tail_, which lets push() write
\* into a cell the consumer has claimed and not read yet.
RoomByIndices == tail < head + Capacity

\* The target cell was vacated for exactly this position.
Vacated == sequence[Cell(tail)] = tail

FindVacated ==
  /\ pc[Producer] = "check" /\ Vacated
  /\ Goto(Producer, "write")
  /\ UNCHANGED <<sequence, data, head, tail, dropped, pos, out, calls,
                 delivered, discarded>>

\* Not vacated: try to reclaim the front element.
FindOccupied ==
  /\ pc[Producer] = "check" /\ ~Vacated
  /\ Goto(Producer, "head")
  /\ UNCHANGED <<sequence, data, head, tail, dropped, pos, out, calls,
                 delivered, discarded>>

\* Fault: an element discarded while the consumer holds another one is not counted.
CountedUnlessHolding == IF pc[Consumer] \in Holding THEN dropped ELSE dropped + 1

CountedDrops == dropped + 1

CountDrop ==
  /\ pc[Producer] = "count"
  /\ dropped' = CountedDrops
  /\ discarded' = Append(discarded, out[Producer])
  /\ Goto(Producer, "check")
  /\ UNCHANGED <<sequence, data, head, tail, pos, out, calls, delivered>>

WriteData ==
  /\ pc[Producer] = "write"
  /\ data' = [data EXCEPT ![Cell(tail)] = calls - 1]
  /\ Goto(Producer, "publish")
  /\ UNCHANGED <<sequence, head, tail, dropped, pos, out, calls,
                 delivered, discarded>>

PublishedSequence == tail + 1

Publish ==
  /\ pc[Producer] = "publish"
  /\ sequence' = [sequence EXCEPT ![Cell(tail)] = PublishedSequence]
  /\ Goto(Producer, "tail")
  /\ UNCHANGED <<data, head, tail, dropped, pos, out, calls,
                 delivered, discarded>>

AdvanceTail ==
  /\ pc[Producer] = "tail"
  /\ tail' = tail + 1
  /\ Goto(Producer, "idle")
  /\ UNCHANGED <<sequence, data, head, dropped, pos, out, calls,
                 delivered, discarded>>

-----------------------------------------------------------------------------
\* pop() and the claim protocol, try_claim_front()

PopCall ==
  /\ pc[Consumer] = "idle"
  /\ Goto(Consumer, "head")
  /\ UNCHANGED <<sequence, data, head, tail, dropped, pos, out, calls,
                 delivered, discarded>>

\* The first load of head_, and the reload after a stale position.
LoadHead(t) ==
  /\ pc[t] = "head"
  /\ pos' = [pos EXCEPT ![t] = head]
  /\ Goto(t, "cell")
  /\ UNCHANGED <<sequence, data, head, tail, dropped, out, calls,
                 delivered, discarded>>

\* Faults: a return into the wrong caller; a stale position taken for an empty
\* buffer; a stale position kept.
ReturnToPush(t, seq) ==
  IF seq = pos[t] + 1 THEN "cas" ELSE IF seq = pos[t] THEN "check" ELSE "head"
StaleMeansEmpty(t, seq) ==
  IF seq = pos[t] + 1 THEN "cas" ELSE IF t = Producer THEN "check" ELSE "idle"
KeepStalePosition(t, seq) ==
  IF seq = pos[t] + 1 THEN "cas"
  ELSE IF seq = pos[t] THEN (IF t = Producer THEN "check" ELSE "idle")
  ELSE "cell"

\* Where the function goes once it has read the cell's sequence number: to the
\* compare-exchange, out with `false`, or back to reload head_.
AfterLoad(t, seq) ==
  IF seq = pos[t] + 1 THEN "cas"
  ELSE IF seq = pos[t] THEN (IF t = Producer THEN "check" ELSE "idle")
  ELSE "head"

LoadSequence(t) ==
  /\ pc[t] = "cell"
  /\ Goto(t, AfterLoad(t, sequence[Cell(pos[t])]))
  /\ UNCHANGED <<sequence, data, head, tail, dropped, pos, out, calls,
                 delivered, discarded>>

\* Fault: head_ stored without comparing it.
ClaimsBlindly(t) == TRUE

HeadUnmoved(t) == head = pos[t]

WinClaim(t) ==
  /\ pc[t] = "cas" /\ HeadUnmoved(t)
  /\ head' = pos[t] + 1
  /\ Goto(t, "move")
  /\ UNCHANGED <<sequence, data, tail, dropped, pos, out, calls,
                 delivered, discarded>>

\* compare_exchange_weak fails because head_ moved, or spuriously; either way
\* it refreshes pos and the cell of the new position is examined.
LoseClaim(t) ==
  /\ pc[t] = "cas"
  /\ pos' = [pos EXCEPT ![t] = head]
  /\ Goto(t, "cell")
  /\ UNCHANGED <<sequence, data, head, tail, dropped, out, calls,
                 delivered, discarded>>

MoveOut(t) ==
  /\ pc[t] = "move"
  /\ out' = [out EXCEPT ![t] = data[Cell(pos[t])]]
  /\ data' = [data EXCEPT ![Cell(pos[t])] = NoItem]
  /\ Goto(t, "free")
  /\ UNCHANGED <<sequence, head, tail, dropped, pos, calls,
                 delivered, discarded>>

FreedSequence(t) == pos[t] + Capacity

\* Free the cell for the next wraparound and return true.
FreeCell(t) ==
  /\ pc[t] = "free"
  /\ sequence' = [sequence EXCEPT ![Cell(pos[t])] = FreedSequence(t)]
  /\ Goto(t, IF t = Producer THEN "count" ELSE "idle")
  /\ delivered' = IF t = Consumer THEN Append(delivered, out[t]) ELSE delivered
  /\ UNCHANGED <<data, head, tail, dropped, pos, out, calls, discarded>>

-----------------------------------------------------------------------------
ClaimStep(t) ==
  LoadHead(t) \/ LoadSequence(t) \/ WinClaim(t) \/ LoseClaim(t) \/ MoveOut(t) \/ FreeCell(t)

PushStep ==
  FindVacated \/ FindOccupied \/ CountDrop \/ WriteData \/ Publish \/ AdvanceTail

Next == PushCall \/ PushStep \/ PopCall \/ \E t \in Threads : ClaimStep(t)

\* A thread that is inside a call and is scheduled keeps going, and a
\* compare-exchange that keeps finding head_ unchanged does not fail spuriously
\* for ever.
ProducerFairness ==
  WF_vars(PushStep \/ ClaimStep(Producer)) /\ SF_vars(WinClaim(Producer))
ConsumerFairness ==
  WF_vars(PopCall \/ ClaimStep(Consumer)) /\ SF_vars(WinClaim(Consumer))

Spec == Init /\ [][Next]_vars
FairSpec == Spec /\ ProducerFairness /\ ConsumerFairness

-----------------------------------------------------------------------------
\* Properties

\* Positions published so far: push() makes an element visible to the claim
\* protocol one step before it advances tail_.
Published == IF pc[Producer] = "tail" THEN tail + 1 ELSE tail

\* The position a thread owns: it won the compare-exchange and has not freed
\* the cell.
Owns(t) == pc[t] \in Holding

\* No cell's data is reachable by two threads at once: neither the producer's
\* write against a claimant's move, nor two moves (the race ThreadSanitizer
\* found in the earlier design).
SlotExclusive ==
  /\ pc[Producer] = "write" /\ pc[Consumer] = "move" => Cell(tail) # Cell(pos[Consumer])
  /\ pc[Producer] = "move" /\ pc[Consumer] = "move" => Cell(pos[Producer]) # Cell(pos[Consumer])

\* Items that have left the buffer, or are in the hands of the thread that
\* claimed them.
InHand(t) == IF Owns(t) THEN 1 ELSE 0
Uncounted == IF pc[Producer] = "count" THEN 1 ELSE 0

Balanced == Len(delivered) + InHand(Consumer) + dropped + InHand(Producer) + Uncounted = head

\* processed + dropped == pushed, at every instant: what was handed out, what
\* was counted as dropped, what is in flight and what is still buffered add up
\* to what was published.
Accounting ==
  /\ Balanced
  /\ head <= Published /\ Published <= head + Capacity

\* pop() returns items in the order they were pushed, each at most once and
\* never a cell that holds nothing; and no discarded item comes back.
DeliveredInOrder ==
  /\ \A i \in 1 .. Len(delivered) : delivered[i] \in Nat
  /\ \A i, j \in 1 .. Len(delivered) : i < j => delivered[i] < delivered[j]
  /\ \A i \in 1 .. Len(delivered), j \in 1 .. Len(discarded) : delivered[i] # discarded[j]

\* pop() says "empty" only at an instant at which nothing published is unclaimed:
\* a consumer that stops after an empty pop leaves nothing behind.
EmptyPopMeansEmpty ==
  [][pc[Consumer] = "cell" /\ pc'[Consumer] = "idle" => head = Published]_vars

\* push() returns, provided both threads are scheduled.
PushReturns == (pc[Producer] # "idle") ~> (pc[Producer] = "idle")

-----------------------------------------------------------------------------
\* What the buffer promises, as an abstract queue.  The elements between head
\* and Published are queued; a thread past its compare-exchange has taken one.
Queued == [i \in 1 .. Published - head |-> data[Cell(head + i - 1)]]

Held == IF Owns(Consumer) THEN <<pos[Consumer]>> ELSE <<>>
Pressed == pc[Producer] \in Claiming
ThrownAway == IF pc[Producer] \in Holding \cup {"count"}
              THEN Append(discarded, pos[Producer]) ELSE discarded

Abstract == INSTANCE DropOldestQueue WITH
  queue <- Queued, pushed <- Published, held <- Held, pressed <- Pressed,
  delivered <- delivered, discarded <- ThrownAway

\* Every step of the two threads is a step of the drop-oldest queue or changes
\* nothing it can see.
ImplementsDropOldestQueue == Abstract!Spec
=============================================================================
