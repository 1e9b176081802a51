-------------------------- MODULE RingBufferProofs --------------------------
(***************************************************************************)
(* Proofs about RingBuffer, for every capacity of at least two cells and    *)
(* any number of pushes.                                                    *)
(***************************************************************************)
EXTENDS RingBufferInvariant, Integers, SequenceTheorems, TLAPS

-----------------------------------------------------------------------------
\* The cell of a position.

\* A remainder lies between 0 and the divisor and leaves a multiple of it.
LEMMA Remainder ==
  ASSUME NEW i \in Nat
  PROVE  /\ i \div Capacity \in Int
         /\ Cell(i) \in Int /\ 0 <= Cell(i) /\ Cell(i) < Capacity
         /\ i = Capacity * (i \div Capacity) + Cell(i)
  BY CapacityAssumption DEF Cell

\* Distinct multiples of the capacity are at least the capacity apart.
LEMMA Multiples ==
  ASSUME NEW a \in Int, NEW b \in Int, a < b
  PROVE  /\ Capacity * a \in Int /\ Capacity * b \in Int
         /\ Capacity * b >= Capacity * a + Capacity
  BY CapacityAssumption

\* pos & mask_ is an index into cells_.
LEMMA CellInCells == \A i \in Nat : Cell(i) \in Cells
  BY CapacityAssumption, Remainder DEF Cells

\* Positions less than Capacity apart use different cells.
LEMMA CellsDiffer ==
  ASSUME NEW i \in Nat, NEW j \in Nat, i < j, j < i + Capacity
  PROVE  Cell(i) # Cell(j)
<1> DEFINE p == i \div Capacity
           q == j \div Capacity
<1>1. SUFFICES ASSUME Cell(i) = Cell(j) PROVE FALSE
  OBVIOUS
<1>2. /\ p \in Int /\ i = Capacity * p + Cell(i)
      /\ q \in Int /\ j = Capacity * q + Cell(j)
      /\ Cell(i) \in Int
  BY Remainder
<1> HIDE DEF p, q
<1>3. CASE p = q
  BY <1>1, <1>2, <1>3
<1>4. CASE p < q
  <2>1. Capacity * p \in Int /\ Capacity * q \in Int /\ Capacity * q >= Capacity * p + Capacity
    BY <1>2, <1>4, Multiples
  <2> QED
    BY <1>1, <1>2, <2>1, CapacityAssumption
<1>5. CASE q < p
  <2>1. Capacity * p \in Int /\ Capacity * q \in Int /\ Capacity * p >= Capacity * q + Capacity
    BY <1>2, <1>5, Multiples
  <2> QED
    BY <1>1, <1>2, <2>1, CapacityAssumption
<1> QED
  BY <1>2, <1>3, <1>4, <1>5

\* A wraparound comes back to the same cell.
LEMMA CellWraps ==
  ASSUME NEW i \in Nat
  PROVE  Cell(i + Capacity) = Cell(i)
<1> DEFINE p == i \div Capacity
           q == (i + Capacity) \div Capacity
           k == p + 1
           r == Cell(i)
           s == Cell(i + Capacity)
<1>1. i + Capacity \in Nat
  BY CapacityAssumption
<1>2. /\ p \in Int /\ i = Capacity * p + r
      /\ q \in Int /\ i + Capacity = Capacity * q + s
      /\ r \in Int /\ 0 <= r /\ r < Capacity
      /\ s \in Int /\ 0 <= s /\ s < Capacity
  BY <1>1, Remainder
<1>3. k \in Int /\ Capacity * k = Capacity * p + Capacity
  BY <1>2, CapacityAssumption
<1> HIDE DEF p, q, k, r, s
<1>4. i + Capacity = Capacity * k + r /\ Capacity * p \in Int
  BY <1>2, <1>3, CapacityAssumption
<1>5. CASE q = k
  <2>1. Capacity * q \in Int
    BY <1>2, CapacityAssumption
  <2>2. s = r
    BY <1>2, <1>4, <1>5, <2>1
  <2> QED
    BY <2>2 DEF r, s
<1>6. CASE q < k
  <2>1. Capacity * q \in Int /\ Capacity * k \in Int /\ Capacity * k >= Capacity * q + Capacity
    BY <1>2, <1>3, <1>6, Multiples
  <2> QED
    BY <1>2, <1>4, <2>1, CapacityAssumption
<1>7. CASE k < q
  <2>1. Capacity * q \in Int /\ Capacity * k \in Int /\ Capacity * q >= Capacity * k + Capacity
    BY <1>2, <1>3, <1>7, Multiples
  <2> QED
    BY <1>2, <1>4, <2>1, CapacityAssumption
<1> QED
  BY <1>2, <1>3, <1>5, <1>6, <1>7

-----------------------------------------------------------------------------
\* The constructor's values have their types.
LEMMA TypeInit == Init => TypeOK
  BY NoItemAssumption
  DEF Init, TypeOK, Cells, Threads, Producer, Consumer, Claiming, Holding

\* Every step keeps the count of the calls in step with tail_.
LEMMA CallsStep ==
  ASSUME TypeOK, CallsMatchTail, [Next]_vars
  PROVE  CallsMatchTail'
<1> USE DEF TypeOK, CallsMatchTail, Goto, Threads, Producer, Consumer, Claiming, Holding
<1>1. CASE PushCall
  BY <1>1 DEF PushCall
<1>2. CASE PushStep
  BY <1>2 DEF PushStep, FindVacated, FindOccupied, CountDrop, WriteData, Publish, AdvanceTail
<1>3. CASE PopCall
  BY <1>3 DEF PopCall
<1>4. ASSUME NEW t \in Threads, ClaimStep(t)
      PROVE  CallsMatchTail'
  BY <1>4 DEF ClaimStep, LoadHead, LoadSequence, AfterLoad, WinClaim, LoseClaim, MoveOut, FreeCell
<1>5. CASE UNCHANGED vars
  BY <1>5 DEF vars
<1> QED
  BY <1>1, <1>2, <1>3, <1>4, <1>5 DEF Next

\* Every step keeps the types.
LEMMA TypeStep ==
  ASSUME TypeOK, CallsMatchTail, [Next]_vars
  PROVE  TypeOK'
<1> USE DEF TypeOK, Goto, Threads, Producer, Consumer, Claiming, Holding
<1> DEFINE Items == Nat \cup {NoItem}
<1>1. CASE PushCall
  BY <1>1 DEF PushCall
<1>2. CASE FindVacated
  BY <1>2 DEF FindVacated
<1>3. CASE FindOccupied
  BY <1>3 DEF FindOccupied
<1>4. CASE CountDrop
  <2>1. discarded' \in Seq(Items)
    <3>1. discarded' = Append(discarded, out[Producer]) /\ out[Producer] \in Items
      BY <1>4 DEF CountDrop
    <3> QED
      BY <3>1
  <2> QED
    BY <1>4, <2>1 DEF CountDrop, CountedDrops
<1>5. CASE WriteData
  <2>1. calls - 1 \in Items /\ Cell(tail) \in Cells
    BY <1>5, CellInCells DEF WriteData, CallsMatchTail
  <2> QED
    BY <1>5, <2>1 DEF WriteData
<1>6. CASE Publish
  <2>1. tail + 1 \in Nat /\ Cell(tail) \in Cells
    BY CellInCells
  <2> QED
    BY <1>6, <2>1 DEF Publish, PublishedSequence
<1>7. CASE AdvanceTail
  BY <1>7 DEF AdvanceTail
<1>8. CASE PopCall
  BY <1>8 DEF PopCall
<1>9. ASSUME NEW t \in Threads, ClaimStep(t)
      PROVE  TypeOK'
  <2>0. Cell(pos[t]) \in Cells /\ data[Cell(pos[t])] \in Items
    BY CellInCells
  <2>1. CASE LoadHead(t)
    BY <2>1 DEF LoadHead
  <2>2. CASE LoadSequence(t)
    BY <2>2 DEF LoadSequence, AfterLoad
  <2>3. CASE WinClaim(t)
    BY <2>3 DEF WinClaim
  <2>4. CASE LoseClaim(t)
    BY <2>4 DEF LoseClaim
  <2>5. CASE MoveOut(t)
    BY <2>0, <2>5 DEF MoveOut
  <2>6. CASE FreeCell(t)
    <3>1. out[t] \in Items
      OBVIOUS
    <3>2. delivered' \in Seq(Items)
      BY <2>6, <3>1 DEF FreeCell
    <3>3. sequence' \in [Cells -> Nat]
      BY <2>0, <2>6, CapacityAssumption DEF FreeCell, FreedSequence
    <3> QED
      BY <2>6, <3>2, <3>3 DEF FreeCell
  <2> QED
    BY <1>9, <2>1, <2>2, <2>3, <2>4, <2>5, <2>6 DEF ClaimStep
<1>10. CASE UNCHANGED vars
  BY <1>10 DEF vars
<1> QED
  BY <1>1, <1>2, <1>3, <1>4, <1>5, <1>6, <1>7, <1>8, <1>9, <1>10 DEF Next, PushStep

\* Every variable keeps its type, and each thread only takes the steps of the
\* function it is in, for every capacity of two or more.
THEOREM TypeCorrect == Spec => []TypeOK
<1>1. Init => TypeOK /\ CallsMatchTail
  BY TypeInit DEF Init, CallsMatchTail, Threads, Producer
<1>2. TypeOK /\ CallsMatchTail /\ [Next]_vars => TypeOK' /\ CallsMatchTail'
  BY TypeStep, CallsStep
<1> QED
  BY <1>1, <1>2, PTL DEF Spec
-----------------------------------------------------------------------------
\* The sequence numbers, one lemma per group of actions.

\* What the steps do that leave head_, the sequence numbers and what is
\* published alone, and by which no thread comes to own a position.
Quiet ==
  /\ sequence' = sequence /\ head' = head /\ Published' = Published
  /\ \A t \in Threads : Owns(t)' => Owns(t) /\ pos'[t] = pos[t]

\* A step that changes no sequence number, neither index and no claim keeps the
\* invariant of the sequence numbers.
LEMMA QuietStep ==
  ASSUME SequenceInvariant, Quiet, TypeOK',
         \A t \in Threads : Owns(t) => Owns(t)'
  PROVE  (QueueFits /\ ClaimsBehindHead /\ ClaimsApart /\ QueuedCells /\ VacatedCells)'
<1>1. /\ sequence' = sequence /\ head' = head /\ Published' = Published
      /\ \A t \in Threads : Owns(t)' <=> Owns(t)
      /\ \A t \in Threads : Owns(t)' => pos'[t] = pos[t]
  BY DEF Quiet
<1>2. QueueFits'
  BY <1>1 DEF SequenceInvariant, QueueFits
<1>3. ClaimsBehindHead'
  BY <1>1 DEF SequenceInvariant, ClaimsBehindHead
<1>4. ClaimsApart'
  BY <1>1 DEF SequenceInvariant, ClaimsApart, Threads
<1>5. QueuedCells'
  BY <1>1 DEF SequenceInvariant, QueuedCells
<1>6. VacatedCells'
  BY <1>1 DEF SequenceInvariant, VacatedCells
<1> QED
  BY <1>2, <1>3, <1>4, <1>5, <1>6

QuietSteps ==
  \/ PushCall \/ FindVacated \/ FindOccupied \/ CountDrop \/ WriteData \/ AdvanceTail \/ PopCall
  \/ \E t \in Threads : LoadHead(t) \/ LoadSequence(t) \/ LoseClaim(t) \/ MoveOut(t)

\* All the steps but the three that win, publish or free are of that kind ...
LEMMA QuietKeepsCells ==
  ASSUME SequenceInvariant, TypeOK', QuietSteps
  PROVE  (QueueFits /\ ClaimsBehindHead /\ ClaimsApart /\ QueuedCells /\ VacatedCells)'
<1>1. Quiet /\ \A t \in Threads : Owns(t) => Owns(t)'
  BY ZenonT(60) DEF QuietSteps, SequenceInvariant, Quiet, Owns, Published, PushCall, FindVacated, FindOccupied,
     CountDrop, WriteData, AdvanceTail, PopCall, LoadHead, LoadSequence, AfterLoad, LoseClaim, MoveOut,
     TypeOK, Threads, Producer, Consumer, Claiming, Holding, Goto
<1> QED
  BY <1>1, QuietStep

\* A cell that says "vacated for tail_" is neither queued nor claimed: both
\* would say another number.  This is where a capacity of 1 fails.
LEMMA VacatedMeansRoom ==
  ASSUME SequenceInvariant, pc[Producer] = "check", Vacated
  PROVE  tail < head + Capacity /\ (Owns(Consumer) => pos[Consumer] + Capacity # tail)
<1> USE DEF SequenceInvariant, TypeOK, Threads
<1>1. /\ tail \in Nat /\ head \in Nat /\ Published = tail
      /\ head <= tail /\ tail <= head + Capacity
      /\ sequence[Cell(tail)] = tail
  BY DEF QueueFits, Published, Vacated
<1>2. CASE tail = head + Capacity
  <2>1. sequence[Cell(head)] = head + 1
    BY <1>1, <1>2, CapacityAssumption DEF QueuedCells
  <2>2. Cell(tail) = Cell(head)
    BY <1>1, <1>2, CellWraps
  <2> QED
    BY <1>1, <1>2, <2>1, <2>2, CapacityAssumption
<1>3. ASSUME Owns(Consumer), pos[Consumer] + Capacity = tail
      PROVE  FALSE
  <2>1. pos[Consumer] \in Nat /\ sequence[Cell(pos[Consumer])] = pos[Consumer] + 1
    BY <1>3 DEF ClaimsBehindHead
  <2>2. Cell(tail) = Cell(pos[Consumer])
    BY <1>3, <2>1, CellWraps
  <2> QED
    BY <1>1, <1>3, <2>1, <2>2, CapacityAssumption
<1> QED
  BY <1>1, <1>2, <1>3, CapacityAssumption

\* A thread that read "published" at a position that is still the front finds
\* an element there.
LEMMA PublishedMeansQueued ==
  ASSUME SequenceInvariant, NEW t \in Threads, pc[t] = "cell",
         sequence[Cell(pos[t])] = pos[t] + 1, pos[t] = head
  PROVE  head < Published
<1> USE DEF SequenceInvariant, TypeOK
<1>1. head \in Nat /\ Published \in Nat /\ head <= Published /\ sequence[Cell(head)] = head + 1
  BY DEF QueueFits, Published
<1>2. SUFFICES ASSUME head = Published PROVE FALSE
  BY <1>1
<1>3. \A u \in Threads : Owns(u) => pos[u] + Capacity # head
  <2>1. SUFFICES ASSUME NEW u \in Threads, Owns(u), pos[u] + Capacity = head PROVE FALSE
    OBVIOUS
  <2>2. /\ pos[u] \in Nat /\ pos[u] < head
        /\ sequence[Cell(pos[u])] = pos[u] + 1
    BY <2>1 DEF ClaimsBehindHead
  <2>3. Cell(head) = Cell(pos[u])
    BY <2>1, <2>2, CellWraps
  <2> QED
    BY <1>1, <2>2, <2>3
<1>4. sequence[Cell(head)] = head
  BY <1>1, <1>2, <1>3, CapacityAssumption DEF VacatedCells
<1> QED
  BY <1>1, <1>4

\* Two owned positions, or an owned and a queued one, use different cells ...
LEMMA OwnedCells ==
  ASSUME SequenceInvariant, NEW t \in Threads, Owns(t)
  PROVE  /\ \A i \in head .. Published - 1 : Cell(i) # Cell(pos[t])
         /\ \A u \in Threads : u # t /\ Owns(u) => Cell(pos[u]) # Cell(pos[t])
<1>1. head \in Nat /\ Published \in Nat /\ head <= Published
  BY DEF SequenceInvariant, TypeOK, QueueFits, Published
<1>2. \A u \in Threads : Owns(u) =>
        pos[u] \in Nat /\ pos[u] < head /\ Published <= pos[u] + Capacity
  BY DEF SequenceInvariant, TypeOK, ClaimsBehindHead
<1>3. ASSUME NEW i \in head .. Published - 1
      PROVE  Cell(i) # Cell(pos[t])
  BY <1>1, <1>2, CellsDiffer, CapacityAssumption
<1>4. ASSUME NEW u \in Threads, u # t, Owns(u)
      PROVE  Cell(pos[u]) # Cell(pos[t])
  <2>1. pos[u] # pos[t]
    BY <1>4 DEF SequenceInvariant, ClaimsApart, Threads
  <2>2. CASE pos[u] < pos[t]
    BY <1>1, <1>2, <1>4, <2>2, CellsDiffer, CapacityAssumption
  <2>3. CASE pos[t] < pos[u]
    BY <1>1, <1>2, <1>4, <2>3, CellsDiffer, CapacityAssumption
  <2> QED
    BY <1>2, <1>4, <2>1, <2>2, <2>3
<1> QED
  BY <1>3, <1>4

\* ... and so do the position push() writes and all of those.
LEMMA TargetCell ==
  ASSUME SequenceInvariant, pc[Producer] \in {"write", "publish"}
  PROVE  /\ \A i \in head .. Published - 1 : Cell(i) # Cell(tail)
         /\ Owns(Consumer) => Cell(pos[Consumer]) # Cell(tail)
<1>1. /\ head \in Nat /\ tail \in Nat /\ Published = tail
      /\ head <= tail /\ tail < head + Capacity
      /\ Owns(Consumer) => pos[Consumer] + Capacity # tail
  BY DEF SequenceInvariant, TypeOK, QueueFits, RoomToWrite, Published
<1>2. ASSUME NEW i \in head .. Published - 1
      PROVE  Cell(i) # Cell(tail)
  BY <1>1, CellsDiffer, CapacityAssumption
<1>3. ASSUME Owns(Consumer)
      PROVE  Cell(pos[Consumer]) # Cell(tail)
  <2>1. /\ pos[Consumer] \in Nat /\ pos[Consumer] < head
        /\ tail <= pos[Consumer] + Capacity
    BY <1>1, <1>3 DEF SequenceInvariant, TypeOK, ClaimsBehindHead, Threads
  <2>2. pos[Consumer] < tail /\ tail < pos[Consumer] + Capacity
    BY <1>1, <1>3, <2>1, CapacityAssumption
  <2> QED
    BY <1>1, <2>1, <2>2, CellsDiffer
<1> QED
  BY <1>2, <1>3

\* ... and what they load or check is true of the state they load it from.
LEMMA QuietKeepsLocals ==
  ASSUME SequenceInvariant, TypeOK', QuietSteps
  PROVE  (RoomToWrite /\ LoadedPositions)'
<1> USE DEF SequenceInvariant, TypeOK, Threads, Producer, Consumer, Claiming, Holding, Goto
<1>1. CASE PushCall
  BY <1>1 DEF PushCall, RoomToWrite, LoadedPositions, Owns, Published
<1>2. CASE FindVacated
  <2>1. RoomToWrite'
    BY <1>2, VacatedMeansRoom DEF FindVacated, RoomToWrite, Owns
  <2>2. LoadedPositions'
    BY <1>2 DEF FindVacated, LoadedPositions, Published
  <2> QED
    BY <2>1, <2>2
<1>3. CASE FindOccupied
  BY <1>3 DEF FindOccupied, RoomToWrite, LoadedPositions, Owns, Published
<1>4. CASE CountDrop
  BY <1>4 DEF CountDrop, RoomToWrite, LoadedPositions, Owns, Published
<1>5. CASE WriteData
  BY <1>5 DEF WriteData, RoomToWrite, LoadedPositions, Owns, Published
<1>6. CASE AdvanceTail
  BY <1>6 DEF AdvanceTail, RoomToWrite, LoadedPositions, Owns, Published
<1>7. CASE PopCall
  BY <1>7 DEF PopCall, RoomToWrite, LoadedPositions, Owns, Published
<1>8. ASSUME NEW t \in Threads, LoadHead(t) \/ LoseClaim(t)
      PROVE  (RoomToWrite /\ LoadedPositions)'
  <2>1. /\ head \in Nat /\ head' = head /\ Published' = Published /\ tail' = tail
        /\ pc' = [pc EXCEPT ![t] = "cell"] /\ pos' = [pos EXCEPT ![t] = head]
        /\ pc[t] \in {"head", "cas"}
    BY <1>8 DEF LoadHead, LoseClaim, Published
  <2>2. RoomToWrite'
    BY <2>1 DEF RoomToWrite, Owns
  <2>3. LoadedPositions'
    BY <2>1 DEF LoadedPositions
  <2> QED
    BY <2>2, <2>3
<1>9. ASSUME NEW t \in Threads, LoadSequence(t)
      PROVE  (RoomToWrite /\ LoadedPositions)'
  <2>1. RoomToWrite'
    BY <1>9 DEF LoadSequence, AfterLoad, RoomToWrite, Owns
  <2>2. pc'[t] = "cas" /\ pos[t] = head => head < Published
    BY <1>9, PublishedMeansQueued DEF LoadSequence, AfterLoad
  <2>3. Published' = Published
    BY <1>9 DEF LoadSequence, AfterLoad, Published
  <2>4. LoadedPositions'
    BY <1>9, <2>2, <2>3 DEF LoadSequence, AfterLoad, LoadedPositions
  <2> QED
    BY <2>1, <2>4
<1>10. ASSUME NEW t \in Threads, MoveOut(t)
       PROVE  (RoomToWrite /\ LoadedPositions)'
  BY <1>10 DEF MoveOut, RoomToWrite, LoadedPositions, Owns, Published
<1> QED
  BY <1>1, <1>2, <1>3, <1>4, <1>5, <1>6, <1>7, <1>8, <1>9, <1>10 DEF QuietSteps

\* Winning the compare-exchange takes the front element off the queue.
LEMMA WinKeeps ==
  ASSUME SequenceInvariant, TypeOK', NEW t \in Threads, WinClaim(t)
  PROVE  /\ (QueueFits /\ ClaimsBehindHead /\ ClaimsApart /\ QueuedCells /\ VacatedCells)'
         /\ (RoomToWrite /\ LoadedPositions)'
<1> USE DEF SequenceInvariant, TypeOK, Threads, Producer, Consumer, Claiming, Holding, Goto
<1>1. /\ head \in Nat /\ tail \in Nat /\ Published \in Nat /\ Capacity \in Nat
      /\ pc[t] = "cas" /\ pos[t] = head
      /\ head' = head + 1 /\ tail' = tail /\ Published' = Published
      /\ sequence' = sequence /\ pos' = pos /\ pc' = [pc EXCEPT ![t] = "move"]
  BY CapacityAssumption DEF WinClaim, HeadUnmoved, Published
<1>2. head < Published /\ Published <= head + Capacity
  BY <1>1 DEF LoadedPositions, QueueFits
<1>3. sequence[Cell(head)] = head + 1
  BY <1>1, <1>2 DEF QueuedCells
<1>4. Owns(t)' /\ ~Owns(t) /\ \A u \in Threads : u # t => (Owns(u)' <=> Owns(u))
  BY <1>1 DEF Owns
<1>5. QueueFits'
  BY <1>1, <1>2 DEF QueueFits
<1>6. ClaimsBehindHead'
  <2>1. SUFFICES ASSUME NEW u \in Threads, Owns(u)'
                 PROVE  /\ pos[u] < head + 1 /\ Published <= pos[u] + Capacity
                        /\ sequence[Cell(pos[u])] = pos[u] + 1
    BY <1>1 DEF ClaimsBehindHead
  <2>2. CASE u = t
    BY <1>1, <1>2, <1>3, <2>2
  <2>3. CASE u # t
    <3>1. /\ pos[u] \in Nat /\ pos[u] < head /\ Published <= pos[u] + Capacity
          /\ sequence[Cell(pos[u])] = pos[u] + 1
      BY <1>4, <2>1, <2>3 DEF ClaimsBehindHead
    <3> QED
      BY <1>1, <3>1
  <2> QED
    BY <2>2, <2>3
<1>7. ClaimsApart'
  BY <1>1, <1>4 DEF ClaimsApart, ClaimsBehindHead
<1>8. QueuedCells'
  BY <1>1 DEF QueuedCells
<1>9. VacatedCells'
  <2>1. SUFFICES ASSUME NEW i \in Published .. head + 1 + Capacity - 1,
                        \A u \in Threads : Owns(u)' => pos[u] + Capacity # i
                 PROVE  sequence[Cell(i)] = i
    BY <1>1 DEF VacatedCells
  <2>2. i # head + Capacity
    BY <1>1, <1>4, <2>1
  <2>3. i \in Published .. head + Capacity - 1
    BY <1>1, <2>2
  <2>4. \A u \in Threads : Owns(u) => pos[u] + Capacity # i
    BY <1>4, <2>1
  <2> QED
    BY <2>3, <2>4 DEF VacatedCells
<1>10. RoomToWrite'
  BY <1>1, <1>4 DEF RoomToWrite
<1>11. LoadedPositions'
  BY <1>1 DEF LoadedPositions
<1> QED
  BY <1>5, <1>6, <1>7, <1>8, <1>9, <1>10, <1>11

\* Publishing puts one element at the back of the queue.
LEMMA PublishKeeps ==
  ASSUME SequenceInvariant, TypeOK', Publish
  PROVE  /\ (QueueFits /\ ClaimsBehindHead /\ ClaimsApart /\ QueuedCells /\ VacatedCells)'
         /\ (RoomToWrite /\ LoadedPositions)'
<1> USE DEF SequenceInvariant, TypeOK, Threads, Producer, Consumer, Claiming, Holding, Goto
<1>1. /\ head \in Nat /\ tail \in Nat /\ Capacity \in Nat
      /\ pc[Producer] = "publish" /\ pc' = [pc EXCEPT ![Producer] = "tail"]
      /\ Published = tail /\ Published' = tail + 1
      /\ head' = head /\ tail' = tail /\ pos' = pos
      /\ sequence' = [sequence EXCEPT ![Cell(tail)] = tail + 1]
  BY CapacityAssumption DEF Publish, PublishedSequence, Published
<1>2. /\ head <= tail /\ tail < head + Capacity
      /\ Owns(Consumer) => pos[Consumer] + Capacity # tail
  BY <1>1 DEF QueueFits, RoomToWrite
<1>3. /\ ~Owns(Producer) /\ ~Owns(Producer)'
      /\ Owns(Consumer)' <=> Owns(Consumer)
  BY <1>1 DEF Owns
<1>4. \A i \in Nat : Cell(i) # Cell(tail) => sequence'[Cell(i)] = sequence[Cell(i)]
  BY <1>1, CellInCells
<1>5. sequence'[Cell(tail)] = tail + 1
  BY <1>1, CellInCells
<1>6. QueueFits'
  BY <1>1, <1>2 DEF QueueFits
<1>7. ClaimsBehindHead'
  <2>1. SUFFICES ASSUME Owns(Consumer)
                 PROVE  /\ pos[Consumer] < head /\ tail + 1 <= pos[Consumer] + Capacity
                        /\ sequence'[Cell(pos[Consumer])] = pos[Consumer] + 1
    BY <1>1, <1>3 DEF ClaimsBehindHead
  <2>2. /\ pos[Consumer] \in Nat /\ pos[Consumer] < head /\ Published <= pos[Consumer] + Capacity
        /\ sequence[Cell(pos[Consumer])] = pos[Consumer] + 1
    BY <2>1 DEF ClaimsBehindHead
  <2>3. Cell(pos[Consumer]) # Cell(tail) /\ pos[Consumer] + Capacity # tail
    BY <1>1, <1>2, <2>1, TargetCell
  <2>4. /\ tail \in Nat /\ Capacity \in Nat /\ Published = tail
    BY <1>1
  <2> HIDE DEF SequenceInvariant, TypeOK
  <2> QED
    BY <1>4, <2>2, <2>3, <2>4
<1>8. ClaimsApart'
  BY <1>3 DEF ClaimsApart
<1>9. QueuedCells'
  <2>1. SUFFICES ASSUME NEW i \in head .. tail
                 PROVE  sequence'[Cell(i)] = i + 1
    BY <1>1 DEF QueuedCells
  <2>2. CASE i = tail
    BY <1>5, <2>2
  <2>3. CASE i < tail
    <3>1. sequence[Cell(i)] = i + 1
      BY <1>1, <2>3 DEF QueuedCells
    <3>2. i \in Nat /\ Cell(i) # Cell(tail)
      BY <1>1, <2>3, TargetCell
    <3> QED
      BY <1>4, <3>1, <3>2
  <2> QED
    BY <1>1, <2>2, <2>3
<1>10. VacatedCells'
  <2>1. SUFFICES ASSUME NEW i \in tail + 1 .. head + Capacity - 1,
                        \A u \in Threads : Owns(u)' => pos[u] + Capacity # i
                 PROVE  sequence'[Cell(i)] = i
    BY <1>1 DEF VacatedCells
  <2>2. i \in Published .. head + Capacity - 1
    BY <1>1
  <2>3. \A u \in Threads : Owns(u) => pos[u] + Capacity # i
    BY <1>3, <2>1
  <2>4. sequence[Cell(i)] = i
    BY <2>2, <2>3 DEF VacatedCells
  <2>5. i \in Nat /\ tail < i /\ i < tail + Capacity
    BY <1>1, <1>2
  <2>6. Cell(i) # Cell(tail)
    BY <1>1, <2>5, CellsDiffer
  <2> QED
    BY <1>4, <2>4, <2>5, <2>6
<1>11. RoomToWrite'
  BY <1>1 DEF RoomToWrite
<1>12. LoadedPositions'
  BY <1>1 DEF LoadedPositions
<1> QED
  BY <1>6, <1>7, <1>8, <1>9, <1>10, <1>11, <1>12

\* Freeing a cell marks it as vacated for the next position that uses it.
LEMMA FreeKeeps ==
  ASSUME SequenceInvariant, TypeOK', NEW t \in Threads, FreeCell(t)
  PROVE  /\ (QueueFits /\ ClaimsBehindHead /\ ClaimsApart /\ QueuedCells /\ VacatedCells)'
         /\ (RoomToWrite /\ LoadedPositions)'
<1> USE DEF SequenceInvariant, TypeOK, Threads, Producer, Consumer, Claiming, Holding, Goto
<1> DEFINE p == pos[t]
<1>1. /\ head \in Nat /\ tail \in Nat /\ Published \in Nat /\ Capacity \in Nat /\ p \in Nat
      /\ pc[t] = "free" /\ pc' = [pc EXCEPT ![t] = IF t = Producer THEN "count" ELSE "idle"]
      /\ head' = head /\ tail' = tail /\ Published' = Published /\ pos' = pos
      /\ sequence' = [sequence EXCEPT ![Cell(p)] = p + Capacity]
  BY CapacityAssumption DEF FreeCell, FreedSequence, Published
<1>2. Owns(t) /\ ~Owns(t)' /\ \A u \in Threads : u # t => (Owns(u)' <=> Owns(u))
  BY <1>1 DEF Owns
<1>3. /\ p < head /\ head <= Published /\ Published <= p + Capacity
      /\ Published <= head + Capacity
  BY <1>1, <1>2 DEF ClaimsBehindHead, QueueFits
<1> HIDE DEF p
<1>4. \A i \in Nat : Cell(i) # Cell(p) => sequence'[Cell(i)] = sequence[Cell(i)]
  BY <1>1, CellInCells
<1>5. sequence'[Cell(p)] = p + Capacity
  BY <1>1, CellInCells
<1>6. QueueFits'
  BY <1>1 DEF QueueFits
<1>7. ClaimsBehindHead'
  <2>1. SUFFICES ASSUME NEW u \in Threads, u # t, Owns(u)
                 PROVE  /\ pos[u] < head /\ Published <= pos[u] + Capacity
                        /\ sequence'[Cell(pos[u])] = pos[u] + 1
    BY <1>1, <1>2 DEF ClaimsBehindHead
  <2>2. /\ pos[u] \in Nat /\ pos[u] < head /\ Published <= pos[u] + Capacity
        /\ sequence[Cell(pos[u])] = pos[u] + 1
    BY <2>1 DEF ClaimsBehindHead
  <2>3. Cell(pos[u]) # Cell(p)
    BY <1>2, <2>1, OwnedCells DEF p
  <2> QED
    BY <1>4, <2>2, <2>3
<1>8. ClaimsApart'
  BY <1>2 DEF ClaimsApart
<1>9. QueuedCells'
  <2>1. SUFFICES ASSUME NEW i \in head .. Published - 1
                 PROVE  sequence'[Cell(i)] = i + 1
    BY <1>1 DEF QueuedCells
  <2>2. i \in Nat /\ Cell(i) # Cell(p)
    BY SMTT(30), <1>1, <1>2, OwnedCells DEF p
  <2> QED
    BY <1>4, <2>2 DEF QueuedCells
<1>10. VacatedCells'
  <2>1. SUFFICES ASSUME NEW i \in Published .. head + Capacity - 1,
                        \A u \in Threads : Owns(u)' => pos[u] + Capacity # i
                 PROVE  sequence'[Cell(i)] = i
    BY <1>1 DEF VacatedCells
  <2>2. i \in Nat /\ p < i /\ i < p + Capacity + Capacity
    BY <1>1, <1>3
  <2>3. CASE i = p + Capacity
    BY <1>1, <1>5, <2>3, CellWraps
  <2>4. CASE i # p + Capacity
    <3>1. sequence[Cell(i)] = i
      <4>1. \A u \in Threads : Owns(u) => pos[u] + Capacity # i
        BY <1>2, <2>1, <2>4 DEF p
      <4> QED
        BY <4>1 DEF VacatedCells
    <3>2. Cell(i) # Cell(p)
      <4>1. CASE i < p + Capacity
        BY <1>1, <2>2, <4>1, CellsDiffer
      <4>2. CASE p + Capacity < i
        <5>1. p + Capacity \in Nat /\ i < (p + Capacity) + Capacity
          BY <1>1, <2>2
        <5>2. Cell(i) # Cell(p + Capacity)
          BY <2>2, <4>2, <5>1, CellsDiffer
        <5> QED
          BY <1>1, <5>2, CellWraps
      <4> QED
        BY <1>1, <2>2, <2>4, <4>1, <4>2
    <3> QED
      BY <1>4, <2>2, <3>1, <3>2
  <2> QED
    BY <2>3, <2>4
<1>11. RoomToWrite'
  BY <1>1, <1>2 DEF RoomToWrite
<1>12. LoadedPositions'
  BY <1>1 DEF LoadedPositions
<1> QED
  BY <1>6, <1>7, <1>8, <1>9, <1>10, <1>11, <1>12

\* A cell's sequence number only grows: it never says again what it said of a position
\* that was published.
LEMMA AheadStep ==
  ASSUME SequenceInvariant, [Next]_vars
  PROVE  SequencesAhead'
<1>0. SequencesAhead
  BY DEF SequenceInvariant
<1> USE DEF SequenceInvariant, TypeOK, Goto, Threads, Producer, Consumer, Claiming, Holding
<1>1. CASE UNCHANGED <<sequence, Published>>
  BY <1>0, <1>1 DEF SequencesAhead
<1>2. CASE QuietSteps
  <2>1. UNCHANGED <<sequence, Published>>
    BY <1>2, Zenon DEF QuietSteps, Published, PushCall, FindVacated, FindOccupied, CountDrop, WriteData,
         AdvanceTail, PopCall, LoadHead, LoadSequence, AfterLoad, LoseClaim, MoveOut
  <2> QED
    BY <1>1, <2>1
<1>3. CASE Publish
  <2>0. tail \in Nat /\ sequence \in [Cells -> Nat] /\ Cell(tail) \in Cells
    BY CellInCells
  <2>1. /\ sequence' = [sequence EXCEPT ![Cell(tail)] = tail + 1]
        /\ Published = tail /\ Published' = tail + 1
    BY <1>3 DEF Publish, PublishedSequence, Published
  <2> HIDE DEF SequenceInvariant, TypeOK
  <2> SUFFICES ASSUME NEW i \in 0 .. tail PROVE sequence'[Cell(i)] > i
    BY <2>0, <2>1 DEF SequencesAhead
  <2>2. i \in Nat /\ Cell(i) \in Cells
    BY <2>0, CellInCells
  <2>3. CASE Cell(i) = Cell(tail)
    <3>1. sequence'[Cell(i)] = tail + 1
      BY <2>0, <2>1, <2>3
    <3> QED
      BY <2>0, <2>2, <3>1
  <2>4. CASE Cell(i) # Cell(tail)
    <3>1. i \in 0 .. Published - 1
      <4>1. i # tail
        BY <2>4
      <4> QED
        BY <2>0, <2>1, <4>1
    <3>2. sequence'[Cell(i)] = sequence[Cell(i)]
      BY <2>0, <2>1, <2>2, <2>4
    <3> QED
      BY <1>0, <3>1, <3>2 DEF SequencesAhead
  <2> QED
    BY <2>3, <2>4
<1>4. ASSUME NEW t \in Threads, WinClaim(t) PROVE SequencesAhead'
  <2>1. UNCHANGED <<sequence, Published>>
    BY <1>4 DEF WinClaim, Published
  <2> QED
    BY <1>1, <2>1
<1>5. ASSUME NEW t \in Threads, FreeCell(t) PROVE SequencesAhead'
  <2>0. pos[t] \in Nat /\ sequence \in [Cells -> Nat] /\ Cell(pos[t]) \in Cells /\ Published \in Nat
    BY CellInCells DEF Published
  <2>1. sequence' = [sequence EXCEPT ![Cell(pos[t])] = pos[t] + Capacity] /\ Published' = Published
    BY <1>5 DEF FreeCell, FreedSequence, Published
  <2>2. Published <= pos[t] + Capacity
    <3>1. Owns(t)
      BY <1>5 DEF FreeCell, Owns
    <3> QED
      BY <3>1 DEF ClaimsBehindHead
  <2> HIDE DEF SequenceInvariant, TypeOK
  <2> SUFFICES ASSUME NEW i \in 0 .. Published - 1 PROVE sequence'[Cell(i)] > i
    BY <2>1 DEF SequencesAhead
  <2>3. i \in Nat /\ i < Published /\ Cell(i) \in Cells /\ sequence[Cell(i)] > i
    BY <1>0, <2>0, CellInCells DEF SequencesAhead
  <2>4. CASE Cell(i) = Cell(pos[t])
    <3>1. sequence'[Cell(i)] = pos[t] + Capacity
      BY <2>0, <2>1, <2>4
    <3> QED
      BY <2>0, <2>2, <2>3, <3>1, CapacityAssumption
  <2>5. CASE Cell(i) # Cell(pos[t])
    BY <2>0, <2>1, <2>3, <2>5
  <2> QED
    BY <2>4, <2>5
<1>6. CASE UNCHANGED vars
  BY <1>1, <1>6 DEF vars, Published
<1> QED
  BY <1>2, <1>3, <1>4, <1>5, <1>6 DEF Next, PushStep, ClaimStep, QuietSteps

\* The constructor numbers the cells 0 to capacity_ - 1: all vacated.
LEMMA SequenceInit == Init => SequenceInvariant
<1> SUFFICES ASSUME Init PROVE SequenceInvariant
  OBVIOUS
<1> USE DEF Init, Threads, Producer, Consumer
<1>1. TypeOK
  BY TypeInit
<1>2. \A t \in Threads : ~Owns(t)
  BY DEF Owns, Holding
<1>3. Published = 0
  BY DEF Published
<1>4. VacatedCells
  <2>1. SUFFICES ASSUME NEW i \in 0 .. Capacity - 1 PROVE sequence[Cell(i)] = i
    BY <1>3, CapacityAssumption DEF VacatedCells
  <2>2. i \in Nat /\ i < Capacity
    BY CapacityAssumption
  <2>3. Cell(i) = i
    BY <2>2, CapacityAssumption DEF Cell
  <2> QED
    BY <2>2, <2>3 DEF Cells
<1>5. CallsMatchTail /\ QueueFits /\ RoomToWrite
  BY <1>3, CapacityAssumption DEF CallsMatchTail, QueueFits, RoomToWrite
<1>6. ClaimsBehindHead /\ ClaimsApart
  BY <1>2 DEF ClaimsBehindHead, ClaimsApart
<1>7. QueuedCells
  BY <1>3 DEF QueuedCells
<1>8. LoadedPositions
  BY DEF LoadedPositions
<1>9. SequencesAhead
  BY <1>3 DEF SequencesAhead
<1> QED
  BY <1>1, <1>4, <1>5, <1>6, <1>7, <1>8, <1>9 DEF SequenceInvariant

\* Every step of either thread keeps the invariant of the sequence numbers.
LEMMA SequenceStep ==
  ASSUME SequenceInvariant, [Next]_vars
  PROVE  SequenceInvariant'
<1>1. TypeOK' /\ CallsMatchTail' /\ SequencesAhead'
  BY TypeStep, CallsStep, AheadStep DEF SequenceInvariant
<1>2. CASE QuietSteps
  BY <1>1, <1>2, QuietKeepsCells, QuietKeepsLocals DEF SequenceInvariant
<1>3. CASE Publish
  BY <1>1, <1>3, PublishKeeps DEF SequenceInvariant
<1>4. ASSUME NEW t \in Threads, WinClaim(t)
      PROVE  SequenceInvariant'
  BY <1>1, <1>4, WinKeeps DEF SequenceInvariant
<1>5. ASSUME NEW t \in Threads, FreeCell(t)
      PROVE  SequenceInvariant'
  BY <1>1, <1>5, FreeKeeps DEF SequenceInvariant
<1>6. CASE UNCHANGED vars
  <2>1. Quiet /\ \A t \in Threads : Owns(t) => Owns(t)'
    BY <1>6 DEF vars, Quiet, Published, Owns
  <2>2. (RoomToWrite /\ LoadedPositions)'
    BY <1>6 DEF SequenceInvariant, RoomToWrite, LoadedPositions, vars, Published, Owns
  <2> QED
    BY <1>1, <2>1, <2>2, QuietStep DEF SequenceInvariant
<1> QED
  BY <1>2, <1>3, <1>4, <1>5, <1>6 DEF Next, PushStep, ClaimStep, QuietSteps

\* The sequence numbers keep the two threads apart (SequenceInvariant), whatever
\* the capacity and however the steps of push() and pop() interleave.
THEOREM SequencesCorrect == Spec => []SequenceInvariant
  BY SequenceInit, SequenceStep, PTL DEF Spec

\* No cell's data is touched by two threads at once: push() never writes a cell
\* that pop() is moving out of, and two claimants never move the same cell.
THEOREM Exclusive == Spec => []SlotExclusive
<1>1. SequenceInvariant => SlotExclusive
  <2>1. ASSUME SequenceInvariant, pc[Producer] = "write", pc[Consumer] = "move"
        PROVE  Cell(tail) # Cell(pos[Consumer])
    BY <2>1, TargetCell DEF Owns, Holding
  <2>2. ASSUME SequenceInvariant, pc[Producer] = "move", pc[Consumer] = "move"
        PROVE  Cell(pos[Producer]) # Cell(pos[Consumer])
    BY <2>2, OwnedCells DEF Owns, Holding, Threads, Producer, Consumer
  <2> QED
    BY <2>1, <2>2 DEF SlotExclusive
<1> QED
  BY <1>1, SequencesCorrect, PTL

-----------------------------------------------------------------------------
\* Nothing is lost without being counted: each element leaves the queue once,
\* and is then in a thread's hands, counted as dropped, or handed out.
LEMMA LedgerStep ==
  ASSUME SequenceInvariant, Balanced, [Next]_vars
  PROVE  Balanced'
<1> USE DEF SequenceInvariant, TypeOK, Balanced, InHand, Uncounted, Owns,
           Threads, Producer, Consumer, Claiming, Holding, Goto
<1>0. Len(delivered) \in Nat /\ dropped \in Nat /\ head \in Nat
  OBVIOUS
<1>1. CASE PushCall
  BY <1>1 DEF PushCall
<1>2. CASE FindVacated \/ FindOccupied
  BY <1>2 DEF FindVacated, FindOccupied
<1>3. CASE CountDrop
  <2>1. /\ dropped' = dropped + 1 /\ pc' = [pc EXCEPT ![Producer] = "check"]
        /\ head' = head /\ delivered' = delivered /\ pc[Producer] = "count"
    BY <1>3 DEF CountDrop, CountedDrops
  <2>2. /\ InHand(Producer) = 0 /\ InHand(Producer)' = 0
        /\ Uncounted = 1 /\ Uncounted' = 0
        /\ InHand(Consumer)' = InHand(Consumer) /\ InHand(Consumer) \in Nat
    BY <2>1
  <2> HIDE DEF SequenceInvariant, TypeOK, InHand, Uncounted
  <2> QED
    BY <1>0, <2>1, <2>2
<1>4. CASE WriteData \/ Publish \/ AdvanceTail
  BY <1>4 DEF WriteData, Publish, AdvanceTail
<1>5. CASE PopCall
  BY <1>5 DEF PopCall
<1>6. ASSUME NEW t \in Threads, LoadHead(t) \/ LoadSequence(t) \/ LoseClaim(t) \/ MoveOut(t)
      PROVE  Balanced'
  BY <1>6 DEF LoadHead, LoadSequence, AfterLoad, LoseClaim, MoveOut
<1>7. ASSUME NEW t \in Threads, WinClaim(t)
      PROVE  Balanced'
  <2>1. /\ head' = head + 1 /\ pc' = [pc EXCEPT ![t] = "move"] /\ pc[t] = "cas"
        /\ dropped' = dropped /\ delivered' = delivered
    BY <1>7 DEF WinClaim, HeadUnmoved
  <2> DEFINE u == IF t = Producer THEN Consumer ELSE Producer
  <2>2. /\ InHand(t) = 0 /\ InHand(t)' = 1
        /\ InHand(u)' = InHand(u) /\ InHand(u) \in Nat
        /\ Uncounted' = Uncounted /\ Uncounted \in Nat
    BY <2>1
  <2>3. {t, u} = {Producer, Consumer}
    OBVIOUS
  <2> HIDE DEF SequenceInvariant, TypeOK, InHand, Uncounted, u
  <2>4. CASE t = Producer /\ u = Consumer
    BY <1>0, <2>1, <2>2, <2>4
  <2>5. CASE t = Consumer /\ u = Producer
    BY SMTT(30), <1>0, <2>1, <2>2, <2>5
  <2> QED
    BY <2>3, <2>4, <2>5
<1>8. ASSUME NEW t \in Threads, FreeCell(t)
      PROVE  Balanced'
  <2>1. Len(delivered') = Len(delivered) + (IF t = Consumer THEN 1 ELSE 0)
    BY <1>8 DEF FreeCell
  <2>2. /\ head' = head /\ dropped' = dropped /\ pc[t] = "free"
        /\ pc' = [pc EXCEPT ![t] = IF t = Producer THEN "count" ELSE "idle"]
    BY <1>8 DEF FreeCell
  <2>3. CASE t = Producer
    <3>1. /\ InHand(Producer) = 1 /\ InHand(Producer)' = 0
          /\ Uncounted = 0 /\ Uncounted' = 1
          /\ InHand(Consumer)' = InHand(Consumer) /\ InHand(Consumer) \in Nat
          /\ Len(delivered') = Len(delivered)
      BY <1>0, <2>1, <2>2, <2>3
    <3> HIDE DEF SequenceInvariant, TypeOK, InHand, Uncounted
    <3> QED
      BY <1>0, <2>2, <3>1
  <2>4. CASE t = Consumer
    <3>1. /\ InHand(Consumer) = 1 /\ InHand(Consumer)' = 0
          /\ Uncounted' = Uncounted /\ Uncounted \in Nat
          /\ InHand(Producer)' = InHand(Producer) /\ InHand(Producer) \in Nat
          /\ Len(delivered') = Len(delivered) + 1
      BY <1>0, <2>1, <2>2, <2>4
    <3> HIDE DEF SequenceInvariant, TypeOK, InHand, Uncounted
    <3> QED
      BY <1>0, <2>2, <3>1
  <2> QED
    BY <2>3, <2>4
<1>9. CASE UNCHANGED vars
  BY <1>9 DEF vars
<1> QED
  BY <1>1, <1>2, <1>3, <1>4, <1>5, <1>6, <1>7, <1>8, <1>9 DEF Next, PushStep, ClaimStep

\* processed + dropped == pushed, for every capacity and at every instant.
THEOREM NothingUnaccounted == Spec => []Accounting
<1>1. Init => Balanced
  BY DEF Init, Balanced, InHand, Uncounted, Owns, Holding, Threads, Producer, Consumer
<1>2. SequenceInvariant /\ Balanced => Accounting
  BY DEF SequenceInvariant, QueueFits, Accounting
<1> QED
  BY <1>1, <1>2, LedgerStep, SequencesCorrect, PTL DEF Spec

-----------------------------------------------------------------------------
\* Order: the item of a position stays in its cell until its claimant moves it
\* out, so what is returned follows the claims, and those follow the positions.
LEMMA ItemsStep ==
  ASSUME ItemInvariant, SequenceInvariant', [Next]_vars
  PROVE  ItemsInPlace'
<1> USE DEF ItemInvariant, SequenceInvariant, TypeOK, ItemsInPlace, Goto,
           Threads, Producer, Consumer, Claiming, Holding
<1>1. CASE PushCall \/ PopCall
  BY <1>1 DEF PushCall, PopCall, Published
<1>2. CASE FindVacated \/ FindOccupied \/ CountDrop \/ AdvanceTail
  BY <1>2 DEF FindVacated, FindOccupied, CountDrop, AdvanceTail, Published
<1>3. CASE WriteData
  <2>1. /\ pc[Producer] = "write" /\ pc' = [pc EXCEPT ![Producer] = "publish"]
        /\ data' = [data EXCEPT ![Cell(tail)] = tail]
        /\ Published' = Published /\ head' = head /\ tail' = tail /\ pos' = pos /\ out' = out
    <3>1. pc[Producer] = "write" /\ calls \in Nat /\ tail \in Nat /\ calls = tail + 1
      BY <1>3 DEF WriteData, CallsMatchTail
    <3>2. calls - 1 = tail
      BY <3>1
    <3> QED
      BY <1>3, <3>1, <3>2 DEF WriteData, Published
  <2>2. /\ \A i \in head .. Published - 1 : Cell(i) # Cell(tail) /\ Cell(i) \in Cells
        /\ pc[Consumer] = "move" => Cell(pos[Consumer]) # Cell(tail)
        /\ Cell(tail) \in Cells /\ Cell(pos[Consumer]) \in Cells
    <3>1. \A i \in head .. Published - 1 : i \in Nat
      BY DEF Published
    <3> QED
      BY <2>1, <3>1, TargetCell, CellInCells DEF Owns
  <2> QED
    BY <2>1, <2>2
<1>4. CASE Publish
  <2>1. /\ pc[Producer] = "publish" /\ pc' = [pc EXCEPT ![Producer] = "tail"]
        /\ tail \in Nat /\ head \in Nat /\ Published = tail /\ Published' = tail + 1
        /\ head' = head /\ data' = data /\ tail' = tail /\ pos' = pos /\ out' = out
    BY <1>4 DEF Publish, Published
  <2>2. \A i \in head .. tail : data[Cell(i)] = i
    BY <2>1
  <2> QED
    BY <2>1, <2>2
<1>5. ASSUME NEW t \in Threads, LoadHead(t) \/ LoadSequence(t) \/ LoseClaim(t)
      PROVE  ItemsInPlace'
  BY ZenonT(60), <1>5 DEF LoadHead, LoadSequence, AfterLoad, LoseClaim, Published
<1>6. ASSUME NEW t \in Threads, WinClaim(t)
      PROVE  ItemsInPlace'
  <2>1. /\ head \in Nat /\ Published \in Nat /\ pos[t] = head /\ pc[t] = "cas"
        /\ head' = head + 1 /\ pc' = [pc EXCEPT ![t] = "move"]
        /\ Published' = Published /\ data' = data /\ tail' = tail /\ pos' = pos /\ out' = out
    BY <1>6 DEF WinClaim, HeadUnmoved, Published
  <2>2. data[Cell(head)] = head
    BY <2>1 DEF LoadedPositions
  <2> QED
    BY <2>1, <2>2
<1>7. ASSUME NEW t \in Threads, MoveOut(t)
      PROVE  ItemsInPlace'
  <2>1. /\ pc[t] = "move" /\ pc' = [pc EXCEPT ![t] = "free"]
        /\ data' = [data EXCEPT ![Cell(pos[t])] = NoItem]
        /\ out' = [out EXCEPT ![t] = pos[t]]
        /\ Published' = Published /\ head' = head /\ tail' = tail /\ pos' = pos
    BY <1>7 DEF MoveOut, Published
  <2>2. /\ \A i \in head .. Published - 1 : Cell(i) # Cell(pos[t]) /\ Cell(i) \in Cells
        /\ \A u \in Threads : u # t /\ pc[u] = "move" => Cell(pos[u]) # Cell(pos[t])
        /\ \A u \in Threads : Cell(pos[u]) \in Cells
    <3>1. Owns(t) /\ \A i \in head .. Published - 1 : i \in Nat
      BY <2>1 DEF Owns, Published
    <3>2. \A u \in Threads : pc[u] = "move" => Owns(u)
      BY DEF Owns
    <3> QED
      BY <3>1, <3>2, OwnedCells, CellInCells
  <2>3. pc[Producer] = "publish" => Cell(tail) # Cell(pos[t]) /\ Cell(tail) \in Cells
    BY <2>1, TargetCell, CellInCells DEF Owns
  <2> QED
    BY <2>1, <2>2, <2>3
<1>8. ASSUME NEW t \in Threads, FreeCell(t)
      PROVE  ItemsInPlace'
  BY <1>8 DEF FreeCell, Published
<1>9. CASE UNCHANGED vars
  BY <1>9 DEF vars, Published
<1> QED
  BY <1>1, <1>2, <1>3, <1>4, <1>5, <1>6, <1>7, <1>8, <1>9 DEF Next, PushStep, ClaimStep

\* Every step keeps the fates of the items apart and the deliveries rising.
LEMMA FatesStep ==
  ASSUME ItemInvariant, SequenceInvariant', [Next]_vars
  PROVE  FatesApart'
<1> USE DEF ItemInvariant, SequenceInvariant, TypeOK, Taken, Goto,
           Threads, Producer, Consumer, Claiming, Holding
<1>1. CASE PushCall \/ PopCall
  BY <1>1 DEF PushCall, PopCall, FatesApart
<1>2. CASE FindVacated \/ FindOccupied \/ WriteData \/ Publish \/ AdvanceTail
  BY <1>2 DEF FindVacated, FindOccupied, WriteData, Publish, AdvanceTail, FatesApart
<1>3. CASE CountDrop
  <2>1. /\ discarded' = Append(discarded, pos[Producer]) /\ pc[Producer] = "count"
        /\ pc' = [pc EXCEPT ![Producer] = "check"]
        /\ head' = head /\ delivered' = delivered /\ pos' = pos
    BY <1>3 DEF CountDrop, ItemsInPlace
  <2>2. DOMAIN discarded' = 1 .. Len(discarded) + 1 /\ DOMAIN discarded = 1 .. Len(discarded)
    BY <2>1
  <2>3. \A j \in DOMAIN discarded' :
          \/ j \in DOMAIN discarded /\ discarded'[j] = discarded[j]
          \/ discarded'[j] = pos[Producer]
    BY <2>1, <2>2
  <2>4. /\ pos[Producer] \in Nat /\ pos[Producer] < head
        /\ \A i \in DOMAIN delivered : delivered[i] # pos[Producer]
        /\ Taken(Consumer) => pos[Producer] # pos[Consumer]
    BY <2>1 DEF FatesApart
  <2>5. ~Taken(Producer)' /\ (Taken(Consumer)' => Taken(Consumer))
    BY <2>1
  <2>6. \A j \in DOMAIN discarded' : discarded'[j] \in Nat /\ discarded'[j] < head
    BY <2>3, <2>4 DEF FatesApart
  <2>7. \A i \in DOMAIN delivered, j \in DOMAIN discarded' : delivered[i] # discarded'[j]
    BY <2>3, <2>4 DEF FatesApart
  <2>8. Taken(Consumer) => \A j \in DOMAIN discarded' : discarded'[j] # pos[Consumer]
    BY <2>3, <2>4 DEF FatesApart
  <2> HIDE DEF Taken
  <2> QED
    BY <2>1, <2>5, <2>6, <2>7, <2>8 DEF FatesApart
<1>4. ASSUME NEW t \in Threads, LoadHead(t) \/ LoadSequence(t) \/ LoseClaim(t) \/ MoveOut(t)
      PROVE  FatesApart'
  BY SMTT(30), <1>4 DEF LoadHead, LoadSequence, AfterLoad, LoseClaim, MoveOut, FatesApart
<1>5. ASSUME NEW t \in Threads, WinClaim(t)
      PROVE  FatesApart'
  <2>1. /\ head \in Nat /\ pos[t] = head /\ pc[t] = "cas"
        /\ head' = head + 1 /\ pc' = [pc EXCEPT ![t] = "move"]
        /\ delivered' = delivered /\ discarded' = discarded /\ pos' = pos
    BY <1>5 DEF WinClaim, HeadUnmoved
  <2>2. \A u \in Threads : Taken(u) => pos[u] < head
    BY DEF FatesApart, ClaimsBehindHead, Owns
  <2> QED
    BY <2>1, <2>2 DEF FatesApart
<1>6. ASSUME NEW t \in Threads, FreeCell(t)
      PROVE  FatesApart'
  <2>1. CASE t = Producer
    BY <1>6, <2>1 DEF FreeCell, FatesApart
  <2>2. CASE t = Consumer
    <3>1. /\ delivered' = Append(delivered, pos[Consumer]) /\ pc[Consumer] = "free"
          /\ pc' = [pc EXCEPT ![Consumer] = "idle"]
          /\ head' = head /\ discarded' = discarded /\ pos' = pos
      BY <1>6, <2>2 DEF FreeCell, ItemsInPlace
    <3>2. DOMAIN delivered' = 1 .. Len(delivered) + 1 /\ DOMAIN delivered = 1 .. Len(delivered)
      BY <3>1
    <3>3. \A i \in DOMAIN delivered' :
            \/ i \in DOMAIN delivered /\ delivered'[i] = delivered[i]
            \/ i = Len(delivered) + 1 /\ delivered'[i] = pos[Consumer]
      BY <3>1, <3>2
    <3>4. pos[Consumer] < head
      BY <3>1 DEF ClaimsBehindHead, Owns
    <3>5. \A i, j \in DOMAIN delivered' : i < j => delivered'[i] < delivered'[j]
      <4>1. SUFFICES ASSUME NEW i \in DOMAIN delivered', NEW j \in DOMAIN delivered', i < j
                     PROVE  delivered'[i] < delivered'[j]
        OBVIOUS
      <4>2. i \in DOMAIN delivered /\ delivered'[i] = delivered[i]
        BY <3>2, <3>3, <4>1
      <4> QED
        BY <3>1, <3>3, <4>1, <4>2 DEF FatesApart
    <3> QED
      BY <3>1, <3>3, <3>4, <3>5 DEF FatesApart
  <2> QED
    BY <2>1, <2>2
<1>7. CASE UNCHANGED vars
  BY <1>7 DEF vars, FatesApart
<1> QED
  BY <1>1, <1>2, <1>3, <1>4, <1>5, <1>6, <1>7 DEF Next, PushStep, ClaimStep

\* Every item that push() accepted is in one place and meets one fate
\* (ItemInvariant), for every capacity and every number of pushes.
THEOREM ItemsCorrect == Spec => []ItemInvariant
<1>1. Init => ItemInvariant
  <2> SUFFICES ASSUME Init PROVE ItemInvariant
    OBVIOUS
  <2>1. ItemsInPlace
    BY DEF Init, ItemsInPlace, Published, Threads, Producer, Consumer
  <2>2. FatesApart
    BY DEF Init, FatesApart, Taken, Holding, Threads, Producer, Consumer
  <2> QED
    BY <2>1, <2>2, SequenceInit DEF ItemInvariant
<1>2. ItemInvariant /\ [Next]_vars => ItemInvariant'
  <2>1. ItemInvariant /\ [Next]_vars => SequenceInvariant'
    BY SequenceStep DEF ItemInvariant
  <2> QED
    BY <2>1, ItemsStep, FatesStep DEF ItemInvariant
<1> QED
  BY <1>1, <1>2, PTL DEF Spec

\* pop() returns items in the order they were pushed, each at most once, and
\* never one that push() has discarded, for every capacity and every number of
\* pushes.
THEOREM InOrder == Spec => []DeliveredInOrder
<1>1. ItemInvariant => DeliveredInOrder
  BY DEF ItemInvariant, SequenceInvariant, TypeOK, FatesApart, DeliveredInOrder
<1> QED
  BY <1>1, ItemsCorrect, PTL

-----------------------------------------------------------------------------
\* When pop() says "empty"

\* pop() returns false at an instant at which nothing published is unclaimed, however
\* long before it read head_: what LiveConsumer and MlScoringWorker rely on when they
\* stop after an empty pop.
THEOREM EmptyPopIsTrue == Spec => EmptyPopMeansEmpty
<1>1. SequenceInvariant /\ [Next]_vars =>
        (pc[Consumer] = "cell" /\ pc'[Consumer] = "idle" => head = Published)
  <2> SUFFICES ASSUME SequenceInvariant, [Next]_vars,
                      pc[Consumer] = "cell", pc'[Consumer] = "idle"
               PROVE  head = Published
    OBVIOUS
  <2>0. DOMAIN pc = Threads
    BY DEF SequenceInvariant, TypeOK
  <2>1. LoadSequence(Consumer)
    <3>1. ASSUME NEW t \in Threads, ClaimStep(t) PROVE LoadSequence(Consumer)
      <4>1. pc[t] = "cell" /\ t = Consumer
        <5>1. pc[t] \in Claiming \cup Holding /\ \E step : pc' = [pc EXCEPT ![t] = step]
          BY <3>1 DEF ClaimStep, LoadHead, LoadSequence, WinClaim, LoseClaim, MoveOut, FreeCell, Goto, Claiming, Holding
        <5>2. t = Consumer
          BY <2>0, <5>1 DEF Threads
        <5> QED
          BY <5>2
      <4> QED
        BY <3>1, <4>1 DEF ClaimStep, LoadHead, WinClaim, LoseClaim, MoveOut, FreeCell
    <3>2. CASE PushCall \/ PushStep
      <4>1. \E step : pc' = [pc EXCEPT ![Producer] = step]
        BY <3>2 DEF PushCall, PushStep, FindVacated, FindOccupied, CountDrop, WriteData, Publish, AdvanceTail, Goto
      <4> QED
        BY <2>0, <4>1 DEF Threads, Producer, Consumer
    <3>3. CASE PopCall
      BY <3>3 DEF PopCall
    <3>4. CASE UNCHANGED vars
      BY <3>4 DEF vars
    <3> QED
      BY <3>1, <3>2, <3>3, <3>4 DEF Next
  <2>2. AfterLoad(Consumer, sequence[Cell(pos[Consumer])]) = "idle"
    BY <2>1 DEF LoadSequence, Goto, SequenceInvariant, TypeOK, Threads
  <2>3. sequence[Cell(pos[Consumer])] = pos[Consumer]
    BY <2>2 DEF AfterLoad
  <2>4. /\ pos[Consumer] \in Nat /\ head \in Nat /\ Published \in Nat
        /\ pos[Consumer] <= head /\ head <= Published
    BY DEF SequenceInvariant, TypeOK, LoadedPositions, QueueFits, Published, Threads
  <2>5. pos[Consumer] \notin 0 .. Published - 1
    BY <2>3, <2>4 DEF SequenceInvariant, SequencesAhead
  <2> QED
    BY <2>4, <2>5
<1> QED
  BY <1>1, SequencesCorrect, PTL DEF Spec, EmptyPopMeansEmpty

-----------------------------------------------------------------------------
\* The drop-oldest queue.  What is buffered is a run of consecutive positions.

Run(a, b) == [i \in 1 .. b - a |-> a + i - 1]

LEMMA RunEmpty == \A a \in Nat : Run(a, a) = <<>>
<1> TAKE a \in Nat
<1>1. Run(a, a) \in Seq(Nat) /\ Len(Run(a, a)) = 0
  BY DEF Run
<1> QED
  BY <1>1

\* push() extends the run at its end ...
LEMMA RunGrows ==
  ASSUME NEW a \in Nat, NEW b \in Nat, a <= b
  PROVE  Run(a, b + 1) = Append(Run(a, b), b)
<1>1. Run(a, b) \in Seq(Nat) /\ Len(Run(a, b)) = b - a
  BY DEF Run
<1> QED
  BY <1>1 DEF Run

\* ... and a claim takes its first position.
LEMMA RunShrinks ==
  ASSUME NEW a \in Nat, NEW b \in Nat, a < b
  PROVE  Run(a, b) # <<>> /\ Head(Run(a, b)) = a /\ Tail(Run(a, b)) = Run(a + 1, b)
<1>1. Run(a, b) \in Seq(Nat) /\ Len(Run(a, b)) = b - a
  BY DEF Run
<1>2. Run(a, b) # <<>>
  BY <1>1
<1>3. Head(Run(a, b)) = a
  BY <1>1, <1>2 DEF Run
<1>4. Tail(Run(a, b)) = Run(a + 1, b)
  <2> DEFINE t == Tail(Run(a, b))
             r == Run(a + 1, b)
  <2>1. /\ t \in Seq(Nat) /\ Len(t) = b - a - 1
        /\ \A i \in 1 .. Len(t) : t[i] = Run(a, b)[i + 1]
    BY <1>1, <1>2, HeadTailProperties
  <2>2. r \in Seq(Nat) /\ Len(r) = b - a - 1 /\ \A i \in 1 .. Len(r) : r[i] = a + i
    BY DEF Run
  <2>3. \A i \in 1 .. b - a - 1 : Run(a, b)[i + 1] = a + i
    BY DEF Run
  <2> HIDE DEF t, r
  <2>4. t = r
    BY <2>1, <2>2, <2>3, SeqEqual
  <2> QED
    BY <2>4 DEF t, r
<1> QED
  BY <1>2, <1>3, <1>4

\* The queue the refinement maps to is the run from head_ to what is published.
LEMMA QueuedRun == ItemInvariant => Queued = Run(head, Published)
<1> SUFFICES ASSUME ItemInvariant PROVE Queued = Run(head, Published)
  OBVIOUS
<1>1. head \in Nat /\ Published \in Nat
  BY DEF ItemInvariant, SequenceInvariant, TypeOK, Published
<1>2. ASSUME NEW i \in 1 .. Published - head
      PROVE  data[Cell(head + i - 1)] = head + i - 1
  BY <1>1 DEF ItemInvariant, ItemsInPlace
<1> QED
  BY <1>2 DEF Queued, Run

\* The slot of the next push is occupied exactly when the cells are all queued,
\* or the consumer is still taking out the item pushed Capacity earlier.
LEMMA OccupiedSlot ==
  ASSUME ItemInvariant
  PROVE  Abstract!SlotOccupied <=>
           \/ Published = head + Capacity
           \/ Owns(Consumer) /\ pos[Consumer] + Capacity = Published
<1> DEFINE q == Run(head, Published)
           s == q \o Held
<1>1. /\ head \in Nat /\ Published \in Nat /\ pos[Consumer] \in Nat
      /\ head <= Published /\ Published <= head + Capacity
  BY DEF ItemInvariant, SequenceInvariant, TypeOK, Published, QueueFits, Threads
<1>2. q \in Seq(Nat) /\ Len(q) = Published - head /\ \A i \in 1 .. Len(q) : q[i] = head + i - 1
  BY <1>1 DEF Run
<1>3. Held \in Seq(Nat) /\ Len(Held) = (IF Owns(Consumer) THEN 1 ELSE 0)
      /\ (Owns(Consumer) => Held[1] = pos[Consumer])
  BY <1>1 DEF Held
<1> HIDE DEF q
<1>4. /\ s \in Seq(Nat) /\ Len(s) = Len(q) + Len(Held)
      /\ \A i \in 1 .. Len(q) : s[i] = q[i]
      /\ \A i \in 1 .. Len(Held) : s[Len(q) + i] = Held[i]
  <2>1. /\ s \in Seq(Nat) /\ Len(s) = Len(q) + Len(Held)
        /\ \A i \in 1 .. Len(q) + Len(Held) : s[i] = IF i <= Len(q) THEN q[i] ELSE Held[i - Len(q)]
    BY <1>2, <1>3, ConcatProperties
  <2>2. Len(q) \in Nat /\ Len(Held) \in Nat
    BY <1>2, <1>3
  <2> HIDE DEF s
  <2> QED
    BY <2>1, <2>2
<1>5. Abstract!SlotOccupied <=> \E i \in 1 .. Len(s) : s[i] + Capacity = Published
  BY QueuedRun DEF Abstract!SlotOccupied, Abstract!Items, q
<1> HIDE DEF s
<1>6. ASSUME NEW i \in 1 .. Len(s), s[i] + Capacity = Published
      PROVE  \/ Published = head + Capacity
             \/ Owns(Consumer) /\ pos[Consumer] + Capacity = Published
  <2>1. CASE i \in 1 .. Len(q)
    <3>1. s[i] = head + i - 1
      BY <1>2, <1>4, <2>1
    <3> QED
      BY <1>1, <1>2, <1>6, <2>1, <3>1, CapacityAssumption
  <2>2. CASE i \notin 1 .. Len(q)
    <3>1. Owns(Consumer) /\ i = Len(q) + 1
      BY <1>1, <1>2, <1>3, <1>4, <2>2
    <3>2. s[i] = pos[Consumer]
      BY <1>3, <1>4, <3>1
    <3> QED
      BY <1>6, <3>1, <3>2
  <2> QED
    BY <2>1, <2>2
<1>7. ASSUME Published = head + Capacity
      PROVE  \E i \in 1 .. Len(s) : s[i] + Capacity = Published
  <2>1. 1 \in 1 .. Len(q) /\ q[1] = head
    BY <1>1, <1>2, <1>7, CapacityAssumption
  <2>2. 1 \in 1 .. Len(s) /\ s[1] = head
    BY <1>2, <1>3, <1>4, <2>1
  <2> QED
    BY <1>7, <2>2
<1>8. ASSUME Owns(Consumer), pos[Consumer] + Capacity = Published
      PROVE  \E i \in 1 .. Len(s) : s[i] + Capacity = Published
  <2>1. Len(q) + 1 \in 1 .. Len(s) /\ s[Len(q) + 1] = pos[Consumer]
    BY <1>1, <1>2, <1>3, <1>4, <1>8
  <2> QED
    BY <1>8, <2>1
<1> QED
  BY <1>5, <1>6, <1>7, <1>8

\* What the abstract queue sees of a state.
Seen == <<head, Published, Held, Pressed, delivered, ThrownAway>>

\* A step that changes nothing of that is no step of the queue.
LEMMA UnseenStep ==
  ASSUME ItemInvariant, ItemInvariant', UNCHANGED Seen
  PROVE  UNCHANGED Abstract!vars
<1>1. Queued = Run(head, Published)
  BY QueuedRun
<1>2. (ItemInvariant => Queued = Run(head, Published))'
  BY QueuedRun, PTL
<1>3. Queued' = Run(head', Published')
  BY <1>2 DEF Run
<1> QED
  BY <1>1, <1>3 DEF Abstract!vars, Seen

\* push() publishing an item appends it: its slot is free.
LEMMA PublishPushes ==
  ASSUME ItemInvariant, ItemInvariant', Publish
  PROVE  Abstract!Push
<1>1. /\ head \in Nat /\ tail \in Nat /\ Published = tail /\ Published' = tail + 1
      /\ head' = head /\ head <= tail
      /\ pc[Producer] = "publish" /\ pc' = [pc EXCEPT ![Producer] = "tail"]
      /\ UNCHANGED <<pos, delivered, discarded>>
  BY DEF ItemInvariant, SequenceInvariant, TypeOK, QueueFits, Publish, Goto, Published, Threads
<1>2. Queued' = Append(Queued, Published)
  <2>1. (ItemInvariant => Queued = Run(head, Published))'
    BY QueuedRun, PTL
  <2>2. Queued' = Run(head, tail + 1) /\ Queued = Run(head, tail)
    BY <1>1, <2>1, QueuedRun DEF Run
  <2> QED
    BY <1>1, <2>2, RunGrows
<1>3. ~Abstract!SlotOccupied
  <2>1. tail < head + Capacity /\ (Owns(Consumer) => pos[Consumer] + Capacity # tail)
    BY <1>1 DEF ItemInvariant, SequenceInvariant, RoomToWrite
  <2> QED
    BY <1>1, <2>1, OccupiedSlot, CapacityAssumption
<1>4. UNCHANGED <<Held, Pressed, ThrownAway>>
  BY <1>1 DEF Held, Pressed, ThrownAway, Owns, ItemInvariant, SequenceInvariant, TypeOK,
              Threads, Producer, Consumer, Claiming, Holding
<1> QED
  BY <1>1, <1>2, <1>3, <1>4 DEF Abstract!Push

\* push() turns to the claim only when its slot is occupied: a cell that was not
\* vacated for tail_ is queued, or the consumer has still to free it.
LEMMA OccupiedFindsFull ==
  ASSUME ItemInvariant, ItemInvariant', FindOccupied
  PROVE  Abstract!FindFull
<1>1. /\ head \in Nat /\ tail \in Nat /\ Published = tail /\ head <= tail /\ tail <= head + Capacity
      /\ pc[Producer] = "check" /\ pc' = [pc EXCEPT ![Producer] = "head"] /\ ~Vacated
      /\ UNCHANGED <<head, Published, pos, delivered, discarded>>
  BY DEF ItemInvariant, SequenceInvariant, TypeOK, QueueFits, FindOccupied, Goto, Published, Threads
<1>2. Abstract!SlotOccupied
  <2>1. SUFFICES ASSUME tail # head + Capacity, ~(Owns(Consumer) /\ pos[Consumer] + Capacity = tail)
                 PROVE  FALSE
    BY <1>1, OccupiedSlot
  <2>2. tail \in Published .. head + Capacity - 1
    BY <1>1, <2>1, CapacityAssumption
  <2>3. \A t \in Threads : Owns(t) => pos[t] + Capacity # tail
    BY <1>1, <2>1 DEF Owns, Threads, Holding
  <2>4. sequence[Cell(tail)] = tail
    BY <2>2, <2>3 DEF ItemInvariant, SequenceInvariant, VacatedCells
  <2> QED
    BY <1>1, <2>4 DEF Vacated
<1>3. Pressed' = TRUE
  BY <1>1 DEF Pressed, Claiming, ItemInvariant, SequenceInvariant, TypeOK, Threads
<1>4. UNCHANGED <<Held, ThrownAway>>
  BY <1>1 DEF Held, ThrownAway, Owns, ItemInvariant, SequenceInvariant, TypeOK,
              Threads, Producer, Consumer, Claiming, Holding
<1>5. Queued' = Queued
  <2>1. (ItemInvariant => Queued = Run(head, Published))'
    BY QueuedRun, PTL
  <2> QED
    BY <1>1, <2>1, QueuedRun DEF Run
<1> QED
  BY <1>1, <1>2, <1>3, <1>4, <1>5 DEF Abstract!FindFull

\* The claim's answer "empty" sends push() back to look again.
LEMMA LoadRelents ==
  ASSUME ItemInvariant, ItemInvariant', NEW t \in Threads, LoadSequence(t)
  PROVE  Abstract!Relent \/ UNCHANGED Abstract!vars
<1>1. /\ pc[t] = "cell" /\ UNCHANGED <<head, Published, pos, delivered, discarded>>
      /\ \/ pc' = [pc EXCEPT ![t] = "cas"]
         \/ pc' = [pc EXCEPT ![t] = "head"]
         \/ t = Producer /\ pc' = [pc EXCEPT ![t] = "check"]
         \/ t = Consumer /\ pc' = [pc EXCEPT ![t] = "idle"]
  BY DEF LoadSequence, AfterLoad, Goto, Published, Threads, ItemInvariant, SequenceInvariant, TypeOK,
         Producer, Consumer
<1>2. UNCHANGED <<Held, ThrownAway>>
  BY <1>1 DEF Held, ThrownAway, Owns, ItemInvariant, SequenceInvariant, TypeOK,
              Threads, Producer, Consumer, Claiming, Holding
<1>3. Pressed' = Pressed \/ Pressed' = FALSE
  BY <1>1 DEF Pressed, ItemInvariant, SequenceInvariant, TypeOK,
              Threads, Producer, Consumer, Claiming, Holding
<1>4. Queued' = Queued
  <2>1. (ItemInvariant => Queued = Run(head, Published))'
    BY QueuedRun, PTL
  <2> QED
    BY <1>1, <2>1, QueuedRun DEF Run
<1> QED
  BY <1>1, <1>2, <1>3, <1>4 DEF Abstract!Relent, Abstract!vars

\* Winning the compare-exchange takes the front of the queue: push() throws it
\* away, pop() holds it.
LEMMA WinTakesFront ==
  ASSUME ItemInvariant, ItemInvariant', NEW t \in Threads, WinClaim(t)
  PROVE  IF t = Producer THEN Abstract!Discard ELSE Abstract!Claim
<1>1. /\ head \in Nat /\ Published \in Nat /\ pos[t] = head /\ head' = head + 1 /\ Published' = Published
      /\ pc[t] = "cas" /\ pc' = [pc EXCEPT ![t] = "move"]
      /\ UNCHANGED <<pos, delivered, discarded>>
  BY DEF ItemInvariant, SequenceInvariant, TypeOK, WinClaim, HeadUnmoved, Goto, Published, Threads
<1>2. head < Published
  BY <1>1 DEF ItemInvariant, SequenceInvariant, LoadedPositions
<1>3. Queued # <<>> /\ Head(Queued) = head /\ Queued' = Tail(Queued)
  <2>1. (ItemInvariant => Queued = Run(head, Published))'
    BY QueuedRun, PTL
  <2>2. Queued = Run(head, Published) /\ Queued' = Run(head + 1, Published)
    BY <1>1, <2>1, QueuedRun DEF Run
  <2> QED
    BY <1>1, <1>2, <2>2, RunShrinks
<1>4. CASE t = Producer
  <2>1. Pressed /\ Pressed' = FALSE /\ Held' = Held
        /\ ThrownAway = discarded /\ ThrownAway' = Append(discarded, head)
    BY <1>1, <1>4 DEF Pressed, Held, ThrownAway, Owns, ItemInvariant, SequenceInvariant, TypeOK,
              Threads, Producer, Consumer, Claiming, Holding
  <2> QED
    BY <1>1, <1>3, <1>4, <2>1 DEF Abstract!Discard
<1>5. CASE t = Consumer
  <2>1. Pressed' = Pressed /\ Held = <<>> /\ Held' = <<head>> /\ ThrownAway' = ThrownAway
    BY <1>1, <1>5 DEF Pressed, Held, ThrownAway, Owns, ItemInvariant, SequenceInvariant, TypeOK,
              Threads, Producer, Consumer, Claiming, Holding
  <2> QED
    BY <1>1, <1>3, <1>5, <2>1 DEF Abstract!Claim, Producer, Consumer
<1> QED
  BY <1>4, <1>5 DEF Threads

\* Freeing the cell hands pop()'s item over; push()'s is still in its hands.
LEMMA FreeDelivers ==
  ASSUME ItemInvariant, ItemInvariant', NEW t \in Threads, FreeCell(t)
  PROVE  Abstract!Deliver \/ UNCHANGED Abstract!vars
<1>1. /\ pc[t] = "free" /\ pc' = [pc EXCEPT ![t] = IF t = Producer THEN "count" ELSE "idle"]
      /\ UNCHANGED <<head, Published, pos, discarded>>
      /\ delivered' = IF t = Consumer THEN Append(delivered, pos[t]) ELSE delivered
  BY DEF ItemInvariant, SequenceInvariant, TypeOK, ItemsInPlace, FreeCell, Goto, Published, Threads
<1>2. CASE t = Producer
  <2>1. UNCHANGED Seen
    BY <1>1, <1>2 DEF Seen, Pressed, Held, ThrownAway, Owns, ItemInvariant, SequenceInvariant, TypeOK,
              Threads, Producer, Consumer, Claiming, Holding
  <2> QED
    BY <2>1, UnseenStep
<1>3. CASE t = Consumer
  <2>1. UNCHANGED <<Pressed, ThrownAway>> /\ Held = <<pos[t]>> /\ Held' = <<>>
    BY <1>1, <1>3 DEF Seen, Pressed, Held, ThrownAway, Owns, ItemInvariant, SequenceInvariant, TypeOK,
              Threads, Producer, Consumer, Claiming, Holding
  <2>2. Queued' = Queued
    <3>1. (ItemInvariant => Queued = Run(head, Published))'
      BY QueuedRun, PTL
    <3> QED
      BY <1>1, <3>1, QueuedRun DEF Run
  <2>3. delivered' = delivered \o <<pos[t]>>
    BY <1>1, <1>3 DEF ItemInvariant, SequenceInvariant, TypeOK
  <2> QED
    BY <1>1, <2>1, <2>2, <2>3 DEF Abstract!Deliver
<1> QED
  BY <1>2, <1>3 DEF Threads

\* The steps of the protocol's inside: the queue does not see them.
Inside ==
  \/ PushCall \/ FindVacated \/ CountDrop \/ WriteData \/ AdvanceTail \/ PopCall
  \/ \E t \in Threads : LoadHead(t) \/ LoseClaim(t) \/ MoveOut(t)

LEMMA InsideUnseen ==
  ASSUME ItemInvariant, ItemInvariant', Inside
  PROVE  UNCHANGED Abstract!vars
<1> USE DEF ItemInvariant, SequenceInvariant, TypeOK, Threads, Producer, Consumer, Claiming, Holding, Goto
<1>1. UNCHANGED <<head, Published, delivered>>
  BY DEF Inside, Published, PushCall, FindVacated, CountDrop, WriteData, AdvanceTail, PopCall,
         LoadHead, LoseClaim, MoveOut
<1>2. CASE PushCall \/ FindVacated \/ WriteData \/ AdvanceTail
  <2>1. UNCHANGED <<Held, Pressed, ThrownAway>>
    BY <1>2 DEF PushCall, FindVacated, WriteData, AdvanceTail, Held, Pressed, ThrownAway, Owns
  <2> QED
    BY <1>1, <2>1, UnseenStep DEF Seen
<1>3. CASE CountDrop
  <2>1. UNCHANGED <<Held, Pressed>>
    BY <1>3 DEF CountDrop, Held, Pressed, Owns
  <2>2. UNCHANGED ThrownAway
    BY <1>3 DEF CountDrop, ThrownAway, ItemsInPlace
  <2> QED
    BY <1>1, <2>1, <2>2, UnseenStep DEF Seen
<1>4. CASE PopCall
  <2>1. UNCHANGED <<Held, Pressed, ThrownAway>>
    BY <1>4 DEF PopCall, Held, Pressed, ThrownAway, Owns
  <2> QED
    BY <1>1, <2>1, UnseenStep DEF Seen
<1>5. ASSUME NEW t \in Threads, LoadHead(t) \/ LoseClaim(t) \/ MoveOut(t)
      PROVE  UNCHANGED Abstract!vars
  <2>1. UNCHANGED Held
    BY <1>5 DEF LoadHead, LoseClaim, MoveOut, Held, Owns
  <2>2. UNCHANGED Pressed
    BY <1>5 DEF LoadHead, LoseClaim, MoveOut, Pressed
  <2>3. UNCHANGED ThrownAway
    BY <1>5 DEF LoadHead, LoseClaim, MoveOut, ThrownAway
  <2> QED
    BY <1>1, <2>1, <2>2, <2>3, UnseenStep DEF Seen
<1> QED
  BY <1>2, <1>3, <1>4, <1>5 DEF Inside

\* Every step of the two threads is a step of the drop-oldest queue or changes
\* nothing it can see, for every capacity and every interleaving: what
\* LivePipeline and MlScoring assume of the buffer holds of the one in the code.
THEOREM RefinesQueue == Spec => ImplementsDropOldestQueue
<1>1. Init => Abstract!Init
  <2> SUFFICES ASSUME Init PROVE Abstract!Init
    OBVIOUS
  <2>1. Published = 0 /\ head = 0 /\ Held = <<>> /\ Pressed = FALSE
        /\ delivered = <<>> /\ ThrownAway = <<>>
    BY DEF Init, Published, Held, Pressed, ThrownAway, Owns, Holding, Claiming, Threads, Producer, Consumer
  <2>2. Queued = Run(0, 0)
    BY <2>1 DEF Queued, Run
  <2> QED
    BY <2>1, <2>2, RunEmpty DEF Abstract!Init
<1>2. ItemInvariant /\ ItemInvariant' /\ [Next]_vars => [Abstract!Next]_Abstract!vars
  <2> SUFFICES ASSUME ItemInvariant, ItemInvariant', [Next]_vars
               PROVE  Abstract!Next \/ UNCHANGED Abstract!vars
    OBVIOUS
  <2>1. CASE Inside
    BY <2>1, InsideUnseen
  <2>2. CASE Publish
    BY <2>2, PublishPushes DEF Abstract!Next
  <2>3. CASE FindOccupied
    BY <2>3, OccupiedFindsFull DEF Abstract!Next
  <2>4. ASSUME NEW t \in Threads, LoadSequence(t)
        PROVE  Abstract!Next \/ UNCHANGED Abstract!vars
    BY <2>4, LoadRelents DEF Abstract!Next
  <2>5. ASSUME NEW t \in Threads, WinClaim(t)
        PROVE  Abstract!Next
    BY <2>5, WinTakesFront DEF Abstract!Next
  <2>6. ASSUME NEW t \in Threads, FreeCell(t)
        PROVE  Abstract!Next \/ UNCHANGED Abstract!vars
    BY <2>6, FreeDelivers DEF Abstract!Next
  <2>7. CASE UNCHANGED vars
    <3>1. UNCHANGED Seen
      BY <2>7 DEF vars, Seen, Published, Held, Pressed, ThrownAway, Owns
    <3> QED
      BY <3>1, UnseenStep
  <2> QED
    BY <2>1, <2>2, <2>3, <2>4, <2>5, <2>6, <2>7 DEF Next, PushStep, ClaimStep, Inside
<1> QED
  BY <1>1, <1>2, ItemsCorrect, PTL DEF Spec, ImplementsDropOldestQueue, Abstract!Spec
=============================================================================
