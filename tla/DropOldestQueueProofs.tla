----------------------- MODULE DropOldestQueueProofs -----------------------
(***************************************************************************)
(* What the users of SpscRingBuffer may rely on, for every capacity: the    *)
(* items stay in the order they were pushed, whatever is discarded, and     *)
(* every item pushed is delivered, discarded, queued or being handed over.  *)
(***************************************************************************)
EXTENDS DropOldestQueue, SequenceTheorems, TLAPS

\* The oldest item a consumer has not claimed and no push has discarded.
Front == pushed - Len(queue)

QueueTypeOK ==
  /\ pushed \in Nat
  /\ queue \in Seq(Nat) /\ held \in Seq(Nat)
  /\ delivered \in Seq(Nat) /\ discarded \in Seq(Nat)
  /\ Len(queue) <= pushed /\ Len(held) <= 1

\* The queue is the run of items Front .. pushed - 1; what left it lies before.
QueueInOrder ==
  /\ \A i \in 1 .. Len(queue) : queue[i] = Front + i - 1
  /\ \A i \in 1 .. Len(held) : held[i] < Front
  /\ \A i \in 1 .. Len(discarded) : discarded[i] < Front
  /\ \A i \in 1 .. Len(delivered) : delivered[i] < Front

\* Items are delivered in the order they were pushed.
DeliveredInOrder ==
  /\ \A i, j \in 1 .. Len(delivered) : i < j => delivered[i] < delivered[j]
  /\ \A i \in 1 .. Len(delivered), j \in 1 .. Len(held) : delivered[i] < held[j]

\* Every item pushed is in one of the four places.
ItemsAccounted == Len(delivered) + Len(discarded) + Len(queue) + Len(held) = pushed

QueueInv == QueueTypeOK /\ QueueInOrder /\ DeliveredInOrder /\ ItemsAccounted

-----------------------------------------------------------------------------
\* A sequence over a set is one over any set that holds its elements.
LEMMA SeqOver ==
  ASSUME NEW S, NEW T, NEW s \in Seq(S), \A i \in 1 .. Len(s) : s[i] \in T
  PROVE  s \in Seq(T)
<1>1. Len(s) \in Nat /\ s \in [1 .. Len(s) -> S]
  BY LenProperties
<1>2. s \in [1 .. Len(s) -> T]
  BY <1>1
<1> QED
  BY <1>1, <1>2, SeqDef

\* A queue that is not empty starts with Front.
LEMMA HeadIsFront ==
  ASSUME QueueInv, queue # <<>>
  PROVE  /\ Head(queue) = Front /\ Head(queue) \in Nat
         /\ Tail(queue) \in Seq(Nat) /\ Len(Tail(queue)) = Len(queue) - 1
         /\ \A i \in 1 .. Len(queue) - 1 : Tail(queue)[i] = Front + i
<1> USE DEF QueueInv, QueueTypeOK, QueueInOrder, Front
<1>1. Len(queue) \in Nat /\ Len(queue) >= 1
  BY EmptySeq
<1> QED
  BY <1>1

\* The ring buffer starts empty.
LEMMA QueueInit == Init => QueueInv
  BY DEF Init, QueueInv, QueueTypeOK, QueueInOrder, DeliveredInOrder, ItemsAccounted, Front

\* A push puts its item behind all others.
LEMMA PushKeepsOrder == QueueInv /\ Push => QueueInv'
<1> SUFFICES ASSUME QueueInv, Push PROVE QueueInv'
  OBVIOUS
<1>1. /\ queue' \in Seq(Nat) /\ Len(queue') = Len(queue) + 1
      /\ \A i \in 1 .. Len(queue) : queue'[i] = queue[i]
      /\ queue'[Len(queue) + 1] = pushed
      /\ pushed' = pushed + 1
      /\ UNCHANGED <<held, delivered, discarded>>
  BY DEF QueueInv, QueueTypeOK, Push
<1>2. Front' = Front
  BY <1>1 DEF QueueInv, QueueTypeOK, Front
<1>3. QueueTypeOK' /\ ItemsAccounted'
  BY <1>1 DEF QueueInv, QueueTypeOK, ItemsAccounted
<1>4. QueueInOrder'
  <2>1. \A i \in 1 .. Len(queue') : queue'[i] = Front + i - 1
    <3> TAKE i \in 1 .. Len(queue')
    <3>1. i \in 1 .. Len(queue) \/ i = Len(queue) + 1
      BY <1>1 DEF QueueInv, QueueTypeOK
    <3> QED
      BY <3>1, <1>1 DEF QueueInv, QueueTypeOK, QueueInOrder, Front
  <2> QED
    BY <1>1, <1>2, <2>1 DEF QueueInv, QueueInOrder
<1>5. DeliveredInOrder'
  BY <1>1 DEF QueueInv, DeliveredInOrder
<1> QED
  BY <1>3, <1>4, <1>5 DEF QueueInv

\* A discard or a claim advances Front by one item.
LEMMA FrontAdvances ==
  ASSUME QueueInv, queue # <<>>, queue' = Tail(queue), pushed' = pushed
  PROVE  /\ Front \in Nat /\ Front' = Front + 1 /\ Head(queue) = Front
         /\ queue' \in Seq(Nat) /\ Len(queue') = Len(queue) - 1
         /\ \A i \in 1 .. Len(queue') : queue'[i] = Front' + i - 1
<1>1. /\ Head(queue) = Front /\ Head(queue) \in Nat
      /\ queue' \in Seq(Nat) /\ Len(queue') = Len(queue) - 1
      /\ \A i \in 1 .. Len(queue) - 1 : queue'[i] = Front + i
  BY HeadIsFront
<1>2. Front' = Front + 1
  BY <1>1 DEF Front, QueueInv, QueueTypeOK
<1>3. \A i \in 1 .. Len(queue') : queue'[i] = Front' + i - 1
  <2> TAKE i \in 1 .. Len(queue')
  <2>1. i \in Int /\ i \in 1 .. Len(queue) - 1
    BY <1>1 DEF QueueInv, QueueTypeOK
  <2>2. queue'[i] = Front + i
    BY <2>1, <1>1
  <2>3. Front + i = Front + 1 + i - 1
    BY <2>1, <1>1
  <2> QED
    BY <2>2, <2>3, <1>2
<1> QED
  BY <1>1, <1>2, <1>3

\* What is earlier than Front stays so when Front advances.
LEMMA EarlierThanFront ==
  ASSUME QueueInv, Front \in Nat
  PROVE  /\ \A i \in 1 .. Len(held) : held[i] < Front + 1
         /\ \A i \in 1 .. Len(discarded) : discarded[i] < Front + 1
         /\ \A i \in 1 .. Len(delivered) : delivered[i] < Front + 1
<1>1. /\ \A i \in 1 .. Len(held) : held[i] < Front /\ held[i] \in Nat
      /\ \A i \in 1 .. Len(discarded) : discarded[i] < Front /\ discarded[i] \in Nat
      /\ \A i \in 1 .. Len(delivered) : delivered[i] < Front /\ delivered[i] \in Nat
  BY DEF QueueInv, QueueTypeOK, QueueInOrder
<1> QED
  BY <1>1

\* A discard throws the oldest item away.
LEMMA DiscardKeepsOrder == QueueInv /\ Discard => QueueInv'
<1> SUFFICES ASSUME QueueInv, Discard PROVE QueueInv'
  OBVIOUS
<1>1. /\ Front \in Nat /\ Front' = Front + 1 /\ Head(queue) = Front
      /\ queue' \in Seq(Nat) /\ Len(queue') = Len(queue) - 1
      /\ \A i \in 1 .. Len(queue') : queue'[i] = Front' + i - 1
  BY FrontAdvances DEF Discard
<1>2. /\ discarded' \in Seq(Nat) /\ Len(discarded') = Len(discarded) + 1
      /\ \A i \in 1 .. Len(discarded) : discarded'[i] = discarded[i]
      /\ discarded'[Len(discarded) + 1] = Front
      /\ UNCHANGED <<pushed, held, delivered>>
  BY <1>1 DEF QueueInv, QueueTypeOK, Discard
<1>3. QueueTypeOK' /\ ItemsAccounted'
  BY SMTT(30), <1>1, <1>2 DEF QueueInv, QueueTypeOK, ItemsAccounted
<1>4. QueueInOrder'
  <2>1. \A i \in 1 .. Len(discarded') : discarded'[i] < Front'
    <3> TAKE i \in 1 .. Len(discarded')
    <3>1. CASE i \in 1 .. Len(discarded)
      <4>1. discarded'[i] = discarded[i] /\ discarded[i] \in Nat /\ discarded[i] < Front
        BY SMTT(30), <3>1, <1>2 DEF QueueInv, QueueTypeOK, QueueInOrder
      <4> QED
        BY <1>1, <4>1
    <3>2. CASE i = Len(discarded) + 1
      BY <1>1, <1>2, <3>2
    <3> QED
      BY <3>1, <3>2, <1>2 DEF QueueInv, QueueTypeOK
  <2>2. /\ \A i \in 1 .. Len(held) : held[i] < Front'
        /\ \A i \in 1 .. Len(delivered) : delivered[i] < Front'
    BY <1>1, EarlierThanFront
  <2> QED
    BY <1>1, <1>2, <2>1, <2>2 DEF QueueInOrder
<1>5. DeliveredInOrder'
  BY <1>2 DEF QueueInv, DeliveredInOrder
<1> QED
  BY <1>3, <1>4, <1>5 DEF QueueInv

\* A claim takes the oldest item, which is younger than all that left before.
LEMMA ClaimKeepsOrder == QueueInv /\ Claim => QueueInv'
<1> SUFFICES ASSUME QueueInv, Claim PROVE QueueInv'
  OBVIOUS
<1>1. /\ Front \in Nat /\ Front' = Front + 1 /\ Head(queue) = Front
      /\ queue' \in Seq(Nat) /\ Len(queue') = Len(queue) - 1
      /\ \A i \in 1 .. Len(queue') : queue'[i] = Front' + i - 1
  BY FrontAdvances DEF Claim
<1>2. /\ held' \in Seq(Nat) /\ Len(held') = 1 /\ held'[1] = Front /\ Len(held) = 0
      /\ UNCHANGED <<pushed, delivered, discarded>>
  BY <1>1 DEF Claim
<1>3. QueueTypeOK' /\ ItemsAccounted'
  BY <1>1, <1>2 DEF QueueInv, QueueTypeOK, ItemsAccounted
<1>4. QueueInOrder'
  <2>1. /\ \A i \in 1 .. Len(discarded) : discarded[i] < Front'
        /\ \A i \in 1 .. Len(delivered) : delivered[i] < Front'
    BY <1>1, EarlierThanFront
  <2> QED
    BY <1>1, <1>2, <2>1 DEF QueueInOrder
<1>5. DeliveredInOrder'
  BY <1>2 DEF QueueInv, QueueInOrder, DeliveredInOrder
<1> QED
  BY <1>3, <1>4, <1>5 DEF QueueInv

\* A delivery appends the item held to those delivered.
LEMMA DeliverAppends ==
  ASSUME QueueInv, Deliver
  PROVE  /\ Len(held) = 1 /\ held[1] \in Nat
         /\ delivered' \in Seq(Nat) /\ Len(delivered') = Len(delivered) + 1
         /\ \A i \in 1 .. Len(delivered) : delivered'[i] = delivered[i]
         /\ delivered'[Len(delivered) + 1] = held[1]
<1>1. held \in Seq(Nat) /\ Len(held) \in Nat /\ Len(held) <= 1 /\ delivered \in Seq(Nat)
  BY DEF QueueInv, QueueTypeOK
<1>2. Len(held) \in Nat \ {0}
  BY <1>1, EmptySeq DEF Deliver
<1>3. Len(held) = 1
  <2> DEFINE n == Len(held)
  <2>1. n \in Nat /\ n <= 1 /\ n \in Nat \ {0}
    BY <1>1, <1>2
  <2> HIDE DEF n
  <2>2. n = 1
    BY <2>1
  <2> QED
    BY <2>2 DEF n
<1>4. held[1] \in Nat
  <2>1. 1 \in 1 .. Len(held)
    BY <1>1, <1>2
  <2> QED
    BY <1>1, <2>1, ElementOfSeq
<1>5. /\ delivered \o held \in Seq(Nat) /\ Len(delivered \o held) = Len(delivered) + Len(held)
      /\ \A i \in 1 .. Len(delivered) + Len(held) : (delivered \o held)[i] =
            IF i <= Len(delivered) THEN delivered[i] ELSE held[i - Len(delivered)]
  BY <1>1, ConcatProperties
<1>6. delivered' = delivered \o held /\ Len(delivered) \in Nat
  BY <1>1 DEF Deliver
<1> QED
  BY <1>3, <1>4, <1>5, <1>6

\* Delivering the claimed item keeps the order of deliveries, and the accounts of items.
LEMMA DeliverKeepsOrder == QueueInv /\ Deliver => QueueInv'
<1> SUFFICES ASSUME QueueInv, Deliver PROVE QueueInv'
  OBVIOUS
<1>1. /\ Len(held) = 1 /\ held[1] \in Nat
      /\ delivered' \in Seq(Nat) /\ Len(delivered') = Len(delivered) + 1
      /\ \A i \in 1 .. Len(delivered) : delivered'[i] = delivered[i]
      /\ delivered'[Len(delivered) + 1] = held[1]
  BY DeliverAppends
<1>2. held' \in Seq(Nat) /\ Len(held') = 0 /\ UNCHANGED <<queue, pushed, discarded>>
  BY DEF Deliver
<1>3. QueueTypeOK' /\ ItemsAccounted'
  BY <1>1, <1>2 DEF QueueInv, QueueTypeOK, ItemsAccounted
<1>4. QueueInOrder'
  <2>1. Front' = Front
    BY <1>2 DEF Front
  <2>2. \A i \in 1 .. Len(delivered') : delivered'[i] < Front
    <3> TAKE i \in 1 .. Len(delivered')
    <3>1. i \in 1 .. Len(delivered) \/ i = Len(delivered) + 1
      BY <1>1 DEF QueueInv, QueueTypeOK
    <3>2. CASE i \in 1 .. Len(delivered)
      BY <3>2, <1>1 DEF QueueInv, QueueInOrder
    <3>3. CASE i = Len(delivered) + 1
      <4>1. 1 \in 1 .. Len(held)
        BY <1>1
      <4>2. held[1] < Front
        BY <4>1 DEF QueueInv, QueueInOrder
      <4> QED
        BY <3>3, <4>2, <1>1
    <3> QED
      BY <3>1, <3>2, <3>3
  <2> QED
    BY <1>2, <2>1, <2>2 DEF QueueInv, QueueInOrder
<1>5. DeliveredInOrder'
  <2>1. \A i, j \in 1 .. Len(delivered') : i < j => delivered'[i] < delivered'[j]
    <3> TAKE i, j \in 1 .. Len(delivered')
    <3>1. /\ i \in 1 .. Len(delivered) \/ i = Len(delivered) + 1
          /\ j \in 1 .. Len(delivered) \/ j = Len(delivered) + 1
      BY <1>1 DEF QueueInv, QueueTypeOK
    <3>2. CASE j \in 1 .. Len(delivered)
      BY SMTT(30), <1>1, <3>1, <3>2 DEF QueueInv, QueueTypeOK, DeliveredInOrder
    <3>3. CASE i \in 1 .. Len(delivered) /\ j = Len(delivered) + 1
      <4>1. 1 \in 1 .. Len(held)
        BY <1>1
      <4> QED
        BY <1>1, <3>3, <4>1 DEF QueueInv, DeliveredInOrder
    <3> QED
      BY <3>1, <3>2, <3>3
  <2> QED
    BY <1>2, <2>1 DEF DeliveredInOrder
<1> QED
  BY <1>3, <1>4, <1>5 DEF QueueInv

\* No step of either thread breaks the order or loses an item.
LEMMA QueueStep == QueueInv /\ [Next]_vars => QueueInv'
<1> SUFFICES ASSUME QueueInv, [Next]_vars PROVE QueueInv'
  OBVIOUS
<1>1. CASE FindFull \/ Relent \/ UNCHANGED vars
  BY <1>1 DEF FindFull, Relent, vars, QueueInv, QueueTypeOK, QueueInOrder, DeliveredInOrder,
              ItemsAccounted, Front
<1> QED
  BY <1>1, PushKeepsOrder, DiscardKeepsOrder, ClaimKeepsOrder, DeliverKeepsOrder DEF Next

\* spsc_ring_buffer.hpp hands the items over in order and loses none silently.
THEOREM QueueCorrect == Spec => []QueueInv
<1>1. Init => QueueInv
  BY QueueInit
<1>2. QueueInv /\ [Next]_vars => QueueInv'
  BY QueueStep
<1> QED
  BY <1>1, <1>2, PTL DEF Spec
=============================================================================
