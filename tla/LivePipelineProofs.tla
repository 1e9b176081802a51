------------------------- MODULE LivePipelineProofs -------------------------
(***************************************************************************)
(* Proofs about LivePipeline, for every set of order ids and quantities,    *)
(* every capacity and number of events, and whatever Kafka does.            *)
(***************************************************************************)
EXTENDS LivePipeline, Integers, FiniteSetTheorems, SequenceTheorems, TLAPS

Queue == INSTANCE DropOldestQueueProofs

-----------------------------------------------------------------------------
\* The inductive invariant

Positions == 1 .. Len(sent)

SessionOK ==
  /\ exchange \in [Ids -> Nat]
  /\ sent \in Seq(Event) /\ kafka \in Seq(Positions) /\ onRing \in Seq(Positions)
  /\ session \in {"idle", "publish", "push", "done"}

\* Events go on the ring in the order they were sent, each once; the one being
\* published comes after all of them.
RingOrder ==
  /\ Len(onRing) = pushed
  /\ \A i, j \in 1 .. Len(onRing) : i < j => onRing[i] < onRing[j]
  /\ session \in {"publish", "push"} =>
       /\ Len(sent) \in Positions
       /\ \A i \in 1 .. Len(onRing) : onRing[i] < Len(sent)

ConsumerOK ==
  /\ book \in [Ids -> Nat] /\ skipped \in Seq(Positions) /\ processed = Len(delivered)
  /\ consumer \in {"pop", "process", "check", "last", "stopped"}
  /\ consumer = "process" <=> held # <<>>
  /\ consumer \in {"last", "stopped"} => session = "done"
  /\ consumer = "stopped" => queue = <<>>

\* The last event processed.
At(item) == onRing[item + 1]
Frontier == IF delivered = <<>> THEN 0 ELSE At(delivered[Len(delivered)])

Shape == Queue!QueueInv /\ SessionOK /\ RingOrder /\ ConsumerOK

-----------------------------------------------------------------------------
\* Shape

\* The actions of the ring buffer the proofs about it speak of.
LEMMA RingActions ==
  /\ Ring!Push => Queue!Push
  /\ Ring!FindFull => Queue!FindFull
  /\ Ring!Relent => Queue!Relent
  /\ Ring!Discard => Queue!Discard
  /\ Ring!Claim => Queue!Claim
  /\ Ring!Deliver => Queue!Deliver
<1>1. Ring!SlotOccupied = Queue!SlotOccupied
  BY DEF Ring!SlotOccupied, Queue!SlotOccupied, Ring!Items, Queue!Items
<1> QED
  BY <1>1 DEF Ring!Push, Ring!FindFull, Ring!Relent, Ring!Discard, Ring!Claim, Ring!Deliver,
       Queue!Push, Queue!FindFull, Queue!Relent, Queue!Discard, Queue!Claim, Queue!Deliver

KafkaNext == \E result \in KafkaOutcomes : KafkaPublish(result)

\* Every step of the pipeline is one of the ring buffer, or leaves it alone.
LEMMA RingStep == Shape /\ [Next]_vars => Queue!QueueInv'
<1> SUFFICES ASSUME Shape, [Next]_vars PROVE Queue!QueueInv'
  OBVIOUS
<1>1. [Queue!Next]_(Queue!vars)
  <2>1. CASE UNCHANGED queueVars
    BY <2>1 DEF Queue!vars, queueVars
  <2>2. CASE PushItem \/ MakeRoom \/ Pop \/ ProcessOne
    BY <2>2, RingActions DEF PushItem, MakeRoom, Pop, ProcessOne, Queue!Next
  <2> QED
    BY <2>1, <2>2 DEF Next, ConsumerStep, NewOrderSingle, OrderCancelRequest, ExecutionReport, Receive,
         KafkaPublish, ProducerDone, PopEmpty, CheckDone, LastPopEmpty, vars
<1> QED
  BY <1>1, Queue!QueueStep DEF Shape

\* A session step: what is sent, published or put on the ring.
LEMMA SessionStep == Shape /\ [Next]_vars => SessionOK' /\ RingOrder'
<1> SUFFICES ASSUME Shape, [Next]_vars PROVE SessionOK' /\ RingOrder'
  OBVIOUS
<1>1. /\ Len(sent) \in Nat /\ Len(onRing) \in Nat /\ pushed \in Nat
      /\ sent \in Seq(Event) /\ kafka \in Seq(Positions) /\ onRing \in Seq(Positions)
      /\ exchange \in [Ids -> Nat]
      /\ \A i \in 1 .. Len(onRing) : onRing[i] \in Positions
  BY DEF Shape, SessionOK, Queue!QueueInv, Queue!QueueTypeOK
<1>2. ASSUME NEW event \in Event, Receive(event), exchange' \in [Ids -> Nat]
      PROVE  SessionOK' /\ RingOrder'
  <2>1. /\ sent' \in Seq(Event) /\ Len(sent') = Len(sent) + 1 /\ session' = "publish"
        /\ UNCHANGED <<kafka, onRing, pushed>>
    BY <1>1, <1>2 DEF Receive, queueVars
  <2>2. Positions \subseteq Positions' /\ Len(sent') \in Positions'
    BY <1>1, <2>1 DEF Positions
  <2>3. kafka \in Seq(Positions') /\ onRing \in Seq(Positions')
    BY <1>1, <2>2, SeqMonotonic
  <2>4. \A i \in 1 .. Len(onRing) : onRing[i] < Len(sent')
    BY <1>1, <2>1 DEF Positions
  <2> QED
    BY <1>2, <2>1, <2>2, <2>3, <2>4 DEF Shape, SessionOK, RingOrder
<1>3. ASSUME NEW id \in Ids, NEW qty \in Qtys, NewOrderSingle(id, qty)
      PROVE  SessionOK' /\ RingOrder'
  <2>1. [kind |-> "New", id |-> id, qty |-> qty] \in Event /\ exchange' \in [Ids -> Nat]
    BY <1>1, <1>3, LiveQtyAssumption DEF NewOrderSingle, Event
  <2> QED
    BY <1>2, <1>3, <2>1 DEF NewOrderSingle
<1>4. ASSUME NEW id \in Ids, NEW qty \in Qtys, ExecutionReport(id, qty)
      PROVE  SessionOK' /\ RingOrder'
  <2>1. [kind |-> "Execution", id |-> id, qty |-> qty] \in Event
    BY LiveQtyAssumption DEF Event
  <2>2. exchange[id] - qty \in Nat
    BY <1>1, <1>4, LiveQtyAssumption DEF ExecutionReport
  <2>3. exchange' \in [Ids -> Nat]
    BY <1>1, <1>4, <2>2 DEF ExecutionReport
  <2> QED
    BY <1>2, <1>4, <2>1, <2>3 DEF ExecutionReport
<1>5. ASSUME NEW id \in Ids, OrderCancelRequest(id)
      PROVE  SessionOK' /\ RingOrder'
  <2>1. [kind |-> "Cancel", id |-> id, qty |-> 0] \in Event /\ exchange' \in [Ids -> Nat]
    BY <1>1, <1>5 DEF OrderCancelRequest, Event
  <2> QED
    BY <1>2, <1>5, <2>1 DEF OrderCancelRequest
<1>6. ASSUME NEW result \in KafkaOutcomes, KafkaPublish(result)
      PROVE  SessionOK' /\ RingOrder'
  <2>1. kafka' \in Seq(Positions)
    BY <1>1, <1>6 DEF KafkaPublish, Shape, RingOrder
  <2> QED
    BY <1>6, <2>1 DEF KafkaPublish, Shape, SessionOK, RingOrder, queueVars, Positions
<1>7. CASE PushItem
  <2>1. /\ onRing' \in Seq(Positions) /\ Len(onRing') = Len(onRing) + 1
        /\ \A i \in 1 .. Len(onRing) : onRing'[i] = onRing[i]
        /\ onRing'[Len(onRing) + 1] = Len(sent)
    BY <1>1, <1>7 DEF PushItem, Shape, RingOrder
  <2>2. /\ pushed' = pushed + 1 /\ session' = "idle"
        /\ UNCHANGED <<exchange, sent, kafka>>
    BY <1>7 DEF PushItem, Ring!Push
  <2>3. \A i, j \in 1 .. Len(onRing') : i < j => onRing'[i] < onRing'[j]
    <3> TAKE i, j \in 1 .. Len(onRing')
    <3>1. HAVE i < j
    <3>2. i \in 1 .. Len(onRing) /\ (j \in 1 .. Len(onRing) \/ j = Len(onRing) + 1)
      BY <1>1, <2>1, <3>1
    <3> QED
      BY <1>7, <2>1, <3>1, <3>2 DEF PushItem, Shape, RingOrder
  <2> QED
    BY <2>1, <2>2, <2>3 DEF Shape, SessionOK, RingOrder, Positions
<1>8. CASE UNCHANGED <<exchange, sent, kafka, onRing, pushed>> /\ session' \in {session, "done"}
  BY <1>8 DEF Shape, SessionOK, RingOrder, Positions
<1>9. CASE MakeRoom \/ ProducerDone \/ ConsumerStep \/ UNCHANGED vars
  <2>1. UNCHANGED <<exchange, sent, kafka, onRing, pushed>> /\ session' \in {session, "done"}
    BY <1>9 DEF MakeRoom, Ring!FindFull, Ring!Relent, Ring!Discard, ProducerDone, ConsumerStep, Pop,
         Ring!Claim, ProcessOne, Ring!Deliver, PopEmpty, CheckDone, LastPopEmpty, vars, sessionVars, queueVars
  <2> QED
    BY <1>8, <2>1
<1> QED
  BY <1>3, <1>4, <1>5, <1>6, <1>7, <1>9 DEF Next

\* Where an item stands, its event has been sent.
LEMMA ItemPositions ==
  ASSUME Shape
  PROVE  /\ DOMAIN queue = 1 .. Len(queue) /\ DOMAIN held = 1 .. Len(held)
         /\ DOMAIN delivered = 1 .. Len(delivered) /\ DOMAIN sent = Positions
         /\ DOMAIN skipped = 1 .. Len(skipped)
         /\ \A i \in 1 .. Len(queue) : queue[i] \in 0 .. pushed - 1
         /\ \A i \in 1 .. Len(held) : held[i] \in 0 .. pushed - 1
         /\ \A i \in 1 .. Len(delivered) : delivered[i] \in 0 .. pushed - 1
         /\ \A i \in 1 .. Len(discarded) : discarded[i] \in 0 .. pushed - 1
         /\ \A item \in 0 .. pushed - 1 : At(item) \in Positions
<1>1. /\ queue \in Seq(Nat) /\ held \in Seq(Nat) /\ delivered \in Seq(Nat) /\ discarded \in Seq(Nat)
      /\ pushed \in Nat /\ Len(queue) <= pushed /\ sent \in Seq(Event) /\ skipped \in Seq(Positions)
  BY DEF Shape, Queue!QueueInv, Queue!QueueTypeOK, SessionOK, ConsumerOK
<1>2. pushed - Len(queue) \in Nat
  BY <1>1
<1>3. /\ \A i \in 1 .. Len(queue) : queue[i] = pushed - Len(queue) + i - 1
      /\ \A i \in 1 .. Len(held) : held[i] < pushed - Len(queue)
      /\ \A i \in 1 .. Len(delivered) : delivered[i] < pushed - Len(queue)
      /\ \A i \in 1 .. Len(discarded) : discarded[i] < pushed - Len(queue)
  BY DEF Shape, Queue!QueueInv, Queue!QueueInOrder, Queue!Front
<1>4. \A i \in 1 .. Len(queue) : queue[i] \in 0 .. pushed - 1
  BY <1>1, <1>2, <1>3
<1>5. \A s \in {held, delivered, discarded} : \A i \in 1 .. Len(s) : s[i] \in 0 .. pushed - 1
  <2> TAKE s \in {held, delivered, discarded}
  <2> TAKE i \in 1 .. Len(s)
  <2>1. s[i] \in Nat /\ s[i] < pushed - Len(queue)
    BY SMTT(30), <1>1, <1>3
  <2> QED
    BY <1>1, <2>1
<1>6. \A item \in 0 .. pushed - 1 : At(item) \in Positions
  <2> TAKE item \in 0 .. pushed - 1
  <2>1. item + 1 \in 1 .. Len(onRing) /\ onRing \in Seq(Positions)
    BY <1>1 DEF Shape, RingOrder, SessionOK
  <2> QED
    BY <2>1, ElementOfSeq DEF At
<1> QED
  BY <1>1, <1>4, <1>5, <1>6 DEF Positions

\* Later items are later events.
LEMMA RingRises ==
  ASSUME Shape, NEW a \in 0 .. pushed - 1, NEW b \in 0 .. pushed - 1, a < b
  PROVE  At(a) < At(b)
<1>1. a + 1 \in 1 .. Len(onRing) /\ b + 1 \in 1 .. Len(onRing) /\ a + 1 < b + 1
  BY DEF Shape, RingOrder, Queue!QueueInv, Queue!QueueTypeOK
<1> QED
  BY <1>1 DEF Shape, RingOrder, At

\* The three places of an event, by the items that stand there.
LEMMA Places ==
  ASSUME Shape
  PROVE  /\ Processed = {At(delivered[i]) : i \in 1 .. Len(delivered)}
         /\ OnItsWay = {At(queue[i]) : i \in 1 .. Len(queue)} \cup {At(held[i]) : i \in 1 .. Len(held)}
              \cup (IF session \in {"publish", "push"} THEN {Len(sent)} ELSE {})
         /\ Lost = Positions \ (Processed \cup OnItsWay)
BY ItemPositions DEF Processed, OnItsWay, Lost, At

\* What has been processed or is on its way has been sent.
LEMMA PlacesAreSent ==
  ASSUME Shape
  PROVE  Processed \subseteq Positions /\ OnItsWay \subseteq Positions
<1>1. \A i \in 1 .. Len(delivered) : At(delivered[i]) \in Positions
  BY ItemPositions
<1>2. \A i \in 1 .. Len(queue) : At(queue[i]) \in Positions
  BY ItemPositions
<1>3. \A i \in 1 .. Len(held) : At(held[i]) \in Positions
  BY ItemPositions
<1>4. session \in {"publish", "push"} => Len(sent) \in Positions
  BY DEF Shape, RingOrder
<1> QED
  BY <1>1, <1>2, <1>3, <1>4, Places

\* What has been processed is not later than Frontier, what is on its way is.
LEMMA FrontierDivides ==
  ASSUME Shape
  PROVE  /\ Frontier \in 0 .. Len(sent) /\ Len(sent) \in Nat
         /\ Processed \subseteq Positions /\ OnItsWay \subseteq Positions
         /\ \A p \in Processed : p <= Frontier
         /\ \A p \in OnItsWay : Frontier < p
<1> DEFINE n == Len(delivered)
<1>1. /\ n \in Nat /\ Len(sent) \in Nat /\ delivered \in Seq(Nat)
      /\ queue \in Seq(Nat) /\ held \in Seq(Nat) /\ pushed \in Nat
      /\ session \in {"publish", "push"} => Len(sent) \in Positions
  BY DEF Shape, Queue!QueueInv, Queue!QueueTypeOK, SessionOK, RingOrder
<1>2. CASE delivered = <<>>
  <2>1. n = 0
    BY <1>2
  <2>2. Frontier = 0 /\ Processed = {}
    BY <1>2, <2>1, Places DEF Frontier
  <2> QED
    BY <1>1, <2>2, PlacesAreSent DEF Positions
<1>3. CASE delivered # <<>>
  <2>1. n \in 1 .. n
    BY <1>1, <1>3, EmptySeq
  <2>2. Frontier = At(delivered[n]) /\ delivered[n] \in 0 .. pushed - 1
    BY <1>3, <2>1, ItemPositions DEF Frontier
  <2>3. \A i \in 1 .. n : At(delivered[i]) <= Frontier
    <3> TAKE i \in 1 .. n
    <3>1. CASE i = n
      BY <2>2, <3>1, ItemPositions DEF Positions
    <3>2. CASE i < n
      <4>1. delivered[i] < delivered[n] /\ delivered[i] \in 0 .. pushed - 1
        BY <2>1, <3>2, ItemPositions DEF Shape, Queue!QueueInv, Queue!DeliveredInOrder
      <4>2. At(delivered[i]) < At(delivered[n])
        BY <2>2, <4>1, RingRises
      <4> QED
        BY <2>2, <4>1, <4>2, ItemPositions DEF Positions
    <3> QED
      BY <1>1, <3>1, <3>2
  <2>4. \A i \in 1 .. Len(held) : Frontier < At(held[i])
    <3> TAKE i \in 1 .. Len(held)
    <3>1. delivered[n] < held[i] /\ held[i] \in 0 .. pushed - 1
      BY <2>1, ItemPositions DEF Shape, Queue!QueueInv, Queue!DeliveredInOrder
    <3> QED
      BY <2>2, <3>1, RingRises
  <2>5. \A i \in 1 .. Len(queue) : Frontier < At(queue[i])
    <3> TAKE i \in 1 .. Len(queue)
    <3>1. delivered[n] < pushed - Len(queue) /\ queue[i] = pushed - Len(queue) + i - 1
      BY <2>1 DEF Shape, Queue!QueueInv, Queue!QueueInOrder, Queue!Front
    <3>2. queue[i] \in 0 .. pushed - 1
      BY ItemPositions
    <3>3. delivered[n] < queue[i]
      <4>1. pushed \in Nat /\ Len(queue) \in Nat /\ delivered[n] \in Nat
        BY <1>1, <2>2
      <4> QED
        BY <3>1, <4>1
    <3> QED
      BY <2>2, <3>2, <3>3, RingRises
  <2>6. session \in {"publish", "push"} => Frontier < Len(sent)
    <3>1. delivered[n] + 1 \in 1 .. Len(onRing)
      BY <1>1, <2>2 DEF Shape, RingOrder
    <3> QED
      BY <2>2, <3>1 DEF Shape, RingOrder, At
  <2>7. Frontier \in Positions
    BY <2>2, ItemPositions
  <2>8. \A p \in Processed : p <= Frontier
    BY <2>3, Places
  <2>9. \A p \in OnItsWay : Frontier < p
    BY <2>4, <2>5, <2>6, Places
  <2> QED
    BY <1>1, <2>7, <2>8, <2>9, PlacesAreSent DEF Positions
<1> QED
  BY <1>2, <1>3

-----------------------------------------------------------------------------
\* One event processed

\* The event taken off the ring is the next one processed; those between it and
\* the last one are lost, and no others become so.
LEMMA ProcessEffect ==
  ASSUME Shape, ProcessOne
  PROVE  LET at == At(held[1])
         IN /\ at \in Positions /\ Frontier < at /\ at \notin Processed
            /\ delivered' \in Seq(Nat) /\ Len(delivered') = Len(delivered) + 1
            /\ Processed' = Processed \cup {at}
            /\ Frontier' = at /\ Lost' = Lost /\ at \notin Lost
            /\ \A p \in Positions : Frontier < p /\ p < at => p \in Lost
<1> DEFINE at == At(held[1])
           n == Len(delivered)
<1>1. /\ Len(held) = 1 /\ held[1] \in Nat
      /\ delivered' \in Seq(Nat) /\ Len(delivered') = n + 1
      /\ \A i \in 1 .. n : delivered'[i] = delivered[i]
      /\ delivered'[n + 1] = held[1]
  BY RingActions, Queue!DeliverAppends DEF Shape, ProcessOne
<1>2. /\ n \in Nat /\ 1 \in 1 .. Len(held)
      /\ UNCHANGED <<sent, onRing, session, queue, pushed>> /\ held' = <<>>
  BY <1>1 DEF ProcessOne, Ring!Deliver, sessionVars, Shape, Queue!QueueInv, Queue!QueueTypeOK
<1>3. held[1] \in 0 .. pushed - 1 /\ at \in Positions
  BY <1>2, ItemPositions
<1>4. at \in OnItsWay /\ Frontier < at /\ at \notin Processed
  <2>1. at \in OnItsWay
    BY <1>2, Places
  <2> QED
    BY <2>1, <1>3, FrontierDivides DEF Positions
<1>5. Frontier' = at
  <2>1. delivered' # <<>>
    BY <1>1, <1>2
  <2> QED
    BY <1>1, <1>2, <2>1 DEF Frontier, At
<1>6. Processed' = Processed \cup {at}
  <2>1. Processed' = {At(delivered'[i]) : i \in 1 .. n + 1}
    BY <1>1, <1>2 DEF Processed, At
  <2>2. 1 .. n + 1 = (1 .. n) \cup {n + 1}
    BY <1>2
  <2>3. \A i \in 1 .. n : At(delivered'[i]) = At(delivered[i])
    BY <1>1
  <2>4. At(delivered'[n + 1]) = at
    BY <1>1
  <2> QED
    BY <2>1, <2>2, <2>3, <2>4, Places
<1>7. OnItsWay' = {At(queue[i]) : i \in 1 .. Len(queue)}
           \cup (IF session \in {"publish", "push"} THEN {Len(sent)} ELSE {})
  <2>1. DOMAIN held' = {}
    BY <1>2
  <2>2. {onRing'[held'[i] + 1] : i \in DOMAIN held'} = {}
    BY <2>1
  <2>3. {onRing'[queue'[i] + 1] : i \in DOMAIN queue'} = {At(queue[i]) : i \in 1 .. Len(queue)}
    BY <1>2, ItemPositions DEF At
  <2> QED
    BY <1>2, <2>2, <2>3 DEF OnItsWay
<1>8. OnItsWay = OnItsWay' \cup {at}
  <2>1. {At(held[i]) : i \in 1 .. Len(held)} = {at}
    <3>1. 1 .. Len(held) = {1}
      BY <1>1
    <3> QED
      BY <3>1
  <2> QED
    BY <2>1, <1>7, Places
<1>9. Lost' = Lost /\ at \notin Lost
  <2>1. Lost' = DOMAIN sent \ (Processed' \cup OnItsWay')
    BY <1>2 DEF Lost
  <2> QED
    BY <1>4, <1>6, <1>8, <2>1 DEF Lost
<1>10. ASSUME NEW p \in Positions, Frontier < p, p < at
      PROVE  p \in Lost
  <2>1. p \notin Processed
    BY <1>3, <1>10, FrontierDivides DEF Positions
  <2>2. \A i \in 1 .. Len(queue) : at < At(queue[i]) /\ At(queue[i]) \in Positions
    <3> TAKE i \in 1 .. Len(queue)
    <3>1. held[1] < pushed - Len(queue) /\ queue[i] = pushed - Len(queue) + i - 1
      BY <1>2 DEF Shape, Queue!QueueInv, Queue!QueueInOrder, Queue!Front
    <3>2. held[1] < queue[i] /\ queue[i] \in 0 .. pushed - 1
      <4>1. pushed \in Nat /\ Len(queue) \in Nat
        BY DEF Shape, Queue!QueueInv, Queue!QueueTypeOK
      <4> QED
        BY <1>3, <3>1, <4>1, ItemPositions
    <3> QED
      BY <1>3, <3>2, RingRises, ItemPositions
  <2>3. session \in {"publish", "push"} => at < Len(sent)
    <3>1. held[1] + 1 \in 1 .. Len(onRing)
      BY <1>3 DEF Shape, RingOrder, Queue!QueueInv, Queue!QueueTypeOK
    <3> QED
      BY <3>1 DEF Shape, RingOrder, At
  <2>4. p \notin OnItsWay'
    BY <1>3, <1>10, <2>2, <2>3, <1>7 DEF Positions
  <2> QED
    BY <1>3, <1>8, <1>10, <2>1, <2>4, Places DEF Positions
<1> QED
  BY <1>1, <1>3, <1>4, <1>5, <1>6, <1>9, <1>10

\* What the book makes of an event, when it does not reject it.
LEMMA ProcessedEvent ==
  ASSUME Shape, ProcessOne
  PROVE  LET event == sent[At(held[1])]
         IN /\ event \in Event
            /\ \/ Rejects(event) /\ skipped' = Append(skipped, At(held[1])) /\ book' = book
               \/ /\ ~Rejects(event) /\ skipped' = skipped
                  /\ Applied(event) \in Nat
                  /\ book' = [book EXCEPT ![event.id] = Applied(event)]
            /\ consumer' = "pop" /\ processed' = processed + 1 /\ held' = <<>>
            /\ UNCHANGED <<exchange, sent, kafka, onRing, session, queue, pushed, discarded>>
<1> DEFINE event == sent[At(held[1])]
<1>1. event \in Event
  BY ProcessEffect, ElementOfSeq DEF Shape, SessionOK, Positions
<1>2. event.id \in Ids /\ event.qty \in Nat /\ event.kind \in {"New", "Cancel", "Execution"}
  BY <1>1 DEF Event
<1>3. ~Rejects(event) => Applied(event) \in Nat
  <2>1. book[event.id] \in Nat
    BY <1>2 DEF Shape, ConsumerOK
  <2> HIDE DEF event
  <2> QED
    BY <1>2, <2>1 DEF Rejects, Applied
<1> QED
  BY <1>1, <1>3 DEF ProcessOne, At, CountEvent, sessionVars, Ring!Deliver

\* A consumer step: what is popped and applied, and when the consumer stops.
LEMMA ConsumerKeeps == Shape /\ [Next]_vars => ConsumerOK'
<1> SUFFICES ASSUME Shape, [Next]_vars PROVE ConsumerOK'
  OBVIOUS
<1>1. /\ skipped \in Seq(Positions) /\ book \in [Ids -> Nat] /\ Len(delivered) \in Nat
      /\ processed = Len(delivered) /\ Len(sent) \in Nat
  BY DEF Shape, ConsumerOK, SessionOK, Queue!QueueInv, Queue!QueueTypeOK
<1>2. ASSUME NEW event, Receive(event)
      PROVE  ConsumerOK'
  <2>1. Len(sent') = Len(sent) + 1 /\ session # "done"
    BY <1>2 DEF Receive, Shape, SessionOK
  <2>2. Positions \subseteq Positions'
    BY <1>1, <2>1 DEF Positions
  <2>3. skipped \in Seq(Positions')
    BY <1>1, <2>2, SeqMonotonic
  <2> QED
    BY <1>2, <2>1, <2>3 DEF Receive, queueVars, consumerVars, Shape, ConsumerOK
<1>3. CASE KafkaNext
  BY <1>3 DEF KafkaNext, KafkaPublish, queueVars, consumerVars, Shape, ConsumerOK, Positions
<1>4. CASE PushItem
  BY <1>4 DEF PushItem, Ring!Push, consumerVars, Shape, ConsumerOK, Positions
<1>5. CASE MakeRoom
  BY <1>5 DEF MakeRoom, Ring!FindFull, Ring!Relent, Ring!Discard, sessionVars, consumerVars,
       Shape, ConsumerOK, Positions
<1>6. CASE Pop
  BY <1>6 DEF Pop, Ring!Claim, sessionVars, Shape, ConsumerOK, Positions
<1>7. CASE ProcessOne
  <2>1. At(held[1]) \in Positions /\ Len(delivered') = Len(delivered) + 1
    BY <1>7, ProcessEffect
  <2>2. skipped' \in Seq(Positions)
    <3>1. Append(skipped, At(held[1])) \in Seq(Positions)
      BY <1>1, <2>1, AppendProperties
    <3> QED
      BY <1>1, <1>7, <3>1, ProcessedEvent
  <2>3. book' \in [Ids -> Nat]
    BY <1>1, <1>7, ProcessedEvent
  <2> QED
    BY <1>1, <1>7, <2>1, <2>2, <2>3, ProcessedEvent DEF ConsumerOK, Positions
<1>8. CASE PopEmpty \/ CheckDone \/ LastPopEmpty
  BY <1>8 DEF PopEmpty, CheckDone, AfterCheck, LastPopEmpty, sessionVars, queueVars, Shape, ConsumerOK, Positions
<1>9. CASE ProducerDone \/ UNCHANGED vars
  BY <1>9 DEF ProducerDone, vars, sessionVars, queueVars, consumerVars, Shape, ConsumerOK, Positions
<1> QED
  BY <1>2, <1>3, <1>4, <1>5, <1>6, <1>7, <1>8, <1>9
     DEF Next, ConsumerStep, NewOrderSingle, OrderCancelRequest, ExecutionReport, KafkaNext

\* Every step of the threads keeps the shape of the queue, the session and the consumer.
LEMMA ShapeStep == Shape /\ [Next]_vars => Shape'
  BY RingStep, SessionStep, ConsumerKeeps DEF Shape

\* The pipeline starts in that shape.
LEMMA ShapeInit == Init => Shape
<1> SUFFICES ASSUME Init PROVE Shape
  OBVIOUS
<1>1. Queue!QueueInv
  BY Queue!QueueInit DEF Init, Ring!Init, Queue!Init
<1>2. SessionOK /\ RingOrder /\ ConsumerOK
  BY DEF Init, Ring!Init, SessionOK, RingOrder, ConsumerOK, Positions
<1> QED
  BY <1>1, <1>2 DEF Shape

\* processed counts the events behind Frontier.
CountOK == IsFiniteSet(Processed) /\ Cardinality(Processed) = processed

\* Only the consumer's delivery changes what has been processed.
LEMMA ProcessedStays ==
  ASSUME Shape, [Next]_vars, ~ProcessOne
  PROVE  /\ Processed' = Processed /\ Frontier' = Frontier
         /\ UNCHANGED <<delivered, book, skipped, processed>>
<1>1. UNCHANGED <<delivered, book, skipped, processed>>
  BY DEF Next, ConsumerStep, NewOrderSingle, OrderCancelRequest, ExecutionReport, Receive, KafkaPublish,
       PushItem, Ring!Push, MakeRoom, Ring!FindFull, Ring!Relent, Ring!Discard, ProducerDone, Pop, Ring!Claim,
       PopEmpty, CheckDone, LastPopEmpty, vars, queueVars, consumerVars, sessionVars
<1>2. \A item \in 0 .. pushed - 1 : At(item)' = At(item)
  <2>1. onRing' = onRing \/ onRing' = Append(onRing, Len(sent))
    BY DEF Next, ConsumerStep, NewOrderSingle, OrderCancelRequest, ExecutionReport, Receive, KafkaPublish,
         PushItem, MakeRoom, ProducerDone, Pop, PopEmpty, CheckDone, LastPopEmpty, vars, sessionVars
  <2>2. Len(onRing) = pushed /\ pushed \in Nat /\ onRing \in Seq(Positions)
    BY DEF Shape, RingOrder, SessionOK, Queue!QueueInv, Queue!QueueTypeOK
  <2> QED
    BY <2>1, <2>2 DEF At
<1>3. \A i \in 1 .. Len(delivered) : onRing'[delivered[i] + 1] = At(delivered[i])
  BY <1>2, ItemPositions DEF At
<1>4. Processed' = Processed
  <2>1. Processed' = {onRing'[delivered[i] + 1] : i \in 1 .. Len(delivered)}
    BY <1>1, ItemPositions DEF Processed
  <2> QED
    BY <1>3, <2>1, Places
<1>5. Frontier' = Frontier
  <2>1. delivered # <<>> => Len(delivered) \in 1 .. Len(delivered)
    BY EmptySeq DEF Shape, Queue!QueueInv, Queue!QueueTypeOK
  <2> QED
    BY <1>1, <1>3, <2>1 DEF Frontier, At
<1> QED
  BY <1>1, <1>4, <1>5

\* Every step keeps events_processed_ the number of events processed.
LEMMA CountStep == Shape /\ CountOK /\ [Next]_vars => CountOK'
<1> SUFFICES ASSUME Shape, CountOK, [Next]_vars PROVE CountOK'
  OBVIOUS
<1>1. CASE ProcessOne
  <2>1. /\ Processed' = Processed \cup {At(held[1])} /\ At(held[1]) \notin Processed
        /\ processed' = processed + 1
    BY <1>1, ProcessEffect, ProcessedEvent
  <2> QED
    BY <2>1, FS_AddElement DEF CountOK
<1>2. CASE ~ProcessOne
  BY <1>2, ProcessedStays DEF CountOK
<1> QED
  BY <1>1, <1>2

\* Once lost, an event stays lost.
LEMMA LostStays ==
  ASSUME Shape, [Next]_vars
  PROVE  Lost \subseteq Lost'
<1>1. CASE ProcessOne
  BY <1>1, ProcessEffect
<1>2. CASE ~ProcessOne
  <2> DEFINE Waiting == {queue[i] : i \in 1 .. Len(queue)} \cup {held[i] : i \in 1 .. Len(held)}
             InHand == IF session \in {"publish", "push"} THEN {Len(sent)} ELSE {}
  <2>1. OnItsWay = {At(item) : item \in Waiting} \cup InHand
    BY Places
  <2>2. Waiting \subseteq 0 .. pushed - 1
    BY ItemPositions
  <2>3. OnItsWay' = {onRing'[item + 1] : item \in Waiting'} \cup InHand'
    <3>1. DOMAIN queue' = 1 .. Len(queue') /\ DOMAIN held' = 1 .. Len(held')
      BY RingStep DEF Queue!QueueInv, Queue!QueueTypeOK
    <3> QED
      BY <3>1 DEF OnItsWay
  <2>4. SUFFICES ASSUME NEW p \in Lost
                 PROVE  p \in Positions' /\ p \notin OnItsWay'
    <3>1. Processed' = Processed
      BY <1>2, ProcessedStays
    <3>2. DOMAIN sent' = Positions'
      BY SessionStep DEF SessionOK, Positions
    <3> QED
      BY <2>4, <3>1, <3>2 DEF Lost
  <2>5. /\ p \in Positions /\ p \notin InHand
        /\ \A item \in Waiting : p # At(item)
    BY <2>1, Places
  <2>6. /\ queue \in Seq(Nat) /\ held \in Seq(Nat) /\ pushed \in Nat /\ Len(sent) \in Nat
        /\ onRing \in Seq(Positions) /\ Len(onRing) = pushed /\ sent \in Seq(Event)
    BY DEF Shape, Queue!QueueInv, Queue!QueueTypeOK, SessionOK, RingOrder
  <2>7. ASSUME UNCHANGED <<sent, onRing>>, Waiting' \subseteq Waiting, InHand' \subseteq InHand
        PROVE  p \in Positions' /\ p \notin OnItsWay'
    BY <2>3, <2>5, <2>7 DEF At, Positions
  <2>8. ASSUME NEW event, Receive(event)
        PROVE  p \in Positions' /\ p \notin OnItsWay'
    <3>1. /\ Len(sent') = Len(sent) + 1 /\ Waiting' = Waiting /\ onRing' = onRing
          /\ InHand' = {Len(sent) + 1}
      BY <2>6, <2>8 DEF Receive, queueVars
    <3>2. p \in Positions' /\ p # Len(sent) + 1
      BY <2>5, <2>6, <3>1 DEF Positions
    <3> HIDE DEF Waiting, InHand
    <3> QED
      BY <2>3, <2>5, <3>1, <3>2 DEF At
  <2>9. CASE PushItem
    <3>1. /\ queue' \in Seq(Nat) /\ Len(queue') = Len(queue) + 1
          /\ \A i \in 1 .. Len(queue) : queue'[i] = queue[i]
          /\ queue'[Len(queue) + 1] = pushed
      BY <2>6, <2>9 DEF PushItem, Ring!Push
    <3>2. \A item \in Waiting' : item \in Waiting \/ item = pushed
      <4>1. \A i \in 1 .. Len(queue') : queue'[i] \in Waiting \/ queue'[i] = pushed
        <5> TAKE i \in 1 .. Len(queue')
        <5>1. i \in 1 .. Len(queue) \/ i = Len(queue) + 1
          BY <2>6, <3>1
        <5> QED
          BY <3>1, <5>1
      <4>2. held' = held
        BY <2>9 DEF PushItem, Ring!Push
      <4> QED
        BY <4>1, <4>2
    <3>3. /\ \A item \in 0 .. pushed - 1 : onRing'[item + 1] = At(item)
          /\ onRing'[pushed + 1] = Len(sent)
      BY <2>6, <2>9 DEF PushItem, At
    <3>4. InHand' = {} /\ p # Len(sent) /\ sent' = sent
      BY <2>5, <2>9 DEF PushItem
    <3>5. \A item \in Waiting' : onRing'[item + 1] # p
      <4> TAKE item \in Waiting'
      <4>1. CASE item \in Waiting
        BY <2>2, <2>5, <3>3, <4>1
      <4>2. CASE item = pushed
        BY <3>3, <3>4, <4>2
      <4> QED
        BY <3>2, <4>1, <4>2
    <3> QED
      BY <2>3, <2>5, <3>4, <3>5 DEF Positions
  <2>10. CASE KafkaNext \/ ProducerDone \/ PopEmpty \/ CheckDone \/ LastPopEmpty \/ UNCHANGED vars
    BY <2>7, <2>10 DEF KafkaNext, KafkaPublish, ProducerDone, PopEmpty, CheckDone, LastPopEmpty, vars,
         sessionVars, queueVars
  <2>11. ASSUME queue # <<>>, queue' = Tail(queue), held' \in {held, <<Head(queue)>>}
         PROVE  Waiting' \subseteq Waiting
    <3>1. /\ Tail(queue) \in Seq(Nat) /\ Len(Tail(queue)) = Len(queue) - 1
          /\ \A i \in 1 .. Len(Tail(queue)) : Tail(queue)[i] = queue[i + 1]
          /\ Len(queue) \in Nat \ {0} /\ Head(queue) = queue[1]
      BY <2>6, <2>11, HeadTailProperties, EmptySeq
    <3>2. \A i \in 1 .. Len(queue') : queue'[i] \in Waiting
      <4> TAKE i \in 1 .. Len(queue')
      <4>1. i + 1 \in 1 .. Len(queue) /\ queue'[i] = queue[i + 1]
        BY <2>11, <3>1
      <4> QED
        BY <4>1
    <3>3. \A i \in 1 .. Len(held') : held'[i] \in Waiting
      <4>1. CASE held' = held
        BY <4>1
      <4>2. CASE held' = <<Head(queue)>>
        <5>1. 1 \in 1 .. Len(queue) /\ Len(held') = 1 /\ held'[1] = queue[1]
          BY <3>1, <4>2
        <5> QED
          BY <5>1
      <4> QED
        BY <2>11, <4>1, <4>2
    <3> QED
      BY <3>2, <3>3
  <2>12. CASE Pop
    BY <2>7, <2>11, <2>12 DEF Pop, Ring!Claim, sessionVars
  <2>13. CASE MakeRoom
    <3>1. Waiting' \subseteq Waiting
      BY <2>11, <2>13 DEF MakeRoom, Ring!FindFull, Ring!Relent, Ring!Discard
    <3> QED
      BY <2>7, <2>13, <3>1 DEF MakeRoom, sessionVars
  <2> QED
    BY <1>2, <2>8, <2>9, <2>10, <2>12, <2>13
       DEF Next, ConsumerStep, NewOrderSingle, OrderCancelRequest, ExecutionReport, KafkaNext
<1> QED
  BY <1>1, <1>2

-----------------------------------------------------------------------------
\* What the book should hold

\* The quantities open at the exchange after every event sent so far.
Histories == [0 .. Len(sent) -> [Ids -> Nat]]

\* A New opens what was never open, an execution takes no more than is open, and
\* nothing but the events of an order changes it.
IsLedger(open) ==
  /\ \A id \in Ids : open[0][id] = 0
  /\ open[Len(sent)] = exchange
  /\ \A k \in Positions :
       /\ sent[k].kind = "New" => open[k - 1][sent[k].id] = 0 /\ open[k][sent[k].id] = sent[k].qty
       /\ sent[k].kind = "Cancel" => open[k][sent[k].id] = 0
       /\ sent[k].kind = "Execution" =>
            /\ sent[k].qty <= open[k - 1][sent[k].id]
            /\ open[k][sent[k].id] = open[k - 1][sent[k].id] - sent[k].qty
  /\ \A id \in Ids, j, k \in 0 .. Len(sent) :
       j <= k /\ (\A l \in Positions : j < l /\ l <= k => sent[l].id # id) => open[k][id] = open[j][id]

\* An order of which no event has been lost so far rests in the book with the
\* quantity it had at the exchange after the last event processed.
BookFollows(open) ==
  \A id \in Ids :
    (\A l \in Lost : sent[l].id = id => Frontier < l) => book[id] = open[Frontier][id]

BookOK == \E open \in Histories : IsLedger(open) /\ BookFollows(open)

\* A ledger goes on with every event sent.
LEMMA LedgerGrows ==
  ASSUME Shape, NEW open \in Histories, IsLedger(open),
         NEW event \in Event, Receive(event), exchange' \in [Ids -> Nat],
         \A id \in Ids : id # event.id => exchange'[id] = exchange[id],
         event.kind = "New" => ~Known(event.id) /\ exchange'[event.id] = event.qty,
         event.kind = "Cancel" => exchange'[event.id] = 0,
         event.kind = "Execution" => /\ event.qty <= exchange[event.id]
                                     /\ exchange'[event.id] = exchange[event.id] - event.qty
  PROVE  \E next \in Histories' :
           IsLedger(next)' /\ \A k \in 0 .. Len(sent) : next[k] = open[k]
<1> DEFINE n == Len(sent)
<1>0. PICK next : next = [k \in 0 .. n + 1 |-> IF k <= n THEN open[k] ELSE exchange']
  OBVIOUS
<1>1. /\ n \in Nat /\ Len(sent') = n + 1 /\ sent'[n + 1] = event
      /\ \A k \in Positions : sent'[k] = sent[k]
      /\ Positions' = Positions \cup {n + 1} /\ n + 1 \notin Positions
      /\ exchange \in [Ids -> Nat] /\ event.id \in Ids
  BY DEF Shape, SessionOK, Receive, Positions, Event
<1>2. /\ \A k \in 0 .. n : next[k] = open[k] /\ open[k] \in [Ids -> Nat]
      /\ next[n + 1] = exchange' /\ open[n] = exchange
  BY <1>0, <1>1 DEF Histories, IsLedger
<1>3. next \in Histories'
  BY <1>0, <1>1, <1>2 DEF Histories
<1>4. event.kind = "New" => exchange[event.id] = 0
  <2>1. SUFFICES ASSUME event.kind = "New" PROVE open[n][event.id] = open[0][event.id]
    BY <1>1, <1>2 DEF IsLedger
  <2>2. \A l \in Positions : sent[l].id # event.id
    BY <1>1, <2>1, ItemPositions DEF Known
  <2> QED
    BY <1>1, <2>2 DEF IsLedger
<1>5. ASSUME NEW k \in Positions'
      PROVE  /\ sent'[k].kind = "New" => next[k - 1][sent'[k].id] = 0 /\ next[k][sent'[k].id] = sent'[k].qty
             /\ sent'[k].kind = "Cancel" => next[k][sent'[k].id] = 0
             /\ sent'[k].kind = "Execution" =>
                  /\ sent'[k].qty <= next[k - 1][sent'[k].id]
                  /\ next[k][sent'[k].id] = next[k - 1][sent'[k].id] - sent'[k].qty
  <2>1. CASE k \in Positions
    <3>1. k \in 0 .. n /\ k - 1 \in 0 .. n
      BY <1>1, <2>1 DEF Positions
    <3>2. next[k] = open[k] /\ next[k - 1] = open[k - 1] /\ sent'[k] = sent[k]
      BY <1>1, <1>2, <2>1, <3>1
    <3> QED
      BY <2>1, <3>2 DEF IsLedger
  <2>2. CASE k = n + 1
    <3>1. n \in 0 .. n /\ k - 1 = n
      BY <1>1, <2>2
    <3>2. next[k] = exchange' /\ next[k - 1] = exchange /\ sent'[k] = event
      BY <1>1, <1>2, <2>2, <3>1
    <3> QED
      BY <1>4, <3>2
  <2> QED
    BY <1>1, <2>1, <2>2
<1>6. ASSUME NEW id \in Ids, NEW j \in 0 .. n + 1, NEW k \in 0 .. n + 1, j <= k,
             \A l \in Positions' : j < l /\ l <= k => sent'[l].id # id
      PROVE  next[k][id] = next[j][id]
  <2>1. ASSUME NEW m \in 0 .. n, j <= m, m <= k
        PROVE  next[m][id] = next[j][id]
    <3>1. \A l \in Positions : j < l /\ l <= m => sent[l].id # id
      BY <1>1, <1>6, <2>1 DEF Positions
    <3>2. j \in 0 .. n
      BY <1>1, <2>1
    <3> QED
      BY <1>2, <2>1, <3>1, <3>2 DEF IsLedger
  <2>2. CASE k \in 0 .. n
    BY <1>6, <2>1, <2>2
  <2>3. CASE k = n + 1 /\ j = n + 1
    BY <2>3
  <2>4. CASE k = n + 1 /\ j \in 0 .. n
    <3>1. event.id # id
      BY <1>1, <1>6, <2>4
    <3>2. next[k][id] = next[n][id]
      BY <1>1, <1>2, <2>4, <3>1
    <3>3. next[n][id] = next[j][id]
      BY <1>1, <2>1, <2>4
    <3> QED
      BY <3>2, <3>3
  <2> QED
    BY <1>1, <2>2, <2>3, <2>4
<1>7. IsLedger(next)'
  <2>1. \A id \in Ids : next[0][id] = 0
    BY <1>1, <1>2 DEF IsLedger
  <2>2. next[Len(sent')] = exchange'
    BY <1>1, <1>2
  <2> QED
    BY <1>1, <1>5, <1>6, <2>1, <2>2 DEF IsLedger
<1> QED
  BY <1>2, <1>3, <1>7

\* A step extends the open quantities after each event, and changes none of the earlier.
LEMMA LedgerStep ==
  ASSUME Shape, [Next]_vars, NEW open \in Histories, IsLedger(open)
  PROVE  \E next \in Histories' :
           IsLedger(next)' /\ \A k \in 0 .. Len(sent) : next[k] = open[k]
<1> DEFINE Goal == \E next \in Histories' :
                     IsLedger(next)' /\ \A k \in 0 .. Len(sent) : next[k] = open[k]
<1>1. exchange \in [Ids -> Nat] /\ exchange' \in [Ids -> Nat]
  BY SessionStep DEF Shape, SessionOK
<1>2. ASSUME NEW id \in Ids, NEW qty \in Qtys, NewOrderSingle(id, qty) PROVE Goal
  <2> DEFINE event == [kind |-> "New", id |-> id, qty |-> qty]
  <2>1. event \in Event /\ Receive(event) /\ ~Known(id)
    BY <1>2, LiveQtyAssumption DEF NewOrderSingle, Event
  <2>2. exchange'[id] = qty /\ \A other \in Ids : other # id => exchange'[other] = exchange[other]
    BY <1>1, <1>2 DEF NewOrderSingle
  <2> QED
    BY <1>1, <2>1, <2>2, LedgerGrows
<1>3. ASSUME NEW id \in Ids, NEW qty \in Qtys, ExecutionReport(id, qty) PROVE Goal
  <2> DEFINE event == [kind |-> "Execution", id |-> id, qty |-> qty]
  <2>1. event \in Event /\ Receive(event) /\ qty <= exchange[id]
    BY <1>3, LiveQtyAssumption DEF ExecutionReport, Event
  <2>2. /\ exchange'[id] = exchange[id] - qty
        /\ \A other \in Ids : other # id => exchange'[other] = exchange[other]
    BY <1>1, <1>3 DEF ExecutionReport
  <2> QED
    BY <1>1, <2>1, <2>2, LedgerGrows
<1>4. ASSUME NEW id \in Ids, OrderCancelRequest(id) PROVE Goal
  <2> DEFINE event == [kind |-> "Cancel", id |-> id, qty |-> 0]
  <2>1. event \in Event /\ Receive(event)
    BY <1>4 DEF OrderCancelRequest, Event
  <2>2. exchange'[id] = 0 /\ \A other \in Ids : other # id => exchange'[other] = exchange[other]
    BY <1>1, <1>4 DEF OrderCancelRequest
  <2> QED
    BY <1>1, <2>1, <2>2, LedgerGrows
<1>5. CASE UNCHANGED <<exchange, sent>>
  <2>1. open \in Histories' /\ IsLedger(open)'
    BY <1>5 DEF Histories, IsLedger, Positions
  <2> QED
    BY <2>1
<1>6. CASE KafkaNext \/ PushItem \/ MakeRoom \/ ProducerDone \/ ConsumerStep \/ UNCHANGED vars
  BY <1>5, <1>6 DEF KafkaNext, KafkaPublish, PushItem, MakeRoom, ProducerDone, ConsumerStep, Pop, ProcessOne,
       PopEmpty, CheckDone, LastPopEmpty, vars, sessionVars
<1> QED
  BY <1>2, <1>3, <1>4, <1>6 DEF Next, KafkaNext

\* When an event is processed of which no predecessor was lost, the book stands
\* where the exchange stood, and accepts it.
LEMMA BookAccepts ==
  ASSUME Shape, ProcessOne, NEW open \in Histories, IsLedger(open), BookFollows(open),
         \A l \in Lost : sent[l].id = sent[At(held[1])].id => At(held[1]) < l
  PROVE  LET at == At(held[1])
         IN ~Rejects(sent[at]) /\ Applied(sent[at]) = open[at][sent[at].id]
<1> DEFINE at == At(held[1])
           id == sent[at].id
<1>1. /\ at \in Positions /\ Frontier < at /\ Frontier \in 0 .. Len(sent) /\ Len(sent) \in Nat
      /\ \A p \in Positions : Frontier < p /\ p < at => p \in Lost
      /\ Lost \subseteq Positions
  BY ProcessEffect, FrontierDivides, Places
<1>2. sent[at] \in Event
  BY ProcessedEvent
<1>3. /\ id \in Ids /\ sent[at].qty \in Nat /\ sent[at].kind \in {"New", "Cancel", "Execution"}
  BY <1>2 DEF Event
<1>4. book[id] = open[Frontier][id]
  <2>1. \A l \in Lost : sent[l].id = id => Frontier < l
    BY <1>1 DEF Positions
  <2> QED
    BY <1>3, <2>1 DEF BookFollows
<1>5. open[at - 1][id] = open[Frontier][id]
  <2>1. at - 1 \in 0 .. Len(sent) /\ Frontier <= at - 1
    BY <1>1 DEF Positions
  <2>2. \A l \in Positions : Frontier < l /\ l <= at - 1 => sent[l].id # id
    BY <1>1 DEF Positions
  <2> HIDE DEF at, id
  <2> QED
    BY <1>1, <1>3, <2>1, <2>2 DEF IsLedger
<1>6. book[id] \in Nat /\ book[id] = open[at - 1][id]
  BY <1>3, <1>4, <1>5 DEF Shape, ConsumerOK
<1>7. /\ sent[at].kind = "New" => book[id] = 0 /\ open[at][id] = sent[at].qty
      /\ sent[at].kind = "Cancel" => open[at][id] = 0
      /\ sent[at].kind = "Execution" => /\ sent[at].qty <= book[id]
                                         /\ open[at][id] = book[id] - sent[at].qty
  BY <1>1, <1>6 DEF IsLedger
<1> HIDE DEF at
<1> QED
  BY <1>3, <1>6, <1>7 DEF Rejects, Applied, at

\* Every step keeps the book in line with the events it saw, and a skip explained by a loss.
LEMMA BookStep ==
  Shape /\ BookOK /\ SkipsNeedALoss /\ [Next]_vars => BookOK' /\ SkipsNeedALoss'
<1> SUFFICES ASSUME Shape, BookOK, SkipsNeedALoss, [Next]_vars
             PROVE  BookOK' /\ SkipsNeedALoss'
  OBVIOUS
<1>1. PICK open \in Histories : IsLedger(open) /\ BookFollows(open)
  BY DEF BookOK
<1>2. PICK next \in Histories' : IsLedger(next)' /\ \A k \in 0 .. Len(sent) : next[k] = open[k]
  BY <1>1, LedgerStep
<1>3. /\ Frontier \in 0 .. Len(sent) /\ Len(sent) \in Nat
      /\ Lost \subseteq Positions /\ Lost \subseteq Lost'
      /\ \A l \in Positions : sent'[l] = sent[l]
  <2>1. sent' = sent \/ \E event : sent' = Append(sent, event)
    BY DEF Next, ConsumerStep, NewOrderSingle, OrderCancelRequest, ExecutionReport, Receive, KafkaPublish,
         PushItem, MakeRoom, ProducerDone, Pop, ProcessOne, PopEmpty, CheckDone, LastPopEmpty, vars, sessionVars
  <2>2. \A l \in Positions : sent'[l] = sent[l]
    <3>1. sent \in Seq(Event)
      BY DEF Shape, SessionOK
    <3>2. \A event : \A l \in Positions : Append(sent, event)[l] = sent[l]
      BY <3>1 DEF Positions
    <3> QED
      BY <2>1, <3>2
  <2> QED
    BY <2>2, FrontierDivides, LostStays, Places
<1>4. /\ skipped \in Seq(Positions) /\ DOMAIN skipped = 1 .. Len(skipped)
      /\ \A i \in 1 .. Len(skipped) : \E l \in Lost : l < skipped[i] /\ sent[l].id = sent[skipped[i]].id
  BY ItemPositions DEF SkipsNeedALoss, Shape, ConsumerOK
<1>5. CASE ~ProcessOne
  <2>1. Frontier' = Frontier /\ book' = book /\ skipped' = skipped
    BY <1>5, ProcessedStays
  <2>2. SkipsNeedALoss'
    <3>1. \A i \in DOMAIN skipped : skipped[i] \in Positions
      BY <1>4
    <3> QED
      BY <1>3, <1>4, <2>1, <3>1 DEF SkipsNeedALoss
  <2>3. BookFollows(next)'
    <3>1. SUFFICES ASSUME NEW id \in Ids, \A l \in Lost' : sent'[l].id = id => Frontier < l
                   PROVE  book[id] = next[Frontier][id]
      BY <2>1 DEF BookFollows
    <3>2. \A l \in Lost : sent[l].id = id => Frontier < l
      BY <1>3, <3>1
    <3> QED
      BY <1>1, <1>2, <1>3, <3>2 DEF BookFollows
  <2> QED
    BY <1>2, <2>2, <2>3 DEF BookOK
<1>6. CASE ProcessOne
  <2> DEFINE at == At(held[1])
  <2>1. /\ at \in Positions /\ Frontier < at /\ Frontier' = at /\ Lost' = Lost /\ at \notin Lost
        /\ \A p \in Positions : Frontier < p /\ p < at => p \in Lost
    BY <1>6, ProcessEffect
  <2>2. /\ sent[at] \in Event /\ sent' = sent
        /\ \/ Rejects(sent[at]) /\ skipped' = Append(skipped, at) /\ book' = book
           \/ /\ ~Rejects(sent[at]) /\ skipped' = skipped
              /\ book' = [book EXCEPT ![sent[at].id] = Applied(sent[at])]
    BY <1>6, ProcessedEvent
  <2>3. /\ book \in [Ids -> Nat] /\ sent[at].id \in Ids
    BY <2>2 DEF Shape, ConsumerOK, Event
  <2>4. (\A l \in Lost : sent[l].id = sent[at].id => at < l) =>
           ~Rejects(sent[at]) /\ Applied(sent[at]) = open[at][sent[at].id]
    BY <1>1, <1>6, BookAccepts
  <2> HIDE DEF at
  <2>5. SkipsNeedALoss'
    <3>1. CASE skipped' = skipped
      BY <1>4, <2>1, <2>2, <3>1 DEF SkipsNeedALoss
    <3>2. CASE Rejects(sent[at]) /\ skipped' = Append(skipped, at)
      <4>1. PICK l \in Lost : sent[l].id = sent[at].id /\ ~(at < l)
        BY <2>4, <3>2
      <4>2. l < at
        BY <1>3, <2>1, <4>1 DEF Positions
      <4>3. /\ DOMAIN skipped' = 1 .. Len(skipped) + 1 /\ skipped'[Len(skipped) + 1] = at
            /\ \A i \in 1 .. Len(skipped) : skipped'[i] = skipped[i]
            /\ Len(skipped) \in Nat
        BY <1>4, <2>1, <3>2
      <4> QED
        BY <1>4, <2>1, <2>2, <4>1, <4>2, <4>3 DEF SkipsNeedALoss
    <3> QED
      BY <2>2, <3>1, <3>2
  <2>6. BookFollows(next)'
    <3>1. SUFFICES ASSUME NEW id \in Ids, \A l \in Lost : sent[l].id = id => at < l
                   PROVE  book'[id] = next[at][id]
      BY <2>1, <2>2 DEF BookFollows
    <3>2. next[at][id] = open[at][id]
      BY <1>2, <1>3, <2>1 DEF Positions
    <3>3. CASE id = sent[at].id
      BY <2>2, <2>3, <2>4, <3>1, <3>2, <3>3
    <3>4. CASE id # sent[at].id
      <4>1. book'[id] = book[id]
        BY <2>2, <2>3, <3>4
      <4>2. \A l \in Lost : sent[l].id = id => Frontier < l
        BY <1>3, <2>1, <3>1 DEF Positions
      <4>3. \A l \in Positions : Frontier < l /\ l <= at => sent[l].id # id
        BY <2>1, <3>1, <3>4 DEF Positions
      <4>4. open[at][id] = open[Frontier][id]
        BY <1>1, <1>3, <2>1, <4>3 DEF IsLedger, Positions
      <4> QED
        BY <1>1, <3>2, <4>1, <4>2, <4>4 DEF BookFollows
    <3> QED
      BY <3>3, <3>4
  <2> QED
    BY <1>2, <2>5, <2>6 DEF BookOK
<1> QED
  BY <1>5, <1>6

-----------------------------------------------------------------------------
\* The theorems

LiveInv == Shape /\ CountOK /\ BookOK /\ SkipsNeedALoss

\* The pipeline starts in the invariant.
LEMMA LiveInit == Init => LiveInv
<1> SUFFICES ASSUME Init PROVE LiveInv
  OBVIOUS
<1>1. Shape
  BY ShapeInit
<1>2. delivered = <<>> /\ sent = <<>> /\ skipped = <<>> /\ processed = 0
  BY DEF Init, Ring!Init
<1>3. Processed = {} /\ Frontier = 0 /\ Len(sent) = 0 /\ Positions = {}
  BY <1>2 DEF Processed, Frontier, Positions
<1>4. CountOK
  BY <1>2, <1>3, FS_EmptySet DEF CountOK
<1>5. BookOK
  <2> DEFINE open == [k \in 0 .. 0 |-> exchange]
  <2>1. exchange \in [Ids -> Nat] /\ exchange = book /\ \A id \in Ids : exchange[id] = 0
    BY DEF Init
  <2>2. open \in Histories
    BY <1>3, <2>1 DEF Histories
  <2>3. IsLedger(open)
    BY <1>3, <2>1 DEF IsLedger
  <2>4. BookFollows(open)
    BY <1>3, <2>1 DEF BookFollows
  <2> QED
    BY <2>2, <2>3, <2>4 DEF BookOK
<1>6. SkipsNeedALoss
  BY <1>2 DEF SkipsNeedALoss
<1> QED
  BY <1>1, <1>4, <1>5, <1>6 DEF LiveInv

\* The invariant of the live pipeline holds always.
LEMMA LiveInvariant == Spec => []LiveInv
<1>1. Init => LiveInv
  BY LiveInit
<1>2. LiveInv /\ [Next]_vars => LiveInv'
  BY ShapeStep, CountStep, BookStep DEF LiveInv
<1> QED
  BY <1>1, <1>2, PTL DEF Spec

\* pressed is a flag of the ring buffer's.
FlagOK == pressed \in BOOLEAN

\* The ring buffer's flag is a Boolean always.
LEMMA FlagInvariant == Spec => []FlagOK
<1>1. Init => FlagOK
  BY DEF Init, Ring!Init, FlagOK
<1>2. FlagOK /\ [Next]_vars => FlagOK'
  <2> SUFFICES ASSUME FlagOK, [Next]_vars PROVE FlagOK'
    OBVIOUS
  <2>1. pressed' = pressed \/ pressed' = TRUE \/ pressed' = FALSE
    BY Zenon DEF Next, ConsumerStep, NewOrderSingle, OrderCancelRequest, ExecutionReport, Receive, KafkaPublish,
         PushItem, Ring!Push, MakeRoom, Ring!FindFull, Ring!Relent, Ring!Discard, ProducerDone, Pop, Ring!Claim,
         ProcessOne, Ring!Deliver, PopEmpty, CheckDone, LastPopEmpty, vars, queueVars
  <2> QED
    BY <2>1, Zenon DEF FlagOK
<1> QED
  BY <1>1, <1>2, PTL DEF Spec

\* The types of live_pipeline.cpp's, live_consumer.cpp's and the sink's state.
LEMMA Typed == LiveInv /\ FlagOK => TypeOK
<1> SUFFICES ASSUME LiveInv, FlagOK PROVE TypeOK
  OBVIOUS
<1>1. Shape
  BY DEF LiveInv
<1>2. /\ queue \in Seq(Nat) /\ held \in Seq(Nat) /\ delivered \in Seq(Nat) /\ discarded \in Seq(Nat)
      /\ DOMAIN sent = Positions
  BY <1>1, ItemPositions DEF Shape, Queue!QueueInv, Queue!QueueTypeOK
<1>3. queue \in Seq(Items)
  BY <1>1, <1>2, ItemPositions, Queue!SeqOver DEF Items
<1>4. held \in Seq(Items)
  BY <1>1, <1>2, ItemPositions, Queue!SeqOver DEF Items
<1>5. delivered \in Seq(Items)
  BY <1>1, <1>2, ItemPositions, Queue!SeqOver DEF Items
<1>6. discarded \in Seq(Items)
  BY <1>1, <1>2, ItemPositions, Queue!SeqOver DEF Items
<1>7. processed \in Nat
  BY <1>1, <1>2 DEF Shape, ConsumerOK
<1>8. /\ exchange \in [Ids -> Nat] /\ book \in [Ids -> Nat] /\ sent \in Seq(Event)
      /\ kafka \in Seq(DOMAIN sent) /\ onRing \in Seq(DOMAIN sent) /\ skipped \in Seq(DOMAIN sent)
      /\ session \in {"idle", "publish", "push", "done"}
      /\ consumer \in {"pop", "process", "check", "last", "stopped"}
  BY <1>1, <1>2 DEF Shape, SessionOK, ConsumerOK
<1> QED
  BY <1>3, <1>4, <1>5, <1>6, <1>7, <1>8, Zenon DEF TypeOK, FlagOK

\* No event disappears between the sink's, the ring buffer's and the consumer's
\* counters (pipeline_event_sink.hpp, live_consumer.cpp).
THEOREM LiveEventsAccounted == Spec => []EveryEventAccounted
<1>1. LiveInv /\ FlagOK => EveryEventAccounted
  <2> SUFFICES ASSUME LiveInv, FlagOK PROVE EveryEventAccounted
    OBVIOUS
  <2>1. processed + Len(discarded) + Len(queue) + Len(held) = Len(onRing)
    BY DEF LiveInv, Shape, ConsumerOK, RingOrder, Queue!QueueInv, Queue!ItemsAccounted
  <2> QED
    BY <2>1, Typed DEF EveryEventAccounted, LiveInv, CountOK
<1> QED
  BY <1>1, LiveInvariant, FlagInvariant, PTL

\* LiveConsumer::run returns with nothing left in the buffer.
THEOREM LiveDrained == Spec => []DrainedWhenStopped
<1>1. LiveInv => DrainedWhenStopped
  <2> SUFFICES ASSUME LiveInv, consumer = "stopped"
               PROVE  queue = <<>> /\ processed + Len(discarded) = Len(onRing)
    BY DEF DrainedWhenStopped
  <2>1. queue = <<>> /\ held = <<>>
    BY DEF LiveInv, Shape, ConsumerOK
  <2>2. Len(queue) = 0 /\ Len(held) = 0
    BY <2>1
  <2>3. /\ Len(delivered) + Len(discarded) + Len(queue) + Len(held) = pushed
        /\ Len(delivered) \in Nat /\ Len(discarded) \in Nat
        /\ processed = Len(delivered) /\ Len(onRing) = pushed
    BY DEF LiveInv, Shape, ConsumerOK, RingOrder, Queue!QueueInv, Queue!ItemsAccounted, Queue!QueueTypeOK
  <2> QED
    BY <2>1, <2>2, <2>3
<1> QED
  BY <1>1, LiveInvariant, PTL

\* LivePipeline::process skips an event only when an earlier one was lost.
THEOREM LiveSkipsNeedALoss == Spec => []SkipsNeedALoss
<1>1. LiveInv => SkipsNeedALoss
  BY DEF LiveInv
<1> QED
  BY <1>1, LiveInvariant, PTL

\* The book is as far from the exchange as the missing events make it.
THEOREM LiveDriftNeedsAMissingEvent == Spec => []DriftNeedsAMissingEvent
<1>1. LiveInv => DriftNeedsAMissingEvent
  <2> SUFFICES ASSUME LiveInv, NEW id \in Ids, \A i \in Lost \cup OnItsWay : sent[i].id # id
               PROVE  book[id] = exchange[id]
    BY DEF DriftNeedsAMissingEvent
  <2>1. PICK open \in Histories : IsLedger(open) /\ BookFollows(open)
    BY DEF LiveInv, BookOK
  <2>2. /\ Frontier \in 0 .. Len(sent) /\ Len(sent) \in Nat
        /\ \A p \in Positions : Frontier < p => p \in Lost \cup OnItsWay
    <3>1. Shape
      BY DEF LiveInv
    <3> QED
      BY <3>1, FrontierDivides, Places DEF Positions
  <2>3. book[id] = open[Frontier][id]
    BY <2>1 DEF BookFollows
  <2>4. open[Len(sent)][id] = open[Frontier][id]
    BY <2>1, <2>2 DEF IsLedger
  <2> QED
    BY <2>1, <2>3, <2>4 DEF IsLedger
<1> QED
  BY <1>1, LiveInvariant, PTL
=============================================================================
