---------------------------- MODULE LivePipeline ----------------------------
(***************************************************************************)
(* From the FIX session thread to the order book: PipelineEventSink         *)
(* publishes every event to Kafka and pushes it on the ring buffer          *)
(* (cpp/pipeline/pipeline_event_sink.hpp); LiveConsumer::run pops, applies   *)
(* and counts until the producer is done and the buffer drained             *)
(* (cpp/pipeline/live_consumer.cpp); LivePipeline::process skips an event    *)
(* the book rejects (cpp/pipeline/live_pipeline.cpp).                        *)
(*                                                                          *)
(* The ring buffer is its contract, DropOldestQueue, which RingBuffer        *)
(* implements.  The book is reduced to the quantity resting under each id    *)
(* (OrderBook models it in full): what a New, a Cancel and an Execution      *)
(* accept, reject and change.  The FIX layer produces no Replace.            *)
(***************************************************************************)
EXTENDS Naturals, Sequences, FiniteSets

CONSTANTS Ids,            \* order ids
          Qtys,           \* quantities of a New or an Execution
          Capacity,       \* cells of the ring buffer
          MaxEvents,      \* bound on the events the FIX session receives
          KafkaOutcomes   \* what KafkaProducer::publish may do

\* "absent": no producer was supplied; "ok": produce() queued the message;
\* "full": ERR__QUEUE_FULL, publish() returns false; "error": publish() throws.
ASSUME KafkaAssumption == KafkaOutcomes \subseteq {"absent", "ok", "full", "error"}
ASSUME LiveQtyAssumption == Qtys \subseteq Nat \ {0}

VARIABLES
  exchange,      \* quantity open at the exchange per order id: the truth
  sent,          \* events handed to the sink, in order
  kafka,         \* events accepted by the Kafka producer: positions in sent
  onRing,        \* events pushed on the ring buffer: item k is sent[onRing[k + 1]]
  session,       \* the FIX session thread: "idle", "publish", "push" or "done"
  queue, pushed, held, pressed, delivered, discarded,  \* DropOldestQueue
  consumer,      \* the consumer thread: "pop", "process", "check", "last", "stopped"
  book,          \* quantity resting per order id; 0 if the book has no such order
  processed,     \* events_processed_
  skipped        \* events_skipped_inconsistent_: positions in sent of those events

sessionVars == <<exchange, sent, kafka, onRing, session>>
queueVars == <<queue, pushed, held, pressed, delivered, discarded>>
consumerVars == <<consumer, book, processed, skipped>>
vars == <<sessionVars, queueVars, consumerVars>>

Ring == INSTANCE DropOldestQueue

Event == [kind : {"New", "Cancel", "Execution"}, id : Ids, qty : Nat]
Items == 0 .. pushed - 1

TypeOK ==
  /\ exchange \in [Ids -> Nat] /\ book \in [Ids -> Nat]
  /\ sent \in Seq(Event)
  /\ kafka \in Seq(DOMAIN sent) /\ onRing \in Seq(DOMAIN sent) /\ skipped \in Seq(DOMAIN sent)
  /\ session \in {"idle", "publish", "push", "done"}
  /\ consumer \in {"pop", "process", "check", "last", "stopped"}
  /\ queue \in Seq(Items) /\ held \in Seq(Items)
  /\ delivered \in Seq(Items) /\ discarded \in Seq(Items)
  /\ pressed \in BOOLEAN
  /\ processed \in Nat

Init ==
  /\ exchange = [id \in Ids |-> 0] /\ book = [id \in Ids |-> 0]
  /\ sent = <<>> /\ kafka = <<>> /\ onRing = <<>>
  /\ session = "idle"
  /\ Ring!Init
  /\ consumer = "pop"
  /\ processed = 0 /\ skipped = <<>>

-----------------------------------------------------------------------------
\* The FIX session thread: onMessage() -> PipelineEventSink::publish()

Receive(event) ==
  /\ session = "idle" /\ Len(sent) < MaxEvents
  /\ sent' = Append(sent, event)
  /\ session' = "publish"
  /\ UNCHANGED <<kafka, onRing, queueVars, consumerVars>>

Known(id) == \E i \in DOMAIN sent : sent[i].id = id

NewOrderSingle(id, qty) ==
  /\ ~Known(id)
  /\ exchange' = [exchange EXCEPT ![id] = qty]
  /\ Receive([kind |-> "New", id |-> id, qty |-> qty])

\* A client may ask to cancel what has just been filled.
OrderCancelRequest(id) ==
  /\ Known(id)
  /\ exchange' = [exchange EXCEPT ![id] = 0]
  /\ Receive([kind |-> "Cancel", id |-> id, qty |-> 0])

ExecutionReport(id, qty) ==
  /\ qty <= exchange[id]
  /\ exchange' = [exchange EXCEPT ![id] = @ - qty]
  /\ Receive([kind |-> "Execution", id |-> id, qty |-> qty])

\* The result of publish() is ignored; when it throws, the event never reaches
\* the ring buffer.
KafkaPublish(result) ==
  /\ session = "publish"
  /\ kafka' = IF result = "ok" THEN Append(kafka, Len(sent)) ELSE kafka
  /\ session' = IF result = "error" THEN "idle" ELSE "push"
  /\ UNCHANGED <<exchange, sent, onRing, queueVars, consumerVars>>

\* push(): discard from the front as long as the slot is occupied, then publish.
PushItem ==
  /\ session = "push"
  /\ Ring!Push
  /\ onRing' = Append(onRing, Len(sent))
  /\ session' = "idle"
  /\ UNCHANGED <<exchange, sent, kafka, consumerVars>>

MakeRoom ==
  /\ session = "push"
  /\ Ring!FindFull \/ Ring!Relent \/ Ring!Discard
  /\ UNCHANGED <<sessionVars, consumerVars>>

\* producer_done.store(true): after the last push.
ProducerDone ==
  /\ session = "idle"
  /\ session' = "done"
  /\ UNCHANGED <<exchange, sent, kafka, onRing, queueVars, consumerVars>>

-----------------------------------------------------------------------------
\* The consumer thread: LiveConsumer::run()

Pop ==
  /\ consumer \in {"pop", "last"}
  /\ Ring!Claim
  /\ consumer' = "process"
  /\ UNCHANGED <<sessionVars, book, processed, skipped>>

\* Faults: a Cancel of an order that is not resting rejected;
\* a partial fill taken for a complete one.
RejectsLateCancel(event) ==
  \/ event.kind = "New" /\ book[event.id] > 0
  \/ event.kind = "Cancel" /\ book[event.id] = 0
  \/ event.kind = "Execution" /\ event.qty > book[event.id]
FillsCompletely(event) == IF event.kind = "New" THEN event.qty ELSE 0

\* What OrderBook::apply does with an event, and whether it rejects it.
Rejects(event) ==
  \/ event.kind = "New" /\ book[event.id] > 0
  \/ event.kind = "Execution" /\ event.qty > book[event.id]

Applied(event) ==
  CASE event.kind = "New" -> event.qty
    [] event.kind = "Cancel" -> 0
    [] event.kind = "Execution" -> book[event.id] - event.qty

\* Fault: a skipped event is not counted as processed.
CountIfApplied(event) == IF Rejects(event) THEN processed ELSE processed + 1

CountEvent(event) == processed + 1

\* pop() returns the item; LivePipeline::process() applies it or skips it.
ProcessOne ==
  /\ consumer = "process"
  /\ Ring!Deliver
  /\ LET at == onRing[held[1] + 1]
         event == sent[at]
     IN /\ processed' = CountEvent(event)
        /\ \/ Rejects(event) /\ skipped' = Append(skipped, at) /\ UNCHANGED book
           \/ /\ ~Rejects(event)
              /\ book' = [book EXCEPT ![event.id] = Applied(event)]
              /\ UNCHANGED skipped
  /\ consumer' = "pop"
  /\ UNCHANGED sessionVars

PopEmpty ==
  /\ consumer = "pop" /\ queue = <<>>
  /\ consumer' = "check"
  /\ UNCHANGED <<sessionVars, queueVars, book, processed, skipped>>

\* Fault: no pop after the flag is seen.
StopAtOnce == IF session = "done" THEN "stopped" ELSE "pop"

\* One more pop once the flag is seen; otherwise yield and start over.
AfterCheck == IF session = "done" THEN "last" ELSE "pop"

CheckDone ==
  /\ consumer = "check"
  /\ consumer' = AfterCheck
  /\ UNCHANGED <<sessionVars, queueVars, book, processed, skipped>>

LastPopEmpty ==
  /\ consumer = "last" /\ queue = <<>>
  /\ consumer' = "stopped"
  /\ UNCHANGED <<sessionVars, queueVars, book, processed, skipped>>

ConsumerStep == Pop \/ ProcessOne \/ PopEmpty \/ CheckDone \/ LastPopEmpty

Next ==
  \/ \E id \in Ids, qty \in Qtys : NewOrderSingle(id, qty) \/ ExecutionReport(id, qty)
  \/ \E id \in Ids : OrderCancelRequest(id)
  \/ \E result \in KafkaOutcomes : KafkaPublish(result)
  \/ PushItem \/ MakeRoom \/ ProducerDone
  \/ ConsumerStep

Spec == Init /\ [][Next]_vars

-----------------------------------------------------------------------------
\* Properties

\* Positions in sent of the events the consumer has processed, and of those that
\* never reach it: discarded by a push, or never pushed because Kafka threw.
Processed == {onRing[delivered[i] + 1] : i \in DOMAIN delivered}
OnItsWay == {onRing[queue[i] + 1] : i \in DOMAIN queue} \cup {onRing[held[i] + 1] : i \in DOMAIN held}
               \cup (IF session \in {"publish", "push"} THEN {Len(sent)} ELSE {})
Lost == DOMAIN sent \ (Processed \cup OnItsWay)

\* processed + dropped == pushed at every instant, whatever the two threads are
\* doing: no event disappears between the counters.
EveryEventAccounted ==
  /\ TypeOK
  /\ processed + Len(discarded) + Len(queue) + Len(held) = Len(onRing)
  /\ Cardinality(Processed) = processed

\* When run() returns the buffer is drained: no event pushed before the done flag
\* is left behind.
DrainedWhenStopped ==
  consumer = "stopped" => queue = <<>> /\ processed + Len(discarded) = Len(onRing)

\* An event is skipped as inconsistent only if an earlier event of the same order
\* was lost, by drop-oldest or by a Kafka error: a complete feed is never skipped.
SkipsNeedALoss ==
  \A i \in DOMAIN skipped : \E lost \in Lost :
    lost < skipped[i] /\ sent[lost].id = sent[skipped[i]].id

\* The book disagrees with the exchange on an order only while an event of that
\* order is on its way, or for good because one was lost.
DriftNeedsAMissingEvent ==
  \A id \in Ids : book[id] # exchange[id] =>
    \E i \in Lost \cup OnItsWay : sent[i].id = id
=============================================================================
