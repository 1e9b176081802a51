------------------------- MODULE KafkaReplayProofs -------------------------
(***************************************************************************)
(* Proofs about KafkaReplay, for every session, every capacity and whatever  *)
(* the broker and the scoring service do.                                   *)
(***************************************************************************)
EXTENDS KafkaReplay, FiniteSetTheorems, SequenceTheorems, TLAPS

Event == UNION {Range(s) : s \in Sessions}

\* What poll() can make of the payload of an event.
Readable == UNION {Decoded[event] : event \in Event}

-----------------------------------------------------------------------------
\* The inductive invariant

\* How far the calling thread and the two others are.  A thread ends only after the
\* one before it: the calling thread's loop, the consumer, the scoring thread.
StageOK ==
  /\ main \in {"publish", "flush", "health", "start", "poll", "join", "joinMl", "check"} \cup Ended
  /\ threads \subseteq {"consumer", "worker"}
  /\ main \in {"publish", "flush", "health", "start"} => consumer = "none"
  /\ main \in {"poll", "join", "joinMl", "check", "returned"} => consumer # "none"
  /\ main \in {"publish", "flush", "health", "start", "poll"} => ~producerDone
  /\ consumer # "none" => Fits
  /\ consumer \in {"last", "stopped"} => producerDone
  /\ consumer = "stopped" => ring = <<>>
  /\ main \in {"joinMl", "check", "returned"} => consumer = "stopped"
  /\ mlStop => consumer = "stopped" /\ main \in {"joinMl", "check"} \cup Ended
  /\ worker \in {"last", "stopped"} => mlStop
  /\ worker = "stopped" => mlQueue = <<>>
  /\ main \in {"check", "returned"} => ~withMl \/ worker = "stopped"
  /\ ~withMl => requests = <<>> /\ mlQueue = <<>>
  /\ main = "returned" => replayed = Total

\* Messages are positions in the session.
StreamOK ==
  /\ session \in Sessions /\ capacity \in Nat
  /\ published \in 0 .. Total
  /\ outgoing \in Seq(1 .. Total) /\ Len(outgoing) <= QueueLimit
  /\ topic \in Seq(1 .. Total)

\* What was polled is in the ring or processed; nothing was dropped.
RingOK ==
  /\ position \in 0 .. Len(topic) /\ empties \in 0 .. MaxEmpty
  /\ ring \in Seq(Readable) /\ processed \in Seq(Readable)
  /\ replayed = position /\ replayed <= Total
  /\ replayed = Len(processed) + Len(ring)
  /\ ringDropped = 0

FlowOK == StreamOK /\ RingOK

\* How many requests the scoring thread has taken.
Taken == Len(requests) - Len(mlQueue)

\* Requests name rising positions of what was processed; the scoring queue holds the last
\* of them, and those before have been scored or have failed, each once.
RequestsOK ==
  /\ requests \in Seq(Nat) /\ mlQueue \in Seq(Nat) /\ mlDropped = 0
  /\ Len(mlQueue) <= Len(requests) /\ Len(requests) <= Len(processed)
  /\ \A k \in 1 .. Len(requests) : requests[k] <= Len(processed)
  /\ \A j, k \in 1 .. Len(requests) : j < k => requests[j] < requests[k]
  /\ \A i \in 1 .. Len(mlQueue) : mlQueue[i] = requests[Taken + i]
  /\ scored \cup failed = {requests[k] : k \in 1 .. Taken}
  /\ scored \cap failed = {}
  /\ IsFiniteSet(scored) /\ IsFiniteSet(failed)
  /\ Cardinality(scored) + Cardinality(failed) = Taken

SinkOK ==
  sink = {<<"event", k>> : k \in 1 .. Len(processed)} \cup {<<"request", k>> : k \in scored}

ReplayInv == StageOK /\ FlowOK /\ RequestsOK

-----------------------------------------------------------------------------
\* Initial states

\* A session of the assumption is a sequence of events.
LEMMA SessionIsASequence == \A s \in Sessions : s \in Seq(Event)
<1> SUFFICES ASSUME NEW s \in Sessions PROVE s \in Seq(Event)
  OBVIOUS
<1>1. s \in Seq(Range(s)) /\ Range(s) \subseteq Event
  BY SessionsAssumption DEF Event
<1>2. \A k \in 1 .. Len(s) : s[k] \in Event
  BY <1>1, ElementOfSeq
<1> QED
  BY <1>1, <1>2, IsASeq, LenProperties

\* The state replay_through_kafka starts in satisfies the invariant.
LEMMA ReplayInit == Init => ReplayInv /\ SinkOK
<1> SUFFICES ASSUME Init PROVE ReplayInv /\ SinkOK
  OBVIOUS
<1>1. StageOK
  BY DEF Init, StageOK
<1>2. Total \in Nat
  BY SessionIsASequence DEF Init, Total
<1>3. FlowOK
  BY <1>2, ReplayAssumption DEF Init, FlowOK, StreamOK, RingOK
<1>4. RequestsOK
  BY FS_EmptySet DEF Init, RequestsOK, Taken
<1>5. SinkOK
  BY DEF Init, SinkOK
<1> QED
  BY <1>1, <1>3, <1>4, <1>5 DEF ReplayInv

-----------------------------------------------------------------------------
\* Steps

\* A ring buffer as large as the session has room for what is pushed onto it.
LEMMA RoomOnRing ==
  ASSUME ReplayInv, NEW event, main = "poll", replayed < Total
  PROVE  Pushed(ring, event) = Append(ring, event) /\ Dropped(ring) = 0
<1>1. Len(ring) < Total /\ Total <= capacity /\ capacity \in Nat /\ Total \in Nat /\ Len(ring) \in Nat
  BY SessionIsASequence, LenProperties DEF ReplayInv, StageOK, FlowOK, StreamOK, RingOK, Fits, Total
<1>2. ~IsFull(ring)
  BY <1>1 DEF IsFull
<1> QED
  BY <1>2 DEF Pushed, Dropped

\* The queue of the scoring worker has room for the request of an event still on the ring.
LEMMA RoomForRequest ==
  ASSUME ReplayInv, NEW item, consumer \in {"pop", "last"}, ring # <<>>
  PROVE  Pushed(mlQueue, item) = Append(mlQueue, item) /\ Dropped(mlQueue) = 0
<1>1. Len(ring) \in Nat /\ Len(ring) # 0 /\ Len(processed) \in Nat /\ Len(mlQueue) \in Nat /\ Len(requests) \in Nat
  BY DEF ReplayInv, FlowOK, StreamOK, RingOK, RequestsOK
<1>2. Len(mlQueue) < Total /\ Total <= capacity /\ capacity \in Nat /\ Total \in Nat
  BY <1>1, SessionIsASequence, LenProperties DEF ReplayInv, StageOK, FlowOK, StreamOK, RingOK, RequestsOK, Fits, Total
<1>3. ~IsFull(mlQueue)
  BY <1>1, <1>2 DEF IsFull
<1> QED
  BY <1>3 DEF Pushed, Dropped

\* What the consumer takes from the ring, and what it may submit.
LEMMA ConsumeEffect ==
  ASSUME ReplayInv, NEW submits \in BOOLEAN, ConsumeOne(submits)
  PROVE  /\ consumer \in {"pop", "last"} /\ ring # <<>>
         /\ processed' = Append(processed, Head(ring)) /\ ring' = Tail(ring)
         /\ sink' = sink \cup {<<"event", Len(processed) + 1>>}
         /\ \/ /\ withMl
               /\ requests' = Append(requests, Len(processed) + 1)
               /\ mlQueue' = Append(mlQueue, Len(processed) + 1)
            \/ UNCHANGED <<requests, mlQueue>>
         /\ mlDropped' = mlDropped /\ consumer' = "pop"
         /\ UNCHANGED <<setupVars, mainVars, brokerVars, loopVars, flagVars, ringDropped, workerVars>>
<1>1. mlDropped = 0
  BY DEF ReplayInv, RequestsOK
<1>2. /\ consumer \in {"pop", "last"} /\ ring # <<>>
      /\ Pushed(mlQueue, Len(processed) + 1) = Append(mlQueue, Len(processed) + 1)
      /\ Dropped(mlQueue) = 0
  BY RoomForRequest DEF ConsumeOne
<1>3. CASE submits
  BY <1>1, <1>2, <1>3 DEF ConsumeOne
<1>4. CASE ~submits
  BY <1>1, <1>2, <1>4 DEF ConsumeOne
<1> QED
  BY <1>3, <1>4

\* The event polled goes onto the ring.
LEMMA PollEffect ==
  ASSUME ReplayInv, PollEvent
  PROVE  /\ main = "poll" /\ replayed < Total /\ position < Len(topic)
         /\ \E event \in Polled : ring' = Append(ring, event)
         /\ ringDropped' = ringDropped
         /\ position' = position + 1 /\ replayed' = replayed + 1 /\ empties' = 0
         /\ UNCHANGED <<setupVars, mainVars, brokerVars, flagVars, mlQueue, mlDropped,
                        consumerVars, workerVars, sink>>
<1>1. main = "poll" /\ replayed < Total /\ ringDropped = 0
  BY DEF PollEvent, Polling, ReplayInv, FlowOK, RingOK
<1>2. \A event : Pushed(ring, event) = Append(ring, event) /\ Dropped(ring) = 0
  BY <1>1, RoomOnRing
<1> QED
  BY <1>1, <1>2 DEF PollEvent, Polling

\* Every step of the threads keeps the order of the stages of replay_through_kafka.
LEMMA StageStep == ReplayInv /\ [Next]_vars => StageOK'
<1> SUFFICES ASSUME ReplayInv, [Next]_vars PROVE StageOK'
  OBVIOUS
<1>1. StageOK
  BY DEF ReplayInv
<1>2. CASE Publish \/ Transmit \/ PollEmpty \/ UNCHANGED vars
  <2>1. UNCHANGED <<mainVars, flagVars, setupVars, replayed, ring, mlQueue, consumer, requests, worker>>
    BY <1>2 DEF Publish, Transmit, PollEmpty, vars, loopVars, consumerVars, workerVars
  <2> QED
    BY <1>1, <2>1 DEF StageOK, Fits, Total, setupVars, mainVars, flagVars
<1>3. CASE ProduceFails \/ EndPublish \/ Flush \/ FlushTimesOut \/ HealthCheck \/ PollFails
  <2>1. UNCHANGED <<threads, flagVars, setupVars, replayed, ring, mlQueue, consumer, requests, worker>>
    BY <1>3 DEF ProduceFails, EndPublish, Flush, FlushTimesOut, HealthCheck, PollFails, Calm, Throw, Advance, setupVars,
       loopVars, consumerVars, workerVars
  <2>2. \/ main' \in {"threw", "terminated"}
        \/ main \in {"publish", "flush", "health"} /\ main' \in {"flush", "health", "start"}
    BY <1>3 DEF ProduceFails, EndPublish, Flush, FlushTimesOut, HealthCheck, PollFails, Throw, Advance
  <2>3. main \in {"publish", "flush", "health", "start", "poll"}
    BY <1>3 DEF ProduceFails, EndPublish, Flush, FlushTimesOut, HealthCheck, PollFails, Polling
  <2> QED
    BY <1>1, <2>1, <2>2, <2>3 DEF StageOK, Ended, Fits, Total, setupVars, flagVars
<1>4. CASE Double
  <2>1. capacity \in Nat /\ Total \in Nat
    BY SessionIsASequence, LenProperties DEF ReplayInv, FlowOK, StreamOK, RingOK, Total
  <2>2. Fits => Fits'
    BY <1>4, <2>1 DEF Double, Fits
  <2> QED
    BY <1>1, <1>4, <2>2 DEF Double, StageOK, Ended, Total, mainVars, loopVars, flagVars, consumerVars, workerVars
<1>5. CASE Start
  BY <1>1, <1>5 DEF Start, StageOK, Ended, Fits, Total, setupVars, loopVars, flagVars
<1>6. CASE PollEvent
  <2>1. main = "poll" /\ UNCHANGED <<mainVars, flagVars, setupVars, mlQueue, consumer, requests, worker>>
    BY <1>6, PollEffect DEF consumerVars, workerVars
  <2> QED
    BY <1>1, <2>1 DEF StageOK, Ended, Fits, Total, setupVars, mainVars, flagVars
<1>7. CASE EndPolling
  BY <1>1, <1>7 DEF EndPolling, Advance, StageOK, Ended, Fits, Total, setupVars, loopVars, consumerVars, workerVars
<1>8. CASE JoinConsumer
  BY <1>1, <1>8 DEF JoinConsumer, StageOK, Ended, Fits, Total, setupVars, loopVars, consumerVars, workerVars
<1>9. CASE JoinWorker
  BY <1>1, <1>9 DEF JoinWorker, WorkerJoined, Calm, StageOK, Ended, Fits, Total, setupVars, loopVars, flagVars,
       consumerVars, workerVars
<1>10. CASE Check
  BY <1>1, <1>10 DEF Check, Defect, Calm, Throw, Advance, StageOK, Ended, Fits, Total, setupVars, loopVars, flagVars,
       consumerVars, workerVars
<1>11. CASE \E submits \in BOOLEAN : ConsumeOne(submits)
  <2>1. /\ consumer \in {"pop", "last"} /\ consumer' = "pop"
        /\ withMl \/ UNCHANGED <<requests, mlQueue>>
        /\ UNCHANGED <<mainVars, flagVars, setupVars, replayed, worker>>
    BY <1>11, ConsumeEffect DEF loopVars, workerVars
  <2> QED
    BY <1>1, <2>1 DEF StageOK, Ended, Fits, Total, setupVars, mainVars, flagVars
<1>12. CASE ConsumerEmpty
  BY <1>1, <1>12 DEF ConsumerEmpty, StageOK, Ended, Fits, Total, setupVars, mainVars, loopVars, flagVars, workerVars
<1>13. CASE \E answered \in BOOLEAN : ScoreOne(answered)
  BY <1>1, <1>13 DEF ScoreOne, StageOK, Ended, Fits, Total, setupVars, mainVars, loopVars, flagVars, consumerVars
<1>14. CASE WorkerEmpty
  BY <1>1, <1>14 DEF WorkerEmpty, StageOK, Ended, Fits, Total, setupVars, mainVars, loopVars, flagVars, consumerVars
<1> QED
  BY <1>2, <1>3, <1>4, <1>5, <1>6, <1>7, <1>8, <1>9, <1>10, <1>11, <1>12, <1>13, <1>14
     DEF Next, Main, Consumer, Worker

\* What no step changes but these.
LEMMA WhoMovesEvents ==
  ASSUME [Next]_vars
  PROVE  \/ Publish \/ Transmit \/ Double \/ PollEvent \/ PollEmpty
         \/ \E submits \in BOOLEAN : ConsumeOne(submits)
         \/ UNCHANGED <<setupVars, brokerVars, loopVars, ring, ringDropped, processed>>
BY DEF Next, Main, Consumer, Worker, ProduceFails, EndPublish, Flush, FlushTimesOut, HealthCheck, Start, EndPolling,
   JoinConsumer, JoinWorker, Check, PollFails, ConsumerEmpty, ScoreOne, WorkerEmpty, Calm, vars, consumerVars

\* Only the consumer thread, with an event, and the scoring worker touch the requests.
LEMMA WhoMovesRequests ==
  ASSUME [Next]_vars
  PROVE  \/ \E submits \in BOOLEAN : ConsumeOne(submits)
         \/ \E answered \in BOOLEAN : ScoreOne(answered)
         \/ UNCHANGED <<processed, requests, mlQueue, mlDropped, scored, failed, sink>>
<1>1. Publish \/ Transmit \/ Double \/ ProduceFails \/ EndPublish \/ Flush \/ FlushTimesOut \/ HealthCheck \/ PollFails
        => UNCHANGED <<processed, requests, mlQueue, mlDropped, scored, failed, sink>>
  BY DEF Publish, Transmit, Double, ProduceFails, EndPublish, Flush, FlushTimesOut, HealthCheck, PollFails, Calm,
     consumerVars, workerVars
<1>2. PollEvent \/ PollEmpty \/ Start \/ EndPolling \/ JoinConsumer \/ JoinWorker \/ Check \/ ConsumerEmpty \/ WorkerEmpty
        => UNCHANGED <<processed, requests, mlQueue, mlDropped, scored, failed, sink>>
  BY DEF PollEvent, PollEmpty, Start, EndPolling, JoinConsumer, JoinWorker, Check, ConsumerEmpty, WorkerEmpty, Calm,
     consumerVars, workerVars
<1>3. UNCHANGED vars => UNCHANGED <<processed, requests, mlQueue, mlDropped, scored, failed, sink>>
  BY DEF vars, consumerVars, workerVars
<1> QED
  BY <1>1, <1>2, <1>3 DEF Next, Main, Consumer, Worker

\* Publishing and transmitting, and the doublings of the capacity.
LEMMA StreamStep == ReplayInv /\ [Next]_vars => StreamOK' /\ Len(topic') >= Len(topic)
<1> SUFFICES ASSUME ReplayInv, [Next]_vars PROVE StreamOK' /\ Len(topic') >= Len(topic)
  OBVIOUS
<1>1. /\ Total \in Nat /\ published \in 0 .. Total /\ QueueLimit \in Nat /\ capacity \in Nat
      /\ outgoing \in Seq(1 .. Total) /\ Len(outgoing) \in Nat /\ Len(outgoing) <= QueueLimit
      /\ topic \in Seq(1 .. Total) /\ Len(topic) \in Nat
      /\ session \in Sessions
  BY SessionIsASequence, LenProperties, ReplayAssumption DEF ReplayInv, FlowOK, StreamOK, RingOK, Total
<1>2. session' = session => Total' = Total
  BY DEF Total
<1>3. CASE Publish
  <2>1. /\ UNCHANGED <<session, capacity, topic>> /\ published' = published + 1
        /\ outgoing' = Append(outgoing, published + 1) /\ published < Total /\ Len(outgoing) < QueueLimit
    BY <1>3 DEF Publish, setupVars
  <2>2. published + 1 \in 1 .. Total
    BY <1>1, <2>1
  <2>3. outgoing' \in Seq(1 .. Total) /\ Len(outgoing') = Len(outgoing) + 1
    BY <1>1, <2>1, <2>2
  <2> QED
    BY <1>1, <1>2, <2>1, <2>2, <2>3 DEF StreamOK
<1>4. CASE Transmit
  <2>1. Head(outgoing) \in 1 .. Total /\ Tail(outgoing) \in Seq(1 .. Total) /\ Len(Tail(outgoing)) = Len(outgoing) - 1
    BY <1>1, <1>4 DEF Transmit
  <2>2. \/ topic' = Append(topic, Head(outgoing)) \/ topic' = topic
        \/ topic' = topic \o <<Head(outgoing), Head(outgoing)>>
    BY <1>4 DEF Transmit
  <2> DEFINE head == Head(outgoing)
  <2> HIDE DEF head
  <2>3. topic' \in Seq(1 .. Total) /\ Len(topic') >= Len(topic)
    <3>1. /\ Append(topic, head) \in Seq(1 .. Total) /\ Len(Append(topic, head)) = Len(topic) + 1
      BY <1>1, <2>1 DEF head
    <3>2. <<head, head>> \in Seq(1 .. Total) /\ Len(<<head, head>>) = 2
      BY <2>1 DEF head
    <3>3. /\ topic \o <<head, head>> \in Seq(1 .. Total)
          /\ Len(topic \o <<head, head>>) = Len(topic) + 2
      BY <1>1, <3>2, ConcatProperties
    <3>4. CASE topic' = topic
      BY <1>1, <3>4
    <3>5. CASE topic' = Append(topic, head)
      BY <1>1, <3>1, <3>5
    <3>6. CASE topic' = topic \o <<head, head>>
      BY <1>1, <3>3, <3>6
    <3> QED
      BY <2>2, <3>4, <3>5, <3>6 DEF head
  <2>4. UNCHANGED <<session, capacity, published>> /\ outgoing' = Tail(outgoing)
    BY <1>4 DEF Transmit, setupVars
  <2> QED
    BY <1>1, <1>2, <2>1, <2>3, <2>4 DEF StreamOK
<1>5. CASE Double
  <2>1. UNCHANGED <<session, published, outgoing, topic>> /\ capacity' = capacity * 2
    BY <1>5 DEF Double, brokerVars
  <2> QED
    BY <1>1, <1>2, <2>1 DEF StreamOK
<1>6. CASE UNCHANGED <<setupVars, brokerVars>>
  BY <1>1, <1>2, <1>6 DEF StreamOK, setupVars, brokerVars
<1>7. PollEvent => UNCHANGED <<setupVars, brokerVars>>
  BY PollEffect
<1>8. PollEmpty => UNCHANGED <<setupVars, brokerVars>>
  BY DEF PollEmpty
<1>9. (\E submits \in BOOLEAN : ConsumeOne(submits)) => UNCHANGED <<setupVars, brokerVars>>
  BY ConsumeEffect
<1> QED
  BY <1>3, <1>4, <1>5, <1>6, <1>7, <1>8, <1>9, WhoMovesEvents

\* An event polled goes onto the ring, and from its other end to the pipeline.
LEMMA RingStep == ReplayInv /\ [Next]_vars => RingOK'
<1> SUFFICES ASSUME ReplayInv, [Next]_vars PROVE RingOK'
  OBVIOUS
<1>1. /\ session \in Seq(Event) /\ Total = Len(session) /\ topic \in Seq(1 .. Total)
      /\ ring \in Seq(Readable) /\ processed \in Seq(Readable)
  BY SessionIsASequence DEF ReplayInv, FlowOK, StreamOK, RingOK, Total
<1>2. /\ Total \in Nat /\ MaxEmpty \in Nat
      /\ Len(topic) \in Nat /\ Len(ring) \in Nat /\ Len(processed) \in Nat
  BY <1>1, LenProperties, ReplayAssumption
<1>12. Len(topic') \in Nat /\ Len(topic') >= Len(topic)
  <2>1. topic' \in Seq((1 .. Total)')
    BY StreamStep DEF StreamOK
  <2> QED
    BY <2>1, StreamStep, LenProperties
<1>13. /\ position \in 0 .. Len(topic) /\ empties \in 0 .. MaxEmpty
       /\ replayed = position /\ replayed <= Total
       /\ replayed = Len(processed) + Len(ring) /\ ringDropped = 0
  BY DEF ReplayInv, FlowOK, RingOK
<1>14. position \in 0 .. Len(topic')
  BY <1>2, <1>12, <1>13
<1>3. session' = session => Total' = Total
  BY DEF Total
<1>0. Readable' = Readable
  BY DEF Readable, Decoded, Event
<1>4. CASE session' = session /\ UNCHANGED <<loopVars, ring, ringDropped, processed>>
  <2>1. UNCHANGED <<position, replayed, empties, ring, ringDropped, processed>> /\ Total' = Total
    BY <1>3, <1>4 DEF loopVars
  <2>2. position' \in 0 .. Len(topic') /\ empties' \in 0 .. MaxEmpty
    BY <1>13, <1>14, <2>1
  <2>3. ring' \in Seq(Readable) /\ processed' \in Seq(Readable)
    BY <1>1, <2>1
  <2>4. replayed' = position' /\ replayed' <= Total /\ replayed' = Len(processed') + Len(ring') /\ ringDropped' = 0
    BY <1>13, <2>1
  <2> QED
    BY <1>0, <2>1, <2>2, <2>3, <2>4 DEF RingOK
<1>5. Publish \/ Transmit \/ Double => session' = session /\ UNCHANGED <<loopVars, ring, ringDropped, processed>>
  BY DEF Publish, Transmit, Double, setupVars, consumerVars
<1>6. CASE PollEvent
  <2>1. PICK event \in Polled : ring' = Append(ring, event)
    BY <1>6, PollEffect
  <2>2. event \in Readable
    <3>1. position + 1 \in 1 .. Len(topic)
      BY <1>2, <1>6, <1>13, PollEffect
    <3>2. topic[position + 1] \in 1 .. Len(session)
      BY <1>1, <3>1, ElementOfSeq
    <3>3. session[topic[position + 1]] \in Event
      BY <1>1, <3>2, ElementOfSeq
    <3> QED
      BY <2>1, <3>3 DEF Polled, Readable
  <2>3. ring' \in Seq(Readable) /\ Len(ring') = Len(ring) + 1
    BY <1>1, <2>1, <2>2
  <2>4. /\ position < Len(topic) /\ replayed < Total /\ position' = position + 1 /\ replayed' = replayed + 1 /\ empties' = 0
        /\ UNCHANGED <<topic, ringDropped, processed>> /\ Total' = Total
    BY <1>3, <1>6, PollEffect DEF setupVars, brokerVars, consumerVars
  <2>5. position' \in 0 .. Len(topic') /\ replayed' = position' /\ replayed' <= Total' /\ empties' \in 0 .. MaxEmpty
    <3>1. position \in Nat /\ position < Len(topic) /\ Len(topic) \in Nat /\ replayed < Total /\ Total \in Nat
          /\ replayed = position
      BY <1>2, <1>13, <2>4
    <3>2. position + 1 \in 0 .. Len(topic) /\ replayed + 1 <= Total /\ replayed + 1 = position + 1
      BY <3>1
    <3> QED
      BY <1>2, <2>4, <3>2
  <2>6. replayed' = Len(processed') + Len(ring') /\ ringDropped' = 0
    BY <1>2, <1>13, <2>3, <2>4
  <2>7. processed' \in Seq(Readable)
    BY <1>1, <2>4
  <2> QED
    BY <1>0, <2>3, <2>5, <2>6, <2>7 DEF RingOK
<1>7. CASE PollEmpty
  <2>1. /\ UNCHANGED <<session, topic, position, replayed, ring, ringDropped, processed>>
        /\ empties < MaxEmpty /\ empties' = Smaller(empties + 1, MaxEmpty)
    BY <1>7 DEF PollEmpty, Polling, setupVars, brokerVars, consumerVars
  <2>2. empties' \in 0 .. MaxEmpty
    BY <1>2, <1>13, <2>1 DEF Smaller
  <2> QED
    BY <1>0, <1>1, <1>3, <1>13, <2>1, <2>2 DEF RingOK
<1>8. CASE \E submits \in BOOLEAN : ConsumeOne(submits)
  <2>1. /\ ring # <<>> /\ processed' = Append(processed, Head(ring)) /\ ring' = Tail(ring)
        /\ UNCHANGED <<topic, position, replayed, empties, ringDropped>> /\ Total' = Total
    BY <1>3, <1>8, ConsumeEffect DEF setupVars, brokerVars, loopVars
  <2>2. Head(ring) \in Readable /\ Tail(ring) \in Seq(Readable) /\ Len(Tail(ring)) = Len(ring) - 1
    BY <1>1, <2>1
  <2>3. processed' \in Seq(Readable) /\ Len(processed') = Len(processed) + 1
    BY <1>1, <2>1, <2>2
  <2>4. replayed' = Len(processed') + Len(ring')
    BY <1>2, <1>13, <2>1, <2>2, <2>3
  <2> QED
    BY <1>0, <1>13, <2>1, <2>2, <2>3, <2>4 DEF RingOK
<1> QED
  BY <1>4, <1>5, <1>6, <1>7, <1>8, WhoMovesEvents DEF setupVars

\* A request is submitted behind those in the queue; the scoring thread takes the first.
LEMMA RequestsStep == ReplayInv /\ [Next]_vars => RequestsOK'
<1> SUFFICES ASSUME ReplayInv, [Next]_vars PROVE RequestsOK'
  OBVIOUS
<1>1. /\ processed \in Seq(Readable) /\ Len(processed) \in Nat
      /\ requests \in Seq(Nat) /\ Len(requests) \in Nat /\ mlQueue \in Seq(Nat) /\ Len(mlQueue) \in Nat
      /\ RequestsOK
  BY LenProperties DEF ReplayInv, FlowOK, StreamOK, RingOK, RequestsOK
<1>2. CASE \E submits \in BOOLEAN : ConsumeOne(submits)
  <2>1. /\ ring # <<>> /\ processed' = Append(processed, Head(ring)) /\ ring \in Seq(Readable)
        /\ \/ requests' = Append(requests, Len(processed) + 1) /\ mlQueue' = Append(mlQueue, Len(processed) + 1)
           \/ UNCHANGED <<requests, mlQueue>>
        /\ mlDropped' = mlDropped /\ UNCHANGED <<scored, failed>>
    BY <1>2, ConsumeEffect DEF workerVars, ReplayInv, FlowOK, RingOK
  <2>2. Len(processed') = Len(processed) + 1
    BY <1>1, <2>1
  <2>3. CASE UNCHANGED <<requests, mlQueue>>
    <3>1. Taken' = Taken
      BY <2>3 DEF Taken
    <3> QED
      BY SMTT(30), <1>1, <2>1, <2>2, <2>3, <3>1 DEF RequestsOK
  <2>4. CASE requests' = Append(requests, Len(processed) + 1) /\ mlQueue' = Append(mlQueue, Len(processed) + 1)
    <3> DEFINE item == Len(processed) + 1
    <3>1. /\ requests' \in Seq(Nat) /\ Len(requests') = Len(requests) + 1
          /\ mlQueue' \in Seq(Nat) /\ Len(mlQueue') = Len(mlQueue) + 1
          /\ \A k \in 1 .. Len(requests) : requests'[k] = requests[k]
          /\ requests'[Len(requests) + 1] = item
          /\ \A k \in 1 .. Len(mlQueue) : mlQueue'[k] = mlQueue[k]
          /\ mlQueue'[Len(mlQueue) + 1] = item
      BY <1>1, <2>4
    <3>2. Taken' = Taken /\ Taken \in Nat /\ Taken <= Len(requests)
      BY <1>1, <3>1 DEF Taken, RequestsOK
    <3>3. \A k \in 1 .. Len(requests') : k \in 1 .. Len(requests) \/ k = Len(requests) + 1
      BY <1>1, <3>1
    <3>4. \A k \in 1 .. Len(requests) : requests[k] \in Nat /\ requests[k] <= Len(processed)
      BY <1>1, ElementOfSeq DEF RequestsOK
    <3>5. \A k \in 1 .. Len(requests') : requests'[k] <= Len(processed')
      <4> SUFFICES ASSUME NEW k \in 1 .. Len(requests') PROVE requests'[k] <= Len(processed) + 1
        BY <2>2
      <4>1. CASE k \in 1 .. Len(requests)
        <5>1. requests'[k] = requests[k]
          BY <3>1, <4>1
        <5>2. requests[k] \in Nat /\ requests[k] <= Len(processed) /\ Len(processed) \in Nat
          BY <1>1, <3>4, <4>1
        <5> QED
          BY <5>1, <5>2
      <4>2. CASE k = Len(requests) + 1
        BY <1>1, <3>1, <4>2
      <4> QED
        BY <3>3, <4>1, <4>2
    <3>6. \A j, k \in 1 .. Len(requests') : j < k => requests'[j] < requests'[k]
      <4> SUFFICES ASSUME NEW j \in 1 .. Len(requests'), NEW k \in 1 .. Len(requests'), j < k
                   PROVE  requests'[j] < requests'[k]
        OBVIOUS
      <4>1. j \in 1 .. Len(requests)
        BY <1>1, <3>1
      <4>2. CASE k \in 1 .. Len(requests)
        BY <1>1, <3>1, <4>1, <4>2 DEF RequestsOK
      <4>3. CASE k = Len(requests) + 1
        <5>1. requests'[j] \in Nat /\ requests'[j] <= Len(processed)
          BY <3>1, <3>4, <4>1
        <5>2. requests'[k] = Len(processed) + 1
          BY <3>1, <4>3
        <5> QED
          BY <1>1, <5>1, <5>2
      <4> QED
        BY <3>3, <4>2, <4>3
    <3>7. \A i \in 1 .. Len(mlQueue') : mlQueue'[i] = requests'[Taken' + i]
      <4> SUFFICES ASSUME NEW i \in 1 .. Len(mlQueue') PROVE mlQueue'[i] = requests'[Taken + i]
        BY <3>2
      <4>1. CASE i \in 1 .. Len(mlQueue)
        <5>1. Taken + i \in 1 .. Len(requests)
          BY <1>1, <3>2, <4>1 DEF Taken
        <5> QED
          BY <1>1, <3>1, <4>1, <5>1 DEF RequestsOK
      <4>2. CASE i = Len(mlQueue) + 1
        BY <1>1, <3>1, <4>2 DEF Taken
      <4> QED
        BY <1>1, <3>1, <4>1, <4>2
    <3>8. {requests'[k] : k \in 1 .. Taken'} = {requests[k] : k \in 1 .. Taken}
      <4>1. \A k \in 1 .. Taken : requests'[k] = requests[k]
        BY <1>1, <3>1, <3>2
      <4> QED
        BY <3>2, <4>1
    <3> QED
      <4>1. /\ Len(mlQueue') <= Len(requests') /\ Len(requests') <= Len(processed') /\ mlDropped' = 0
            /\ UNCHANGED <<scored, failed>>
        BY <1>1, <2>1, <2>2, <3>1 DEF RequestsOK
      <4>2. /\ scored \cup failed = {requests[k] : k \in 1 .. Taken}
            /\ scored \cap failed = {} /\ IsFiniteSet(scored) /\ IsFiniteSet(failed)
            /\ Cardinality(scored) + Cardinality(failed) = Taken
        BY <1>1 DEF RequestsOK
      <4> QED
        BY <3>1, <3>2, <3>5, <3>6, <3>7, <3>8, <4>1, <4>2 DEF RequestsOK
  <2> QED
    BY <2>1, <2>3, <2>4
<1>3. ASSUME NEW answered \in BOOLEAN, ScoreOne(answered) PROVE RequestsOK'
  <2> DEFINE first == Head(mlQueue)
  <2>1. /\ mlQueue # <<>> /\ mlQueue' = Tail(mlQueue)
        /\ UNCHANGED <<processed, requests, mlDropped>>
        /\ \/ scored' = scored \cup {first} /\ failed' = failed
           \/ scored' = scored /\ failed' = failed \cup {first}
    BY <1>3 DEF ScoreOne, consumerVars
  <2>2. /\ 1 \in 1 .. Len(mlQueue) /\ first = mlQueue[1]
        /\ Tail(mlQueue) \in Seq(Nat) /\ Len(Tail(mlQueue)) = Len(mlQueue) - 1
        /\ \A i \in 1 .. Len(mlQueue) - 1 : Tail(mlQueue)[i] = mlQueue[i + 1]
    BY <1>1, <2>1
  <2>3. Taken \in Nat /\ Taken + 1 \in 1 .. Len(requests) /\ Taken' = Taken + 1
    BY <1>1, <2>1, <2>2 DEF Taken, RequestsOK
  <2>4. first = requests[Taken + 1]
    BY <1>1, <2>2 DEF RequestsOK
  <2> HIDE DEF first
  <2>5. first \notin scored \cup failed
    <3>1. \A k \in 1 .. Taken : requests[k] < requests[Taken + 1]
      <4>1. \A k \in 1 .. Taken : k \in 1 .. Len(requests) /\ k < Taken + 1
        BY <1>1, <2>3
      <4> QED
        BY <1>1, <2>3, <4>1 DEF RequestsOK
    <3>2. \A k \in 1 .. Len(requests) : requests[k] \in Nat
      BY <1>1, ElementOfSeq
    <3>3. \A k \in 1 .. Taken : requests[k] # requests[Taken + 1]
      BY <1>1, <2>3, <3>1, <3>2
    <3> QED
      BY <1>1, <2>4, <3>3 DEF RequestsOK
  <2>6. scored' \cup failed' = {requests'[k] : k \in 1 .. Taken'}
    <3>1. {requests[k] : k \in 1 .. Taken + 1} = {requests[k] : k \in 1 .. Taken} \cup {requests[Taken + 1]}
      <4>1. \A k \in 1 .. Taken + 1 : k \in 1 .. Taken \/ k = Taken + 1
        BY <2>3
      <4>2. 1 .. Taken \subseteq 1 .. Taken + 1 /\ Taken + 1 \in 1 .. Taken + 1
        BY <2>3
      <4> QED
        BY <4>1, <4>2
    <3> QED
      BY SMTT(30), <1>1, <2>1, <2>3, <2>4, <3>1 DEF RequestsOK
  <2>7. \A i \in 1 .. Len(mlQueue') : mlQueue'[i] = requests'[Taken' + i]
    <3> SUFFICES ASSUME NEW i \in 1 .. Len(mlQueue) - 1 PROVE mlQueue[i + 1] = requests[Taken + 1 + i]
      BY <2>1, <2>2, <2>3
    <3>1. i + 1 \in 1 .. Len(mlQueue) /\ Taken + (i + 1) = Taken + 1 + i
      BY <1>1, <2>3
    <3> QED
      BY <1>1, <3>1 DEF RequestsOK
  <2>8. /\ IsFiniteSet(scored') /\ IsFiniteSet(failed') /\ scored' \cap failed' = {}
        /\ Cardinality(scored') + Cardinality(failed') = Taken'
    <3>1. IsFiniteSet(scored) /\ IsFiniteSet(failed) /\ Cardinality(scored) \in Nat /\ Cardinality(failed) \in Nat
      BY <1>1, FS_CardinalityType DEF RequestsOK
    <3>2. /\ IsFiniteSet(scored \cup {first}) /\ Cardinality(scored \cup {first}) = Cardinality(scored) + 1
          /\ IsFiniteSet(failed \cup {first}) /\ Cardinality(failed \cup {first}) = Cardinality(failed) + 1
      BY <2>5, <3>1, FS_AddElement
    <3>3. scored \cap failed = {} /\ Cardinality(scored) + Cardinality(failed) = Taken
      BY <1>1 DEF RequestsOK
    <3>4. CASE scored' = scored \cup {first} /\ failed' = failed
      BY <2>3, <2>5, <3>1, <3>2, <3>3, <3>4
    <3>5. CASE scored' = scored /\ failed' = failed \cup {first}
      BY <2>3, <2>5, <3>1, <3>2, <3>3, <3>5
    <3> QED
      BY <2>1, <3>4, <3>5
  <2> QED
    BY <1>1, <2>1, <2>2, <2>3, <2>6, <2>7, <2>8 DEF RequestsOK
<1>4. CASE UNCHANGED <<processed, requests, mlQueue, mlDropped, scored, failed, sink>>
  <2>1. Taken' = Taken
    BY <1>4 DEF Taken
  <2> QED
    BY <1>1, <1>4, <2>1 DEF RequestsOK
<1> QED
  BY <1>2, <1>3, <1>4, WhoMovesRequests

\* The alerts in the sink are those of what was processed and of what was scored.
LEMMA SinkStep == ReplayInv /\ SinkOK /\ [Next]_vars => SinkOK'
<1> SUFFICES ASSUME ReplayInv, SinkOK, [Next]_vars PROVE SinkOK'
  OBVIOUS
<1>1. CASE \E submits \in BOOLEAN : ConsumeOne(submits)
  <2>1. /\ ring # <<>> /\ ring \in Seq(Readable) /\ processed \in Seq(Readable)
        /\ processed' = Append(processed, Head(ring)) /\ scored' = scored
        /\ sink' = sink \cup {<<"event", Len(processed) + 1>>}
    BY <1>1, ConsumeEffect DEF workerVars, ReplayInv, FlowOK, RingOK
  <2>2. Len(processed') = Len(processed) + 1 /\ Len(processed) \in Nat
    BY <2>1
  <2>3. 1 .. Len(processed) + 1 = (1 .. Len(processed)) \cup {Len(processed) + 1}
    BY <2>2
  <2>4. {<<"event", k>> : k \in 1 .. Len(processed')}
          = {<<"event", k>> : k \in 1 .. Len(processed)} \cup {<<"event", Len(processed) + 1>>}
    BY <2>2, <2>3
  <2> QED
    BY <2>1, <2>4 DEF SinkOK
<1>2. ASSUME NEW answered \in BOOLEAN, ScoreOne(answered) PROVE SinkOK'
  <2>1. CASE answered
    <3>1. {<<"request", k>> : k \in scored \cup {Head(mlQueue)}}
            = {<<"request", k>> : k \in scored} \cup {<<"request", Head(mlQueue)>>}
      OBVIOUS
    <3> QED
      BY <1>2, <2>1, <3>1 DEF ScoreOne, consumerVars, SinkOK
  <2>2. CASE ~answered
    BY <1>2, <2>2 DEF ScoreOne, consumerVars, SinkOK
  <2> QED
    BY <2>1, <2>2
<1>3. CASE UNCHANGED <<processed, requests, mlQueue, mlDropped, scored, failed, sink>>
  BY <1>3 DEF SinkOK
<1> QED
  BY <1>1, <1>2, <1>3, WhoMovesRequests

\* The invariant holds of every state of a replay.
LEMMA ReplayInvariant == Spec => [](ReplayInv /\ SinkOK)
<1>1. ReplayInv /\ SinkOK /\ [Next]_vars => ReplayInv' /\ SinkOK'
  BY StageStep, StreamStep, RingStep, RequestsStep, SinkStep DEF ReplayInv, FlowOK
<1> QED
  BY <1>1, ReplayInit, PTL DEF Spec

\* No push onto either ring buffer finds it full: ring_buffer_capacity_for is enough
\* for any session, however slow the threads are and whatever the broker sends twice.
THEOREM ReplayNeverDrops == Spec => []CapacityNeverBinds
<1>1. ReplayInv => CapacityNeverBinds
  <2> SUFFICES ASSUME ReplayInv PROVE CapacityNeverBinds
    OBVIOUS
  <2>1. Len(requests) \in Nat /\ Len(mlQueue) \in Nat
    BY DEF ReplayInv, RequestsOK
  <2>2. TypeOK
    BY SMTT(30), <2>1 DEF ReplayInv, StageOK, FlowOK, StreamOK, RingOK, RequestsOK, Taken, TypeOK
  <2> QED
    BY <2>2 DEF ReplayInv, FlowOK, StreamOK, RingOK, RequestsOK, CapacityNeverBinds
<1> QED
  BY <1>1, ReplayInvariant, PTL

-----------------------------------------------------------------------------
\* The order of the messages

\* How many messages librdkafka has taken from its queue.
Sent == published - Len(outgoing)

\* The queue holds the messages that follow those taken.  While no message is in the topic
\* twice, the k-th is at least k, and as many are missing before it as the counts allow.
TopicOK ==
  /\ Sent \in Nat /\ Sent <= published
  /\ \A i \in 1 .. Len(outgoing) : outgoing[i] = Sent + i
  /\ \A k \in 1 .. Len(topic) : topic[k] <= Sent
  /\ SentOnce => /\ Len(topic) <= Sent
                 /\ \A k \in 1 .. Len(topic) : k <= topic[k] /\ topic[k] + Len(topic) <= Sent + k

\* What was polled is the events of the messages of the topic, in its order.
PouredOK ==
  /\ \A k \in 1 .. Len(processed) : processed[k] = session[topic[k]]
  /\ \A i \in 1 .. Len(ring) : ring[i] = session[topic[Len(processed) + i]]
  /\ reason = "consume" => "consume" \in Faults

\* The payload of an event is read back as that event.
CodecRoundTrips == \A event \in Event : Decode(Encode(event)) = {event}

\* Nothing is published or in the topic at first.
LEMMA OrderInit == Init => TopicOK /\ PouredOK
BY DEF Init, TopicOK, PouredOK, Sent

\* The topic only grows at its end.
LEMMA TopicGrows ==
  ASSUME ReplayInv, [Next]_vars
  PROVE  \A k \in 1 .. Len(topic) : topic'[k] = topic[k]
<1>1. topic \in Seq(1 .. Total) /\ Len(topic) \in Nat
  BY LenProperties DEF ReplayInv, FlowOK, StreamOK
<1>2. CASE Transmit
  <2> DEFINE head == Head(outgoing)
  <2>1. topic' = Append(topic, head) \/ topic' = topic \/ topic' = topic \o <<head, head>>
    BY <1>2 DEF Transmit
  <2>2. outgoing \in Seq(1 .. Total) /\ outgoing # <<>>
    BY <1>2 DEF Transmit, ReplayInv, FlowOK, StreamOK
  <2>3. head \in 1 .. Total
    <3>1. 1 \in 1 .. Len(outgoing) /\ head = outgoing[1]
      BY <2>2
    <3> QED
      BY <2>2, <3>1, ElementOfSeq
  <2> HIDE DEF head
  <2>4. CASE topic' = topic
    BY <2>4
  <2>5. CASE topic' = Append(topic, head)
    BY <1>1, <2>3, <2>5
  <2>6. CASE topic' = topic \o <<head, head>>
    <3>1. <<head, head>> \in Seq(1 .. Total) /\ Len(<<head, head>>) = 2
      BY <2>3
    <3> QED
      BY <1>1, <2>6, <3>1, ConcatProperties
  <2> QED
    BY <2>1, <2>4, <2>5, <2>6
<1>3. CASE topic' = topic
  BY <1>3
<1>4. Publish \/ Double \/ PollEmpty => topic' = topic
  BY DEF Publish, Double, PollEmpty, brokerVars
<1>5. PollEvent => topic' = topic
  BY PollEffect DEF brokerVars
<1>6. (\E submits \in BOOLEAN : ConsumeOne(submits)) => topic' = topic
  BY ConsumeEffect DEF brokerVars
<1> QED
  BY <1>2, <1>3, <1>4, <1>5, <1>6, WhoMovesEvents DEF brokerVars

\* A message is queued behind the others, and taken from the front of the queue: into the
\* topic, away, or twice into the topic.
LEMMA TopicStep == ReplayInv /\ TopicOK /\ [Next]_vars => TopicOK'
<1> SUFFICES ASSUME ReplayInv, TopicOK, [Next]_vars PROVE TopicOK'
  OBVIOUS
<1>1. /\ topic \in Seq(1 .. Total) /\ Len(topic) \in Nat
      /\ outgoing \in Seq(1 .. Total) /\ Len(outgoing) \in Nat
      /\ published \in Nat /\ Sent \in Nat /\ Total \in Nat
  BY SessionIsASequence, LenProperties DEF ReplayInv, FlowOK, StreamOK, TopicOK, Total
<1>2. \A k \in 1 .. Len(topic) : topic[k] \in Nat
  <2>1. \A k \in 1 .. Len(topic) : topic[k] \in 1 .. Total
    BY <1>1, ElementOfSeq
  <2> QED
    BY <1>1, <2>1
<1>3. CASE Publish
  <2>1. /\ published' = published + 1 /\ outgoing' = Append(outgoing, published + 1) /\ topic' = topic
        /\ published < Total
    BY <1>3 DEF Publish
  <2>2. /\ Len(outgoing') = Len(outgoing) + 1
        /\ \A i \in 1 .. Len(outgoing) : outgoing'[i] = outgoing[i]
        /\ outgoing'[Len(outgoing) + 1] = published + 1
    BY <1>1, <2>1
  <2>3. Sent' = Sent
    BY <1>1, <2>1, <2>2 DEF Sent
  <2>4. \A i \in 1 .. Len(outgoing') : outgoing'[i] = Sent + i
    <3> SUFFICES ASSUME NEW i \in 1 .. Len(outgoing') PROVE outgoing'[i] = Sent + i
      OBVIOUS
    <3>1. CASE i \in 1 .. Len(outgoing)
      BY <2>2, <3>1 DEF TopicOK
    <3>2. CASE i = Len(outgoing) + 1
      BY <1>1, <2>2, <3>2 DEF Sent
    <3> QED
      BY <1>1, <2>2, <3>1, <3>2
  <2>5. Sent <= published' /\ SentOnce' = SentOnce
    BY <1>1, <2>1 DEF TopicOK, SentOnce
  <2> QED
    BY <1>1, <2>1, <2>3, <2>4, <2>5 DEF TopicOK
<1>4. CASE Transmit
  <2> DEFINE head == Head(outgoing)
  <2>1. outgoing # <<>> /\ outgoing' = Tail(outgoing) /\ published' = published
    BY <1>4 DEF Transmit
  <2>2. /\ 1 \in 1 .. Len(outgoing) /\ head = outgoing[1]
        /\ Len(outgoing') = Len(outgoing) - 1
        /\ \A i \in 1 .. Len(outgoing) - 1 : outgoing'[i] = outgoing[i + 1]
    BY <1>1, <2>1
  <2>3. head = Sent + 1
    BY <2>2 DEF TopicOK
  <2>4. Sent' = Sent + 1 /\ Sent' <= published'
    BY <1>1, <2>1, <2>2 DEF Sent
  <2>5. \A i \in 1 .. Len(outgoing') : outgoing'[i] = Sent' + i
    <3> SUFFICES ASSUME NEW i \in 1 .. Len(outgoing) - 1 PROVE outgoing[i + 1] = Sent + 1 + i
      BY <2>2, <2>4
    <3>1. i + 1 \in 1 .. Len(outgoing) /\ Sent + (i + 1) = Sent + 1 + i
      BY <1>1
    <3> QED
      BY <3>1 DEF TopicOK
  <2> HIDE DEF head
  <2>6. topic' = topic \/ topic' = Append(topic, head) \/ topic' = topic \o <<head, head>>
    BY <1>4 DEF Transmit, head
  <2>7. ASSUME topic' = topic PROVE TopicOK'
    <3>1. SentOnce' = SentOnce
      BY <2>7 DEF SentOnce
    <3>2. \A k \in 1 .. Len(topic') : topic'[k] <= Sent'
      BY <1>1, <1>2, <2>4, <2>7 DEF TopicOK
    <3>3. SentOnce => /\ Len(topic) <= Sent'
                      /\ \A k \in 1 .. Len(topic) : k <= topic[k] /\ topic[k] + Len(topic) <= Sent' + k
      BY <1>1, <1>2, <2>4 DEF TopicOK
    <3> QED
      BY <1>1, <2>4, <2>5, <2>7, <3>1, <3>2, <3>3 DEF TopicOK
  <2>8. ASSUME topic' = Append(topic, head) PROVE TopicOK'
    <3>1. /\ Len(topic') = Len(topic) + 1
          /\ \A k \in 1 .. Len(topic) : topic'[k] = topic[k]
          /\ topic'[Len(topic) + 1] = Sent + 1
          /\ DOMAIN topic' = 1 .. Len(topic) + 1 /\ DOMAIN topic = 1 .. Len(topic)
      BY <1>1, <2>3, <2>8
    <3>2. \A k \in 1 .. Len(topic') : k \in 1 .. Len(topic) \/ k = Len(topic) + 1
      BY <1>1, <3>1
    <3>3. \A k \in 1 .. Len(topic') : topic'[k] <= Sent'
      <4>1. Sent \in Nat /\ \A k \in 1 .. Len(topic) : topic[k] \in Nat /\ topic[k] <= Sent
        BY <1>1, <1>2 DEF TopicOK
      <4>2. \A k \in 1 .. Len(topic) : topic[k] <= Sent + 1
        BY <4>1
      <4>3. Sent + 1 <= Sent + 1
        BY <4>1
      <4> QED
        BY <2>4, <3>1, <3>2, <4>2, <4>3
    <3>4. SentOnce' => SentOnce
      <4>1. \A k \in DOMAIN topic : k \in DOMAIN topic' /\ topic'[k] = topic[k]
        BY <1>1, <3>1
      <4> QED
        BY <4>1 DEF SentOnce, IsInjective
    <3>5. ASSUME SentOnce
          PROVE  /\ Len(topic') <= Sent'
                 /\ \A k \in 1 .. Len(topic') : k <= topic'[k] /\ topic'[k] + Len(topic') <= Sent' + k
      <4>1. /\ Len(topic) <= Sent
            /\ \A k \in 1 .. Len(topic) : k <= topic[k] /\ topic[k] + Len(topic) <= Sent + k
        BY <3>5 DEF TopicOK
      <4>2. \A k \in 1 .. Len(topic) : k <= topic'[k] /\ topic'[k] + Len(topic') <= Sent' + k
        BY <1>1, <1>2, <2>4, <3>1, <4>1
      <4>3. \A k \in 1 .. Len(topic') : k = Len(topic) + 1 => k <= topic'[k] /\ topic'[k] + Len(topic') <= Sent' + k
        BY <1>1, <2>4, <3>1, <4>1
      <4>4. Len(topic') <= Sent'
        BY <1>1, <2>4, <3>1, <4>1
      <4> QED
        BY <3>2, <4>2, <4>3, <4>4
    <3> QED
      BY <1>1, <2>4, <2>5, <3>3, <3>4, <3>5 DEF TopicOK
  <2>9. ASSUME topic' = topic \o <<head, head>> PROVE TopicOK'
    <3>1. head \in Nat /\ <<head, head>> \in Seq(Nat) /\ Len(<<head, head>>) = 2
      BY <1>1, <2>3
    <3>2. topic \in Seq(Nat)
      BY <1>1, <1>2
    <3>3. /\ topic' \in Seq(Nat) /\ Len(topic') = Len(topic) + 2
          /\ \A k \in 1 .. Len(topic) + 2 : topic'[k] = IF k <= Len(topic) THEN topic[k] ELSE <<head, head>>[k - Len(topic)]
      BY <2>9, <3>1, <3>2, ConcatProperties
    <3>4. /\ \A k \in 1 .. Len(topic) : topic'[k] = topic[k]
          /\ topic'[Len(topic) + 1] = head /\ topic'[Len(topic) + 2] = head
      <4>1. \A k \in 1 .. Len(topic) : topic'[k] = topic[k]
        BY <1>1, <3>3
      <4>2. topic'[Len(topic) + 1] = <<head, head>>[1]
        <5>1. Len(topic) + 1 \in 1 .. Len(topic) + 2 /\ ~(Len(topic) + 1 <= Len(topic)) /\ Len(topic) + 1 - Len(topic) = 1
          BY <1>1
        <5> QED
          BY <3>3, <5>1
      <4>3. topic'[Len(topic) + 2] = <<head, head>>[2]
        <5>1. Len(topic) + 2 \in 1 .. Len(topic) + 2 /\ ~(Len(topic) + 2 <= Len(topic)) /\ Len(topic) + 2 - Len(topic) = 2
          BY <1>1
        <5> QED
          BY <3>3, <5>1
      <4> QED
        BY <4>1, <4>2, <4>3
    <3>5. \A k \in 1 .. Len(topic') : k \in 1 .. Len(topic) \/ k = Len(topic) + 1 \/ k = Len(topic) + 2
      <4>1. Len(topic') = Len(topic) + 2 /\ Len(topic) \in Nat
        BY <1>1, <3>3
      <4>2. \A k \in 1 .. Len(topic) + 2 : k \in 1 .. Len(topic) \/ k = Len(topic) + 1 \/ k = Len(topic) + 2
        BY <4>1
      <4> QED
        BY <4>1, <4>2
    <3>6. \A k \in 1 .. Len(topic') : topic'[k] <= Sent'
      <4>1. Sent \in Nat /\ \A k \in 1 .. Len(topic) : topic[k] \in Nat /\ topic[k] <= Sent
        BY <1>1, <1>2 DEF TopicOK
      <4>2. \A k \in 1 .. Len(topic) : topic[k] <= Sent + 1
        BY <4>1
      <4>3. Sent + 1 <= Sent + 1
        BY <4>1
      <4> QED
        BY <2>3, <2>4, <3>4, <3>5, <4>2, <4>3
    <3>7. ~SentOnce'
      <4>1. /\ Len(topic) + 1 \in DOMAIN topic' /\ Len(topic) + 2 \in DOMAIN topic'
            /\ Len(topic) + 1 # Len(topic) + 2
        BY <1>1, <3>3
      <4> QED
        BY <3>4, <4>1 DEF SentOnce, IsInjective
    <3> QED
      BY <1>1, <2>4, <2>5, <3>6, <3>7 DEF TopicOK
  <2> QED
    BY <2>6, <2>7, <2>8, <2>9
<1>5. CASE UNCHANGED brokerVars
  BY <1>5 DEF TopicOK, Sent, SentOnce, brokerVars
<1>6. Double \/ PollEmpty => UNCHANGED brokerVars
  BY DEF Double, PollEmpty
<1>7. PollEvent => UNCHANGED brokerVars
  BY PollEffect
<1>8. (\E submits \in BOOLEAN : ConsumeOne(submits)) => UNCHANGED brokerVars
  BY ConsumeEffect
<1> QED
  BY <1>3, <1>4, <1>5, <1>6, <1>7, <1>8, WhoMovesEvents

\* The message that poll() comes to names an event of the session; when a payload is read
\* back as what was written, that event is all poll() can make of it.
LEMMA PolledEvent ==
  ASSUME ReplayInv, CodecRoundTrips, position < Len(topic)
  PROVE  Polled = {session[topic[position + 1]]}
<1>1. /\ session \in Seq(Event) /\ topic \in Seq(1 .. Len(session)) /\ Len(topic) \in Nat
      /\ position \in 0 .. Len(topic)
  BY SessionIsASequence, LenProperties DEF ReplayInv, FlowOK, StreamOK, RingOK, Total
<1>2. position + 1 \in 1 .. Len(topic)
  BY <1>1
<1>3. topic[position + 1] \in 1 .. Len(session)
  BY <1>1, <1>2, ElementOfSeq
<1>4. session[topic[position + 1]] \in Event
  BY <1>1, <1>3, ElementOfSeq
<1> QED
  BY <1>4 DEF Polled, Decoded, CodecRoundTrips, Event

\* The only exception of poll() is then one of librdkafka's.
LEMMA ReasonStep ==
  ReplayInv /\ PouredOK /\ CodecRoundTrips /\ [Next]_vars => (reason' = "consume" => "consume" \in Faults)
<1> SUFFICES ASSUME ReplayInv, PouredOK, CodecRoundTrips, [Next]_vars
             PROVE  reason' = "consume" => "consume" \in Faults
  OBVIOUS
<1>1. reason = "consume" => "consume" \in Faults
  BY DEF PouredOK
<1>2. PollFails => "consume" \in Faults
  BY PolledEvent DEF PollFails
<1>3. ProduceFails \/ EndPublish \/ Flush \/ FlushTimesOut \/ HealthCheck \/ Check \/ JoinWorker
        => reason' = reason \/ reason' # "consume"
  BY DEF ProduceFails, EndPublish, Flush, FlushTimesOut, HealthCheck, Check, JoinWorker, Throw, Advance, Defect, Calm
<1>4. Publish \/ Transmit \/ Double \/ Start \/ PollEvent \/ PollEmpty \/ EndPolling \/ JoinConsumer
        => reason' = reason
  BY DEF Publish, Transmit, Double, Start, PollEvent, PollEmpty, EndPolling, JoinConsumer, Advance, mainVars
<1>5. Consumer \/ Worker \/ UNCHANGED vars => reason' = reason
  BY DEF Consumer, Worker, ConsumeOne, ConsumerEmpty, ScoreOne, WorkerEmpty, vars, mainVars
<1> QED
  BY <1>1, <1>2, <1>3, <1>4, <1>5 DEF Next, Main

\* The next event goes behind those polled, and the first in the ring behind those processed.
LEMMA PouredStep == ReplayInv /\ PouredOK /\ CodecRoundTrips /\ [Next]_vars => PouredOK'
<1> SUFFICES ASSUME ReplayInv, PouredOK, CodecRoundTrips, [Next]_vars PROVE PouredOK'
  OBVIOUS
<1>1. /\ ring \in Seq(Readable) /\ Len(ring) \in Nat
      /\ processed \in Seq(Readable) /\ Len(processed) \in Nat
  BY LenProperties DEF ReplayInv, FlowOK, RingOK
<1>2. /\ position = Len(processed) + Len(ring) /\ position <= Len(topic) /\ Len(topic) \in Nat
  BY LenProperties DEF ReplayInv, FlowOK, StreamOK, RingOK
<1>3. \A k \in 1 .. Len(topic) : topic'[k] = topic[k]
  BY TopicGrows
<1>4. reason' = "consume" => "consume" \in Faults
  BY ReasonStep
<1>5. \A k \in 1 .. Len(processed) : processed[k] = session[topic'[k]]
  BY <1>1, <1>2, <1>3 DEF PouredOK
<1>6. \A i \in 1 .. Len(ring) : ring[i] = session[topic'[Len(processed) + i]]
  <2> SUFFICES ASSUME NEW i \in 1 .. Len(ring) PROVE ring[i] = session[topic'[Len(processed) + i]]
    OBVIOUS
  <2>1. Len(processed) + i \in 1 .. Len(topic)
    BY <1>1, <1>2
  <2> QED
    BY <1>3, <2>1 DEF PouredOK
<1>7. CASE UNCHANGED <<session, ring, processed>>
  BY <1>4, <1>5, <1>6, <1>7 DEF PouredOK
<1>8. CASE PollEvent
  <2>1. /\ position < Len(topic) /\ UNCHANGED <<session, topic, processed>>
        /\ \E event \in Polled : ring' = Append(ring, event)
    BY <1>8, PollEffect DEF setupVars, brokerVars, consumerVars
  <2>2. PICK event \in Polled : ring' = Append(ring, event)
    BY <2>1
  <2>3. event = session[topic[position + 1]]
    BY <2>1, <2>2, PolledEvent
  <2>4. /\ Len(ring') = Len(ring) + 1
        /\ \A i \in 1 .. Len(ring) : ring'[i] = ring[i]
        /\ ring'[Len(ring) + 1] = event
    BY <1>1, <2>2
  <2>5. \A i \in 1 .. Len(ring') : ring'[i] = session'[topic'[Len(processed') + i]]
    <3> SUFFICES ASSUME NEW i \in 1 .. Len(ring') PROVE ring'[i] = session[topic[Len(processed) + i]]
      BY <2>1
    <3>1. CASE i \in 1 .. Len(ring)
      BY <2>4, <3>1 DEF PouredOK
    <3>2. CASE i = Len(ring) + 1
      <4>1. Len(processed) + i = position + 1
        BY <1>1, <1>2, <3>2
      <4> QED
        BY <2>3, <2>4, <3>2, <4>1
    <3> QED
      BY <1>1, <2>4, <3>1, <3>2
  <2> QED
    BY <1>4, <1>5, <2>1, <2>5 DEF PouredOK
<1>9. CASE \E submits \in BOOLEAN : ConsumeOne(submits)
  <2> DEFINE head == Head(ring)
  <2>1. /\ ring # <<>> /\ processed' = Append(processed, head) /\ ring' = Tail(ring)
        /\ session' = session
    BY <1>9, ConsumeEffect DEF setupVars
  <2>2. /\ 1 \in 1 .. Len(ring) /\ head = ring[1] /\ head \in Readable
        /\ Len(ring') = Len(ring) - 1
        /\ \A i \in 1 .. Len(ring) - 1 : ring'[i] = ring[i + 1]
    BY <1>1, <2>1
  <2> HIDE DEF head
  <2>3. /\ Len(processed') = Len(processed) + 1
        /\ \A k \in 1 .. Len(processed) : processed'[k] = processed[k]
        /\ processed'[Len(processed) + 1] = head
    BY <1>1, <2>1, <2>2
  <2>4. \A k \in 1 .. Len(processed') : processed'[k] = session'[topic'[k]]
    <3> SUFFICES ASSUME NEW k \in 1 .. Len(processed') PROVE processed'[k] = session[topic'[k]]
      BY <2>1
    <3>1. CASE k \in 1 .. Len(processed)
      BY <1>5, <2>3, <3>1
    <3>2. CASE k = Len(processed) + 1
      BY <1>6, <2>2, <2>3, <3>2
    <3> QED
      BY <1>1, <2>3, <3>1, <3>2
  <2>5. \A i \in 1 .. Len(ring') : ring'[i] = session'[topic'[Len(processed') + i]]
    <3> SUFFICES ASSUME NEW i \in 1 .. Len(ring) - 1 PROVE ring[i + 1] = session[topic'[Len(processed) + 1 + i]]
      BY <2>1, <2>2, <2>3
    <3>1. i + 1 \in 1 .. Len(ring) /\ Len(processed) + (i + 1) = Len(processed) + 1 + i
      BY <1>1
    <3> QED
      BY <1>6, <3>1
  <2> QED
    BY <1>4, <2>4, <2>5 DEF PouredOK
<1>10. Publish \/ Transmit \/ Double \/ PollEmpty => UNCHANGED <<session, ring, processed>>
  BY DEF Publish, Transmit, Double, PollEmpty, setupVars, consumerVars
<1> QED
  BY <1>7, <1>8, <1>9, <1>10, WhoMovesEvents DEF setupVars

\* The invariant of the order of the messages.
LEMMA OrderInvariant ==
  ASSUME CodecRoundTrips
  PROVE  Spec => [](ReplayInv /\ SinkOK /\ TopicOK /\ PouredOK)
<1>1. ReplayInv /\ TopicOK /\ PouredOK /\ [Next]_vars => TopicOK' /\ PouredOK'
  BY TopicStep, PouredStep
<1> QED
  BY <1>1, OrderInit, ReplayInvariant, PTL DEF Spec

\* What the invariants say of the messages polled while none was sent twice.
LEMMA OrderKept ==
  ASSUME ReplayInv, TopicOK, PouredOK, SentOnce
  PROVE  /\ Len(topic) <= Sent /\ Sent <= published /\ published <= Total
         /\ Sent \in Nat /\ published \in Nat /\ Total \in Nat /\ Len(topic) \in Nat /\ Len(processed) \in Nat
         /\ \A k \in 1 .. Len(processed) : k \in 1 .. Len(topic)
         /\ \A k \in 1 .. Len(topic) : topic[k] \in k .. Sent /\ (Len(topic) = Sent => topic[k] = k)
<1>1. /\ topic \in Seq(1 .. Total) /\ Len(topic) \in Nat /\ Len(processed) \in Nat /\ Len(ring) \in Nat
      /\ Sent \in Nat /\ Total \in Nat /\ published \in 0 .. Total
      /\ position = Len(processed) + Len(ring) /\ position <= Len(topic)
  BY SessionIsASequence, LenProperties DEF ReplayInv, FlowOK, StreamOK, RingOK, TopicOK, Total
<1>2. Sent <= published /\ Len(topic) <= Sent
  BY DEF TopicOK
<1>3. ASSUME NEW k \in 1 .. Len(topic) PROVE topic[k] \in k .. Sent /\ (Len(topic) = Sent => topic[k] = k)
  <2>1. topic[k] \in 1 .. Total
    BY <1>1, ElementOfSeq
  <2>2. topic[k] <= Sent /\ k <= topic[k] /\ topic[k] + Len(topic) <= Sent + k
    BY DEF TopicOK
  <2> QED
    BY SMTT(30), <1>1, <2>1, <2>2
<1>4. \A k \in 1 .. Len(processed) : k \in 1 .. Len(topic)
  BY <1>1
<1> QED
  BY <1>1, <1>2, <1>3, <1>4

\* Whatever an event's fields hold, and whatever goes astray, what is read back is what was
\* published, in its order, as long as a payload is read back as what was written.
THEOREM ReplayReadsWhatWasWritten ==
  ASSUME CodecRoundTrips
  PROVE  Spec => []ReadIsWhatWasWritten
<1>1. ReplayInv /\ TopicOK /\ PouredOK => ReadIsWhatWasWritten
  <2> SUFFICES ASSUME ReplayInv, TopicOK, PouredOK, SentOnce
               PROVE  /\ reason # "consume" \/ "consume" \in Faults
                      /\ \A k \in DOMAIN processed : \E n \in k .. published : processed[k] = session[n]
                      /\ replayed = published /\ ringDropped = 0
                           => processed \o ring = SubSeq(session, 1, published)
    BY DEF ReadIsWhatWasWritten
  <2>1. /\ Len(topic) <= Sent /\ Sent <= published /\ published <= Total
        /\ Sent \in Nat /\ published \in Nat /\ Total \in Nat /\ Len(topic) \in Nat /\ Len(processed) \in Nat
    BY OrderKept
  <2>2. /\ \A k \in 1 .. Len(processed) : k \in 1 .. Len(topic)
        /\ \A k \in 1 .. Len(topic) : topic[k] \in k .. Sent /\ (Len(topic) = Sent => topic[k] = k)
    BY OrderKept
  <2>3. /\ processed \in Seq(Readable) /\ DOMAIN processed = 1 .. Len(processed)
        /\ ring \in Seq(Readable) /\ Len(ring) \in Nat
    BY LenProperties DEF ReplayInv, FlowOK, RingOK
  <2>4. \A k \in DOMAIN processed : \E n \in k .. published : processed[k] = session[n]
    <3> SUFFICES ASSUME NEW k \in 1 .. Len(processed)
                 PROVE  \E n \in k .. published : processed[k] = session[n]
      BY <2>3
    <3>1. topic[k] \in k .. Sent /\ processed[k] = session[topic[k]]
      BY <2>2 DEF PouredOK
    <3>2. topic[k] \in k .. published
      BY <2>1, <3>1
    <3> QED
      BY <3>1, <3>2
  <2>5. ASSUME replayed = published PROVE processed \o ring = SubSeq(session, 1, published)
    <3>1. Len(processed) + Len(ring) = published /\ Len(topic) = Sent /\ Len(topic) = published
      <4>1. replayed = Len(processed) + Len(ring) /\ replayed <= Len(topic)
        BY DEF ReplayInv, FlowOK, RingOK
      <4> QED
        BY <2>1, <2>5, <4>1
    <3>2. \A k \in 1 .. published : topic[k] = k
      BY <2>2, <3>1
    <3>3. \A k \in 1 .. Len(processed) : processed[k] = session[k]
      BY <2>1, <2>2, <3>1, <3>2 DEF PouredOK
    <3>4. \A i \in 1 .. Len(ring) : ring[i] = session[Len(processed) + i]
      <4> SUFFICES ASSUME NEW i \in 1 .. Len(ring) PROVE ring[i] = session[Len(processed) + i]
        OBVIOUS
      <4>1. Len(processed) + i \in 1 .. published
        BY <2>1, <2>3, <3>1
      <4> QED
        BY <3>2, <4>1 DEF PouredOK
    <3>5. session \in Seq(Event) /\ Len(session) = Total
      BY SessionIsASequence DEF ReplayInv, FlowOK, StreamOK, Total
    <3>6. \A k \in 1 .. published : session[k] \in Event
      <4>1. \A k \in 1 .. published : k \in 1 .. Len(session)
        BY <2>1, <3>5
      <4> QED
        BY <3>5, <4>1, ElementOfSeq
    <3>7. /\ SubSeq(session, 1, published) \in Seq(Event)
          /\ Len(SubSeq(session, 1, published)) = published
          /\ \A k \in 1 .. published : SubSeq(session, 1, published)[k] = session[k]
      <4>1. \A k \in 1 .. published - 1 + 1 : SubSeq(session, 1, published)[k] = session[1 + k - 1]
        BY <2>1, <3>6, SubSeqProperties
      <4>2. \A k \in 1 .. published : k \in 1 .. published - 1 + 1 /\ 1 + k - 1 = k
        BY <2>1
      <4>3. /\ SubSeq(session, 1, published) \in Seq(Event)
            /\ Len(SubSeq(session, 1, published)) = IF 1 <= published THEN published - 1 + 1 ELSE 0
        BY <2>1, <3>6, SubSeqProperties
      <4>4. (IF 1 <= published THEN published - 1 + 1 ELSE 0) = published
        BY <2>1
      <4> QED
        BY <4>1, <4>2, <4>3, <4>4
    <3>8. /\ processed \o ring \in Seq(Readable) /\ Len(processed \o ring) = published
          /\ \A k \in 1 .. published :
               (processed \o ring)[k] = IF k <= Len(processed) THEN processed[k] ELSE ring[k - Len(processed)]
      BY <2>3, <3>1, ConcatProperties
    <3>9. \A k \in 1 .. published : (processed \o ring)[k] = session[k]
      <4> SUFFICES ASSUME NEW k \in 1 .. published PROVE (processed \o ring)[k] = session[k]
        OBVIOUS
      <4>1. CASE k <= Len(processed)
        BY <2>1, <3>3, <3>8, <4>1
      <4>2. CASE ~(k <= Len(processed))
        <5>1. k - Len(processed) \in 1 .. Len(ring) /\ Len(processed) + (k - Len(processed)) = k
          BY <2>1, <2>3, <3>1, <4>2
        <5> QED
          BY <3>4, <3>8, <4>2, <5>1
      <4> QED
        BY <4>1, <4>2
    <3>10. processed \o ring \in Seq(Event)
      <4>1. \A k \in 1 .. Len(processed \o ring) : (processed \o ring)[k] \in Event
        BY <3>6, <3>8, <3>9
      <4> QED
        BY <3>8, <4>1
    <3> HIDE DEF SentOnce
    <3> QED
      BY <3>7, <3>8, <3>9, <3>10, SeqEqual
  <2> QED
    BY <2>4, <2>5 DEF PouredOK
<1> QED
  BY <1>1, OrderInvariant, PTL

\* A result is returned only when it is whole: every event of the session processed, once and
\* in order, and every alert of those and of the requests that were answered.
THEOREM ReplayReturnsWhole ==
  ASSUME CodecRoundTrips
  PROVE  Spec => []ReturnedResultIsComplete
<1>1. ReplayInv /\ SinkOK /\ TopicOK /\ PouredOK => ReturnedResultIsComplete
  <2> SUFFICES ASSUME ReplayInv, SinkOK, TopicOK, PouredOK, main = "returned", SentOnce
               PROVE  /\ processed = session
                      /\ {requests[k] : k \in DOMAIN requests} = scored \cup failed
                      /\ sink = {<<"event", k>> : k \in DOMAIN session} \cup {<<"request", k>> : k \in scored}
    BY DEF ReturnedResultIsComplete
  <2>1. /\ ring = <<>> /\ mlQueue = <<>> /\ replayed = Total
    BY DEF ReplayInv, StageOK
  <2>2. /\ Len(topic) <= Sent /\ Sent <= published /\ published <= Total
        /\ Sent \in Nat /\ published \in Nat /\ Total \in Nat /\ Len(topic) \in Nat /\ Len(processed) \in Nat
    BY OrderKept
  <2>3. \A k \in 1 .. Len(topic) : topic[k] \in k .. Sent /\ (Len(topic) = Sent => topic[k] = k)
    BY OrderKept
  <2>4. Len(processed) = Total /\ Len(topic) = Total /\ Len(topic) = Sent
    <3>1. Len(processed) + Len(ring) = Total /\ Total <= Len(topic) /\ Len(ring) = 0
      BY <2>1 DEF ReplayInv, FlowOK, RingOK
    <3> QED
      BY <2>2, <3>1
  <2>5. session \in Seq(Event) /\ Len(session) = Total /\ DOMAIN session = 1 .. Total
    BY SessionIsASequence, LenProperties DEF ReplayInv, FlowOK, StreamOK, Total
  <2>6. \A k \in 1 .. Total : processed[k] = session[k]
    BY <2>3, <2>4 DEF PouredOK
  <2>7. processed = session
    <3>1. processed \in Seq(Readable)
      BY DEF ReplayInv, FlowOK, RingOK
    <3>2. \A k \in 1 .. Len(processed) : processed[k] \in Event
      BY <2>4, <2>5, <2>6, ElementOfSeq
    <3>3. processed \in Seq(Event)
      BY <3>1, <3>2
    <3> QED
      BY <2>4, <2>5, <2>6, <3>3, SeqEqual
  <2>8. {requests[k] : k \in DOMAIN requests} = scored \cup failed
    <3>1. requests \in Seq(Nat) /\ DOMAIN requests = 1 .. Len(requests) /\ Len(requests) \in Nat
      BY LenProperties DEF ReplayInv, RequestsOK
    <3>2. Len(mlQueue) = 0
      BY <2>1
    <3>3. Taken = Len(requests)
      BY <3>1, <3>2 DEF Taken
    <3> QED
      BY <3>1, <3>3 DEF ReplayInv, RequestsOK
  <2> QED
    BY <2>4, <2>5, <2>7, <2>8 DEF SinkOK
<1> QED
  BY <1>1, OrderInvariant, PTL
=============================================================================
