---------------------------- MODULE KafkaReplay ----------------------------
(***************************************************************************)
(* replay_through_kafka (cpp/harness/replay_runner.cpp): a session is         *)
(* published to a topic, flushed, read back from its beginning, and passed    *)
(* through a ring buffer to the consumer thread, whose sixth detector feeds   *)
(* the scoring thread.  The calling thread decides by counts and time-outs    *)
(* when the replay is over, stops the two threads one after the other, and    *)
(* returns the alerts or throws.                                             *)
(*                                                                          *)
(* librdkafka and the broker (KafkaProducer and KafkaReplayConsumer are thin  *)
(* wrappers) are the local queue outgoing and the partition 0 that is read.   *)
(* The two ring buffers are their contract: a push onto a full one discards   *)
(* the oldest item.  LivePipeline and MlScoring look inside a push.           *)
(***************************************************************************)
EXTENDS Integers, FiniteSets, EventCodec

CONSTANTS
  Sessions,     \* the sessions replayed: sequences of events
  MlModes,      \* whether ml_eval is given
  QueueLimit,   \* queue.buffering.max.messages
  MaxEmpty,     \* polls without an event that end the replay (10)
  Floor,        \* least capacity of a ring buffer (1024)
  Faults        \* what the outside may do

\* "produce", "health", "score": a call fails; "astray": a message is given up or lands in
\* another partition; "duplicate": it is sent again, its answer being lost (the producer is
\* not configured as idempotent); "consume": poll() or the consumer's constructor throws.
ASSUME FaultsAssumption == Faults \subseteq {"produce", "health", "score", "astray", "duplicate", "consume"}
ASSUME SessionsAssumption == \A s \in Sessions : s \in Seq(Range(s))
ASSUME ReplayAssumption == MlModes \subseteq BOOLEAN /\ {QueueLimit, MaxEmpty, Floor} \subseteq Nat \ {0}

VARIABLES
  session, withMl,
  capacity,   \* of the two ring buffers
  main,       \* where the calling thread is; "threw", "terminated" or "returned" at the end
  threads,    \* the std::threads that are joinable
  reason,     \* of the exception
  published,  \* events handed to produce()
  outgoing,   \* librdkafka's queue; a message is the position in the session of its event
  topic,      \* partition 0
  position, replayed, empties,        \* of the poll loop
  producerDone, mlStop,               \* the two flags
  ring, ringDropped, mlQueue, mlDropped,
  consumer, worker,                   \* "none", "pop", "last" or "stopped"
  processed,  \* events LivePipeline has processed, in order
  requests, scored, failed,           \* submitted, and how they ended
  sink        \* the alerts: of an event, and of a request

setupVars == <<session, withMl, capacity>>
mainVars == <<main, threads, reason>>
brokerVars == <<published, outgoing, topic>>
loopVars == <<position, replayed, empties>>
flagVars == <<producerDone, mlStop>>
consumerVars == <<consumer, processed, requests>>
workerVars == <<worker, scored, failed>>
vars == <<setupVars, mainVars, brokerVars, loopVars, flagVars, ring, ringDropped,
          mlQueue, mlDropped, consumerVars, workerVars, sink>>

Total == Len(session)
Smaller(m, n) == IF m <= n THEN m ELSE n
\* The end of the process is the end of its threads.
Alive == main # "terminated"
Ended == {"threw", "terminated", "returned"}

TypeOK ==
  /\ main \in {"publish", "flush", "health", "start", "poll", "join", "joinMl", "check"} \cup Ended
  /\ threads \subseteq {"consumer", "worker"}
  /\ published \in 0 .. Total /\ Len(outgoing) <= QueueLimit
  /\ position \in 0 .. Len(topic) /\ empties \in 0 .. MaxEmpty
  /\ replayed = Len(processed) + Len(ring) + ringDropped
  /\ Len(requests) = Cardinality(scored) + Cardinality(failed) + Len(mlQueue) + mlDropped

Init ==
  /\ session \in Sessions /\ withMl \in MlModes /\ capacity = Floor
  /\ main = "publish" /\ threads = {} /\ reason = "none"
  /\ published = 0 /\ outgoing = <<>> /\ topic = <<>>
  /\ position = 0 /\ replayed = 0 /\ empties = 0
  /\ producerDone = FALSE /\ mlStop = FALSE
  /\ ring = <<>> /\ ringDropped = 0 /\ mlQueue = <<>> /\ mlDropped = 0
  /\ consumer = "none" /\ processed = <<>> /\ requests = <<>>
  /\ worker = "none" /\ scored = {} /\ failed = {}
  /\ sink = {}

\* An exception leaves the function: the destructor of a joinable thread ends the process.
Throw(why) ==
  /\ main' = IF threads = {} THEN "threw" ELSE "terminated"
  /\ reason' = why
  /\ UNCHANGED threads

Advance(next) == main' = next /\ UNCHANGED <<threads, reason>>

-----------------------------------------------------------------------------
\* Publishing.  publish() is false while the local queue is full: it is called again.

Publish ==
  /\ main = "publish" /\ published < Total /\ Len(outgoing) < QueueLimit
  /\ published' = published + 1
  /\ outgoing' = Append(outgoing, published + 1)
  /\ UNCHANGED <<setupVars, mainVars, topic, loopVars, flagVars, ring, ringDropped, mlQueue, mlDropped,
                 consumerVars, workerVars, sink>>

Calm == UNCHANGED <<setupVars, brokerVars, loopVars, flagVars, ring, ringDropped, mlQueue, mlDropped,
                    consumerVars, workerVars, sink>>

ProduceFails ==
  /\ main = "publish" /\ published < Total /\ "produce" \in Faults
  /\ Throw("produce")
  /\ Calm

EndPublish ==
  /\ main = "publish" /\ published = Total
  /\ Advance("flush")
  /\ Calm

\* Messages given up leave the queue as well: flush() does not see them.
Flush ==
  /\ main = "flush" /\ outgoing = <<>>
  /\ Advance(IF withMl THEN "health" ELSE "start")
  /\ Calm

FlushTimesOut ==
  /\ main = "flush" /\ outgoing # <<>>
  /\ Throw("flush")
  /\ Calm

\* librdkafka's thread.
Transmit ==
  /\ Alive /\ outgoing # <<>>
  /\ outgoing' = Tail(outgoing)
  /\ \/ topic' = Append(topic, Head(outgoing))
     \/ "astray" \in Faults /\ UNCHANGED topic
     \/ "duplicate" \in Faults /\ topic' = topic \o <<Head(outgoing), Head(outgoing)>>
  /\ UNCHANGED <<setupVars, mainVars, published, loopVars, flagVars, ring, ringDropped, mlQueue, mlDropped,
                 consumerVars, workerVars, sink>>

HealthCheck ==
  /\ main = "health"
  /\ Advance("start") \/ ("health" \in Faults /\ Throw("health"))
  /\ Calm

-----------------------------------------------------------------------------
\* Fault: one doubling too few.
FitsDoubled == capacity * 2 >= Total

\* ring_buffer_capacity_for, a doubling at a time.
Fits == capacity >= Total

Double ==
  /\ main = "start" /\ ~Fits
  /\ capacity' = capacity * 2
  /\ UNCHANGED <<session, withMl, mainVars, brokerVars, loopVars, flagVars, ring, ringDropped, mlQueue, mlDropped,
                 consumerVars, workerVars, sink>>

IsFull(queue) == Len(queue) = capacity
Pushed(queue, item) == Append(IF IsFull(queue) THEN Tail(queue) ELSE queue, item)
Dropped(queue) == IF IsFull(queue) THEN 1 ELSE 0

Start ==
  /\ main = "start" /\ Fits
  /\ main' = "poll" /\ UNCHANGED reason
  /\ threads' = IF withMl THEN {"consumer", "worker"} ELSE {"consumer"}
  /\ consumer' = "pop"
  /\ worker' = IF withMl THEN "pop" ELSE "none"
  /\ UNCHANGED <<setupVars, brokerVars, loopVars, flagVars, ring, ringDropped, mlQueue, mlDropped,
                 processed, requests, scored, failed, sink>>

\* Fault: the loop goes on until every event has come.
Forever == main = "poll" /\ replayed < Total

Polling == main = "poll" /\ replayed < Total /\ empties < MaxEmpty

\* What poll() makes of the payload of an event, and of the next message.
Decoded == [event \in UNION {Range(s) : s \in Sessions} |-> Decode(Encode(event))]
Polled == Decoded[session[topic[position + 1]]]

PollEvent ==
  /\ Polling /\ position < Len(topic)
  /\ \E event \in Polled :
       /\ ring' = Pushed(ring, event)
       /\ ringDropped' = ringDropped + Dropped(ring)
  /\ position' = position + 1 /\ replayed' = replayed + 1 /\ empties' = 0
  /\ UNCHANGED <<setupVars, mainVars, brokerVars, flagVars, mlQueue, mlDropped,
                 consumerVars, workerVars, sink>>

\* A time-out or the end of the partition; an answer may be late.
PollEmpty ==
  /\ Polling
  /\ empties' = Smaller(empties + 1, MaxEmpty)
  /\ UNCHANGED <<setupVars, mainVars, brokerVars, position, replayed, flagVars, ring, ringDropped,
                 mlQueue, mlDropped, consumerVars, workerVars, sink>>

PollFails ==
  /\ Polling
  /\ "consume" \in Faults \/ (position < Len(topic) /\ Polled = {})
  /\ Throw("consume")
  /\ Calm

EndPolling ==
  /\ main = "poll" /\ ~Polling
  /\ producerDone' = TRUE
  /\ Advance("join")
  /\ UNCHANGED <<setupVars, brokerVars, loopVars, mlStop, ring, ringDropped, mlQueue, mlDropped,
                 consumerVars, workerVars, sink>>

JoinConsumer ==
  /\ main = "join" /\ consumer = "stopped"
  /\ threads' = threads \ {"consumer"}
  /\ main' = IF withMl THEN "joinMl" ELSE "check"
  /\ mlStop' = withMl
  /\ UNCHANGED <<setupVars, reason, brokerVars, loopVars, producerDone, ring, ringDropped, mlQueue, mlDropped,
                 consumerVars, workerVars, sink>>

WorkerJoined == main = "joinMl" /\ worker = "stopped"

JoinWorker ==
  /\ WorkerJoined
  /\ threads' = threads \ {"worker"}
  /\ main' = IF mlDropped # 0 THEN "threw" ELSE "check"
  /\ reason' = IF mlDropped # 0 THEN "mlDropped" ELSE reason
  /\ Calm

\* Fault: the counts are not compared.
DropsOnly == IF ringDropped # 0 THEN "dropped" ELSE "none"

\* What is wrong with the replay, in the order of the tests.
Defect ==
  IF replayed # Total THEN "incomplete" ELSE IF ringDropped # 0 THEN "dropped" ELSE "none"

Check ==
  /\ main = "check"
  /\ IF Defect = "none" THEN Advance("returned") ELSE Throw(Defect)
  /\ Calm

-----------------------------------------------------------------------------
\* The consumer thread.  Any order may be the one at which its account's window is submitted.

ConsumeOne(submits) ==
  /\ Alive /\ consumer \in {"pop", "last"} /\ ring # <<>>
  /\ submits => withMl /\ Head(ring).type = "order"
  /\ processed' = Append(processed, Head(ring))
  /\ ring' = Tail(ring)
  /\ sink' = sink \cup {<<"event", Len(processed) + 1>>}
  /\ requests' = IF submits THEN Append(requests, Len(processed) + 1) ELSE requests
  /\ mlQueue' = IF submits THEN Pushed(mlQueue, Len(processed) + 1) ELSE mlQueue
  /\ mlDropped' = mlDropped + IF submits THEN Dropped(mlQueue) ELSE 0
  /\ consumer' = "pop"
  /\ UNCHANGED <<setupVars, mainVars, brokerVars, loopVars, flagVars, ringDropped, workerVars>>

\* The buffer is empty: once the flag is seen, one more pop, then stop.
ConsumerEmpty ==
  /\ Alive /\ consumer \in {"pop", "last"} /\ ring = <<>>
  /\ consumer' = IF consumer = "last" THEN "stopped" ELSE IF producerDone THEN "last" ELSE "pop"
  /\ UNCHANGED <<setupVars, mainVars, brokerVars, loopVars, flagVars, ring, ringDropped, mlQueue, mlDropped,
                 processed, requests, workerVars, sink>>

\* The scoring thread; alert_threshold is 0, so every score is an alert.
ScoreOne(answered) ==
  /\ Alive /\ worker \in {"pop", "last"} /\ mlQueue # <<>>
  /\ answered \/ "score" \in Faults
  /\ mlQueue' = Tail(mlQueue)
  /\ scored' = IF answered THEN scored \cup {Head(mlQueue)} ELSE scored
  /\ failed' = IF answered THEN failed ELSE failed \cup {Head(mlQueue)}
  /\ sink' = IF answered THEN sink \cup {<<"request", Head(mlQueue)>>} ELSE sink
  /\ worker' = "pop"
  /\ UNCHANGED <<setupVars, mainVars, brokerVars, loopVars, flagVars, ring, ringDropped, mlDropped, consumerVars>>

WorkerEmpty ==
  /\ Alive /\ worker \in {"pop", "last"} /\ mlQueue = <<>>
  /\ worker' = IF worker = "last" THEN "stopped" ELSE IF mlStop THEN "last" ELSE "pop"
  /\ UNCHANGED <<setupVars, mainVars, brokerVars, loopVars, flagVars, ring, ringDropped, mlQueue, mlDropped,
                 consumerVars, scored, failed, sink>>

Main ==
  \/ Publish \/ EndPublish \/ Flush \/ FlushTimesOut \/ HealthCheck \/ Double \/ Start
  \/ PollEvent \/ PollEmpty \/ EndPolling \/ JoinConsumer \/ JoinWorker \/ Check

Consumer == (\E submits \in BOOLEAN : ConsumeOne(submits)) \/ ConsumerEmpty
Worker == (\E answered \in BOOLEAN : ScoreOne(answered)) \/ WorkerEmpty

Next == Main \/ ProduceFails \/ PollFails \/ Transmit \/ Consumer \/ Worker

Spec == Init /\ [][Next]_vars
\* Every thread is scheduled, the outside need not fail, and librdkafka sends a message or
\* gives it up (message.timeout.ms).
FairSpec == Spec /\ WF_vars(Main) /\ WF_vars(Transmit) /\ WF_vars(Consumer) /\ WF_vars(Worker)

-----------------------------------------------------------------------------
\* Properties

\* No message was sent twice: the one fault the counts cannot tell from a complete replay.
SentOnce == IsInjective(topic)

\* "fails loud rather than silently returning a partial result" (replay_runner.hpp:72): what
\* is returned is the session, every event processed once and in order, with every alert of
\* the consumer thread and of every request that was answered.
ReturnedResultIsComplete ==
  main = "returned" /\ SentOnce =>
    /\ processed = session
    /\ {requests[k] : k \in DOMAIN requests} = scored \cup failed
    /\ sink = {<<"event", k>> : k \in DOMAIN session} \cup {<<"request", k>> : k \in scored}

\* encode "round-trips every field exactly" (event_codec.hpp:12), whatever the ids hold, and
\* the topic keeps the order: what is read back is what was published, less what went astray.
ReadIsWhatWasWritten ==
  SentOnce =>
    /\ reason # "consume" \/ "consume" \in Faults
    /\ \A k \in DOMAIN processed : \E n \in k .. published : processed[k] = session[n]
    /\ replayed = published /\ ringDropped = 0 => processed \o ring = SubSeq(session, 1, published)

\* "a replay never has to invoke the ring buffer's drop-oldest backpressure path"
\* (replay_runner.cpp:129), nor that of the scoring queue, however slow the two threads are
\* and however often a message was sent; and what the two rings took is processed, scored,
\* failed or still in them (TypeOK).
CapacityNeverBinds ==
  /\ TypeOK
  /\ ringDropped = 0 /\ mlDropped = 0

\* "no std::thread is ever destroyed while still joinable" (replay_runner.cpp:227).
NoThreadIsDestroyedJoinable == reason # "none" => threads = {}

\* Whatever the broker does the replay ends.
ReplayEnds == <>(main \in Ended)
=============================================================================
