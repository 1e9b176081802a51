----------------------------- MODULE LiveBooks -----------------------------
(***************************************************************************)
(* LiveBookRegistry (cpp/api/live_book_registry.cpp): the demo server's     *)
(* consumer thread applies each event to the book of its instrument and     *)
(* records it in the instrument's feed while it holds pipeline_mutex_; HTTP  *)
(* threads answer the snapshot and the events route                         *)
(* (cpp/api/api_server.cpp) from the same books and feeds under that mutex.  *)
(*                                                                          *)
(* An event is its number in order of arrival.  Of a book's content the      *)
(* model keeps, per side, the last event that changed it: enough to tell a   *)
(* copy made half before and half after an event from a consistent one.      *)
(* The queue and the stop flag are LivePipeline's.                           *)
(***************************************************************************)
EXTENDS Integers, Sequences, FiniteSets, FiniteSetsExt

CONSTANTS Instruments,
          Readers,      \* HTTP threads
          MaxFeed,      \* kMaxEventsPerInstrument, 200 in the code
          Limits,       \* values of the events route's limit parameter
          MaxEvents     \* bound on the events that arrive

ASSUME MaxFeedAssumption == MaxFeed \in Nat \ {0}
ASSUME LimitsAssumption == Limits \subseteq Nat \ {0}
ASSUME ReadersAssumption == "consumer" \notin Readers

VARIABLES
  arrived,    \* events popped from the ring buffer
  consumer,   \* the consumer thread: "pop", "lock", "count", "apply", "record" or "tally"
  lock,       \* the holders of pipeline_mutex_
  books,      \* books_ of LivePipeline; sequence 0: no book yet
  feed,       \* recent_events_by_instrument_
  processed,  \* events_processed_
  skipped,    \* events_skipped_inconsistent_
  reader,     \* per HTTP thread, its request and what it has copied so far
  shown       \* per instrument, the most events any answer has shown

consumerVars == <<arrived, consumer, books, feed, processed, skipped>>
vars == <<consumerVars, lock, reader, shown>>

Sides == {"bid", "ask"}
Book == [sequence : Nat, bid : Nat, ask : Nat]
Event == [instrument : Instruments, side : Sides, accepted : BOOLEAN]
Idle == [at |-> "idle"]

TypeOK ==
  /\ arrived \in Seq(Event)
  /\ consumer \in {"pop", "lock", "count", "apply", "record", "tally"}
  /\ lock \subseteq Readers \cup {"consumer"} /\ Cardinality(lock) <= 1
  /\ books \in [Instruments -> Book]
  /\ feed \in [Instruments -> Seq(DOMAIN arrived)]
  /\ processed \in Nat /\ skipped \in Nat
  /\ \A r \in Readers : reader[r].at \in {"idle", "lock", "bids", "asks", "events", "answered"}
  /\ shown \in [Instruments -> Nat]

Init ==
  /\ arrived = <<>>
  /\ consumer = "pop" /\ lock = {}
  /\ books = [i \in Instruments |-> [sequence |-> 0, bid |-> 0, ask |-> 0]]
  /\ feed = [i \in Instruments |-> <<>>]
  /\ processed = 0 /\ skipped = 0
  /\ reader = [r \in Readers |-> Idle]
  /\ shown = [i \in Instruments |-> 0]

-----------------------------------------------------------------------------
\* Fault: pipeline_mutex_ is not looked at.
Unguarded == TRUE

CanLock == lock = {}

Acquire(thread) == CanLock /\ lock' = lock \cup {thread}

-----------------------------------------------------------------------------
\* The consumer thread: run() and process_one()

Now == Len(arrived)
Incoming == arrived[Now]

Pop(event) ==
  /\ consumer = "pop" /\ Now < MaxEvents
  /\ arrived' = Append(arrived, event)
  /\ consumer' = "lock"
  /\ UNCHANGED <<lock, books, feed, processed, skipped, reader, shown>>

ConsumerLock ==
  /\ consumer = "lock"
  /\ Acquire("consumer")
  /\ consumer' = "count"
  /\ UNCHANGED <<arrived, books, feed, processed, skipped, reader, shown>>

\* Fault: the lock is released before the event is recorded.
ScopeOfProcessOnly == "apply"

\* The last step the lock_guard covers.
LockScopeEnd == "record"

LeaveScope(step) == lock' = IF step = LockScopeEnd THEN lock \ {"consumer"} ELSE lock

\* try_emplace creates the book; apply() counts the event before it can reject it.
CountEvent ==
  /\ consumer = "count"
  /\ books' = [books EXCEPT ![Incoming.instrument].sequence = @ + 1]
  /\ consumer' = "apply"
  /\ UNCHANGED <<arrived, lock, feed, processed, skipped, reader, shown>>

ApplyEvent ==
  /\ consumer = "apply"
  /\ books' = [books EXCEPT ![Incoming.instrument][Incoming.side] =
                 IF Incoming.accepted THEN Now ELSE @]
  /\ LeaveScope("apply")
  /\ consumer' = "record"
  /\ UNCHANGED <<arrived, feed, processed, skipped, reader, shown>>

\* Fault: one event too many is kept.
TrimmedLate(events) == IF Len(events) > MaxFeed + 1 THEN Tail(events) ELSE events

Trimmed(events) == IF Len(events) > MaxFeed THEN Tail(events) ELSE events

\* record_event(), whether the book accepted the event or not.
RecordEvent ==
  /\ consumer = "record"
  /\ feed' = [feed EXCEPT ![Incoming.instrument] = Trimmed(Append(@, Now))]
  /\ LeaveScope("record")
  /\ consumer' = "tally"
  /\ UNCHANGED <<arrived, books, processed, skipped, reader, shown>>

CountedProcessed == processed + 1

\* The counters follow outside the lock.
Tally ==
  /\ consumer = "tally"
  /\ processed' = CountedProcessed
  /\ skipped' = IF Incoming.accepted THEN skipped ELSE skipped + 1
  /\ consumer' = "pop"
  /\ UNCHANGED <<arrived, lock, books, feed, reader, shown>>

-----------------------------------------------------------------------------
\* An HTTP thread: snapshot() and recent_events()

\* "since" is what a dashboard may already have been shown of the instrument.
Request(r, instrument, route, limit) ==
  /\ reader[r].at \in {"idle", "answered"}
  /\ reader' = [reader EXCEPT ![r] = [at |-> "lock", instrument |-> instrument,
       route |-> route, limit |-> limit, since |-> shown[instrument], copy |-> <<>>]]
  /\ UNCHANGED <<consumerVars, lock, shown>>

\* The request goes on, with what has been copied for it.
Turn(r, at, copy) ==
  reader' = [reader EXCEPT ![r] = [at |-> at, instrument |-> @.instrument, route |-> @.route,
                                   limit |-> @.limit, since |-> @.since, copy |-> copy]]

ReaderLock(r) ==
  /\ reader[r].at = "lock"
  /\ Acquire(r)
  /\ Turn(r, IF reader[r].route = "snapshot" THEN "bids" ELSE "events", <<>>)
  /\ UNCHANGED <<consumerVars, shown>>

\* The sequence and the bids first, then the asks.
CopyBids(r) ==
  /\ reader[r].at = "bids"
  /\ LET book == books[reader[r].instrument]
     IN Turn(r, "asks", [sequence |-> book.sequence, bid |-> book.bid])
  /\ UNCHANGED <<consumerVars, lock, shown>>

\* The instrument's events among the first that arrived, and their number: what an answer
\* shows the effect of, and the rank of an event among its instrument's.
Among(instrument, first) == {n \in 1 .. first : arrived[n].instrument = instrument}
Reach(instrument, first) == Cardinality(Among(instrument, first))

Answer(r, copy, reach) ==
  /\ Turn(r, "answered", copy)
  /\ shown' = [shown EXCEPT ![reader[r].instrument] = Max({@, reach})]
  /\ lock' = lock \ {r}
  /\ UNCHANGED consumerVars

CopyAsks(r) ==
  /\ reader[r].at = "asks"
  /\ LET bids == reader[r].copy
     IN Answer(r, [sequence |-> bids.sequence, bid |-> bids.bid,
                   ask |-> books[reader[r].instrument].ask], bids.sequence)

ReachOf(instrument, events) == IF events = <<>> THEN 0 ELSE Reach(instrument, events[Len(events)])

NewestOf(events, limit) == SubSeq(events, Len(events) - Min({limit, Len(events)}) + 1, Len(events))

CopyEvents(r) ==
  /\ reader[r].at = "events"
  /\ LET events == NewestOf(feed[reader[r].instrument], reader[r].limit)
     IN Answer(r, events, ReachOf(reader[r].instrument, events))

ConsumerStep ==
  \/ \E event \in Event : Pop(event)
  \/ ConsumerLock \/ CountEvent \/ ApplyEvent \/ RecordEvent \/ Tally

ReaderStep(r) ==
  \/ \E i \in Instruments : Request(r, i, "snapshot", 0)
  \/ \E i \in Instruments, limit \in Limits : Request(r, i, "events", limit)
  \/ ReaderLock(r) \/ CopyBids(r) \/ CopyAsks(r) \/ CopyEvents(r)

Next == ConsumerStep \/ \E r \in Readers : ReaderStep(r)

Spec == Init /\ [][Next]_vars

-----------------------------------------------------------------------------
\* Properties

Answered(route) == {r \in Readers : reader[r].at = "answered" /\ reader[r].route = route}

\* The last event among the given ones that changed a side of the book, 0 if none.
LastOn(events, side) ==
  Max({0} \cup {n \in events : arrived[n].side = side /\ arrived[n].accepted})

\* A snapshot with sequence n is the book after the instrument's first n events,
\* on both sides: "a snapshot taken after N events must equal, field for field, the
\* snapshot of a fresh OrderBook fed only the same first N events"
\* (depth_snapshot.hpp:37).
SnapshotConsistent ==
  \A r \in Answered("snapshot") :
    LET copy == reader[r].copy
        i == reader[r].instrument
        applied == {n \in Among(i, Now) : Reach(i, n) <= copy.sequence}
    IN /\ Cardinality(applied) = copy.sequence
       /\ copy.bid = LastOn(applied, "bid") /\ copy.ask = LastOn(applied, "ask")

\* The events route answers with an uninterrupted run of the instrument's events, in the
\* order they arrived, as many as it was asked for or as are kept, and as there are.
FeedIsTheTail ==
  /\ TypeOK
  /\ \A r \in Answered("events") :
    LET events == reader[r].copy
        i == reader[r].instrument
        reach == ReachOf(i, events)
        size == Min({reader[r].limit, MaxFeed, reach})
    IN /\ Len(events) = size
       /\ \A k \in 1 .. size : events[k] \in Among(i, Now) /\ Reach(i, events[k]) = reach - size + k

\* Book and feed are seen in step: an answer of either route reflects every event
\* that an answer given before the request, by either route and to anyone, showed.
AnswersNeverGoBack ==
  \A r \in Answered("snapshot") \cup Answered("events") :
    LET copy == reader[r].copy
    IN reader[r].since <=
         IF reader[r].route = "snapshot" THEN copy.sequence
         ELSE ReachOf(reader[r].instrument, copy)
=============================================================================
