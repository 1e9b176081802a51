# Trade surveillance engine: TLA+ models and proofs

The engine receives FIX 4.2 orders and executions, carries them over a lock-free
ring buffer to an order book per instrument, runs six detectors against the book
after every event, stores the alerts and serves them over a REST API. A simulator
generates sessions with labelled abuse, a harness replays them through Kafka and
reports precision and recall. The C++ code under `cpp/` is the reference for
everything here; paths below are relative to the repository's root.

## 1. Inventory

| Component | State | Operations | Hard part | Correct when |
|---|---|---|---|---|
| Ring buffer, `cpp/ingestion/spsc_ring_buffer.hpp` | `head_`, `tail_`, a sequence number and an element per cell, `dropped_` | `push`, `pop` | two threads, no lock; a full buffer discards from the front, so the producer competes with the consumer for the front element | one thread per cell, order kept, nothing lost uncounted |
| Order book, `cpp/orderbook/` | a `std::list` per side and price, `order_index_` of iterators into them, `sequence_` | `apply` of New, Cancel, Replace, Execution; `snapshot` | iterators kept across edits; an id may change in a Replace; a throw after a change | index and lists describe the same orders; price-time priority |
| Event sink, Kafka producer, `cpp/pipeline/pipeline_event_sink.hpp`, `cpp/ingestion/kafka_producer.cpp` | librdkafka's queue | `publish`, `flush` | a refused or thrown `publish`; messages given up or sent twice | the ring buffer gets what Kafka was given |
| Live consumer, live pipeline, `cpp/pipeline/` | books, two counters | `run`, `process` | shutdown race; events of an order whose New was discarded | every event processed, dropped or queued; skips only after a loss |
| FIX application, translator, `cpp/fix/` | session | `onMessage` per type; translation both ways | fields that have no tag; times before the epoch | every message becomes one event, the event that was sent |
| Spoofing and layering detector | `tracked_`, the concurrency counts, ambient samples | `evaluate` | its tracking against the book's orders; a clock that goes back; lost events | counts equal the tracked orders, tracked orders equal the resting ones |
| Marking-the-close detector | volumes, owner groups found so far, alerted accounts | `evaluate` | groups grow account by account and merge, after alerts too | groups are the components of the relation; one alert per group |
| Front-running, wash-trade, statistical detectors, account registry | recent orders; Welford's mean and squares; owners and links | `evaluate`; `is_related` | pruning under a clock that goes back; running against exact statistics; links declared by one side | exactly the pairs, trades and outliers the history defines |
| ML client, `cpp/ml_client/` | a window per account and instrument, a ring buffer of requests, counters | `evaluate`, `submit`, `run` | a slow or dead service, shutdown, timestamps that regress | every request ends in one counter; features of one window |
| Live book registry, `cpp/api/live_book_registry.cpp` | books, feed per instrument, counters, a mutex | `process`, `snapshot`, `recent_events` | HTTP threads read what the consumer thread changes | answers consistent and never older than an earlier answer |
| Alert store, database sink, `cpp/db/` | the alerts table, one connection, a mutex | `apply_schema`, insert, list, page, status update, ping | two writing threads; a connection that breaks in a commit; array syntax by hand | no alert disappears unaccounted; answers are snapshots |
| REST API and server, `cpp/api/api_server.cpp`, `main.cpp` | — | alert, book, event and status routes; the demo feed | handlers on many threads; a PATCH of two statements; pages by offset | errors have a cause; a walk through the pages misses nothing |
| Kafka consumer, replay runner, codec, `cpp/harness/replay_runner.cpp`, `cpp/ingestion/` | offsets, two flags, two threads, two ring buffers | replay of a session through a topic | end of topic decided by time-outs; exceptions between start and join of threads | what is returned is complete, or it throws |
| Simulator, `cpp/simulator/` | a random stream, id generators | four abuse scenarios, the baseline flow | overlapping scenarios, every severity, every draw | every event of a session applies; the abuse is what the detectors look for |
| Evaluation harness, `cpp/harness/evaluation.cpp`, `main.cpp` | — | universes, confusion matrix, collisions | ids of the wrong universe; scenarios that share one alert | every miss and every false alarm has a cause |
| ML service, dashboard, calibration scripts | — | — | — | — |

Interactions: the QuickFIX thread calls `PipelineEventSink::publish`, which calls
Kafka's producer and pushes on the ring buffer. One consumer thread pops, applies to
the book and calls the detectors. Five of them answer at once; the sixth pushes a
request on a second ring buffer, which the scoring thread pops. Both threads hand
alerts to the alert sink, which writes to the store under its mutex. HTTP threads read
books and feeds under the registry's mutex and alerts under the store's. In a replay the
calling thread takes the place of the QuickFIX thread, and polls Kafka.

## 2. Modules

| Module | Models | Role |
|---|---|---|
| `RingBuffer` | `push`, `pop`, `try_claim_front` | one action per access to a shared atomic or to a cell's data |
| `DropOldestQueue` | what the ring buffer promises | abstract specification; the queue of `LivePipeline` and `MlScoring` |
| `RingBufferInvariant`, `RingBufferProofs` | — | the inductive invariant; its proof and the theorems |
| `OrderBook` | `OrderBook::apply` | one action per event; a throw is an outcome of the action |
| `PriceTimeBook` | what a price-time book may do with an event | abstract specification of `OrderBook` |
| `LivePipeline` | `onMessage` → `publish` → queue → `LiveConsumer::run` → `LivePipeline::process` | composes `DropOldestQueue` with the two threads |
| `LiveBooks` | `LiveBookRegistry` and its HTTP readers | one action per step under or outside the mutex |
| `MlScoring` | `MlAnomalyDetector`, `MlScoringWorker` | composes `DropOldestQueue` with the two threads |
| `AccountRegistry` | `AccountRegistry` | operators; a registry is a value |
| `BookView` | the queries of `OrderBook` that detectors make | operators on the set of resting orders |
| `SpoofingLayering`, `MarkingTheClose`, `FrontRunning`, `BaselineDetectors` | the five rule detectors | the state of each and one step per `evaluate` |
| `Subsequences` | the `remove_if` that trims the detectors' deques | operators; keep the order |
| `EventProcessing` | `LivePipeline::process` with `make_five_detectors` | composes book and detectors |
| `Surveillance` | the pipeline behind any feed | arbitrary feeds with lost events and a clock that goes back |
| `Simulator` | `cpp/simulator/`, the scenarios | operators on a stream of draws |
| `MessageTranslator` | `message_translator.cpp` | operators, both directions |
| `Evaluation` | `evaluation.cpp`, `count_mtc_key_collisions` | operators on orders, executions and alerts |
| `SimulatedSession` | `generate_simulation`, `to_ingestion_events`, `feed_one_session` | composes simulator, translator, `EventProcessing` and evaluation |
| `PgTextArray`, `AlertStore` | `alert_store.cpp` and the server's arrays | what each method does to the table |
| `AlertService` | sink, store, routes, dashboard paging, restarts | the threads around the store, two steps per method |
| `EventCodec` | `event_codec.cpp` | encoder and parser, as operators |
| `KafkaReplay` | `replay_through_kafka`, `KafkaProducer`, `KafkaReplayConsumer` | three threads, a broker, time-outs, exceptions |
| `AlertServiceInvariant`, `ServerProofs` | — | the inductive invariant of `AlertService`; its proof, and the invariant of `LiveBooks` and its proof: the two things the HTTP threads read |
| `DropOldestQueueProofs`, `LivePipelineProofs`, `MlScoringProofs`, `OrderBookProofs`, `KafkaReplayProofs`, `SurveillanceProofs` | — | the inductive invariant of each system, its proof and the theorems; the queue's are used by the two systems that hold a queue |
| `MC*` | — | instances for TLC |

An operator whose comment begins with "Fault" is a plausible mistake in the definition that
follows it, with the same parameters. No specification uses it; putting it in the place of
that definition shows which property notices.

**RingBuffer.** `pc` holds the step each thread takes next. A push is `PushCall`,
`FindVacated` or `FindOccupied` (the sequence number at line 119), `WriteData`,
`Publish`, `AdvanceTail`; when the cell is occupied it runs the claim protocol of
`pop`, `LoadHead`, `LoadSequence`, `WinClaim` or `LoseClaim`, `MoveOut`, `FreeCell`,
then `CountDrop`, and looks again. The element pushed k-th is the number k, so that
order and loss can be read off the histories `delivered` and `discarded`.

**OrderBook.** A price level is a sequence of records with the identity of the list
node; an index entry is a level and a node, which is what an iterator is. A Replace
either amends in place and refiles (`Amended`, `Refiled`) or removes and inserts
(`InsertNew` on the state without the order), with the throw in between where the code
has it. `FreshIds` says whether the feed may give a Replace the id of another
resting order; the code does not forbid it, and section 6 says what follows.

**LivePipeline.** The book is reduced to the quantity resting per id, `exchange` is the
market's own view, and the two can be compared. `KafkaPublish` takes one of the outcomes
the producer has.

**LiveBooks.** A book is its `sequence` and, per side, the last event that changed it.
`sequence` grows in `CountEvent`, before the event can be rejected, as in `apply`. A
snapshot copies sequence and bids in one step and asks in the next. `lock` is the set of
holders of the mutex. `LockScopeEnd` names the last step inside the `lock_guard`'s scope;
the counters come after it (`Tally`). `shown` records what any answer has revealed, and a
request notes it on arrival, which is what `AnswersNeverGoBack` compares with. What an answer
reveals is a number of events, `Among` the events of its instrument for a snapshot and by its
`Reach` for a feed, and that number is what must not go back.

**MlScoring.** `Evaluate` is `handle_order`: end the window if its time is over or
regresses, count, and submit if due. Rejected events do not reach it. The submission is a
push on the queue, so it competes with the scoring thread. The result of `score()` is
chosen freely among failed, below the threshold and alert.

**SpoofingLayering, MarkingTheClose, FrontRunning, BaselineDetectors.** Each has the fields
of its class as variables and a step for `evaluate`, called with the event and the book it has
been applied to. Scores and statistics are exact fractions: weights and thresholds are in percent,
Welford's mean in units of `1 / Unit`, so that a comparison in the model is the one the formula
means (`UnitAssumption`: no division by a count that a feed can reach leaves a rest). What a
trim keeps is a `Subsequence`. `group_parent_` is kept compressed, since `group_members` resolves every account seen.
`SpoofingLayering` has an action's worth of definitions for each event type: a New or Replace is
tracked (`track_new` counts it), an execution reduces what is left, a cancel erases and scores.
`tracked` is the map of the code: a partial function, whose domain are the tracked ids.

**EventProcessing, Surveillance.** `Process` is `LivePipeline::process`: apply, skip what the book
rejects, call the five detectors in their order. `accepted` is the history the properties are
stated over. A feed of `Surveillance` is an opening and then any order, cancel, replace or fill of
its sets, at any of its gaps, one of which goes back; `LoseOnTheRing` is an event Kafka has and the
consumer never sees.

**Simulator, SimulatedSession.** A scenario is a function of a stream of draws, each draw being the
lower or the upper end of its range: these are the extremes the comments of the scenarios argue
about. `SimulatedSession` places the baseline orders, injects the scenarios one by one, merges and
replays, stably (`to_ingestion_events`) or as `std::sort` may and through FIX
messages (`feed_one_session`, `OverFix`). `Report` is the evaluation of the alerts.

**AlertStore, AlertService.** A method is an operator from the database to its answer and the
database it leaves, `Begin` computes it under the mutex, `Commit` and `Throw` end it. The
connection may break, the process may be killed, and either may fall between the server's receipt
of a COMMIT and its answer (`CutOff`). A failed write leaves the thread's function, which ends the
process (`Uncaught`); a failed read or update becomes an answer. A PATCH is two methods. `log` is
the order of the commits, which the answers are compared with. The dashboard's list is a client that
turns pages until `total_count` (`OpenList`, `TurnPage`).

**EventCodec, KafkaReplay.** A text is a sequence of characters and `Decode` is an automaton as in
the code, so that escaping is what it is. `KafkaReplay` has an action per outcome of each
call: publishing, `flush` and its time-out, the health check, polling with an event, without one or
throwing, the two joins and the final tests. librdkafka sends, gives up or sends twice (`Transmit`).
A throw with a thread still joinable is `std::terminate`.

## 3. Runs

Every run is exhaustive within its bounds.

| Run | Bounds | Shows |
|---|---|---|
| `ring_buffer` | 4 cells, 9 pushes | exclusive cells, accounting, order; `RingBuffer` implements `DropOldestQueue`; `pop` says empty only when it was; `push` returns |
| `order_book` | 3 ids, 2 prices, 2 sides, 2 quantities, 4 nodes, 5 events | index and lists agree; a rejected event changes nothing; implements `PriceTimeBook`, which has the priority rules |
| `live_pipeline` | 2 ids, 2 quantities, 2 cells, 5 events | counters, drain at shutdown, skips and drift only after a loss |
| `live_books` | 2 instruments, 2 readers, feed of 2, 3 events | consistent snapshots, contiguous feeds, answers never go back |
| `ml_scoring` | 2 keys, 3 timestamps in any order, 2 cells, 5 events | accounting, features of one window |
| `surveillance` | three feeds of 4 or 5 events, 4 accounts, 3 registries, 1 lost event | counts equal tracked orders, tracked orders equal resting ones, samples are the recent ones; alerts and running statistics equal their definition over the history; groups are components, alerted once |
| `simulated_session` | each scenario alone at three severities and every stream of draws; three together, two of a kind, the demo session, and two baseline orders | every event applies; the anchor's move is seen from every layer but the first; misses and false alarms have a named cause; muted scenarios are reported |
| `alert_service` | three sets of bounds: two clients at once; two writers with one loss and one kill; a walk of pages of one row while three alerts arrive and a status changes | alerts accounted across failures and restarts, answers are snapshots, walks miss nothing, errors have a cause, requests end |
| `kafka_replay` | 21 ids of awkward characters in one event, sessions of 3 and 4 events, every fault, queue of 2, 2 empty polls, least capacity 1 | a returned result is complete, the codec inverts itself, no queue overflows, the replay ends |
| `surveillance_reuse` (violation) | 2 instruments, 4 events, ids reused | the count of an overwritten order stays |
| `simulated_anchor` (violation) | as `simulated_session` | the first layer may not see the anchor's move |
| `kafka_replay_threads` (violation) | as `kafka_replay` | joinable threads are destroyed |

A type invariant is the first conjunct of one invariant of each run: `IndexMatchesQueues`,
`EveryEventAccounted`, `FeedIsTheTail`, `EveryRequestAccounted`, `TrackedMirrorsBooks`,
`EveryEventApplies`, `EveryAlertAccounted`, `CapacityNeverBinds`; `ring_buffer` names it.
`RelatedDealingsAreExact`, `VolumesAndGroupsAreExact`, `ReportIsExplained`, `AnswersShowTheTable` and
`ErrorsHaveACause` are each the conjunction of two properties stated right above them.

Why the bounds are enough to meet the interesting cases. Nine pushes on four cells go
round the ring more than twice, so a cell is reused by both kinds of release (the
consumer's and the producer's own), and a push can find the buffer full while the
consumer holds any of the cells. Five order-book events allow two orders at a level, a
Replace of each kind onto the level, and a fill or cancel behind it; four nodes are never all in
use before the bound. In `live_pipeline` two cells and five events make the buffer overflow
while the consumer holds an item, and leave an order enough events (New, two executions,
Cancel) to lose any of them. In `live_books` three events overflow a feed of two and a
reader can be interrupted at each of its steps. In `ml_scoring` the third timestamp is
outside the window of the first two, so windows end forwards and backwards, and four
messages of a key submit up to three requests to a queue of two.

In `surveillance` the feed `Quotes` has two resting offers and three more events: a layer, a move of
the best offer (or a replace, a fill, a lost event) and a cancel, with the clock moving outside the
window in either direction; `Placements` has four orders, enough for two samples before an outlier and
for a pair with an order between its two; `Trades` has three fills among four accounts, enough for two
groups, an alert, and the trade that merges them, before, in and after the window. Thresholds are
scaled so that these sizes cross them. In `simulated_session` every comparison between delays has its
two ends in the streams, and 0, the middle and 100 are the severities at which the formulas bend; time
is in units of 20 ms. In `alert_service` one loss and one kill may fall at any step, together with
a write of either thread and a request; two concurrent clients are all that contend, since
the mutex admits one. In `kafka_replay` two characters are what an escape needs, a queue of two makes
publishing wait for the broker, a capacity of 1, 2 or 4 (`Double` until it `Fits`) is met with three and four
events, and duplicates let more messages arrive than were published.

Bounds are guards and are named: `MaxPush`, `MaxEvents`, `Nodes`, a feed's `length` and `drops`, a
session's `baseline`, the fields of `Bounds`, `QueueLimit`, `MaxEmpty`. The last two are limits of the
code, made small.

Deadlock is checked in the ring-buffer, order-book and live-books runs: the ring's
consumer may always try again, and an event of another instrument is always possible. The
other systems stop: at the end of the feed, of the session, of the replay, or when all
that the bounds allow has happened.

**Fairness.** A thread that can take a step eventually does: the operating system schedules every
thread. `RingBuffer` has `WF` of each thread's steps, and strong fairness of winning the
compare-exchange: a lost one means that the other thread has won, pushes and pops are finite in
number between two attempts, and `compare_exchange_weak` does not fail spuriously for ever.
`AlertService` has `WF` of each thread's `Proceed`, which is the steps of a call that was
made; what clients ask, alerts, faults and restarts are the environment's and not fair. A thread that
waits for the mutex is served in the end because the calls the bounds allow are finite; `std::mutex`
promises no more. `KafkaReplay` has `WF` of the three threads, without the steps that fail, and of
`Transmit`: librdkafka sends a message or gives it up after `message.timeout.ms`. The other modules
state no fairness and have safety properties only.

## 4. Proofs

Eight modules hold theorems, which are true for every value of the constants that their
assumptions admit. A type invariant that is a conjunct of a property is proved with it. The
structure is always the same: the parts of the inductive invariant, which hold initially; lemmas for
the steps that disturb a part; the induction; the properties as its consequences. Assumptions not
named in the table only give constants their types.

| Module | Properties proved | Assumptions and hypotheses |
|---|---|---|
| `RingBufferProofs` | `TypeOK`, `SlotExclusive`, `Accounting`, `DeliveredInOrder`, `EmptyPopMeansEmpty`, `ImplementsDropOldestQueue` | `CapacityAssumption`: the capacity that the constructor enforces; `NoItemAssumption`: the mark of an empty cell is not an element |
| `DropOldestQueueProofs` | `QueueInv` | none |
| `LivePipelineProofs` | `EveryEventAccounted`, `DrainedWhenStopped`, `SkipsNeedALoss`, `DriftNeedsAMissingEvent` | `LiveQtyAssumption`: quantities are positive |
| `MlScoringProofs` | `EveryRequestAccounted`, `FeaturesOfOneWindow` | `TimesAssumption`, `MlConfigAssumption`: times are positive, since 0 marks a window not started |
| `OrderBookProofs` | `IndexMatchesQueues`, `RejectedEventChangesNothing`, `ImplementsPriceTimeBook` | `NoEntryAssumption`: the mark of an absent entry is not one; hypothesis `FreshIds` |
| `KafkaReplayProofs` | `CapacityNeverBinds`, `ReadIsWhatWasWritten`, `ReturnedResultIsComplete` | `SessionsAssumption`, `ReplayAssumption`: positive limits; for the last two, hypothesis `CodecRoundTrips` |
| `ServerProofs` | `SnapshotConsistent`, `FeedIsTheTail`, `AnswersNeverGoBack` | `ReadersAssumption`: the consumer is not a reader |
| | `EveryAlertAccounted`, `AnswersShowTheTable`, `WalkMissesNothing`, `ErrorsHaveACause` | `ServiceAssumption`: threads are told apart from each other, and the marks of what is absent from what can be present; `AlertsAssumption`, `RequestsAssumption`: the form of alerts and requests; hypothesis `ArraysRoundTrip` |
| `SurveillanceProofs` | `SpoofingAlertsNameOneLifecycle`, `SamplesAreRecent`, `RelatedDealingsAreExact`, `StatsAreExact`, `VolumesAndGroupsAreExact`, `OneAlertPerGroup`; with `UniqueIds` also `CountsMatchTracked` and `TrackedMirrorsBooks` | `FeedsAssumption`: the form of a feed's events; `DetectorAssumption`; for `StatsAreExact`, `UnitAssumption` |

**Ring buffer.** `RingBufferProofs` proves, for every capacity of at least two and every number of pushes,
that every reachable state satisfies `TypeOK`, `SlotExclusive`, `Accounting` and
`DeliveredInOrder`, that no step violates `EmptyPopMeansEmpty`, and that the buffer implements
`DropOldestQueue`. The assumptions are those on the constants: the capacity that the
constructor enforces, and that the mark of an empty cell is not an element.

None of these is inductive. Whether two threads can be in one cell depends on which
numbers the cells carry, and these on where the indices are. `SequenceInvariant`
says it: the queue lies between `head_` and the published end and is no longer than the
capacity; a queued position's cell says "published"; a vacated cell says the position that
will use it next; a claimed position is behind `head_`, its cell still says
"published", and the other thread does not hold it; a producer about to write has
room. Its proof has one lemma for the steps that change no index or number, and one for
each of the three that do: winning the compare-exchange, publishing, freeing. The step of
arithmetic in it is that positions less than the capacity apart use different cells
(`CellsDiffer`), and that a cell that says "vacated for `tail_`" is neither queued nor
claimed (`VacatedMeansRoom`), which needs a capacity above one: the case the constructor's
comment tells of.

`SlotExclusive` then follows without another induction. `Accounting` is inductive given the
type invariant and one fact about the queue's length. For `DeliveredInOrder` the invariant also
has to say which element each cell and each thread holds (`ItemsInPlace`) and that no position has
two fates and the consumer's next one is newer than all it returned (`FatesApart`);
`ItemInvariant` joins the three.

`EmptyPopMeansEmpty` is about a position that `pop()` may have loaded long ago. `SequencesAhead`, a
conjunct of `SequenceInvariant`, says that the cell of a published position carries a larger
number from then on, so a cell that still says "not published" of a position at or behind
`head_` says it of `head_` itself, and of the published end. `RefinesQueue` is the refinement, step by step:
`QueuedRun` says that what is buffered is the run of positions from `head_` to the published end,
`OccupiedSlot` when the slot of the next push is occupied, in terms of the indices. Publishing then is
`Push`, a failed check `FindFull`, an empty answer to `push()` `Relent`, winning the compare-exchange
`Discard` or `Claim` by the thread, `pop()` freeing its cell `Deliver`, and the queue does not see the
rest. So the theorems of `LivePipelineProofs` and `MlScoringProofs`, which take their queue to be
`DropOldestQueue`, are about the ring buffer.

**The abstract queue.** `QueueInv` says that the queue is the run of items up to the last
pushed, that what left it or is held lies before it, that deliveries are in order, and that every
item is in one of four places. `DeliveredInOrder` alone is not inductive: without the order of
the queue nothing says that what is taken next is newer than what was delivered. Both
`LivePipelineProofs` and `MlScoringProofs` instantiate the module and take `QueueStep` for
each step of their queue.

**Live pipeline.** `EveryEventAccounted` is about a counter. What the induction needs is the
set of events that were processed: `CountOK` says it is finite and the counter is its
cardinality. The two statements about the book need a history: `BookOK` says that there is a
ledger, what the exchange had open of each order after each event sent (`IsLedger`), and that
every order of which no event was lost up to the last one processed rests in the book with the
quantity the ledger has there (`BookFollows`). A rejected event then means that an earlier event of its order
is missing, and that it was lost and not merely delayed, since the ring buffer keeps the order.
`Shape` has the rest: the queue's invariant, events going on the ring in the order they were sent,
the stages of the threads, and that a consumer which has stopped left the ring empty.

**ML scoring.** `OpenWindows` says that the counters of an open window are a tally of the latest
orders of its key, from the one that opened it on, all within the window's time; `RequestsOK` that
each request carries such a tally up to the order that caused it. That the newest order can be
older than the first is why the code compares both ways, and why the invariant does. `Shape` has the
queue's invariant and the equality that gives the accounting, `scored + failed = Len(delivered)`.

**Order book.** `IndexMatchesQueues` is not inductive: `BookInv` adds that a list node is in one
place (`OnePlace`), or the removal of one order could take another one's node along.
`OrderBookImplementsRules` is a refinement: the abstract book is what the levels hold, in their
order, and each step of the list-and-index book is a step of `PriceTimeBook` or stutters. The
Replace that keeps priority, which amends a node and refiles it under another id, is one abstract
step, and so is the one that removes and inserts. `FreshIds` is necessary: section 6 says what
happens without it.

**Kafka replay.** `StageOK` relates the stages of the three threads, `FlowOK` what has been
published, polled, queued and processed, `RequestsOK` the requests and what became of them.
`CapacityNeverBinds` follows whatever the codec does: the rings have room for all that can be
replayed. `SinkOK` says what the alert sink has seen, `TopicOK` what the topic may hold when messages
are lost and, unless `SentOnce`, repeated, and `PouredOK` that what was polled is the events of the
topic's messages, in its order. `CodecRoundTrips` says that decoding an encoded event gives that event
and nothing else: a statement about a fold over a text, which TLC evaluates in `kafka_replay` (its
`ReadIsWhatWasWritten` fails if it does not hold). The last two properties are
about messages sent once, as section 6 explains.

**Live books.** The consumer changes the sequence, the sides and the feed one after the other
under the mutex. `Counted`, `Applied` and `Recorded` say how many events each reflects, so that
`BooksOK` and `FeedsOK` hold at every step and not only when the mutex is free. `LockOK` says
which steps hold the mutex, so that nothing changes between the steps of a reader. `ShownOK` says
that nothing was shown which the feeds do not hold, which gives `AnswersNeverGoBack`: what an
answer shows is read after its request arrived.

**Alert service.** None of the four properties is inductive, and `ServiceInvariant`
(`AlertServiceInvariant`) is what they have in common. `CallsOK` says where each thread is: which
requests have a call in the store, that the second statement of a PATCH comes after its first has
changed the row, and that what the holder of the mutex has computed is still what its method gives
of the database (`HolderOK`): nobody else can have committed. `AccountsOK` bounds the rows no
`on_alert` has returned by the calls that died, plus the one that may have committed as the
connection broke. `LogOK` is the heart: the table is what the changes of the log make of it
(`Records`), the id of a row is that of its first change and the first changes come in the order of
the ids, since the sequence is never set back. With it the table at an earlier moment is a function of
the log, so that `RepliesOK` can say of an answer, once and for good, that it is the table as it was
when the answer was made, whatever is committed before the client reads it. For `WalkMissesNothing`
the invariant has to speak of pages that are not read yet: `NothingSkipped` says that at whatever
moment from the request on the page is made, what the walk has not shown is behind what it has
read (`Ahead`). An insert moves the rows that match towards the end and never towards the front
(`ListsGrow`), a change of status by a client is excluded by the property, and turning a page adds as
many rows to what was shown as the offset advances (`PageTurned`). The orders of the queries are
proved to list a set completely (`LatestComeFirst`, `OldestComeFirst`, `EarliestComeFirst`). The length of the
table, of the pages and of the walk, the number of threads and of restarts are arbitrary.
`ArraysRoundTrip` says that the array text gives every list of account ids back: two folds over a
text, which TLC evaluates before the run `alert_service` (an `ASSUME` of `MCAlertService`).
`MCAlertService` extends `AlertServiceInvariant`, and `ServiceInvariant` holds on its instance, too.

**Surveillance.** `LifecycleOK` says that each tracked order was placed by an event the pipeline
accepted, and that since then only executions of it were accepted: what an alert on spoofing is
computed from. `ClosingOK` says that every close alert is remembered: its accounts are still in one
group, one of which is marked as alerted, and no account is in two; merging can only
enlarge a marked group. Neither needs a hypothesis on the feed. `CountsMatchTracked` and
`TrackedMirrorsBooks` have one, `UniqueIds`: no New takes the id of another. The demo server does
reuse ids, and `surveillance_reuse` shows what becomes of the counts then. Under it,
`PlacedOnce` and `OriginOK` say that a tracked order is the one published under its id, so that an
event lost on the ring cannot make a later one reach another order, and `MirrorOK` that the
entries of an instrument are the orders of its book.

The other four properties compare running state with a definition over the whole history, and the
argument is what one event more does to either side. What a trim leaves of a deque is listed by
position (`AscendingMore`, `KeptRetells`). `RecentOK` says that the recent orders of a key are the
New orders that no later one of the key found outside the window (`Remaining`), in order, and
`SamplesOK` the same of the concurrency samples, for the events of the instrument: an entry that
was trimmed once stays out, whatever the clock does later, and no entry hides behind another. A new
order then makes exactly the pairs of `FrontRunPairs` that end with it (`PairsAfter`), and `Adds` says
what an event adds to the alerts of one detector, whatever the others alert in between.
`CloseHistoryOK` says that the volumes are those of the trades of the window, that the accounts seen are
those that traded, and that the groups are their components (`ComponentsIn`): the root of a group is
an account seen, related accounts share it, and no part of a group is unrelated to the rest. Merging
two groups because of one related pair keeps the last (`MergedIsConnected`). `StatsOK` says that
Welford's record is the number, the mean and the squared deviations of the quantities seen
(`IsWelford`); that `update()` keeps it so is algebra (`MeanOfMore`, `SquaresOfMore`), and so is
that the score by the running values reaches the threshold when the score by the sums does
(`OutlierByTheSums`). The sums are folds over sets of events. A fold is given by a recursive
function, and that there is one for every finite set, and that it does not depend on the order, is
proved by looking at a smallest set for which it fails (`SmallestSubset`, `SumExists`, `SumWithout`).

Only model-checked, and why:

- Liveness (`PushReturns`, `ReplayEnds`, `EveryRequestIsAnswered`): beyond the prover.
- `EveryEventApplies`, `LaterLayersSeeTheMove`, `ReportIsExplained` and `MutedScenariosAreReported`
  of `SimulatedSession`, with `Simulator` and `Evaluation` behind it. A session is computed from a
  finite table of draws by functions that recurse over it: an induction over data, and few
  states with long computations, which is TLC's strength.
- The codec and `PgTextArray`: folds over texts. What the proofs need of them is a named
  hypothesis, and TLC evaluates it.

## 5. Not modelled, and why

- The wrap of the 64-bit indices, and the memory orderings: the models interleave
  sequentially consistent accesses.
- QuickFIX, librdkafka, PostgreSQL, Crow and the ML service, except for the outcomes the code
  distinguishes. A COMMIT in doubt when the process ends is settled before the next start.
- Floating point: quantities, scores and means are exact. Prices that print as `nan` or `inf`, which the
  codec writes and cannot read, do not occur.
- `insert_order`, `insert_execution` and `truncate_all` of the store, which only tests call; the
  evaluation route, which runs the harness on fixed input; the ML half of the status route.
- The Sarao case study, the writers, and the distribution of the simulator's draws; AUC, the severity
  sweep and the threshold sweep of the harness.
- Latency samples and the messages `FixApplication` keeps, which grow as long as the process runs;
  logon and session state, which are QuickFIX's.
- What the dashboard displays, beyond the order of its page requests. The ML service and the
  calibration scripts: offline statistics.

## 6. Where the code and its documentation differ

Three have a run:

- The concurrency count is said to be kept in sync by two functions; an id that is tracked again
  overwrites an entry and its count stays for good (`spoofing_layering_detector.cpp:79`,
  `surveillance_reuse`). The demo server reuses ids in every session (`api/main.cpp:317`).
- The anchor's withdrawal "guarantees" a favourable move for every layer; the first layer may be placed
  before the anchor and record no opposite price (`spoofing_layering.cpp:122`, `simulated_anchor`).
- "No std::thread is ever destroyed while still joinable" in the replay; a `poll` that throws does it,
  and the process terminates instead of throwing (`replay_runner.cpp:208`, `kafka_replay_threads`).
  `main` of the server has the same when the FIX session does not log on (`api/main.cpp:310`).

The others are read off the code while modelling it:

- `push()` "never blocks" (`spsc_ring_buffer.hpp:111`), but loops while the consumer is descheduled
  between claim and release of the cell it needs (line 119); one push may discard up to
  `Capacity - 1` elements, where the comment speaks of one.
- A Replace that keeps priority refiles the order over an id that may rest already
  (`order_book.cpp:85`), after which a Cancel of that id leaves an order of that id. One that loses
  priority removes the order and then throws (`order_book.cpp:71`), though a duplicate id is a reason
  to throw for New only (`order_book.hpp:66-72`). `order_book` assumes neither happens (`FreshIds`).
- Kafka is "the complete durable record" (`pipeline_event_sink.hpp:16`), but the result of `publish()`
  is ignored (line 43): an event refused for a full queue reaches the books only.
- A rejected event is "a drop-oldest-induced inconsistency" (`live_pipeline.cpp:46`), but a New whose
  id rests from an earlier demo session is skipped without any drop.
- `cancel_ratio` is in [0, 1] for the model trained on it, but the detector counts cancels of orders of
  an earlier window (`ml_anomaly_detector.cpp:54`). Submissions are called periodic; a cancel
  resubmits while the order count stays at a multiple of `submit_every_n_orders`.
- A marking-the-close group that comes to dominate by a merge is alerted at its next trade, not at
  the merge (`marking_the_close_detector.cpp`); a trade the simulator prints within a millisecond of
  the close may execute after it.
- An alert's `sequence` does not reproduce its book when events were lost on the ring (`alert.hpp:59`).
- "Partially filled, remains open" (`baseline_generator.cpp:169`) is a full fill when the quantity is 1.
- In the demo session all anchors collapse to its start, since it is shorter than the margin of the
  anchors; scenarios therefore overlap there.
- The anchor's own cancel may be alerted as spoofing: it is the one false alarm of a lone scenario
  (`FalseAlarmsAreAnchors`). The reversal of a front-running scenario is labelled and no alert can
  name it (`MissesAreExplained`).
- `count_mtc_key_collisions` counts keys; the message it is printed in speaks of scenarios.
- A PATCH whose second statement fails is answered 500 though its change is committed. A broken
  connection is never opened again, so every later request fails until a restart.
  `std::stoi` accepts "5x", and "abc" is answered 500, not 400.
- A duplicate in the topic is not told from an event: the replay counts it (`SentOnce` excludes it from
  what is promised). Requests that the ML service fails during a replay are not reported to the caller.

## 7. Plan

The components that have behaviour worth checking are modelled, and the invariants of the
concurrent and stateful ones are proved. What is left:

1. `SimulatedSession`: `LaterLayersSeeTheMove`, an inequality between ranges of draws.
