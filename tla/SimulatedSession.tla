-------------------------- MODULE SimulatedSession --------------------------
(***************************************************************************)
(* generate_simulation (cpp/simulator/simulator.cpp), and the two ways its   *)
(* session reaches the rule detectors: the harness merges orders and         *)
(* executions stably and publishes them (to_ingestion_events), the demo      *)
(* server merges them with an unstable sort and sends them as FIX messages   *)
(* (feed_one_session).  What the transport may do to them is the subject of  *)
(* LivePipeline and KafkaReplay.                                             *)
(*                                                                          *)
(* One step per baseline order, per injected scenario and per replayed event.*)
(***************************************************************************)
EXTENDS EventProcessing

CONSTANTS
  Synthetic, TickSize, SessionClose,
  Independent,   \* independent accounts
  LinkedPairs,   \* pairs of accounts with one owner: client and related
  Configs        \* SimulatorConfig: the sessions that are generated

\* scenarios: pairs of a kind and a severity, in the order of the loops; streams: the draws
\* of a scenario; anchors: where a scenario may start; baseline: bound on its orders.
ASSUME ConfigAssumption ==
  \A c \in Configs :
    /\ c.baseline \in Nat /\ c.demo \in BOOLEAN
    /\ \A s \in Range(c.scenarios) : s.severity \in 0 .. 100

VARIABLES
  config,   \* the session of this behaviour
  phase,    \* "baseline", "abuse", "replay"
  todo,     \* the scenarios still to inject
  sim,      \* the orders and executions so far, the last ids given out (those of trades are negative), the clock
  pending   \* what the replay has not yet delivered

vars == <<config, phase, todo, sim, pending, processVars>>

Generator == INSTANCE Simulator
Report == INSTANCE Evaluation
\* 20 ms a unit.
Wire == INSTANCE MessageTranslator WITH Second <- 50

ASSUME TickAssumption == Generator!TicksAreWhole

Label(pattern) == [pattern |-> pattern, scenario |-> IF pattern = "baseline" THEN 0 ELSE Len(todo)]

Registry == Generator!RegistryOf(Independent, LinkedPairs)

TypeOK ==
  /\ phase \in {"baseline", "abuse", "replay"}
  /\ Len(sim.orders) \in Nat
  /\ sim.ids.order \in Nat /\ -sim.ids.trade \in Nat
  /\ ProcessTypeOK

Init ==
  /\ config \in Configs
  /\ phase = "baseline"
  /\ todo = config.scenarios
  /\ sim = [orders |-> <<>>, executions |-> <<>>, ids |-> [order |-> 0, trade |-> 0],
            clock |-> config.start, placed |-> 0]
  /\ pending = <<>>
  /\ registry = Registry
  /\ ProcessInit

-----------------------------------------------------------------------------
\* Generation

\* append() of what a scenario returns, and the ids it drew from the generators.
Appended(scenario) ==
  [sim EXCEPT !.orders = @ \o scenario.orders,
              !.executions = @ \o scenario.executions,
              !.ids = [order |-> @.order + scenario.taken.order,
                       trade |-> @.trade - scenario.taken.trade]]

\* Any counterparty: after five attempts a related one is kept.
PlaceBaselineOrder ==
  /\ phase = "baseline" /\ sim.placed < config.baseline
  /\ \E i \in Instruments, a, c \in DOMAIN registry, side \in {"buy", "sell"}, qty \in {1, 3},
       gap \in config.gaps, fate \in Generator!BaselineFates, delay \in config.delays :
       LET ts == sim.clock + gap
           flow == Generator!BaselineScenario(sim.ids, Label("baseline"), i, a, side,
                     (IF side = "buy" THEN -1 ELSE 1) * TickSize[i], qty, ts, fate, delay, c)
       IN /\ ts < SessionClose
          /\ fate \in {"cancelled", "open"} => c = a
          /\ sim' = [Appended(flow) EXCEPT !.clock = ts, !.placed = @ + 1]
  /\ UNCHANGED <<config, phase, todo, pending, processVars>>

\* The next arrival is past the end of the session.
EndBaseline ==
  /\ phase = "baseline"
  /\ phase' = "abuse"
  /\ UNCHANGED <<config, todo, sim, pending, processVars>>

Inject(scenario) ==
  /\ phase = "abuse" /\ todo # <<>>
  /\ sim' = Appended(scenario)
  /\ todo' = Tail(todo)
  /\ UNCHANGED <<config, phase, pending, processVars>>

InjectWashTrade ==
  /\ todo # <<>> /\ Head(todo).kind = "WashTrade"
  /\ \E u \in config.streams, i \in Instruments, p \in LinkedPairs, anchor \in config.anchors :
       Inject(Generator!WashTrade(u, sim.ids, Label("WashTrade"), i, p[1], p[2], anchor, Head(todo).severity))

InjectSpoofing ==
  /\ todo # <<>> /\ Head(todo).kind = "SpoofingLayering"
  /\ \E u \in config.streams, i \in Instruments, a \in Independent, anchor \in config.anchors :
       Inject(Generator!SpoofingScenario(u, sim.ids, Label("SpoofingLayering"), Label("baseline"), i, a, anchor,
                                         Head(todo).severity))

InjectMarking ==
  /\ todo # <<>> /\ Head(todo).kind = "MarkingTheClose"
  /\ \E u \in config.streams, i \in Instruments, p \in LinkedPairs :
       Inject(Generator!MarkingScenario(u, sim.ids, Label("MarkingTheClose"), i, p, config.ambientQty,
                                        Head(todo).severity))

InjectFrontRunning ==
  /\ todo # <<>> /\ Head(todo).kind = "FrontRunning"
  /\ \E u \in config.streams, i \in Instruments, p \in LinkedPairs, anchor \in config.anchors :
       Inject(Generator!FrontRunningScenario(u, sim.ids, Label("FrontRunning"), i, p[1], p[2], anchor,
                                             Head(todo).severity))

-----------------------------------------------------------------------------
\* Conversion and merge

StableSorted(items) ==
  LET before(m, n) == items[m].ts < items[n].ts \/ (items[m].ts = items[n].ts /\ m < n)
      order == SortSeq([n \in DOMAIN items |-> n], before)
  IN [n \in DOMAIN items |-> items[order[n]]]

\* to_fix_order: an order is its own orig_order_id.
OrderEvent(o) ==
  [kind |-> IF o.status = "new" THEN "New" ELSE "Cancel", id |-> o.id, orig |-> o.id,
   account |-> o.account, instrument |-> o.instrument, side |-> o.side,
   price |-> o.price, qty |-> o.qty, counterparty |-> NoAccount, trade |-> 0, ts |-> o.ts]

\* The demo server sends every event as a FIX message to its own acceptor.
OverFix(event) == IF config.demo THEN Wire!FromFix(Wire!ToFix(event)) ELSE event

SideOfOrder(orders, id) == (CHOOSE o \in Range(orders) : o.id = id).side

TradeEvent(orders, e) ==
  [kind |-> "Execution", id |-> e.id, orig |-> e.id, account |-> e.account,
   instrument |-> e.instrument, side |-> SideOfOrder(orders, e.id), price |-> 0, qty |-> e.qty,
   counterparty |-> e.counterparty, trade |-> e.trade, ts |-> e.ts]

\* Orders before executions of the same time, as they are listed.
Merged(orders, executions) ==
  LET ordered == StableSorted(orders)
      traded == StableSorted(executions)
  IN StableSorted([n \in DOMAIN ordered |-> OverFix(OrderEvent(ordered[n]))]
                  \o [n \in DOMAIN traded |-> OverFix(TradeEvent(orders, traded[n]))])

StartReplay ==
  /\ phase = "abuse" /\ todo = <<>>
  /\ phase' = "replay"
  /\ pending' = Merged(sim.orders, sim.executions)
  /\ UNCHANGED <<config, todo, sim, processVars>>

\* std::sort leaves events of one time in any order.
Eligible ==
  IF config.demo THEN {n \in DOMAIN pending : pending[n].ts = pending[1].ts} ELSE {1}

Deliver ==
  /\ phase = "replay" /\ pending # <<>>
  /\ \E n \in Eligible : Process(pending[n]) /\ pending' = RemoveAt(pending, n)
  /\ UNCHANGED <<config, phase, todo, sim>>

Next ==
  \/ PlaceBaselineOrder \/ EndBaseline
  \/ InjectWashTrade \/ InjectSpoofing \/ InjectMarking \/ InjectFrontRunning
  \/ StartReplay \/ Deliver

Spec == Init /\ [][Next]_vars

-----------------------------------------------------------------------------
\* Properties

Replayed == phase = "replay" /\ pending = <<>>

\* No draw, no severity and no overlap of scenarios makes an event the book cannot apply:
\* an order exists when it is cancelled or filled, is not filled beyond its quantity, and
\* no id is given out twice.
EveryEventApplies ==
  /\ TypeOK
  /\ skipped = 0
  /\ phase = "replay" /\ pending # <<>> =>
       \A n \in Eligible : pending[n].kind \in {"Cancel", "Execution"} =>
         Spoofing!Resting(books[pending[n].instrument], pending[n].id)

\* The cancels of a scenario that come next.
Cancelling(pattern) ==
  {n \in Eligible \cap DOMAIN pending :
     /\ pending[n].kind = "Cancel"
     /\ \E o \in Range(sim.orders) : o.id = pending[n].id /\ o.label.pattern = pattern}

BestOpposite(e) ==
  Spoofing!BestPrice(Spoofing!Applied(books[e.instrument], e), Spoofing!Opposite(e.side))

SeesTheMove(e) == Spoofing!MovedFavorably(tracked[e.id], BestOpposite(e))

\* "guaranteeing best_price(side_genuine) reads as having moved in the direction move_score
\* checks for by the time the layers are cancelled, by construction, not chance"
\* (spoofing_layering.cpp:122).
AnchorMoveIsSeen ==
  phase = "replay" => \A n \in Cancelling("SpoofingLayering") : SeesTheMove(pending[n])

FirstLayer(id) ==
  \A o \in Range(sim.orders) : o.label.pattern = "SpoofingLayering" => o.id >= id

\* Without other flow the move is seen from every layer but the first, which is placed
\* before the anchor, where a tick is at least the least move the detector looks for.
LaterLayersSeeTheMove ==
  /\ phase = "replay" /\ config.baseline = 0 /\ Len(config.scenarios) = 1
  => \A n \in Cancelling("SpoofingLayering") :
       ~FirstLayer(pending[n].id) /\ TickSize[pending[n].instrument] >= MinMove => SeesTheMove(pending[n])

-----------------------------------------------------------------------------
\* The report

Universes == Report!BuildUniverses(sim.orders, sim.executions)
Positive(detector) == Report!PositiveIds(Report!UniverseOf(Universes, detector), detector)
Found(detector) ==
  Report!Predicted(alerts, detector, Report!UniverseOf(Universes, detector).ids)
OrderNamed(id) == CHOOSE o \in Range(sim.orders) : o.id = id
TradeNamed(id) == CHOOSE e \in Range(sim.executions) : e.trade = id
\* Volume of the window up to a trade, which it counts if it precedes the close.
VolumeSoFar(id) ==
  MapThenSumSet(LAMBDA e : e.qty,
    {e \in Range(sim.executions) :
       /\ e.instrument = TradeNamed(id).instrument
       /\ e.ts <= TradeNamed(id).ts /\ e.ts <= SessionClose /\ e.ts >= SessionClose - WindowDuration})

\* What the report misses without other flow, and why: nothing of a wash trade; of spoofing
\* alone in its session, from severity 60 on, the layers from which the move is not seen; of
\* front running the reversal and the pairs above the size ratio; of marking the close what
\* comes after the alert of the group or after the close.
MissesAreExplained ==
  Replayed /\ config.baseline = 0 =>
    /\ Report!Row(Universes, alerts, "WashTrade").fn = 0
    /\ Len(config.scenarios) = 1 /\ config.scenarios[1].severity >= 60 =>
         \A id \in Positive("SpoofingLayering") \ Found("SpoofingLayering") :
           FirstLayer(id) \/ TickSize[OrderNamed(id).instrument] < MinMove
    /\ \A small, large \in Positive("FrontRunning") :
         /\ OrderNamed(small).account # OrderNamed(large).account
         /\ OrderNamed(small).label = OrderNamed(large).label
         /\ OrderNamed(small).side = OrderNamed(large).side
         /\ 100 * OrderNamed(small).qty <= RatioPercent * OrderNamed(large).qty
         => {small, large} \subseteq Found("FrontRunning")
    /\ \A id \in Positive("MarkingTheClose") \ Found("MarkingTheClose") :
         \/ TradeNamed(id).ts > SessionClose
         \/ \E other \in Found("MarkingTheClose") : TradeNamed(other).ts <= TradeNamed(id).ts
         \/ VolumeSoFar(id) < MinTotalQty

\* Alone in its session, a scenario raises one kind of false alarm: the cancel of the
\* anchor that moves the market for it, which is not labelled.
FalseAlarmsAreAnchors ==
  Replayed /\ config.baseline = 0 /\ Len(config.scenarios) = 1 =>
    \A detector \in Report!Patterns \ {"baseline"} :
      \A id \in Found(detector) \ Positive(detector) :
        /\ detector = "SpoofingLayering"
        /\ OrderNamed(id).account = Synthetic

\* Every error that a report on such sessions counts (compute_confusion_matrix), of either
\* kind, has a cause in the generator or the detectors that can be named.
ReportIsExplained == MissesAreExplained /\ FalseAlarmsAreAnchors

\* A marking-the-close scenario without an alert of its own is reported as a collision:
\* "a depressed MTC recall number is never silently misread" (main.cpp:163).
MutedScenariosAreReported ==
  LET trades(n) == {e \in Range(sim.executions) : e.label = [pattern |-> "MarkingTheClose", scenario |-> n]}
      alerted(n) == \E e \in trades(n) : e.trade \in Found("MarkingTheClose")
      loud(n) == \E e \in trades(n) : e.ts <= SessionClose /\ VolumeSoFar(e.trade) >= MinTotalQty
  IN Replayed /\ config.baseline = 0 =>
       \A n \in 1 .. Len(config.scenarios) :
         loud(n) /\ ~alerted(n) => Report!CollidingKeys(sim.executions) # {}
=============================================================================
