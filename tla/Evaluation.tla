----------------------------- MODULE Evaluation -----------------------------
(***************************************************************************)
(* The precision and recall report (cpp/harness/evaluation.cpp): which ids a *)
(* detector is judged on, which of them belong to the abuse it looks for,    *)
(* and the confusion matrix of the alerts of a replay.                       *)
(***************************************************************************)
EXTENDS Integers, FiniteSets, Sequences, Functions

Patterns == {"baseline", "WashTrade", "SpoofingLayering", "MarkingTheClose", "FrontRunning"}

\* build_universes: ids of new orders, of cancels and of trades, and those of a pattern.
Universe(ids, labelOf(_)) ==
  [ids |-> ids, byPattern |-> [p \in Patterns |-> {id \in ids : labelOf(id) = p}]]

OrdersWith(orders, status) == {o \in Range(orders) : o.status = status}
PatternOfOrder(orders, id) == (CHOOSE o \in Range(orders) : o.id = id).label.pattern
PatternOfTrade(executions, id) == (CHOOSE e \in Range(executions) : e.trade = id).label.pattern

BuildUniverses(orders, executions) ==
  LET OrderLabel(id) == PatternOfOrder(orders, id)
      TradeLabel(id) == PatternOfTrade(executions, id)
  IN [new |-> Universe({o.id : o \in OrdersWith(orders, "new")}, OrderLabel),
      cancelled |-> Universe({o.id : o \in OrdersWith(orders, "cancelled")}, OrderLabel),
      traded |-> Universe({e.trade : e \in Range(executions)}, TradeLabel)]

PositiveIds(universe, pattern) == universe.byPattern[pattern]

\* detector_universe_kind and select_universe
UniverseOf(universes, detector) ==
  CASE detector \in {"WashTrade", "MarkingTheClose"} -> universes.traded
    [] detector = "SpoofingLayering" -> universes.cancelled
    [] detector \in {"FrontRunning", "StatisticalBaseline"} -> universes.new

\* Fault: ids outside the universe are predictions too.
AllIds(alerts, detector, ids) ==
  UNION {a.orders : a \in {b \in Range(alerts) : b.detector = detector}}

\* An alert names orders and trades; those of the other universes do not count.
Predicted(alerts, detector, ids) ==
  UNION {a.orders : a \in {b \in Range(alerts) : b.detector = detector}} \cap ids

\* compute_confusion_matrix
ConfusionMatrix(alerts, detector, ids, positive) ==
  LET predicted == Predicted(alerts, detector, ids)
  IN [tp |-> Cardinality(predicted \cap positive),
      fp |-> Cardinality(predicted \ positive),
      fn |-> Cardinality(positive \ predicted),
      tn |-> Cardinality(ids \ (positive \cup predicted))]

\* The row of a detector against the pattern it looks for (pattern_aware_detector_specs).
Row(universes, alerts, detector) ==
  LET universe == UniverseOf(universes, detector)
  IN ConfusionMatrix(alerts, detector, universe.ids, PositiveIds(universe, detector))

\* The scenarios whose trades an account made on an instrument.
ScenariosOn(executions, pattern, key) ==
  {e.label.scenario : e \in {x \in Range(executions) :
     x.label.pattern = pattern /\ <<x.instrument, x.account>> = key}}

\* Fault: two scenarios on a key go unnoticed.
ThirdOnKey(executions) ==
  {k \in {<<e.instrument, e.account>> : e \in Range(executions)} :
     Cardinality(ScenariosOn(executions, "MarkingTheClose", k)) > 2}

\* count_mtc_key_collisions: the keys that more than one scenario uses.
CollidingKeys(executions) ==
  {k \in {<<e.instrument, e.account>> : e \in Range(executions)} :
     Cardinality(ScenariosOn(executions, "MarkingTheClose", k)) > 1}
=============================================================================
