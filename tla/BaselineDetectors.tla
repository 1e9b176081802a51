------------------------- MODULE BaselineDetectors -------------------------
(***************************************************************************)
(* WashTradeDetector and StatisticalBaselineDetector                        *)
(* (cpp/detectors/wash_trade_detector.cpp, statistical_baseline_detector.cpp). *)
(* The first keeps no state.  The second keeps Welford's running mean and    *)
(* sum of squares per account and instrument; both are exact integers here,  *)
(* the mean in units of 1 / Unit and the squares in units of 1 / Unit^2, with *)
(* Unit a common multiple of every count that is reached.                    *)
(***************************************************************************)
EXTENDS AccountRegistry, Integers, Sequences

CONSTANTS Instruments,
          NoAccount,
          Unit,           \* common multiple of 1 .. MaxEvents
          ZScore,         \* z_score_threshold
          MinSamples      \* min_sample_count

BaselineConfigured == {Unit, ZScore, MinSamples} \subseteq Nat \ {0}

VARIABLE stats  \* stats_by_key_

StatsKeys == Accounts \X Instruments

BaselineInit == stats = [k \in StatsKeys |-> [count |-> 0, mean |-> 0, m2 |-> 0]]

\* A completed trade between related accounts; an account with itself included.
WashAlerts(registry, event, sequence) ==
  IF /\ event.kind = "Execution"
     /\ event.counterparty # NoAccount
     /\ IsRelated(registry, event.account, event.counterparty)
  THEN <<[detector |-> "WashTrade", instrument |-> event.instrument,
          accounts |-> {event.account, event.counterparty},
          orders |-> {event.id, event.trade}, start |-> event.ts, end |-> event.ts,
          sequence |-> sequence]>>
  ELSE <<>>

\* Fault: the squares use the old mean twice.
OldMeanTwice(s, value) ==
  LET delta == value * Unit - s.mean
  IN [count |-> s.count + 1, mean |-> s.mean + delta \div (s.count + 1), m2 |-> s.m2 + delta * delta]

\* update(): Welford's step.
Update(s, value) ==
  LET delta == value * Unit - s.mean
      mean == s.mean + delta \div (s.count + 1)
  IN [count |-> s.count + 1, mean |-> mean, m2 |-> s.m2 + delta * (value * Unit - mean)]

\* |z| >= threshold, squared: (x - mean)^2 (n - 1) >= threshold^2 m2, with m2 > 0.
Outlier(s, value) ==
  LET delta == value * Unit - s.mean
  IN s.count > 1 /\ s.m2 > 0 /\ delta * delta * (s.count - 1) >= ZScore * ZScore * s.m2

\* The order is scored against the observations before it, then added to them.
StatAlerts(event, sequence) ==
  LET s == stats[<<event.account, event.instrument>>]
  IN IF event.kind = "New" /\ s.count >= MinSamples /\ Outlier(s, event.qty)
     THEN <<[detector |-> "StatisticalBaseline", instrument |-> event.instrument,
             accounts |-> {event.account}, orders |-> {event.id},
             start |-> event.ts, end |-> event.ts, sequence |-> sequence]>>
     ELSE <<>>

EvaluateBaseline(event) ==
  stats' = IF event.kind # "New" THEN stats
           ELSE [stats EXCEPT ![<<event.account, event.instrument>>] = Update(@, event.qty)]
=============================================================================
