---------------------------- MODULE FrontRunning ----------------------------
(***************************************************************************)
(* FrontRunningDetector (cpp/detectors/front_running_detector.cpp): the      *)
(* recent New orders of every instrument and side, large or small, against   *)
(* which a new one is paired.                                                *)
(***************************************************************************)
EXTENDS AccountRegistry, Subsequences, Sequences, SequencesExt

CONSTANTS Instruments,
          Lookback,       \* lookback_window_ns
          MinLarge,       \* min_large_qty_threshold
          RatioPercent    \* max_leader_to_large_size_ratio

FrontConfigured == {Lookback, MinLarge, RatioPercent} \subseteq Nat

VARIABLE recent  \* recent_by_key_

FrontInit == recent = [k \in Instruments \X {"buy", "sell"} |-> <<>>]

\* Fault: an order dated after the present one is kept, however far.
NotTooOld(prior, event) == event.ts - prior.ts <= Lookback

\* Farther than the window, before or after, is another lifecycle.
WithinLookback(prior, event) ==
  event.ts - prior.ts <= Lookback /\ prior.ts - event.ts <= Lookback

\* The new order reacts to a large one of a related account placed no later.
Reacts(registry, prior, event) ==
  /\ prior.account # event.account
  /\ IsRelated(registry, event.account, prior.account)
  /\ prior.qty >= MinLarge
  /\ 100 * event.qty <= RatioPercent * prior.qty
  /\ event.ts >= prior.ts

SideOf(event) == <<event.instrument, event.side>>
Kept(event) ==
  LET priors == recent[SideOf(event)]
  IN Subsequence(priors, {k \in DOMAIN priors : WithinLookback(priors[k], event)})

FrontAlert(prior, event, sequence) ==
  [detector |-> "FrontRunning", instrument |-> event.instrument,
   accounts |-> {prior.account, event.account}, orders |-> {prior.id, event.id},
   start |-> prior.ts, end |-> event.ts, sequence |-> sequence]

\* One alert per large predecessor, oldest first.
FrontAlerts(registry, event, sequence) ==
  IF event.kind # "New" THEN <<>>
  ELSE LET kept == Kept(event)
           large == Subsequence(kept, {k \in DOMAIN kept : Reacts(registry, kept[k], event)})
       IN [i \in 1 .. Len(large) |-> FrontAlert(large[i], event, sequence)]

EvaluateFront(event) ==
  recent' = IF event.kind # "New" THEN recent
            ELSE [recent EXCEPT ![SideOf(event)] = Append(Kept(event),
                    [account |-> event.account, id |-> event.id, qty |-> event.qty, ts |-> event.ts])]
=============================================================================
