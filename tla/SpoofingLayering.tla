-------------------------- MODULE SpoofingLayering --------------------------
(***************************************************************************)
(* SpoofingLayeringDetector (cpp/detectors/spoofing_layering_detector.cpp):  *)
(* the placement of every order it tracks, the number of orders an account   *)
(* has open on a side, and what is usual on that side at present.  One step   *)
(* per evaluate(), against the book the event has already been applied to.   *)
(*                                                                          *)
(* Scores are exact fractions <<numerator, denominator>>; weights and the    *)
(* alert threshold are in percent.                                           *)
(***************************************************************************)
EXTENDS BookView, Subsequences, Sequences, SequencesExt

CONSTANTS Accounts, Instruments,
          Slow,            \* slow_time_in_book_ns
          DensityWindow,   \* density_window_ns
          MinMove,         \* min_opposite_price_move
          Saturation,      \* layering_saturation_count
          BonusPercent,    \* layering_bonus_weight
          AlertPercent     \* alert_threshold

SpoofConfigured ==
  /\ {Slow, DensityWindow, Saturation} \subseteq Nat \ {0}
  /\ {MinMove, BonusPercent, AlertPercent} \subseteq Nat

Keys == Accounts \X Instruments \X {"buy", "sell"}   \* concurrency_key
SideKeys == Instruments \X {"buy", "sell"}           \* instrument_side_key

KeyOf(order) == <<order.account, order.instrument, order.side>>

VARIABLES
  tracked,  \* tracked_: the placement of every open order, by its id
  counts,   \* concurrent_count_by_key_
  ambient   \* ambient_by_instrument_side_

SpoofTypeOK ==
  /\ \A id \in DOMAIN tracked : KeyOf(tracked[id]) \in Keys
  /\ counts \in [Keys -> Nat]
  /\ DOMAIN ambient = SideKeys

SpoofInit ==
  /\ tracked = <<>>
  /\ counts = [k \in Keys |-> 0]
  /\ ambient = [k \in SideKeys |-> [moves |-> <<>>, samples |-> <<>>, last |-> NoPrice]]

-----------------------------------------------------------------------------
Distance(a, b) == IF a >= b THEN a - b ELSE b - a
Near(now, ts) == Distance(now, ts) <= DensityWindow

\* Fault: only a prefix is trimmed, as if time never went back.
TrimmedFront(seq, now) ==
  LET keep == {i \in DOMAIN seq : Near(now, seq[i].ts)}
  IN IF keep = {} THEN <<>> ELSE SubSeq(seq, Min(keep), Len(seq))

\* Entries farther than the window from now, on either side, are dropped.
Trimmed(seq, now) == Subsequence(seq, {k \in DOMAIN seq : Near(now, seq[k].ts)})

\* update_ambient, for one side: a change of the best price is a move.
Refreshed(tracker, price, now) ==
  LET moved == NoPrice \notin {tracker.last, price} /\ price # tracker.last
      moves == IF moved THEN Append(tracker.moves, [ts |-> now]) ELSE tracker.moves
  IN [moves |-> Trimmed(moves, now),
      samples |-> Trimmed(tracker.samples, now),
      last |-> IF price = NoPrice THEN tracker.last ELSE price]

UpdateAmbient(book, event) ==
  [k \in SideKeys |-> IF k[1] # event.instrument THEN ambient[k]
                      ELSE Refreshed(ambient[k], BestPrice(book, k[2]), event.ts)]

-----------------------------------------------------------------------------
Placement(book, event) ==
  [account |-> event.account, instrument |-> event.instrument, side |-> event.side,
   left |-> event.qty, placed |-> event.ts,
   depth |-> <<event.qty, QtyAtPrice(book, event.side, event.price)>>,
   opposite |-> BestPrice(book, Opposite(event.side))]

\* erase_tracked, on the entries and the counts.
Erased(entries, id) == [x \in DOMAIN entries \ {id} |-> entries[x]]
\* Fault: an order that leaves keeps its place in the count.
KeptCount(entries, cnt, id) == cnt
Uncounted(entries, cnt, id) ==
  IF id \notin DOMAIN entries \/ cnt[KeyOf(entries[id])] = 0 THEN cnt
  ELSE [cnt EXCEPT ![KeyOf(entries[id])] = @ - 1]

Entered(entries, id, placement) ==
  [x \in DOMAIN entries \cup {id} |-> IF x = id THEN placement ELSE entries[x]]

\* track_new: an entry the id may still have is overwritten, and stays counted.
TrackNew(entries, cnt, book, event) ==
  LET key == <<event.account, event.instrument, event.side>>
      open == cnt[key] + 1
      fresh == UpdateAmbient(book, event)
  IN /\ tracked' = Entered(entries, event.id, Placement(book, event))
     /\ counts' = [cnt EXCEPT ![key] = open]
     /\ ambient' = [fresh EXCEPT ![<<event.instrument, event.side>>].samples =
                      Append(@, [ts |-> event.ts, account |-> event.account, open |-> open])]

\* Fault: an order with nothing left is still tracked.
Overfilled(left) == left < 0
FullyFilled(left) == left <= 0

\* A fill that takes all that is left ends the lifecycle: genuine flow.
HandleExecution(event) ==
  \/ event.id \notin DOMAIN tracked /\ UNCHANGED <<tracked, counts>>
  \/ /\ event.id \in DOMAIN tracked
     /\ LET left == tracked[event.id].left - event.qty
        IN \/ /\ FullyFilled(left)
              /\ tracked' = Erased(tracked, event.id)
              /\ counts' = Uncounted(tracked, counts, event.id)
           \/ /\ ~FullyFilled(left)
              /\ tracked' = [tracked EXCEPT ![event.id].left = left]
              /\ UNCHANGED counts

-----------------------------------------------------------------------------
\* handle_cancel: the four scores of the order that is pulled.
Clamp(n, d) == IF n <= 0 THEN <<0, 1>> ELSE IF n >= d THEN <<1, 1>> ELSE <<n, d>>

SpeedScore(dwell) == Clamp(Slow - dwell, Slow)

MovedFavorably(order, now) ==
  /\ NoPrice \notin {order.opposite, now}
  /\ IF order.side = "buy" THEN now - order.opposite >= MinMove ELSE order.opposite - now >= MinMove

\* Expected moves: the recent rate of the opposite side times the capped dwell.
MoveScore(order, fresh, now, dwell) ==
  LET moves == Len(fresh[<<order.instrument, Opposite(order.side)>>].moves)
      capped == IF dwell < Slow THEN dwell ELSE Slow
  IN IF MovedFavorably(order, now)
     THEN Clamp(DensityWindow - moves * capped, DensityWindow) ELSE <<0, 1>>

\* Open orders of the account beyond what is typical of the others.
LayeringScore(order, open, samples) ==
  LET others == SelectSeq(samples, LAMBDA s : s.account # order.account)
      n == IF others = <<>> THEN 1 ELSE Len(others)
      sum == FoldLeft(LAMBDA acc, s : acc + s.open, 0, others)
  IN Clamp(open * n - sum, n * Saturation)

\* (depth + speed + move) / 3 + bonus * layering >= threshold
Suspicious(depth, speed, move, layering) ==
  LET scale == depth[2] * speed[2] * move[2]
      primary == depth[1] * speed[2] * move[2] + speed[1] * depth[2] * move[2]
                   + move[1] * depth[2] * speed[2]
  IN 100 * primary * layering[2] + 3 * BonusPercent * layering[1] * scale
       >= 3 * AlertPercent * scale * layering[2]

\* Fault: a cancel dated before its placement is scored like any other.
AnyDate(order, event) == TRUE

\* A cancel dated before its placement belongs to another lifecycle.
Coherent(order, event) == event.ts >= order.placed

HandleCancel(book, event, sequence) ==
  LET order == tracked[event.orig]
      cnt == Uncounted(tracked, counts, event.orig)
      fresh == UpdateAmbient(book, event)
      dwell == event.ts - order.placed
      fires ==
        /\ Coherent(order, event)
        /\ Suspicious(Clamp(order.depth[1], order.depth[2]), SpeedScore(dwell),
             MoveScore(order, fresh, BestPrice(book, Opposite(order.side)), dwell),
             LayeringScore(order, cnt[KeyOf(order)],
                           fresh[<<order.instrument, order.side>>].samples))
  IN IF event.orig \notin DOMAIN tracked \/ ~fires THEN <<>>
     ELSE <<[detector |-> "SpoofingLayering", instrument |-> order.instrument,
             accounts |-> {order.account}, orders |-> {event.orig},
             start |-> order.placed, end |-> event.ts, sequence |-> sequence]>>

\* evaluate(): the alerts it returns, and what it leaves behind.
SpoofAlerts(book, event, sequence) ==
  IF event.kind = "Cancel" THEN HandleCancel(book, event, sequence) ELSE <<>>

EvaluateSpoofing(book, event) ==
  \/ event.kind = "New" /\ TrackNew(tracked, counts, book, event)
  \/ /\ event.kind = "Replace"
     /\ TrackNew(Erased(tracked, event.orig), Uncounted(tracked, counts, event.orig), book, event)
  \/ /\ event.kind = "Cancel"
     /\ tracked' = Erased(tracked, event.orig)
     /\ counts' = Uncounted(tracked, counts, event.orig)
     /\ ambient' = UpdateAmbient(book, event)
  \/ /\ event.kind = "Execution"
     /\ HandleExecution(event)
     /\ ambient' = UpdateAmbient(book, event)
=============================================================================
