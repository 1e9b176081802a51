---------------------------- MODULE Surveillance ----------------------------
(***************************************************************************)
(* The rule detectors against arbitrary feeds.  A feed says which events can *)
(* arrive: an opening that is always the same, then any new orders, and      *)
(* cancels, replaces and fills of the orders placed before.  The clock of a  *)
(* feed may go back, and the ring buffer may lose events, which Kafka has    *)
(* recorded by then (LivePipeline models how).                               *)
(***************************************************************************)
EXTENDS EventProcessing, Subsequences

CONSTANT Feeds     \* the feeds, each with the bounds that belong to it

\* What a New can be.
Offer == [account : Accounts, instrument : Instruments, side : {"buy", "sell"}, price : Int, qty : Nat]

\* opening, orders: what a New can be; replaces, fills: what a follow-up can carry, none if empty;
\* gaps: how far the clock moves from one event to the next; reuse: a New may take the
\* id of an earlier one; drops: how many events the ring buffer loses at most.
ASSUME FeedsAssumption ==
  \A f \in Feeds :
    /\ f.length \in Nat /\ f.drops \in Nat
    /\ f.gaps \subseteq Int /\ {f.cancels, f.reuse} \subseteq BOOLEAN
    /\ f.opening \in Seq(Offer) /\ f.orders \subseteq Offer
    /\ \A r \in f.replaces : r.price \in Int /\ r.qty \in Nat
    /\ \A r \in f.fills : r.counterparty \in Accounts \cup {NoAccount} /\ r.qty \in Nat
    /\ \A r \in f.registries : \A x \in DOMAIN r : r[x] \in Closing!Entity

\* A mean over the orders of a feed is a number of units.
ASSUME UnitAssumption == \A f \in Feeds : \A n \in 1 .. f.length : Unit % n = 0

VARIABLES
  feed,       \* the feed of this behaviour
  published,  \* every event of the feed, as Kafka has it
  lost        \* number of events the ring buffer discarded

vars == <<feed, published, lost, processVars>>

TypeOK ==
  /\ lost \in 0 .. feed.drops
  /\ Len(published) <= feed.length
  /\ ProcessTypeOK

Init ==
  /\ feed \in Feeds
  /\ registry \in feed.registries
  /\ published = <<>> /\ lost = 0
  /\ ProcessInit

-----------------------------------------------------------------------------
\* What the feed can send next.

Now == IF published = <<>> THEN 0 ELSE Last(published).ts
IdsUsed == {published[n].id : n \in DOMAIN published}
FreshId == Cardinality(IdsUsed) + 1
Placed == {n \in DOMAIN published : published[n].kind \in {"New", "Replace"}}

NewOrder(order, id) ==
  [kind |-> "New", id |-> id, orig |-> id, account |-> order.account,
   instrument |-> order.instrument, side |-> order.side, price |-> order.price, qty |-> order.qty,
   counterparty |-> NoAccount, trade |-> 0, ts |-> Now]

NewOrders ==
  {NewOrder(order, id) : order \in feed.orders,
                         id \in IF feed.reuse THEN 1 .. FreshId ELSE {FreshId}}
Cancels ==
  {[published[n] EXCEPT !.kind = "Cancel", !.orig = published[n].id] :
     n \in IF feed.cancels THEN Placed ELSE {}}
Replaced(order, r) ==
  [order EXCEPT !.kind = "Replace", !.id = FreshId, !.orig = order.id, !.price = r.price, !.qty = r.qty]
Replaces == {Replaced(published[n], r) : n \in Placed, r \in feed.replaces}
\* The account of an execution is that of the order.
Filled(order, f) ==
  [order EXCEPT !.kind = "Execution", !.qty = f.qty, !.counterparty = f.counterparty,
                !.trade = Len(published) + 1]
Fills == {Filled(published[n], f) : n \in Placed, f \in feed.fills}

Arrivals ==
  IF Len(published) < Len(feed.opening)
  THEN {NewOrder(feed.opening[Len(published) + 1], FreshId)}
  ELSE {[e EXCEPT !.ts = Now + gap] : e \in NewOrders \cup Cancels \cup Replaces \cup Fills,
                                     gap \in feed.gaps}

-----------------------------------------------------------------------------
\* The consumer thread pops the event and processes it.
Deliver(event) ==
  /\ published' = Append(published, event)
  /\ Process(event)
  /\ UNCHANGED <<feed, lost>>

\* Drop-oldest: the event is in Kafka and never reaches the consumer.
LoseOnTheRing(event) ==
  /\ lost < feed.drops
  /\ lost' = lost + 1
  /\ published' = Append(published, event)
  /\ UNCHANGED <<feed, processVars>>

Next ==
  /\ Len(published) < feed.length
  /\ \E event \in Arrivals : Deliver(event) \/ LoseOnTheRing(event)

Spec == Init /\ [][Next]_vars

-----------------------------------------------------------------------------
\* Properties.  The detectors work on running state; these state what that state
\* should amount to, over the whole history.

TrackedOn(key) == {id \in DOMAIN tracked : Spoofing!KeyOf(tracked[id]) = key}

\* "every insertion/removal of a TrackedOrder must go through exactly those two
\* functions" (spoofing_layering_detector.hpp:239): the count of an account, instrument
\* and side is the number of its tracked orders.
CountsMatchTracked == \A k \in Spoofing!Keys : counts[k] = Cardinality(TrackedOn(k))

\* With unique ids the detector tracks exactly the orders that rest in a book, with the
\* quantity they have left, whatever the ring buffer lost.
TrackedMirrorsBooks ==
  /\ TypeOK
  /\ \A i \in Instruments :
       {<<id, tracked[id].side, tracked[id].left>> : id \in {t \in DOMAIN tracked : tracked[t].instrument = i}}
         = {<<o.id, o.side, o.qty>> : o \in books[i]}

\* Every spoofing alert is about one lifecycle: its account placed the order when the
\* window starts, cancelled it when the window ends, not before it was placed, and the
\* order was neither replaced nor cancelled in between.
SpoofingAlertsNameOneLifecycle ==
  \A a \in Range(alerts) : a.detector = "SpoofingLayering" =>
    \E p, c \in DOMAIN accepted :
      /\ p < c /\ a.start <= a.end
      /\ accepted[p].kind \in {"New", "Replace"} /\ accepted[p].ts = a.start
      /\ accepted[c].kind = "Cancel" /\ accepted[c].ts = a.end
      /\ a.orders = {accepted[p].id} /\ a.orders = {accepted[c].orig}
      /\ a.accounts = {accepted[p].account}
      /\ \A m \in p + 1 .. c - 1 : accepted[m].orig \in a.orders => accepted[m].kind = "Execution"

\* The concurrency samples are the placements that every later event of the instrument
\* found inside the density window, in order, also when the clock went back: none is
\* stranded behind another and none is lost.
SamplesAreRecent ==
  \A i \in Instruments, side \in {"buy", "sell"} :
    LET Recent(n) ==
          /\ accepted[n].instrument = i /\ accepted[n].side = side
          /\ accepted[n].kind \in {"New", "Replace"}
          /\ \A m \in n + 1 .. Len(accepted) :
               accepted[m].instrument = i => Spoofing!Near(accepted[m].ts, accepted[n].ts)
        expected == Ascending({n \in DOMAIN accepted : Recent(n)})
        samples == ambient[<<i, side>>].samples
    IN /\ Len(samples) = Len(expected)
       /\ \A n \in DOMAIN expected :
            /\ samples[n].ts = accepted[expected[n]].ts
            /\ samples[n].account = accepted[expected[n]].account

\* The pairs of a large order and a related account's smaller one that follows within
\* the window on the same side, unless an order in between was outside its window.
Kin(a, b) ==
  \/ {a, b} \subseteq DOMAIN registry
     /\ registry[a].owner = registry[b].owner /\ registry[a].owner # NoOwner
  \/ a \in DOMAIN registry /\ b \in registry[a].links
  \/ b \in DOMAIN registry /\ a \in registry[b].links

FrontRunPairs ==
  {p \in (DOMAIN accepted) \X (DOMAIN accepted) :
     LET large == accepted[p[1]]  small == accepted[p[2]]
     IN /\ p[1] < p[2] /\ large.kind = "New" /\ small.kind = "New"
        /\ <<large.instrument, large.side>> = <<small.instrument, small.side>>
        /\ large.account # small.account /\ Kin(large.account, small.account)
        /\ large.qty >= MinLarge /\ 100 * small.qty <= RatioPercent * large.qty
        /\ large.ts <= small.ts
        /\ \A m \in p[1] + 1 .. p[2] :
             /\ accepted[m].kind = "New"
             /\ <<accepted[m].instrument, accepted[m].side>> = <<large.instrument, large.side>>
             => Spoofing!Distance(accepted[m].ts, large.ts) <= Lookback}

Of(detector) == {n \in DOMAIN alerts : alerts[n].detector = detector}

\* Exactly these pairs are alerted, each once, however the clock moves.
FrontRunningIsExact ==
  LET found == Of("FrontRunning")
  IN /\ Cardinality(found) = Cardinality(FrontRunPairs)
     /\ \A p \in FrontRunPairs : \E n \in found :
          alerts[n].orders = {accepted[p[1]].id, accepted[p[2]].id}

\* Every execution between two related accounts, or an account and itself, is a wash
\* trade, whichever of the two declares the link, and nothing else is.
WashTradesAreExact ==
  LET dealing == {n \in DOMAIN accepted :
        /\ accepted[n].kind = "Execution" /\ accepted[n].counterparty # NoAccount
        /\ \/ accepted[n].account = accepted[n].counterparty
           \/ Kin(accepted[n].account, accepted[n].counterparty)}
      found == Of("WashTrade")
  IN /\ Cardinality(found) = Cardinality(dealing)
     /\ \A n \in dealing : \E k \in found : accepted[n].trade \in alerts[k].orders

\* The alerts about related accounts (evaluate of FrontRunningDetector and of
\* WashTradeDetector) are those of the history's related dealings, no more and no less.
RelatedDealingsAreExact == FrontRunningIsExact /\ WashTradesAreExact

\* The quantities of the events, and their sum over some of them.
Quantities == [n \in DOMAIN accepted |-> accepted[n].qty]
VolumeOf(ns) == SumFunctionOnSet(Quantities, ns)

\* The New orders of an account in an instrument, up to the n-th event.
Seen(key, n) ==
  {m \in 1 .. n : accepted[m].kind = "New" /\ <<accepted[m].account, accepted[m].instrument>> = key}

\* The number of events times the sum of the squared deviations of their quantities.
Squares == [n \in DOMAIN accepted |-> accepted[n].qty * accepted[n].qty]
Spread(ns) == Cardinality(ns) * SumFunctionOnSet(Squares, ns) - VolumeOf(ns) * VolumeOf(ns)

Before(n) == Seen(<<accepted[n].account, accepted[n].instrument>>, n - 1)
IsOutlier(n) ==
  LET count == Cardinality(Before(n))
      off == count * accepted[n].qty - VolumeOf(Before(n))
      spread == Spread(Before(n))
  IN /\ accepted[n].kind = "New" /\ count >= MinSamples /\ spread > 0
     /\ off * off * (count - 1) >= ZScore * ZScore * count * spread

\* Welford's running values are the mean and the squared deviations of the quantities
\* seen, and the orders alerted are those whose quantity is an outlier among the ones
\* before it, both computed in two passes over the history.
StatsAreExact ==
  /\ \A k \in DOMAIN stats :
       LET seen == Seen(k, Len(accepted)) IN
         /\ stats[k].count = Cardinality(seen)
         /\ stats[k].count * stats[k].mean = VolumeOf(seen) * Unit
         /\ stats[k].count * stats[k].m2 = Spread(seen) * Unit * Unit
  /\ {alerts[n].orders : n \in Of("StatisticalBaseline")}
       = {{accepted[n].id} : n \in {m \in DOMAIN accepted : IsOutlier(m)}}

-----------------------------------------------------------------------------
\* Marking the close

WindowTrades(i) ==
  {n \in DOMAIN accepted : /\ accepted[n].kind = "Execution" /\ accepted[n].instrument = i
                           /\ i \in DOMAIN CloseTime
                           /\ CloseTime[i] - WindowDuration <= accepted[n].ts
                           /\ accepted[n].ts <= CloseTime[i]}
TakesPart(n, a) == a \in {accepted[n].account, accepted[n].counterparty}

\* The running volumes are those of the window: an account's is what it traded on either
\* side, a trade with itself counted once, and the total counts every trade once.
VolumesOfTheWindow ==
  \A i \in Instruments :
    /\ close.total[i] = VolumeOf(WindowTrades(i))
    /\ \A a \in Accounts :
         close.volume[<<i, a>>] = VolumeOf({n \in WindowTrades(i) : TakesPart(n, a)})

\* The groups are the connected components of the relation on the accounts seen, in
\* whatever order they were seen: related accounts share a group, and no part of a
\* group is unrelated to the rest of it.
GroupsAreComponents ==
  LET seen == Closing!Seen(close)
      Group(a) == Closing!GroupMembers(close, a)
  IN /\ seen = UNION {{accepted[n].account, accepted[n].counterparty} \ {NoAccount} :
                        n \in UNION {WindowTrades(i) : i \in Instruments}}
     /\ \A a, b \in seen : Kin(a, b) => Group(a) = Group(b)
     /\ \A a \in seen : \A part \in SUBSET Group(a) :
          part \notin {{}, Group(a)} => \E x \in part, y \in Group(a) \ part : Kin(x, y)

\* What handle_execution and register_and_group keep, and check_account compares, is the
\* volume of the window and the groups of the relation, whatever the order of the trades.
VolumesAndGroupsAreExact == VolumesOfTheWindow /\ GroupsAreComponents

\* "Alerts once per (instrument, account-GROUP) per detector lifetime"
\* (marking_the_close_detector.hpp:60): no account is in two alerts of an instrument,
\* although groups merge after an alert.
OneAlertPerGroup ==
  \A m, n \in DOMAIN alerts :
    /\ alerts[m].detector = "MarkingTheClose" /\ alerts[n].detector = "MarkingTheClose"
    /\ m # n /\ alerts[m].instrument = alerts[n].instrument
    => alerts[m].accounts \cap alerts[n].accounts = {}
=============================================================================
