---------------------------- MODULE ServerProofs ----------------------------
(***************************************************************************)
(* Proofs about the two things the HTTP threads of the server read: the      *)
(* books of LiveBooks, for any instruments, HTTP threads, limits and length  *)
(* of the feeds, and however many events arrive; and the alerts of           *)
(* AlertService, for any writers, clients, alerts and bounds.                *)
(***************************************************************************)
EXTENDS LiveBooks, AlertServiceInvariant, FiniteSetTheorems, SequenceTheorems, TLAPS

-----------------------------------------------------------------------------
\* The inductive invariant

\* How many events the sequences, the sides of the books and the feeds reflect.
Counted == IF consumer \in {"lock", "count"} THEN Now - 1 ELSE Now
Applied == IF consumer \in {"lock", "count", "apply"} THEN Now - 1 ELSE Now
Recorded == IF consumer \in {"lock", "count", "apply", "record"} THEN Now - 1 ELSE Now

\* The events that changed a side of an instrument's book, and the last of them.
Changes(instrument, first, side) ==
  {n \in Among(instrument, first) : arrived[n].side = side /\ arrived[n].accepted}
IsLast(event, instrument, first, side) ==
  /\ event \in {0} \cup Changes(instrument, first, side)
  /\ \A n \in Changes(instrument, first, side) : n <= event

\* The newest of the instrument's first events, at most most of them.
IsTail(events, instrument, first, most) ==
  LET reach == Reach(instrument, first) IN
  /\ events \in Seq(Nat)
  /\ Len(events) = IF reach <= most THEN reach ELSE most
  /\ \A k \in 1 .. Len(events) :
       events[k] \in Among(instrument, first) /\ Reach(instrument, events[k]) = reach - Len(events) + k

TypesOK ==
  /\ arrived \in Seq(Event)
  /\ consumer \in {"pop", "lock", "count", "apply", "record", "tally"}
  /\ consumer # "pop" => Now > 0
  /\ books \in [Instruments -> Book]
  /\ feed \in [Instruments -> Seq(Nat)]
  /\ processed \in Nat /\ skipped \in Nat
  /\ shown \in [Instruments -> Nat]
  /\ reader = [r \in Readers |-> reader[r]]

\* The mutex has one holder at most, and each thread holds it over its scope.
LockOK ==
  /\ lock \subseteq Readers \cup {"consumer"}
  /\ \A s, t \in lock : s = t
  /\ "consumer" \in lock <=> consumer \in {"count", "apply", "record"}
  /\ \A r \in Readers : r \in lock <=> reader[r].at \in {"bids", "asks", "events"}

BooksOK ==
  \A i \in Instruments :
    /\ books[i].sequence = Reach(i, Counted)
    /\ IsLast(books[i].bid, i, Applied, "bid")
    /\ IsLast(books[i].ask, i, Applied, "ask")

FeedsOK == \A i \in Instruments : IsTail(feed[i], i, Recorded, MaxFeed)

\* No answer has shown more than the feeds hold: what waits for the lock is not seen.
ShownOK == \A i \in Instruments : shown[i] <= Reach(i, Recorded)

Most(limit) == IF limit <= MaxFeed THEN limit ELSE MaxFeed

\* A request, and the answers to it: those of a moment.
RequestOK(q) ==
  /\ q.instrument \in Instruments /\ q.since \in Nat /\ q.since <= shown[q.instrument]
  /\ \/ q.route = "snapshot" /\ q.at \in {"lock", "bids", "asks", "answered"}
     \/ q.route = "events" /\ q.at \in {"lock", "events", "answered"} /\ q.limit \in Limits
  /\ q.at = "asks" =>
       q.copy.sequence = books[q.instrument].sequence /\ q.copy.bid = books[q.instrument].bid

ShowsBook(q, first) ==
  /\ q.copy.sequence = Reach(q.instrument, first)
  /\ IsLast(q.copy.bid, q.instrument, first, "bid")
  /\ IsLast(q.copy.ask, q.instrument, first, "ask")

ShowsFeed(q, first) == IsTail(q.copy, q.instrument, first, Most(q.limit))

AnswerOK(q) ==
  \E first \in 0 .. Now :
    /\ q.since <= Reach(q.instrument, first)
    /\ IF q.route = "snapshot" THEN ShowsBook(q, first) ELSE ShowsFeed(q, first)

ReadersOK ==
  \A r \in Readers :
    \/ reader[r].at = "idle"
    \/ RequestOK(reader[r]) /\ (reader[r].at = "answered" => AnswerOK(reader[r]))

LiveInv == TypesOK /\ LockOK /\ BooksOK /\ FeedsOK /\ ShownOK /\ ReadersOK

-----------------------------------------------------------------------------
\* Ranks

\* The greatest element of a set is its maximum.
LEMMA MaxIs ==
  ASSUME NEW S \in SUBSET Nat, NEW x \in S, \A y \in S : y <= x
  PROVE  Max(S) = x
<1>1. \A y \in S : x >= y
  OBVIOUS
<1>2. Max(S) \in S /\ \A y \in S : Max(S) >= y
  BY <1>1 DEF Max
<1>3. Max(S) >= x /\ Max(S) <= x /\ Max(S) \in Nat
  BY <1>2
<1> QED
  BY <1>3

\* And the least its minimum.
LEMMA MinIs ==
  ASSUME NEW S \in SUBSET Nat, NEW x \in S, \A y \in S : x <= y
  PROVE  Min(S) = x
<1>2. Min(S) \in S /\ \A y \in S : Min(S) <= y
  BY DEF Min
<1>3. Min(S) <= x /\ Min(S) >= x /\ Min(S) \in Nat
  BY <1>2
<1> QED
  BY <1>3

\* The larger of two numbers.
LEMMA MaxOfTwo ==
  ASSUME NEW a \in Nat, NEW b \in Nat
  PROVE  Max({a, b}) = IF a <= b THEN b ELSE a
<1>1. CASE a <= b
  <2>1. \A y \in {a, b} : y <= b
    BY <1>1
  <2> QED
    BY <1>1, <2>1, MaxIs
<1>2. CASE ~(a <= b)
  <2>1. \A y \in {a, b} : y <= a
    BY <1>2
  <2> QED
    BY <1>2, <2>1, MaxIs
<1> QED
  BY <1>1, <1>2

\* An instrument has finitely many events, and none before the first.
LEMMA ReachType ==
  ASSUME NEW i, NEW first \in Nat
  PROVE  /\ IsFiniteSet(Among(i, first)) /\ Reach(i, first) \in Nat
         /\ Reach(i, 0) = 0
<1>1. IsFiniteSet(1 .. first) /\ Among(i, first) \subseteq 1 .. first
  BY FS_Interval DEF Among
<1>2. IsFiniteSet(Among(i, first))
  BY <1>1, FS_Subset
<1>3. Among(i, 0) = {}
  BY DEF Among
<1> QED
  BY <1>2, <1>3, FS_CardinalityType, FS_EmptySet DEF Reach

\* One more event is one more of its instrument, and of no other.
LEMMA ReachNext ==
  ASSUME NEW i, NEW first \in Nat
  PROVE  Reach(i, first + 1) = IF arrived[first + 1].instrument = i THEN Reach(i, first) + 1 ELSE Reach(i, first)
<1>1. \A n : n \in 1 .. first + 1 <=> n \in 1 .. first \/ n = first + 1
  OBVIOUS
<1>2. CASE arrived[first + 1].instrument = i
  <2>1. Among(i, first + 1) = Among(i, first) \cup {first + 1}
    BY <1>1, <1>2 DEF Among
  <2>2. first + 1 \notin Among(i, first)
    BY DEF Among
  <2>3. Cardinality(Among(i, first) \cup {first + 1}) = Cardinality(Among(i, first)) + 1
    BY <2>2, ReachType, FS_AddElement
  <2> QED
    BY <1>2, <2>1, <2>3 DEF Reach
<1>3. CASE arrived[first + 1].instrument # i
  <2>1. Among(i, first + 1) = Among(i, first)
    BY <1>1, <1>3 DEF Among
  <2> QED
    BY <1>3, <2>1 DEF Reach
<1> QED
  BY <1>2, <1>3

\* Later is not less, and an event of the instrument makes it more.
LEMMA ReachMonotone ==
  ASSUME NEW i, NEW first \in Nat, NEW later \in Nat, first <= later
  PROVE  /\ Reach(i, first) <= Reach(i, later)
         /\ first < later /\ later \in Among(i, later) => Reach(i, first) < Reach(i, later)
<1>1. Among(i, first) \subseteq Among(i, later)
  BY DEF Among
<1>2. IsFiniteSet(Among(i, first)) /\ IsFiniteSet(Among(i, later))
  BY ReachType
<1>3. Reach(i, first) \in Nat /\ Reach(i, later) \in Nat
  BY ReachType
<1>4. Reach(i, first) <= Reach(i, later)
  BY <1>1, <1>2, FS_Subset DEF Reach
<1>5. ASSUME first < later, later \in Among(i, later)
      PROVE  Reach(i, first) < Reach(i, later)
  <2>1. later \notin Among(i, first)
    BY <1>5 DEF Among
  <2>2. Among(i, first) \cup {later} \subseteq Among(i, later)
    BY <1>1, <1>5
  <2>3. Cardinality(Among(i, first) \cup {later}) = Reach(i, first) + 1
    BY <1>2, <2>1, FS_AddElement DEF Reach
  <2>4. Cardinality(Among(i, first) \cup {later}) <= Reach(i, later)
    BY <1>2, <2>2, FS_Subset DEF Reach
  <2> QED
    BY <1>3, <2>3, <2>4
<1> QED
  BY <1>4, <1>5

\* The events up to a rank are those up to the moment that has it.
LEMMA AmongIsUpToRank ==
  ASSUME NEW i, NEW now \in Nat, NEW first \in 0 .. now
  PROVE  {n \in Among(i, now) : Reach(i, n) <= Reach(i, first)} = Among(i, first)
<1>1. ASSUME NEW n \in Among(i, now)
      PROVE  n \in Among(i, first) <=> Reach(i, n) <= Reach(i, first)
  <2>1. n \in 1 .. now /\ n \in Nat /\ first \in Nat /\ n \in Among(i, n)
    BY <1>1 DEF Among
  <2>2. Reach(i, n) \in Nat /\ Reach(i, first) \in Nat
    BY <2>1, ReachType
  <2>3. CASE n <= first
    <3>1. n \in Among(i, first)
      BY <1>1, <2>1, <2>3 DEF Among
    <3>2. Reach(i, n) <= Reach(i, first)
      BY <2>1, <2>3, ReachMonotone
    <3> QED
      BY <3>1, <3>2
  <2>4. CASE first < n
    <3>1. n \notin Among(i, first)
      BY <2>1, <2>4 DEF Among
    <3>2. first <= n
      BY <2>1, <2>4
    <3>3. Reach(i, first) < Reach(i, n)
      BY <2>1, <2>4, <3>2, ReachMonotone
    <3> QED
      BY <2>2, <3>1, <3>3
  <2> QED
    BY <2>1, <2>3, <2>4
<1>2. Among(i, first) \subseteq Among(i, now)
  BY DEF Among
<1> QED
  BY <1>1, <1>2

-----------------------------------------------------------------------------
\* Books and feeds, an event later

\* The event of the instrument that arrives next is in its feed, behind the others, the
\* oldest of which goes when there are too many.
LEMMA TailNext ==
  ASSUME NEW i, NEW first \in Nat, NEW events, IsTail(events, i, first, MaxFeed),
         arrived[first + 1].instrument = i
  PROVE  IsTail(Trimmed(Append(events, first + 1)), i, first + 1, MaxFeed)
<1> DEFINE next == first + 1
           reach == Reach(i, first)
           longer == Append(events, next)
<1>1. /\ MaxFeed \in Nat \ {0} /\ reach \in Nat /\ Reach(i, next) = reach + 1 /\ next \in Nat
  BY MaxFeedAssumption, ReachType, ReachNext
<1>2. /\ events \in Seq(Nat) /\ Len(events) \in Nat
      /\ Len(events) = IF reach <= MaxFeed THEN reach ELSE MaxFeed
      /\ \A k \in 1 .. Len(events) : events[k] \in Among(i, first) /\ Reach(i, events[k]) = reach - Len(events) + k
  BY LenProperties DEF IsTail
<1>3. Among(i, first) \subseteq Among(i, next) /\ next \in Among(i, next)
  BY DEF Among
<1> HIDE DEF reach, next
<1>4. /\ longer \in Seq(Nat) /\ Len(longer) = Len(events) + 1
      /\ \A k \in 1 .. Len(events) : longer[k] = events[k]
      /\ longer[Len(events) + 1] = next
  BY <1>1, <1>2
<1>5. \A k \in 1 .. Len(events) + 1 :
        longer[k] \in Among(i, next) /\ Reach(i, longer[k]) = (reach + 1) - (Len(events) + 1) + k
  <2> SUFFICES ASSUME NEW k \in 1 .. Len(events) + 1
               PROVE  longer[k] \in Among(i, next) /\ Reach(i, longer[k]) = (reach + 1) - (Len(events) + 1) + k
    OBVIOUS
  <2>1. CASE k \in 1 .. Len(events)
    <3>1. longer[k] = events[k] /\ events[k] \in Among(i, first) /\ Reach(i, events[k]) = reach - Len(events) + k
      BY <1>2, <1>4, <2>1
    <3>2. (reach + 1) - (Len(events) + 1) + k = reach - Len(events) + k
      BY <1>1, <1>2
    <3> QED
      BY <1>3, <3>1, <3>2
  <2>2. CASE k = Len(events) + 1
    <3>1. (reach + 1) - (Len(events) + 1) + k = reach + 1
      BY <1>1, <1>2, <2>2
    <3> QED
      BY <1>1, <1>3, <1>4, <2>2, <3>1
  <2> QED
    BY <1>2, <2>1, <2>2
<1> HIDE DEF longer
<1>6. CASE Len(events) < MaxFeed
  <2>1. Len(longer) <= MaxFeed /\ Len(events) = reach /\ ~(Len(longer) > MaxFeed)
    BY <1>1, <1>2, <1>4, <1>6
  <2>2. Trimmed(longer) = longer
    BY <2>1 DEF Trimmed
  <2>3. Len(longer) = IF reach + 1 <= MaxFeed THEN reach + 1 ELSE MaxFeed
    BY <1>1, <1>2, <1>4, <2>1
  <2> QED
    BY <1>1, <1>4, <1>5, <2>2, <2>3 DEF IsTail, longer, next
<1>7. CASE Len(events) = MaxFeed
  <2>1. Len(longer) > MaxFeed /\ MaxFeed <= reach /\ Len(longer) # 0
    BY <1>1, <1>2, <1>4, <1>7
  <2>2. Trimmed(longer) = Tail(longer)
    BY <2>1 DEF Trimmed
  <2>3. /\ Tail(longer) \in Seq(Nat) /\ Len(Tail(longer)) = Len(events)
        /\ \A k \in 1 .. Len(events) : Tail(longer)[k] = longer[k + 1]
    <3>1. longer # <<>>
      BY <1>4, <2>1
    <3>2. /\ Tail(longer) \in Seq(Nat) /\ Len(Tail(longer)) = Len(longer) - 1
          /\ \A k \in 1 .. Len(longer) - 1 : Tail(longer)[k] = longer[k + 1]
      BY <1>4, <3>1, HeadTailProperties
    <3>3. Len(longer) - 1 = Len(events)
      BY <1>2, <1>4
    <3> QED
      BY <3>2, <3>3
  <2>4. Len(Tail(longer)) = IF reach + 1 <= MaxFeed THEN reach + 1 ELSE MaxFeed
    BY <1>1, <1>7, <2>1, <2>3
  <2>5. \A k \in 1 .. Len(events) :
          Tail(longer)[k] \in Among(i, next) /\ Reach(i, Tail(longer)[k]) = (reach + 1) - Len(events) + k
    <3> SUFFICES ASSUME NEW k \in 1 .. Len(events)
                 PROVE  longer[k + 1] \in Among(i, next) /\ Reach(i, longer[k + 1]) = (reach + 1) - Len(events) + k
      BY <2>3
    <3>1. k + 1 \in 1 .. Len(events) + 1 /\ (reach + 1) - (Len(events) + 1) + (k + 1) = (reach + 1) - Len(events) + k
      BY <1>1, <1>2
    <3> QED
      BY <1>5, <3>1
  <2> QED
    BY <1>1, <2>2, <2>3, <2>4, <2>5 DEF IsTail, longer, next
<1>8. Len(events) < MaxFeed \/ Len(events) = MaxFeed
  BY <1>1, <1>2
<1> QED
  BY <1>6, <1>7, <1>8 DEF longer, next

\* The feeds of the other instruments are as they should be without it.
LEMMA TailSkips ==
  ASSUME NEW i, NEW first \in Nat, NEW events, NEW most, IsTail(events, i, first, most),
         arrived[first + 1].instrument # i
  PROVE  IsTail(events, i, first + 1, most)
<1>1. Reach(i, first + 1) = Reach(i, first)
  BY ReachNext
<1>2. Among(i, first) \subseteq Among(i, first + 1)
  BY DEF Among
<1> QED
  BY <1>1, <1>2 DEF IsTail

\* An event that the book accepts is the last to have changed its side of the book, and
\* changes no other side.
LEMMA LastNext ==
  ASSUME NEW i, NEW first \in Nat, NEW last, NEW side, IsLast(last, i, first, side)
  PROVE  LET event == arrived[first + 1]
         IN IsLast(IF event.instrument = i /\ event.side = side /\ event.accepted THEN first + 1 ELSE last,
                   i, first + 1, side)
<1> DEFINE event == arrived[first + 1]
<1>1. \A n : n \in 1 .. first + 1 <=> n \in 1 .. first \/ n = first + 1
  OBVIOUS
<1>2. CASE event.instrument = i /\ event.side = side /\ event.accepted
  <2>1. Changes(i, first + 1, side) = Changes(i, first, side) \cup {first + 1}
    BY <1>1, <1>2 DEF Changes, Among
  <2>2. \A n \in Changes(i, first, side) : n <= first + 1
    BY DEF Changes, Among
  <2> QED
    BY <1>2, <2>1, <2>2 DEF IsLast
<1>3. CASE ~(event.instrument = i /\ event.side = side /\ event.accepted)
  <2>1. Changes(i, first + 1, side) = Changes(i, first, side)
    BY <1>1, <1>3 DEF Changes, Among
  <2> QED
    BY <1>3, <2>1 DEF IsLast
<1> QED
  BY <1>2, <1>3

\* What the events route copies is the end of the feed.
LEMMA NewestIsTail ==
  ASSUME NEW i, NEW first \in Nat, NEW events, IsTail(events, i, first, MaxFeed), NEW limit \in Limits
  PROVE  IsTail(NewestOf(events, limit), i, first, Most(limit))
<1> DEFINE reach == Reach(i, first)
           size == IF limit <= Len(events) THEN limit ELSE Len(events)
           from == Len(events) - size + 1
           newest == SubSeq(events, from, Len(events))
<1>1. limit \in Nat /\ limit # 0 /\ MaxFeed \in Nat /\ MaxFeed # 0 /\ reach \in Nat
  BY MaxFeedAssumption, LimitsAssumption, ReachType
<1>2. /\ events \in Seq(Nat) /\ Len(events) \in Nat
      /\ Len(events) = IF reach <= MaxFeed THEN reach ELSE MaxFeed
      /\ \A k \in 1 .. Len(events) : events[k] \in Among(i, first) /\ Reach(i, events[k]) = reach - Len(events) + k
  BY LenProperties DEF IsTail
<1>3. Min({limit, Len(events)}) = size
  <2>1. {limit, Len(events)} \in SUBSET Nat /\ size \in {limit, Len(events)}
        /\ \A y \in {limit, Len(events)} : size <= y
    BY <1>1, <1>2
  <2> QED
    BY <2>1, MinIs
<1>4. NewestOf(events, limit) = newest
  BY <1>3 DEF NewestOf
<1> HIDE DEF reach
<1>5. size \in Nat /\ size <= Len(events) /\ from \in Int /\ from >= 1 /\ Len(events) - from + 1 = size
  BY <1>1, <1>2
<1>6. \A k \in from .. Len(events) : events[k] \in Nat
  <2>1. \A k \in from .. Len(events) : k \in 1 .. Len(events)
    BY <1>2, <1>5
  <2> QED
    BY <1>2, <2>1, ElementOfSeq
<1>7. size = IF reach <= Most(limit) THEN reach ELSE Most(limit)
  BY <1>1, <1>2 DEF Most
<1> HIDE DEF size, from
<1>8. newest \in Seq(Nat) /\ Len(newest) = size /\ \A k \in 1 .. size : newest[k] = events[from + k - 1]
  <2>1. /\ newest \in Seq(Nat)
        /\ Len(newest) = IF from <= Len(events) THEN Len(events) - from + 1 ELSE 0
        /\ \A k \in 1 .. Len(events) - from + 1 : newest[k] = events[from + k - 1]
    BY <1>2, <1>5, <1>6, SubSeqProperties
  <2>2. (IF from <= Len(events) THEN Len(events) - from + 1 ELSE 0) = size
    BY <1>2, <1>5
  <2> QED
    BY <1>5, <2>1, <2>2
<1> HIDE DEF newest
<1>9. \A k \in 1 .. size : newest[k] \in Among(i, first) /\ Reach(i, newest[k]) = reach - size + k
  <2> SUFFICES ASSUME NEW k \in 1 .. size
               PROVE  newest[k] \in Among(i, first) /\ Reach(i, newest[k]) = reach - size + k
    OBVIOUS
  <2>1. /\ from + k - 1 \in 1 .. Len(events)
        /\ reach - Len(events) + (from + k - 1) = reach - size + k
    BY <1>1, <1>2, <1>5
  <2> QED
    BY <1>2, <1>8, <2>1
<1> QED
  BY <1>4, <1>7, <1>8, <1>9 DEF IsTail, reach

\* The last event of a feed tells how many there were; without events there were none.
LEMMA ReachOfTail ==
  ASSUME NEW i, NEW first \in Nat, NEW events, NEW most \in Nat \ {0}, IsTail(events, i, first, most)
  PROVE  ReachOf(i, events) = Reach(i, first)
<1>1. Reach(i, first) \in Nat
  BY ReachType
<1>2. /\ events \in Seq(Nat) /\ Len(events) \in Nat
      /\ Len(events) = IF Reach(i, first) <= most THEN Reach(i, first) ELSE most
      /\ \A k \in 1 .. Len(events) : Reach(i, events[k]) = Reach(i, first) - Len(events) + k
  BY LenProperties DEF IsTail
<1>3. CASE events = <<>>
  BY <1>1, <1>2, <1>3 DEF ReachOf
<1>4. CASE events # <<>>
  <2>1. Len(events) # 0
    BY <1>2, <1>4, EmptySeq
  <2>2. Len(events) \in 1 .. Len(events) /\ Reach(i, first) - Len(events) + Len(events) = Reach(i, first)
    BY <1>1, <1>2, <2>1
  <2> QED
    BY <1>2, <1>4, <2>2 DEF ReachOf
<1> QED
  BY <1>3, <1>4

-----------------------------------------------------------------------------
\* Initial states

\* No event, no book, no answer.
LEMMA LiveInit == Init => LiveInv
<1> SUFFICES ASSUME Init PROVE LiveInv
  OBVIOUS
<1>1. Len(arrived) = 0 /\ consumer = "pop"
  BY DEF Init
<1>2. Now = 0 /\ Counted = 0 /\ Applied = 0 /\ Recorded = 0
  BY <1>1 DEF Now, Counted, Applied, Recorded
<1>3. \A i \in Instruments : Reach(i, 0) = 0 /\ Among(i, 0) = {}
  <2>1. 1 .. 0 = {}
    OBVIOUS
  <2>2. \A i \in Instruments : Among(i, 0) = {}
    BY <2>1 DEF Among
  <2> QED
    BY <2>2, ReachType
<1>4. TypesOK
  BY DEF Init, TypesOK, Book, Idle
<1>5. LockOK
  BY ReadersAssumption DEF Init, LockOK, Idle
<1>6. BooksOK
  BY <1>2, <1>3 DEF Init, BooksOK, IsLast, Changes
<1>7. FeedsOK
  BY <1>2, <1>3, MaxFeedAssumption DEF Init, FeedsOK, IsTail
<1>8. ShownOK
  BY <1>2, <1>3 DEF Init, ShownOK
<1>9. ReadersOK
  BY DEF Init, ReadersOK, Idle
<1> QED
  BY <1>4, <1>5, <1>6, <1>7, <1>8, <1>9 DEF LiveInv

-----------------------------------------------------------------------------
\* Steps

\* How far book and feed are: they differ only while the consumer holds the lock.
LEMMA Positions ==
  ASSUME TypesOK
  PROVE  /\ {Now, Counted, Applied, Recorded} \subseteq Nat
         /\ Recorded <= Applied /\ Applied <= Counted /\ Counted <= Now
         /\ consumer \notin {"count", "apply", "record"} => Counted = Recorded /\ Applied = Recorded
         /\ consumer # "pop" => Now > 0 /\ Incoming \in Event
<1>1. arrived \in Seq(Event) /\ Len(arrived) \in Nat /\ (consumer # "pop" => Len(arrived) > 0)
  BY LenProperties DEF TypesOK, Now
<1>2. consumer # "pop" => Len(arrived) \in 1 .. Len(arrived) /\ Len(arrived) - 1 \in Nat
  BY <1>1
<1>3. consumer # "pop" => arrived[Len(arrived)] \in Event
  BY <1>1, <1>2, ElementOfSeq
<1>4. consumer \in {"pop", "lock", "count", "apply", "record", "tally"}
  BY DEF TypesOK
<1>5. {Now, Counted, Applied, Recorded} \subseteq Nat
  BY <1>1, <1>2 DEF Now, Counted, Applied, Recorded
<1>6. Recorded <= Applied /\ Applied <= Counted /\ Counted <= Now
  BY <1>1, <1>4 DEF Now, Counted, Applied, Recorded
<1>7. consumer \notin {"count", "apply", "record"} => Counted = Recorded /\ Applied = Recorded
  BY <1>4 DEF Now, Counted, Applied, Recorded
<1> QED
  BY <1>1, <1>3, <1>5, <1>6, <1>7 DEF Now, Incoming

\* What has arrived does not change, and neither do the ranks.
LEMMA HistoryStands ==
  ASSUME TypesOK, [Next]_vars
  PROVE  /\ Now' \in Nat /\ Now <= Now' /\ arrived' \in Seq(Event)
         /\ \A i, side : \A first \in 0 .. Now :
              /\ Among(i, first)' = Among(i, first)
              /\ Reach(i, first)' = Reach(i, first)
              /\ Changes(i, first, side)' = Changes(i, first, side)
<1>1. arrived \in Seq(Event) /\ Len(arrived) \in Nat
  BY LenProperties DEF TypesOK
<1>2. arrived' = arrived \/ \E event \in Event : arrived' = Append(arrived, event)
  BY DEF Next, ConsumerStep, ReaderStep, Pop, ConsumerLock, CountEvent, ApplyEvent, RecordEvent, Tally, Request,
     ReaderLock, CopyBids, CopyAsks, CopyEvents, Answer, consumerVars, vars
<1>3. /\ Len(arrived') \in Nat /\ Len(arrived) <= Len(arrived') /\ arrived' \in Seq(Event)
      /\ \A n \in 1 .. Len(arrived) : arrived'[n] = arrived[n]
  <2>1. CASE arrived' = arrived
    BY <1>1, <2>1
  <2>2. ASSUME NEW event \in Event, arrived' = Append(arrived, event)
        PROVE  /\ Len(arrived') \in Nat /\ Len(arrived) <= Len(arrived') /\ arrived' \in Seq(Event)
               /\ \A n \in 1 .. Len(arrived) : arrived'[n] = arrived[n]
    <3>1. /\ arrived' \in Seq(Event) /\ Len(arrived') = Len(arrived) + 1
          /\ \A n \in 1 .. Len(arrived) : arrived'[n] = arrived[n]
      BY <1>1, <2>2, AppendProperties
    <3> QED
      BY <1>1, <3>1
  <2> QED
    BY <1>2, <2>1, <2>2
<1>4. ASSUME NEW i, NEW side, NEW first \in 0 .. Now
      PROVE  /\ Among(i, first)' = Among(i, first)
             /\ Reach(i, first)' = Reach(i, first)
             /\ Changes(i, first, side)' = Changes(i, first, side)
  <2>1. \A n \in 1 .. first : arrived'[n] = arrived[n]
    BY <1>1, <1>3 DEF Now
  <2>2. {n \in 1 .. first : arrived'[n].instrument = i} = {n \in 1 .. first : arrived[n].instrument = i}
    BY <2>1
  <2>3. Among(i, first)' = Among(i, first)
    BY <2>2 DEF Among
  <2>4. Reach(i, first)' = Reach(i, first)
    BY <2>3 DEF Reach
  <2>5. \A n \in Among(i, first) : arrived'[n] = arrived[n]
    BY <2>1 DEF Among
  <2>6. {n \in Among(i, first) : arrived'[n].side = side /\ arrived'[n].accepted}
          = {n \in Among(i, first) : arrived[n].side = side /\ arrived[n].accepted}
    BY <2>5
  <2>7. Changes(i, first, side)' = Changes(i, first, side)
    BY <2>3, <2>6 DEF Changes
  <2> QED
    BY <2>3, <2>4, <2>7
<1> QED
  BY <1>3, <1>4 DEF Now

\* So what was said of the events up to a moment can still be said.
LEMMA PastStands ==
  ASSUME TypesOK, [Next]_vars, NEW i, NEW first \in 0 .. Now
  PROVE  /\ \A last, side : IsLast(last, i, first, side) => IsLast(last, i, first, side)'
         /\ \A events, most : IsTail(events, i, first, most) => IsTail(events, i, first, most)'
<1>1. /\ Reach(i, first)' = Reach(i, first) /\ Among(i, first)' = Among(i, first)
      /\ \A side : Changes(i, first, side)' = Changes(i, first, side)
  BY HistoryStands
<1>2. ASSUME NEW last, NEW side, IsLast(last, i, first, side)
      PROVE  IsLast(last, i, first, side)'
  BY <1>1, <1>2 DEF IsLast
<1>3. ASSUME NEW events, NEW most, IsTail(events, i, first, most)
      PROVE  IsTail(events, i, first, most)'
  <2>1. Now \in Nat
    BY Positions
  <2>2. ASSUME NEW k \in 1 .. Len(events) PROVE Reach(i, events[k])' = Reach(i, events[k])
    <3>1. events[k] \in Among(i, first)
      BY <1>3 DEF IsTail
    <3>2. events[k] \in 0 .. Now
      BY <2>1, <3>1 DEF Among
    <3> QED
      BY <3>2, HistoryStands
  <2> QED
    BY <1>1, <1>3, <2>2 DEF IsTail
<1> QED
  BY <1>2, <1>3

\* Types.
LEMMA TypesStep == LiveInv /\ [Next]_vars => TypesOK'
<1> SUFFICES ASSUME LiveInv, [Next]_vars PROVE TypesOK'
  OBVIOUS
<1>1. /\ TypesOK /\ Now \in Nat /\ (consumer # "pop" => Now > 0 /\ Incoming \in Event)
      /\ arrived' \in Seq(Event)
  BY Positions, HistoryStands DEF LiveInv
<1>2. \A r \in Readers : ReadersOK => reader[r].at = "idle" \/ RequestOK(reader[r])
  BY DEF ReadersOK
<1>3. CASE \E event \in Event : Pop(event)
  <2>1. PICK event \in Event : Pop(event)
    BY <1>3
  <2>2. Now' > 0
    BY <1>1, <2>1 DEF Pop, Now, TypesOK
  <2> QED
    BY <1>1, <2>1, <2>2 DEF Pop, TypesOK
<1>4. CASE ConsumerLock \/ Tally
  BY <1>1, <1>4 DEF ConsumerLock, Tally, CountedProcessed, TypesOK, Now
<1>5. CASE CountEvent
  <2>1. books' \in [Instruments -> Book]
    <3>1. Incoming.instrument \in Instruments
      BY <1>1, <1>5 DEF CountEvent, Event
    <3>2. \A book \in Book : [book EXCEPT !.sequence = @ + 1] \in Book
      BY DEF Book
    <3> QED
      BY <1>1, <1>5, <3>1, <3>2 DEF CountEvent, TypesOK
  <2> QED
    BY <1>1, <1>5, <2>1 DEF CountEvent, TypesOK, Now
<1>6. CASE ApplyEvent
  <2>1. books' \in [Instruments -> Book]
    <3>1. Incoming.instrument \in Instruments /\ Incoming.side \in {"bid", "ask"}
      BY <1>1, <1>6 DEF ApplyEvent, Event, Sides
    <3>2. \A i \in Instruments : \A side \in {"bid", "ask"}, n \in Nat : [books[i] EXCEPT ![side] = n] \in Book
      BY <1>1 DEF TypesOK, Book
    <3>3. \A i \in Instruments : \A side \in {"bid", "ask"} : books[i][side] \in Nat
      BY <1>1 DEF TypesOK, Book
    <3> QED
      BY <1>1, <1>6, <3>1, <3>2, <3>3 DEF ApplyEvent, TypesOK
  <2> QED
    BY <1>1, <1>6, <2>1 DEF ApplyEvent, TypesOK, Now
<1>7. CASE RecordEvent
  <2>1. feed' \in [Instruments -> Seq(Nat)]
    <3>1. Incoming.instrument \in Instruments
      BY <1>1, <1>7 DEF RecordEvent, Event
    <3>2. \A i \in Instruments : Trimmed(Append(feed[i], Now)) \in Seq(Nat)
      <4> SUFFICES ASSUME NEW i \in Instruments PROVE Trimmed(Append(feed[i], Now)) \in Seq(Nat)
        OBVIOUS
      <4>0. feed[i] \in Seq(Nat) /\ Now \in Nat
        BY <1>1 DEF TypesOK
      <4>1. Append(feed[i], Now) \in Seq(Nat) /\ Append(feed[i], Now) # <<>>
        BY <4>0, AppendProperties
      <4>2. Tail(Append(feed[i], Now)) \in Seq(Nat)
        BY <4>1, HeadTailProperties
      <4> QED
        BY <4>1, <4>2 DEF Trimmed
    <3> QED
      BY <1>1, <1>7, <3>1, <3>2 DEF RecordEvent, TypesOK
  <2> QED
    BY <1>1, <1>7, <2>1 DEF RecordEvent, TypesOK, Now
<1>8. ASSUME NEW r \in Readers, ReaderStep(r) PROVE TypesOK'
  <2>1. /\ UNCHANGED consumerVars
        /\ reader' = [q \in Readers |-> reader'[q]]
    BY <1>1, <1>8 DEF ReaderStep, Request, ReaderLock, CopyBids, CopyAsks, CopyEvents, Answer, Turn, TypesOK
  <2>2. shown' \in [Instruments -> Nat]
    <3>1. CASE shown' = shown
      BY <1>1, <3>1 DEF TypesOK
    <3>2. CASE CopyAsks(r) \/ CopyEvents(r)
      <4>1. PICK reach : shown' = [shown EXCEPT ![reader[r].instrument] = Max({@, reach})] /\ reach \in Nat
        <5>1. reader[r].at # "idle" /\ RequestOK(reader[r])
          BY <1>2, <3>2 DEF CopyAsks, CopyEvents, LiveInv
        <5>2. CASE CopyAsks(r)
          <6>1. reader[r].copy.sequence \in Nat
            BY <1>1, <5>1, <5>2 DEF CopyAsks, RequestOK, TypesOK, Book
          <6> QED
            BY <5>2, <6>1 DEF CopyAsks, Answer
        <5>3. CASE CopyEvents(r)
          <6> DEFINE i == reader[r].instrument
                     events == NewestOf(feed[i], reader[r].limit)
          <6>1. i \in Instruments /\ reader[r].limit \in Limits
            BY <5>1, <5>3 DEF CopyEvents, RequestOK
          <6>2. Recorded \in Nat /\ IsTail(feed[i], i, Recorded, MaxFeed)
            BY <1>1, <6>1, Positions DEF LiveInv, FeedsOK
          <6>3. IsTail(events, i, Recorded, Most(reader[r].limit)) /\ Most(reader[r].limit) \in Nat \ {0}
            BY <6>1, <6>2, NewestIsTail, LimitsAssumption, MaxFeedAssumption DEF Most
          <6>4. ReachOf(i, events) = Reach(i, Recorded) /\ Reach(i, Recorded) \in Nat
            BY <6>2, <6>3, ReachOfTail, ReachType
          <6> QED
            BY <5>3, <6>4 DEF CopyEvents, Answer
        <5> QED
          BY <3>2, <5>2, <5>3
      <4>2. \A a \in Nat : Max({a, reach}) \in Nat
        BY <4>1, MaxOfTwo
      <4> QED
        BY <1>1, <4>1, <4>2 DEF TypesOK
    <3> QED
      BY <1>8, <3>1, <3>2 DEF ReaderStep, Request, ReaderLock, CopyBids
  <2> QED
    BY <1>1, <2>1, <2>2 DEF TypesOK, Now, consumerVars
<1>9. CASE UNCHANGED vars
  BY <1>1, <1>9 DEF TypesOK, Now, vars, consumerVars
<1> QED
  BY <1>3, <1>4, <1>5, <1>6, <1>7, <1>8, <1>9 DEF Next, ConsumerStep

\* Who moves book and feed: the consumer, in three steps.
LEMMA Moments ==
  ASSUME TypesOK, [Next]_vars
  PROVE  /\ CountEvent => /\ Counted + 1 = Now /\ arrived' = arrived
                          /\ Counted' = Counted + 1 /\ Applied' = Applied /\ Recorded' = Recorded
         /\ ApplyEvent => /\ Applied + 1 = Now /\ arrived' = arrived
                          /\ Counted' = Counted /\ Applied' = Applied + 1 /\ Recorded' = Recorded
         /\ RecordEvent => /\ Recorded + 1 = Now /\ arrived' = arrived
                           /\ Counted' = Counted /\ Applied' = Applied /\ Recorded' = Recorded + 1
         /\ \/ CountEvent \/ ApplyEvent \/ RecordEvent
            \/ /\ Counted' = Counted /\ Applied' = Applied /\ Recorded' = Recorded
               /\ UNCHANGED <<books, feed>>
<1>1. Now \in Nat /\ (consumer # "pop" => Now > 0)
  BY Positions
<1>2. arrived' = arrived => Now' = Now
  BY DEF Now
<1>3. ASSUME CountEvent
      PROVE  /\ Counted + 1 = Now /\ arrived' = arrived
             /\ Counted' = Counted + 1 /\ Applied' = Applied /\ Recorded' = Recorded
  BY <1>1, <1>2, <1>3 DEF CountEvent, Counted, Applied, Recorded
<1>4. ASSUME ApplyEvent
      PROVE  /\ Applied + 1 = Now /\ arrived' = arrived
             /\ Counted' = Counted /\ Applied' = Applied + 1 /\ Recorded' = Recorded
  BY <1>1, <1>2, <1>4 DEF ApplyEvent, Counted, Applied, Recorded
<1>5. ASSUME RecordEvent
      PROVE  /\ Recorded + 1 = Now /\ arrived' = arrived
             /\ Counted' = Counted /\ Applied' = Applied /\ Recorded' = Recorded + 1
  BY <1>1, <1>2, <1>5 DEF RecordEvent, Counted, Applied, Recorded
<1>6. ASSUME NEW event \in Event, Pop(event)
      PROVE  Counted' = Counted /\ Applied' = Applied /\ Recorded' = Recorded /\ UNCHANGED <<books, feed>>
  <2>1. arrived \in Seq(Event) /\ Len(arrived) = Now
    BY DEF TypesOK, Now
  <2>2. Now' = Now + 1 /\ Now' - 1 = Now
    BY <1>1, <1>6, <2>1 DEF Pop, Now
  <2> QED
    BY <1>6, <2>2 DEF Pop, Counted, Applied, Recorded
<1>7. ASSUME ConsumerLock \/ Tally
      PROVE  Counted' = Counted /\ Applied' = Applied /\ Recorded' = Recorded /\ UNCHANGED <<books, feed>>
  BY <1>2, <1>7 DEF ConsumerLock, Tally, Counted, Applied, Recorded
<1>8. ASSUME UNCHANGED consumerVars
      PROVE  Counted' = Counted /\ Applied' = Applied /\ Recorded' = Recorded /\ UNCHANGED <<books, feed>>
  BY <1>2, <1>8 DEF consumerVars, Counted, Applied, Recorded
<1>9. ASSUME NEW r \in Readers, ReaderStep(r) PROVE UNCHANGED consumerVars
  BY <1>9 DEF ReaderStep, Request, ReaderLock, CopyBids, CopyAsks, CopyEvents, Answer
<1> QED
  BY <1>3, <1>4, <1>5, <1>6, <1>7, <1>8, <1>9 DEF Next, ConsumerStep, vars

\* An event is counted, and then changes its side of its book.
LEMMA BooksStep == LiveInv /\ [Next]_vars => BooksOK'
<1> SUFFICES ASSUME LiveInv, [Next]_vars, NEW i \in Instruments
             PROVE  /\ books'[i].sequence = Reach(i, Counted)'
                    /\ IsLast(books[i].bid, i, Applied, "bid")'
                    /\ IsLast(books[i].ask, i, Applied, "ask")'
  BY DEF BooksOK
<1>1. /\ TypesOK /\ books \in [Instruments -> Book]
      /\ books[i].sequence = Reach(i, Counted)
      /\ IsLast(books[i].bid, i, Applied, "bid") /\ IsLast(books[i].ask, i, Applied, "ask")
  BY DEF LiveInv, BooksOK, TypesOK
<1>2. Counted \in 0 .. Now /\ Applied \in 0 .. Now /\ Now \in Nat
  BY <1>1, Positions

<1>3. CASE Counted' = Counted /\ Applied' = Applied /\ books' = books
  <2>1. Reach(i, Counted)' = Reach(i, Counted)
    BY <1>1, <1>2, <1>3, HistoryStands
  <2>2. IsLast(books[i].bid, i, Applied, "bid")' /\ IsLast(books[i].ask, i, Applied, "ask")'
    BY <1>1, <1>2, <1>3, PastStands
  <2> QED
    BY <1>1, <1>3, <2>1, <2>2
<1>4. CASE CountEvent
  <2>1. /\ Counted + 1 = Now /\ Counted' = Counted + 1 /\ Applied' = Applied
        /\ books' = [books EXCEPT ![Incoming.instrument].sequence = @ + 1]
        /\ Incoming = arrived[Counted + 1]
    BY <1>1, <1>4, Moments DEF CountEvent, Incoming
  <2>2. /\ books'[i].bid = books[i].bid /\ books'[i].ask = books[i].ask
        /\ books'[i].sequence = IF Incoming.instrument = i THEN books[i].sequence + 1 ELSE books[i].sequence
    BY <1>1, <2>1 DEF Book
  <2>3. Reach(i, Counted)' = Reach(i, Counted + 1)
    BY <1>1, <1>2, <2>1, HistoryStands
  <2>4. Reach(i, Counted + 1) = IF Incoming.instrument = i THEN Reach(i, Counted) + 1 ELSE Reach(i, Counted)
    BY <1>2, <2>1, ReachNext
  <2>5. books'[i].sequence = Reach(i, Counted)'
    BY <1>1, <2>2, <2>3, <2>4
  <2>6. IsLast(books[i].bid, i, Applied, "bid")' /\ IsLast(books[i].ask, i, Applied, "ask")'
    BY <1>1, <1>2, <2>1, <2>2, PastStands
  <2> QED
    BY <2>5, <2>6
<1>5. CASE ApplyEvent
  <2>1. /\ Applied + 1 = Now /\ Counted' = Counted /\ Applied' = Applied + 1
        /\ books' = [books EXCEPT ![Incoming.instrument][Incoming.side] =
                       IF Incoming.accepted THEN Applied + 1 ELSE @]
        /\ Incoming = arrived[Applied + 1] /\ Incoming \in Event
    BY <1>1, <1>5, Moments, Positions DEF ApplyEvent, Incoming
  <2>2. /\ Incoming.side \in {"bid", "ask"} /\ Incoming.instrument \in Instruments
        /\ Incoming.accepted \in BOOLEAN
    BY <2>1 DEF Event, Sides
  <2>3. /\ books'[i].sequence = books[i].sequence
        /\ books'[i].bid = IF Incoming.instrument = i /\ Incoming.side = "bid" /\ Incoming.accepted
                           THEN Applied + 1 ELSE books[i].bid
        /\ books'[i].ask = IF Incoming.instrument = i /\ Incoming.side = "ask" /\ Incoming.accepted
                           THEN Applied + 1 ELSE books[i].ask
    <3>1. CASE Incoming.instrument # i
      BY <1>1, <2>1, <2>2, <3>1
    <3>2. CASE Incoming.instrument = i /\ Incoming.side = "bid"
      BY <1>1, <2>1, <3>2 DEF Book
    <3>3. CASE Incoming.instrument = i /\ Incoming.side = "ask"
      BY <1>1, <2>1, <3>3 DEF Book
    <3> QED
      BY <2>2, <3>1, <3>2, <3>3
  <2>4. IsLast(books'[i].bid, i, Applied + 1, "bid") /\ IsLast(books'[i].ask, i, Applied + 1, "ask")
    BY <1>1, <1>2, <2>1, <2>3, LastNext
  <2>5. IsLast(books[i].bid, i, Applied, "bid")' /\ IsLast(books[i].ask, i, Applied, "ask")'
    <3>1. PICK first \in 0 .. Now : first = Applied + 1
      BY <1>2, <2>1
    <3>2. \A last, side : IsLast(last, i, first, side) => IsLast(last, i, first, side)'
      BY <1>1, PastStands
    <3> QED
      BY <2>1, <2>4, <3>1, <3>2
  <2>6. Reach(i, Counted)' = Reach(i, Counted)
    BY <1>1, <1>2, <2>1, HistoryStands
  <2> QED
    BY <1>1, <2>3, <2>5, <2>6
<1>6. RecordEvent => Counted' = Counted /\ Applied' = Applied /\ books' = books
  BY <1>1, Moments DEF RecordEvent
<1> QED
  BY <1>1, <1>3, <1>4, <1>5, <1>6, Moments

\* And then it is in the feed.
LEMMA FeedsStep == LiveInv /\ [Next]_vars => FeedsOK'
<1> SUFFICES ASSUME LiveInv, [Next]_vars, NEW i \in Instruments
             PROVE  IsTail(feed[i], i, Recorded, MaxFeed)'
  BY DEF FeedsOK
<1>1. /\ TypesOK /\ feed \in [Instruments -> Seq(Nat)] /\ IsTail(feed[i], i, Recorded, MaxFeed)
  BY DEF LiveInv, FeedsOK, TypesOK
<1>2. Recorded \in 0 .. Now /\ Now \in Nat
  BY <1>1, Positions
<1>3. CASE Recorded' = Recorded /\ feed' = feed
  BY <1>1, <1>2, <1>3, PastStands
<1>4. CASE RecordEvent
  <2>1. /\ Recorded + 1 = Now /\ Recorded' = Recorded + 1
        /\ feed' = [feed EXCEPT ![Incoming.instrument] = Trimmed(Append(@, Recorded + 1))]
        /\ Incoming = arrived[Recorded + 1]
    BY <1>1, <1>4, Moments DEF RecordEvent, Incoming
  <2>2. IsTail(feed'[i], i, Recorded + 1, MaxFeed)
    <3>1. CASE Incoming.instrument = i
      <4>1. feed'[i] = Trimmed(Append(feed[i], Recorded + 1))
        BY <1>1, <2>1, <3>1
      <4> QED
        BY <1>1, <1>2, <2>1, <3>1, <4>1, TailNext
    <3>2. CASE Incoming.instrument # i
      <4>1. feed'[i] = feed[i]
        BY <1>1, <2>1, <3>2
      <4> QED
        BY <1>1, <1>2, <2>1, <3>2, <4>1, TailSkips
    <3> QED
      BY <3>1, <3>2
  <2>3. PICK first \in 0 .. Now : first = Recorded + 1
    BY <1>2, <2>1
  <2>4. \A events, most : IsTail(events, i, first, most) => IsTail(events, i, first, most)'
    BY <1>1, PastStands
  <2> QED
    BY <2>1, <2>2, <2>3, <2>4
<1>5. CountEvent \/ ApplyEvent => Recorded' = Recorded /\ feed' = feed
  BY <1>1, Moments DEF CountEvent, ApplyEvent
<1> QED
  BY <1>1, <1>3, <1>4, <1>5, Moments

\* A request that goes on is still that request, and no other is touched.
LEMMA TurnEffect ==
  ASSUME TypesOK, NEW r \in Readers, NEW at, NEW copy, Turn(r, at, copy)
  PROVE  /\ reader'[r] = [at |-> at, instrument |-> reader[r].instrument, route |-> reader[r].route,
                          limit |-> reader[r].limit, since |-> reader[r].since, copy |-> copy]
         /\ reader'[r].at = at
         /\ \A q \in Readers : q # r => reader'[q] = reader[q]
BY DEF TypesOK, Turn

\* What an HTTP thread answers with is of one moment: of all that is in book and feed, for
\* while it holds the lock they agree.
LEMMA AnswerGiven ==
  ASSUME LiveInv, NEW r \in Readers, CopyAsks(r) \/ CopyEvents(r)
  PROVE  LET i == reader[r].instrument IN
         /\ i \in Instruments /\ RequestOK(reader[r])
         /\ reader'[r].at = "answered"
         /\ \E copy :
              /\ reader'[r] = [at |-> "answered", instrument |-> i, route |-> reader[r].route,
                               limit |-> reader[r].limit, since |-> reader[r].since, copy |-> copy]
              /\ IF reader[r].route = "snapshot"
                 THEN /\ copy.sequence = Reach(i, Recorded)
                      /\ IsLast(copy.bid, i, Recorded, "bid") /\ IsLast(copy.ask, i, Recorded, "ask")
                 ELSE IsTail(copy, i, Recorded, Most(reader[r].limit))
         /\ \A q \in Readers : q # r => reader'[q] = reader[q]
         /\ shown' = [shown EXCEPT ![i] = Max({@, Reach(i, Recorded)})]
         /\ lock' = lock \ {r} /\ UNCHANGED consumerVars
<1> DEFINE i == reader[r].instrument
<1>1. TypesOK /\ reader[r].at \in {"asks", "events"} /\ RequestOK(reader[r]) /\ i \in Instruments
  BY DEF LiveInv, ReadersOK, CopyAsks, CopyEvents, RequestOK
<1>2. "consumer" \notin lock
  BY <1>1, ReadersAssumption DEF LiveInv, LockOK
<1>3. Counted = Recorded /\ Applied = Recorded /\ Recorded \in Nat
  BY <1>1, <1>2, Positions DEF LiveInv, LockOK
<1>4. CASE CopyAsks(r)
  <2> DEFINE copy == [sequence |-> reader[r].copy.sequence, bid |-> reader[r].copy.bid, ask |-> books[i].ask]
  <2>1. /\ reader[r].at = "asks" /\ reader[r].route = "snapshot"
        /\ reader[r].copy.sequence = books[i].sequence /\ reader[r].copy.bid = books[i].bid
    BY <1>1, <1>4 DEF CopyAsks, RequestOK
  <2>2. /\ copy.sequence = Reach(i, Recorded)
        /\ IsLast(copy.bid, i, Recorded, "bid") /\ IsLast(copy.ask, i, Recorded, "ask")
    BY <1>1, <1>3, <2>1 DEF LiveInv, BooksOK
  <2>3. /\ Turn(r, "answered", copy)
        /\ shown' = [shown EXCEPT ![i] = Max({@, reader[r].copy.sequence})]
        /\ lock' = lock \ {r} /\ UNCHANGED consumerVars
    BY <1>4 DEF CopyAsks, Answer
  <2>4. /\ reader'[r] = [at |-> "answered", instrument |-> i, route |-> reader[r].route,
                         limit |-> reader[r].limit, since |-> reader[r].since, copy |-> copy]
        /\ reader'[r].at = "answered"
        /\ \A q \in Readers : q # r => reader'[q] = reader[q]
    BY <1>1, <2>3, TurnEffect
  <2> HIDE DEF copy
  <2>5. reader[r].copy.sequence = Reach(i, Recorded)
    BY <2>2 DEF copy
  <2> QED
    BY <1>1, <2>1, <2>2, <2>3, <2>4, <2>5
<1>5. CASE CopyEvents(r)
  <2> DEFINE copy == NewestOf(feed[i], reader[r].limit)
  <2>1. reader[r].at = "events" /\ reader[r].route = "events" /\ reader[r].limit \in Limits
    BY <1>1, <1>5 DEF CopyEvents, RequestOK
  <2>2. IsTail(feed[i], i, Recorded, MaxFeed)
    BY <1>1 DEF LiveInv, FeedsOK
  <2>3. IsTail(copy, i, Recorded, Most(reader[r].limit)) /\ Most(reader[r].limit) \in Nat \ {0}
    BY <1>3, <2>1, <2>2, NewestIsTail, LimitsAssumption, MaxFeedAssumption DEF Most
  <2>4. ReachOf(i, copy) = Reach(i, Recorded)
    BY <1>3, <2>3, ReachOfTail
  <2>5. /\ Turn(r, "answered", copy)
        /\ shown' = [shown EXCEPT ![i] = Max({@, ReachOf(i, copy)})]
        /\ lock' = lock \ {r} /\ UNCHANGED consumerVars
    BY <1>5 DEF CopyEvents, Answer
  <2>6. /\ reader'[r] = [at |-> "answered", instrument |-> i, route |-> reader[r].route,
                         limit |-> reader[r].limit, since |-> reader[r].since, copy |-> copy]
        /\ reader'[r].at = "answered"
        /\ \A q \in Readers : q # r => reader'[q] = reader[q]
    BY <1>1, <2>5, TurnEffect
  <2> HIDE DEF copy
  <2> QED
    BY <1>1, <2>1, <2>3, <2>4, <2>5, <2>6
<1> QED
  BY <1>4, <1>5

\* One thread holds the lock from the step that takes it to the one that leaves its scope.
LEMMA LockStep == LiveInv /\ [Next]_vars => LockOK'
<1> SUFFICES ASSUME LiveInv, [Next]_vars PROVE LockOK'
  OBVIOUS
<1>1. TypesOK /\ LockOK
  BY DEF LiveInv
<1>2. CASE \E event \in Event : Pop(event)
  BY <1>1, <1>2 DEF Pop, LockOK
<1>3. CASE ConsumerLock
  BY <1>1, <1>3, ReadersAssumption DEF ConsumerLock, Acquire, CanLock, LockOK
<1>4. CASE CountEvent \/ ApplyEvent
  BY <1>1, <1>4 DEF CountEvent, ApplyEvent, LeaveScope, LockScopeEnd, LockOK
<1>5. CASE RecordEvent
  BY <1>1, <1>5, ReadersAssumption DEF RecordEvent, LeaveScope, LockScopeEnd, LockOK
<1>6. CASE Tally
  BY <1>1, <1>6 DEF Tally, LockOK
<1>7. ASSUME NEW r \in Readers, ReaderStep(r) PROVE LockOK'
  <2>1. ASSUME NEW i \in Instruments, NEW route, NEW limit, Request(r, i, route, limit) PROVE LockOK'
    <3>1. /\ reader[r].at \in {"idle", "answered"} /\ reader'[r].at = "lock"
          /\ \A q \in Readers : q # r => reader'[q] = reader[q]
      BY <1>1, <2>1 DEF Request, TypesOK
    <3>2. UNCHANGED <<lock, consumer>>
      BY <2>1 DEF Request, consumerVars
    <3> QED
      BY <1>1, <3>1, <3>2 DEF LockOK
  <2>2. CASE ReaderLock(r)
    <3>1. /\ lock = {} /\ lock' = {r} /\ consumer' = consumer
          /\ reader'[r].at \in {"bids", "events"}
          /\ \A q \in Readers : q # r => reader'[q] = reader[q]
      <4>1. PICK at \in {"bids", "events"} : Turn(r, at, <<>>)
        BY <2>2 DEF ReaderLock
      <4>2. reader'[r].at = at /\ \A q \in Readers : q # r => reader'[q] = reader[q]
        BY <1>1, <4>1, TurnEffect
      <4> QED
        BY <2>2, <4>1, <4>2 DEF ReaderLock, Acquire, CanLock, consumerVars
    <3>4. \A q \in Readers : q \in lock <=> reader[q].at \in {"bids", "asks", "events"}
      BY <1>1 DEF LockOK
    <3>5. \A q \in Readers : q \in lock' <=> reader'[q].at \in {"bids", "asks", "events"}
      BY <3>1, <3>4
    <3> QED
      BY <1>1, <3>1, <3>5, ReadersAssumption DEF LockOK
  <2>3. CASE CopyBids(r)
    <3>1. /\ reader[r].at = "bids" /\ UNCHANGED <<lock, consumer>>
          /\ reader'[r].at = "asks"
          /\ \A q \in Readers : q # r => reader'[q] = reader[q]
      <4>1. PICK copy : Turn(r, "asks", copy)
        BY <2>3 DEF CopyBids
      <4>2. reader'[r].at = "asks" /\ \A q \in Readers : q # r => reader'[q] = reader[q]
        BY <1>1, <4>1, TurnEffect
      <4> QED
        BY <2>3, <4>2 DEF CopyBids, consumerVars
    <3>4. \A q \in Readers : q \in lock <=> reader[q].at \in {"bids", "asks", "events"}
      BY <1>1 DEF LockOK
    <3>5. \A q \in Readers : q \in lock' <=> reader'[q].at \in {"bids", "asks", "events"}
      BY <3>1, <3>4
    <3> QED
      BY <1>1, <3>1, <3>5 DEF LockOK
  <2>4. CASE CopyAsks(r) \/ CopyEvents(r)
    <3>1. /\ lock' = lock \ {r} /\ consumer' = consumer
          /\ reader'[r].at = "answered"
          /\ \A q \in Readers : q # r => reader'[q] = reader[q]
      BY <2>4, AnswerGiven DEF consumerVars
    <3>2. reader[r].at \in {"asks", "events"}
      BY <2>4 DEF CopyAsks, CopyEvents
    <3>4. \A q \in Readers : q \in lock <=> reader[q].at \in {"bids", "asks", "events"}
      BY <1>1 DEF LockOK
    <3>5. \A q \in Readers : q \in lock' <=> reader'[q].at \in {"bids", "asks", "events"}
      BY <3>1, <3>4, <3>2
    <3> QED
      BY <1>1, <3>1, <3>5, ReadersAssumption DEF LockOK
  <2> QED
    BY <1>7, <2>1, <2>2, <2>3, <2>4 DEF ReaderStep
<1>8. CASE UNCHANGED vars
  BY <1>1, <1>8 DEF LockOK, vars, consumerVars
<1> QED
  BY <1>2, <1>3, <1>4, <1>5, <1>6, <1>7, <1>8 DEF Next, ConsumerStep

\* What has been shown grows, and with each answer to what book and feed then hold.
LEMMA ShownStep == LiveInv /\ [Next]_vars => ShownOK' /\ \A i \in Instruments : shown[i] <= shown'[i]
<1> SUFFICES ASSUME LiveInv, [Next]_vars, NEW i \in Instruments
             PROVE  shown'[i] <= Reach(i, Recorded)' /\ shown[i] <= shown'[i]
  BY DEF ShownOK
<1>1. /\ TypesOK /\ shown \in [Instruments -> Nat] /\ shown[i] \in Nat /\ shown[i] <= Reach(i, Recorded)
  BY DEF LiveInv, ShownOK, TypesOK
<1>2. Recorded \in 0 .. Now /\ Now \in Nat
  BY <1>1, Positions
<1>3. Reach(i, Recorded) \in Nat
  BY <1>2, ReachType
<1>4. CASE shown' = shown
  <2>1. PICK first \in 0 .. Now : first = Recorded' /\ Recorded <= first
    BY <1>1, <1>2, Moments
  <2>2. Reach(i, first)' = Reach(i, first)
    BY <1>1, HistoryStands
  <2>3. Reach(i, Recorded) <= Reach(i, first) /\ Reach(i, first) \in Nat
    BY <1>2, <2>1, ReachMonotone, ReachType
  <2>4. Reach(i, Recorded)' = Reach(i, first)
    BY <2>1, <2>2
  <2> QED
    BY <1>1, <1>3, <1>4, <2>3, <2>4
<1>5. ASSUME NEW r \in Readers, CopyAsks(r) \/ CopyEvents(r)
      PROVE  shown'[i] <= Reach(i, Recorded)' /\ shown[i] <= shown'[i]
  <2>1. /\ shown' = [shown EXCEPT ![reader[r].instrument] = Max({@, Reach(reader[r].instrument, Recorded)})]
        /\ UNCHANGED consumerVars
    BY <1>5, AnswerGiven
  <2>2. Recorded' = Recorded /\ arrived' = arrived
    BY <2>1 DEF Recorded, Now, consumerVars
  <2>3. Reach(i, Recorded)' = Reach(i, Recorded)
    BY <2>2 DEF Reach, Among
  <2>4. CASE reader[r].instrument = i
    <3>1. shown'[i] = Max({shown[i], Reach(i, Recorded)})
      BY <1>1, <2>1, <2>4
    <3>2. shown'[i] = Reach(i, Recorded)
      BY <1>1, <1>3, <3>1, MaxOfTwo
    <3> QED
      BY <1>1, <1>3, <2>3, <3>2
  <2>5. CASE reader[r].instrument # i
    BY <1>1, <2>1, <2>3, <2>5
  <2> QED
    BY <2>4, <2>5
<1>6. \/ shown' = shown
      \/ \E r \in Readers : CopyAsks(r) \/ CopyEvents(r)
  BY DEF Next, ConsumerStep, ReaderStep, Pop, ConsumerLock, CountEvent, ApplyEvent, RecordEvent, Tally, Request,
     ReaderLock, CopyBids, vars
<1> QED
  BY <1>4, <1>5, <1>6

\* A request that nobody touches is as good as it was.
LEMMA RequestStands ==
  ASSUME LiveInv, [Next]_vars, NEW r \in Readers, RequestOK(reader[r]), reader'[r] = reader[r]
  PROVE  RequestOK(reader[r])'
<1> DEFINE q == reader[r]
<1>1. /\ q.instrument \in Instruments /\ q.since \in Nat /\ q.since <= shown[q.instrument]
      /\ TypesOK /\ shown \in [Instruments -> Nat] /\ shown' \in [Instruments -> Nat]
  BY TypesStep DEF RequestOK, LiveInv, TypesOK
<1>2. q.since <= shown'[q.instrument]
  <2>1. shown[q.instrument] <= shown'[q.instrument] /\ shown[q.instrument] \in Nat /\ shown'[q.instrument] \in Nat
    BY <1>1, ShownStep
  <2> QED
    BY <1>1, <2>1
<1>3. q.at = "asks" => q.copy.sequence = books'[q.instrument].sequence /\ q.copy.bid = books'[q.instrument].bid
  <2> SUFFICES ASSUME q.at = "asks"
               PROVE  q.copy.sequence = books'[q.instrument].sequence /\ q.copy.bid = books'[q.instrument].bid
    OBVIOUS
  <2>1. r \in lock /\ "consumer" \notin lock
    BY ReadersAssumption DEF LiveInv, LockOK
  <2>2. ~CountEvent /\ ~ApplyEvent /\ ~RecordEvent
    BY <2>1 DEF LiveInv, LockOK, CountEvent, ApplyEvent, RecordEvent
  <2>3. books' = books
    BY <1>1, <2>2, Moments
  <2> QED
    BY <2>3 DEF RequestOK
<1> HIDE DEF q
<1>4. RequestOK(q) /\ reader'[r] = q
  BY DEF q
<1>5. /\ \/ q.route = "snapshot" /\ q.at \in {"lock", "bids", "asks", "answered"}
         \/ q.route = "events" /\ q.at \in {"lock", "events", "answered"} /\ q.limit \in Limits
      /\ q.instrument \in Instruments /\ q.since \in Nat
  BY <1>4 DEF RequestOK
<1> QED
  BY <1>2, <1>3, <1>4, <1>5 DEF RequestOK

\* And so is an answer.
LEMMA AnswerStands ==
  ASSUME LiveInv, [Next]_vars, NEW r \in Readers, AnswerOK(reader[r]), reader'[r] = reader[r]
  PROVE  AnswerOK(reader[r])'
<1>1. PICK q : q = reader[r]
  OBVIOUS
<1>2. reader'[r] = q /\ AnswerOK(q) /\ TypesOK /\ Now \in Nat /\ Now' \in Nat /\ Now <= Now'
  BY <1>1, HistoryStands, Positions DEF LiveInv
<1>3. PICK first \in 0 .. Now :
        /\ q.since <= Reach(q.instrument, first)
        /\ IF q.route = "snapshot" THEN ShowsBook(q, first) ELSE ShowsFeed(q, first)
  BY <1>2 DEF AnswerOK
<1>4. first \in 0 .. Now'
  BY <1>2
<1>5. Reach(q.instrument, first)' = Reach(q.instrument, first)
  BY <1>2, HistoryStands
<1>6. ShowsBook(q, first) => ShowsBook(q, first)'
  <2>1. /\ IsLast(q.copy.bid, q.instrument, first, "bid") => IsLast(q.copy.bid, q.instrument, first, "bid")'
        /\ IsLast(q.copy.ask, q.instrument, first, "ask") => IsLast(q.copy.ask, q.instrument, first, "ask")'
    BY <1>2, PastStands
  <2> QED
    BY <1>5, <2>1 DEF ShowsBook
<1>7. ShowsFeed(q, first) => ShowsFeed(q, first)'
  <2>1. IsTail(q.copy, q.instrument, first, Most(q.limit)) => IsTail(q.copy, q.instrument, first, Most(q.limit))'
    BY <1>2, PastStands
  <2> QED
    BY <2>1 DEF ShowsFeed
<1>8. AnswerOK(q)'
  BY <1>3, <1>4, <1>5, <1>6, <1>7 DEF AnswerOK
<1> QED
  BY <1>2, <1>8

\* A request knows what has been shown before it, and its answer shows no less.
LEMMA ReadersStep == LiveInv /\ [Next]_vars => ReadersOK'
<1> SUFFICES ASSUME LiveInv, [Next]_vars, NEW q \in Readers
             PROVE  \/ reader'[q].at = "idle"
                    \/ RequestOK(reader[q])' /\ (reader'[q].at = "answered" => AnswerOK(reader[q])')
  BY DEF ReadersOK
<1>1. /\ TypesOK /\ LockOK /\ shown \in [Instruments -> Nat]
      /\ reader[q].at = "idle" \/ (RequestOK(reader[q]) /\ (reader[q].at = "answered" => AnswerOK(reader[q])))
  BY DEF LiveInv, ReadersOK, TypesOK
<1>2. CASE reader'[q] = reader[q]
  BY <1>1, <1>2, RequestStands, AnswerStands
<1>3. ASSUME NEW r \in Readers, ReaderStep(r) PROVE reader'[q] = reader[q] \/ q = r
  <2>1. ASSUME NEW at, NEW copy, Turn(r, at, copy) PROVE reader'[q] = reader[q] \/ q = r
    BY <1>1, <2>1, TurnEffect
  <2>2. ASSUME NEW i, NEW route, NEW limit, Request(r, i, route, limit) PROVE reader'[q] = reader[q] \/ q = r
    BY <1>1, <2>2 DEF Request, TypesOK
  <2> QED
    BY <1>3, <2>1, <2>2 DEF ReaderStep, ReaderLock, CopyBids, CopyAsks, CopyEvents, Answer
<1>4. ASSUME NEW i \in Instruments, NEW route, NEW limit, Request(q, i, route, limit),
             route = "snapshot" \/ (route = "events" /\ limit \in Limits)
      PROVE  RequestOK(reader[q])' /\ reader'[q].at = "lock"
  <2>1. reader'[q] = [at |-> "lock", instrument |-> i, route |-> route, limit |-> limit,
                      since |-> shown[i], copy |-> <<>>]
    BY <1>1, <1>4 DEF Request, TypesOK
  <2>2. /\ reader'[q].at = "lock" /\ reader'[q].instrument = i /\ reader'[q].route = route
        /\ reader'[q].limit = limit /\ reader'[q].since = shown[i]
    BY <2>1
  <2>3. shown' = shown /\ shown[i] \in Nat
    BY <1>1, <1>4 DEF Request
  <2>4. shown[i] <= shown[i]
    BY <2>3
  <2> QED
    BY <1>4, <2>2, <2>3, <2>4 DEF RequestOK
<1>5. ASSUME ReaderLock(q)
      PROVE  RequestOK(reader[q])' /\ reader'[q].at # "answered"
  <2> DEFINE at == IF reader[q].route = "snapshot" THEN "bids" ELSE "events"
  <2>1. Turn(q, at, <<>>) /\ UNCHANGED <<consumerVars, shown>> /\ reader[q].at = "lock"
    BY <1>5 DEF ReaderLock
  <2>2. reader'[q] = [at |-> at, instrument |-> reader[q].instrument, route |-> reader[q].route,
                      limit |-> reader[q].limit, since |-> reader[q].since, copy |-> <<>>]
    BY <1>1, <2>1, TurnEffect
  <2>3. /\ reader'[q].at = at /\ reader'[q].instrument = reader[q].instrument
        /\ reader'[q].route = reader[q].route /\ reader'[q].limit = reader[q].limit
        /\ reader'[q].since = reader[q].since
    BY <2>2
  <2>4. RequestOK(reader[q])
    BY <1>1, <2>1
  <2> QED
    BY <2>1, <2>3, <2>4 DEF RequestOK
<1>6. ASSUME CopyBids(q)
      PROVE  RequestOK(reader[q])' /\ reader'[q].at # "answered"
  <2> DEFINE book == books[reader[q].instrument]
             copy == [sequence |-> book.sequence, bid |-> book.bid]
  <2>1. Turn(q, "asks", copy) /\ UNCHANGED <<consumerVars, shown>> /\ reader[q].at = "bids"
    BY <1>6 DEF CopyBids
  <2>2. reader'[q] = [at |-> "asks", instrument |-> reader[q].instrument, route |-> reader[q].route,
                      limit |-> reader[q].limit, since |-> reader[q].since, copy |-> copy]
    BY <1>1, <2>1, TurnEffect
  <2>3. /\ reader'[q].at = "asks" /\ reader'[q].instrument = reader[q].instrument
        /\ reader'[q].route = reader[q].route /\ reader'[q].limit = reader[q].limit
        /\ reader'[q].since = reader[q].since
        /\ reader'[q].copy.sequence = book.sequence /\ reader'[q].copy.bid = book.bid
    BY <2>2
  <2>4. RequestOK(reader[q])
    BY <1>1, <2>1
  <2>5. books' = books /\ shown' = shown
    BY <2>1 DEF consumerVars
  <2> HIDE DEF copy
  <2> QED
    BY <2>1, <2>3, <2>4, <2>5 DEF RequestOK
<1>7. ASSUME CopyAsks(q) \/ CopyEvents(q)
      PROVE  RequestOK(reader[q])' /\ AnswerOK(reader[q])'
  <2> DEFINE i == reader[q].instrument
  <2>1. /\ i \in Instruments /\ RequestOK(reader[q]) /\ UNCHANGED consumerVars
    BY <1>7, AnswerGiven
  <2>2. PICK copy :
          /\ reader'[q] = [at |-> "answered", instrument |-> i, route |-> reader[q].route,
                           limit |-> reader[q].limit, since |-> reader[q].since, copy |-> copy]
          /\ IF reader[q].route = "snapshot"
             THEN /\ copy.sequence = Reach(i, Recorded)
                  /\ IsLast(copy.bid, i, Recorded, "bid") /\ IsLast(copy.ask, i, Recorded, "ask")
             ELSE IsTail(copy, i, Recorded, Most(reader[q].limit))
    BY <1>7, AnswerGiven
  <2>3. /\ reader'[q].at = "answered" /\ reader'[q].instrument = i
        /\ reader'[q].route = reader[q].route /\ reader'[q].limit = reader[q].limit
        /\ reader'[q].since = reader[q].since /\ reader'[q].copy = copy
    BY <2>2
  <2>4. RequestOK(reader[q])'
    <3>1. shown[i] <= shown'[i] /\ shown[i] \in Nat /\ shown'[i] \in Nat
      BY <1>1, <2>1, ShownStep, TypesStep DEF TypesOK
    <3>2. reader[q].since <= shown'[i]
      BY <2>1, <3>1 DEF RequestOK
    <3> QED
      BY <2>1, <2>3, <3>2 DEF RequestOK
  <2>5. PICK first \in 0 .. Now : first = Recorded
    BY <1>1, Positions
  <2>6. reader[q].since <= Reach(i, first)
    <3>1. shown[i] <= Reach(i, first)
      BY <2>1, <2>5 DEF LiveInv, ShownOK
    <3>2. shown[i] \in Nat /\ Reach(i, first) \in Nat
      BY <1>1, <2>1, <2>5, ReachType, Positions
    <3> QED
      BY <2>1, <3>1, <3>2 DEF RequestOK
  <2>7. PICK p : p = reader'[q]
    OBVIOUS
  <2>8. /\ p.instrument = i /\ p.route = reader[q].route /\ p.limit = reader[q].limit
        /\ p.since = reader[q].since /\ p.copy = copy
    BY <2>3, <2>7
  <2>9. IF p.route = "snapshot" THEN ShowsBook(p, first) ELSE ShowsFeed(p, first)
    BY <2>2, <2>5, <2>8 DEF ShowsBook, ShowsFeed
  <2>10. p.since <= Reach(p.instrument, first)
    BY <2>6, <2>8
  <2>11. AnswerOK(p)
    BY <2>9, <2>10 DEF AnswerOK
  <2>12. AnswerOK(p)'
    <3>1. arrived' = arrived
      BY <2>1 DEF consumerVars
    <3> QED
      BY <2>11, <3>1 DEF AnswerOK, ShowsBook, ShowsFeed, IsLast, IsTail, Changes, Reach, Among, Now
  <2> QED
    BY <2>4, <2>7, <2>12
<1>8. ASSUME ReaderStep(q)
      PROVE  RequestOK(reader[q])' /\ (reader'[q].at = "answered" => AnswerOK(reader[q])')
  <2>1. CASE \E i \in Instruments : Request(q, i, "snapshot", 0)
    <3>1. RequestOK(reader[q])' /\ reader'[q].at = "lock"
      BY <1>4, <2>1
    <3> QED
      BY <3>1
  <2>2. CASE \E i \in Instruments, limit \in Limits : Request(q, i, "events", limit)
    <3>1. RequestOK(reader[q])' /\ reader'[q].at = "lock"
      BY <1>4, <2>2
    <3> QED
      BY <3>1
  <2>3. CASE ReaderLock(q)
    BY <1>5, <2>3
  <2>4. CASE CopyBids(q)
    BY <1>6, <2>4
  <2>5. CASE CopyAsks(q) \/ CopyEvents(q)
    BY <1>7, <2>5
  <2> QED
    BY <1>8, <2>1, <2>2, <2>3, <2>4, <2>5 DEF ReaderStep
<1>9. ConsumerStep \/ UNCHANGED vars => reader' = reader
  BY DEF ConsumerStep, Pop, ConsumerLock, CountEvent, ApplyEvent, RecordEvent, Tally, vars
<1> QED
  BY <1>2, <1>3, <1>8, <1>9 DEF Next

\* The invariant of the books, the feeds and the answers holds always.
LEMMA LiveInvariant == Spec => []LiveInv
<1>1. LiveInv /\ [Next]_vars => LiveInv'
  BY TypesStep, LockStep, BooksStep, FeedsStep, ShownStep, ReadersStep DEF LiveInv
<1> QED
  BY <1>1, LiveInit, PTL DEF Spec

-----------------------------------------------------------------------------
\* What the invariant says of answers

\* An answer is that of a moment.
LEMMA AnswerOfAMoment ==
  ASSUME LiveInv, NEW r \in Readers, reader[r].at = "answered"
  PROVE  /\ RequestOK(reader[r])
         /\ \E first \in 0 .. Now :
              /\ reader[r].since <= Reach(reader[r].instrument, first)
              /\ IF reader[r].route = "snapshot" THEN ShowsBook(reader[r], first) ELSE ShowsFeed(reader[r], first)
BY DEF LiveInv, ReadersOK, AnswerOK

\* The last change of a side is the maximum of the changes, and of nothing if there is none.
LEMMA LastIs ==
  ASSUME NEW i, NEW first \in Nat, NEW last, NEW side, IsLast(last, i, first, side)
  PROVE  last = LastOn(Among(i, first), side)
<1>1. Changes(i, first, side) \subseteq Nat
  BY DEF Changes, Among
<1>2. {0} \cup Changes(i, first, side) \in SUBSET Nat
  BY <1>1
<1>3. \A n \in {0} \cup Changes(i, first, side) : n <= last
  BY <1>1 DEF IsLast
<1>4. Max({0} \cup Changes(i, first, side)) = last
  BY <1>2, <1>3, MaxIs DEF IsLast
<1> QED
  BY <1>4 DEF LastOn, Changes

\* A snapshot is the book after as many events of its instrument as its sequence says, both
\* sides of it, however many events arrive while it is copied.
THEOREM LiveSnapshotsConsistent == Spec => []SnapshotConsistent
<1>1. LiveInv => SnapshotConsistent
  <2> SUFFICES ASSUME LiveInv, NEW r \in Answered("snapshot")
               PROVE  LET copy == reader[r].copy
                          i == reader[r].instrument
                          applied == {n \in Among(i, Now) : Reach(i, n) <= copy.sequence}
                      IN /\ Cardinality(applied) = copy.sequence
                         /\ copy.bid = LastOn(applied, "bid") /\ copy.ask = LastOn(applied, "ask")
    BY DEF SnapshotConsistent
  <2>1. r \in Readers /\ reader[r].at = "answered" /\ reader[r].route = "snapshot" /\ Now \in Nat
    BY Positions DEF Answered, LiveInv
  <2>2. PICK first \in 0 .. Now : ShowsBook(reader[r], first)
    BY <2>1, AnswerOfAMoment
  <2> DEFINE copy == reader[r].copy
             i == reader[r].instrument
             applied == {n \in Among(i, Now) : Reach(i, n) <= copy.sequence}
  <2>3. /\ copy.sequence = Reach(i, first)
        /\ IsLast(copy.bid, i, first, "bid") /\ IsLast(copy.ask, i, first, "ask")
    BY <2>2 DEF ShowsBook
  <2>4. applied = Among(i, first)
    BY <2>1, <2>3, AmongIsUpToRank
  <2>5. copy.bid = LastOn(Among(i, first), "bid") /\ copy.ask = LastOn(Among(i, first), "ask")
    BY <2>3, LastIs
  <2>6. Cardinality(Among(i, first)) = copy.sequence
    BY <2>3 DEF Reach
  <2> HIDE DEF applied
  <2> QED
    BY <2>4, <2>5, <2>6 DEF applied
<1> QED
  BY <1>1, LiveInvariant, PTL

\* The events route answers with the newest events of its instrument, none left out, as many
\* as were asked for, are kept or have come.
THEOREM LiveFeedsAreTheTail == Spec => []FeedIsTheTail
<1>1. LiveInv => TypeOK
  <2> SUFFICES ASSUME LiveInv PROVE TypeOK
    OBVIOUS
  <2>1. TypesOK /\ LockOK
    BY DEF LiveInv
  <2>2. Cardinality(lock) <= 1
    <3>1. CASE lock = {}
      BY <3>1, FS_EmptySet
    <3>2. CASE lock # {}
      <4>1. PICK s : lock = {s}
        BY <2>1, <3>2 DEF LockOK
      <4>2. Cardinality(lock) = 1
        BY <4>1, FS_Singleton
      <4> QED
        BY <4>2
    <3> QED
      BY <3>1, <3>2
  <2>3. feed \in [Instruments -> Seq(DOMAIN arrived)]
    <3>1. ASSUME NEW i \in Instruments PROVE feed[i] \in Seq(DOMAIN arrived)
      <4>1. feed[i] \in Seq(Nat) /\ \A k \in 1 .. Len(feed[i]) : feed[i][k] \in Among(i, Recorded)
        BY DEF LiveInv, FeedsOK, IsTail
      <4>2. Among(i, Recorded) \subseteq DOMAIN arrived
        <5>1. DOMAIN arrived = 1 .. Now
          BY <2>1 DEF TypesOK, Now
        <5>2. Recorded \in Nat /\ Now \in Nat /\ Recorded <= Now
          BY <2>1, Positions
        <5> QED
          BY <5>1, <5>2 DEF Among
      <4>3. \A k \in 1 .. Len(feed[i]) : feed[i][k] \in DOMAIN arrived
        BY <4>1, <4>2
      <4> QED
        BY <4>1, <4>3
    <3> QED
      BY <2>1, <3>1 DEF TypesOK
  <2>4. \A r \in Readers : reader[r].at \in {"idle", "lock", "bids", "asks", "events", "answered"}
    BY DEF LiveInv, ReadersOK, RequestOK
  <2> QED
    BY <2>1, <2>2, <2>3, <2>4 DEF TypesOK, TypeOK, LockOK
<1>2. LiveInv => FeedIsTheTail
  <2> SUFFICES ASSUME LiveInv, NEW r \in Answered("events")
               PROVE  LET events == reader[r].copy
                          i == reader[r].instrument
                          reach == ReachOf(i, events)
                          size == Min({reader[r].limit, MaxFeed, reach})
                      IN /\ Len(events) = size
                         /\ \A k \in 1 .. size : events[k] \in Among(i, Now) /\ Reach(i, events[k]) = reach - size + k
    BY <1>1 DEF FeedIsTheTail
  <2>1. r \in Readers /\ reader[r].at = "answered" /\ reader[r].route = "events" /\ Now \in Nat
    BY Positions DEF Answered, LiveInv
  <2>2. PICK first \in 0 .. Now : ShowsFeed(reader[r], first)
    BY <2>1, AnswerOfAMoment
  <2> DEFINE events == reader[r].copy
             i == reader[r].instrument
             limit == reader[r].limit
             reach == ReachOf(i, events)
  <2>3. limit \in Nat \ {0} /\ MaxFeed \in Nat \ {0}
    BY <2>1, AnswerOfAMoment, LimitsAssumption, MaxFeedAssumption DEF RequestOK
  <2>4. Most(limit) \in Nat \ {0} /\ IsTail(events, i, first, Most(limit))
    BY <2>2, <2>3 DEF ShowsFeed, Most
  <2>5. reach = Reach(i, first) /\ Reach(i, first) \in Nat
    BY <2>4, ReachOfTail, ReachType
  <2> HIDE DEF reach, limit
  <2>6. Min({limit, MaxFeed, reach}) = IF reach <= Most(limit) THEN reach ELSE Most(limit)
    <3> DEFINE size == IF reach <= Most(limit) THEN reach ELSE Most(limit)
    <3>1. /\ {limit, MaxFeed, reach} \in SUBSET Nat /\ size \in {limit, MaxFeed, reach}
          /\ \A y \in {limit, MaxFeed, reach} : size <= y
      BY <2>3, <2>5 DEF Most
    <3> HIDE DEF size
    <3>2. Min({limit, MaxFeed, reach}) = size
      BY <3>1, MinIs
    <3> QED
      BY <3>2 DEF size
  <2>7. Len(events) = Min({limit, MaxFeed, reach})
    BY <2>4, <2>5, <2>6 DEF IsTail
  <2>8. \A k \in 1 .. Len(events) : events[k] \in Among(i, first) /\ Reach(i, events[k]) = reach - Len(events) + k
    BY <2>4, <2>5 DEF IsTail
  <2>9. Among(i, first) \subseteq Among(i, Now)
    BY <2>1 DEF Among
  <2> HIDE DEF events, i
  <2> QED
    BY <2>7, <2>8, <2>9 DEF reach, limit, events, i
<1> QED
  BY <1>2, LiveInvariant, PTL

\* An answer reflects every event that an earlier answer, of either route, has shown.
THEOREM LiveAnswersNeverGoBack == Spec => []AnswersNeverGoBack
<1>1. LiveInv => AnswersNeverGoBack
  <2> SUFFICES ASSUME LiveInv, NEW r \in Answered("snapshot") \cup Answered("events")
               PROVE  reader[r].since <= IF reader[r].route = "snapshot" THEN reader[r].copy.sequence
                                         ELSE ReachOf(reader[r].instrument, reader[r].copy)
    BY DEF AnswersNeverGoBack
  <2>1. r \in Readers /\ reader[r].at = "answered" /\ reader[r].route \in {"snapshot", "events"}
    BY DEF Answered
  <2>2. PICK first \in 0 .. Now :
          /\ reader[r].since <= Reach(reader[r].instrument, first)
          /\ IF reader[r].route = "snapshot" THEN ShowsBook(reader[r], first) ELSE ShowsFeed(reader[r], first)
    BY <2>1, AnswerOfAMoment
  <2>3. CASE reader[r].route = "snapshot"
    BY <2>2, <2>3 DEF ShowsBook
  <2>4. CASE reader[r].route = "events"
    <3>1. Most(reader[r].limit) \in Nat \ {0}
      BY <2>1, <2>4, AnswerOfAMoment, LimitsAssumption, MaxFeedAssumption DEF RequestOK, Most
    <3>2. IsTail(reader[r].copy, reader[r].instrument, first, Most(reader[r].limit))
      BY <2>2, <2>4 DEF ShowsFeed
    <3>3. ReachOf(reader[r].instrument, reader[r].copy) = Reach(reader[r].instrument, first)
      BY <3>1, <3>2, ReachOfTail
    <3> QED
      BY <2>2, <2>4, <3>3
  <2> QED
    BY <2>1, <2>3, <2>4
<1> QED
  BY <1>1, LiveInvariant, PTL

-----------------------------------------------------------------------------
\* The methods of the store

\* The table with one more alert, and with another status of a row.
WithRow(d, alert) ==
  [rows |-> [i \in DOMAIN d.rows \cup {d.serial + 1} |->
               IF i = d.serial + 1 THEN [alert |-> alert, status |-> "OPEN"] ELSE d.rows[i]],
   serial |-> d.serial + 1]
WithStatus(d, id, status) == [d EXCEPT !.rows[id].status = status]

\* insert_alert adds the alert as it is, under the next id ...
LEMMA InsertAdds ==
  ASSUME ArraysRoundTrip, NEW d, DbOK(d), NEW alert \in Alerts
  PROVE  InsertAlert(d, alert) = Done(WithRow(d, alert), [alert_id |-> d.serial + 1])
<1>1. Written[alert.accounts] = {alert.accounts}
  BY DEF ArraysRoundTrip, Accounts
<1>2. [alert EXCEPT !.accounts = alert.accounts] = alert
  <2>1. alert = [detector |-> alert.detector, accounts |-> alert.accounts, window |-> alert.window]
    BY AlertsAssumption
  <2> QED
    BY <2>1
<1>3. (CHOOSE items \in {alert.accounts} : TRUE) = alert.accounts
  OBVIOUS
<1> QED
  BY <1>1, <1>2, <1>3 DEF InsertAlert, WithRow

\* ... and the rows there were stay.
LEMMA RowAdded ==
  ASSUME NEW d, DbOK(d), NEW alert \in Alerts
  PROVE  /\ DbOK(WithRow(d, alert))
         /\ DOMAIN WithRow(d, alert).rows = DOMAIN d.rows \cup {d.serial + 1}
         /\ d.serial + 1 \notin DOMAIN d.rows
         /\ WithRow(d, alert).rows[d.serial + 1] = [alert |-> alert, status |-> "OPEN"]
         /\ \A i \in DOMAIN d.rows : WithRow(d, alert).rows[i] = d.rows[i]
<1> DEFINE id == d.serial + 1
           rows == [i \in DOMAIN d.rows \cup {id} |->
                      IF i = id THEN [alert |-> alert, status |-> "OPEN"] ELSE d.rows[i]]
<1>1. WithRow(d, alert) = [rows |-> rows, serial |-> id]
  BY DEF WithRow
<1>2. d.serial \in Nat /\ id \in Nat /\ id \notin DOMAIN d.rows /\ DOMAIN d.rows \subseteq 1 .. d.serial
  BY DEF DbOK
<1>3. rows \in [DOMAIN rows -> Row]
  BY ServiceAssumption DEF DbOK, Row
<1>4. DOMAIN rows = DOMAIN d.rows \cup {id} /\ DOMAIN rows \subseteq 1 .. id
  BY <1>2
<1>5. rows[id] = [alert |-> alert, status |-> "OPEN"] /\ \A i \in DOMAIN d.rows : rows[i] = d.rows[i]
  BY <1>2
<1> HIDE DEF rows
<1> QED
  BY <1>1, <1>2, <1>3, <1>4, <1>5 DEF DbOK

LEMMA StatusSet ==
  ASSUME NEW d, DbOK(d), NEW id \in DOMAIN d.rows, NEW status \in Statuses
  PROVE  /\ DbOK(WithStatus(d, id, status))
         /\ WithStatus(d, id, status).serial = d.serial
         /\ DOMAIN WithStatus(d, id, status).rows = DOMAIN d.rows
         /\ WithStatus(d, id, status).rows[id] = [alert |-> d.rows[id].alert, status |-> status]
         /\ \A i \in DOMAIN d.rows \ {id} : WithStatus(d, id, status).rows[i] = d.rows[i]
<1>1. d.rows \in [DOMAIN d.rows -> Row] /\ d.rows[id] \in Row
  BY DEF DbOK
<1>2. [d.rows[id] EXCEPT !.status = status] = [alert |-> d.rows[id].alert, status |-> status]
  BY <1>1 DEF Row
<1>3. WithStatus(d, id, status) =
        [rows |-> [d.rows EXCEPT ![id] = [alert |-> d.rows[id].alert, status |-> status]], serial |-> d.serial]
  BY <1>1, <1>2 DEF WithStatus, DbOK
<1>4. [alert |-> d.rows[id].alert, status |-> status] \in Row
  BY <1>1 DEF Row
<1> QED
  BY <1>1, <1>3, <1>4 DEF DbOK

\* The other methods change nothing, whether they throw or not.
Reading == {"range", "account", "detector", "recent", "page", "get", "ping"}

LEMMA ReadingChangesNothing ==
  ASSUME NEW m, m.op \in Reading, NEW d
  PROVE  Execute(m, d).db = d /\ Execute(m, d).thrown \in BOOLEAN
<1> USE DEF List, Done, Thrown
<1>1. CASE m.op = "range"
  BY <1>1 DEF Execute, QueryByTimeRange
<1>2. CASE m.op = "account"
  BY <1>2 DEF Execute, QueryByAccount
<1>3. CASE m.op = "detector"
  BY <1>3 DEF Execute, QueryByDetector
<1>4. CASE m.op = "recent"
  BY <1>4 DEF Execute, ListRecent
<1>5. CASE m.op = "page"
  BY <1>5 DEF Execute, ListPaginated
<1>6. CASE m.op = "get"
  BY <1>6 DEF Execute, GetAlert
<1>7. CASE m.op = "ping"
  BY <1>7 DEF Execute, IsConnected
<1> QED
  BY <1>1, <1>2, <1>3, <1>4, <1>5, <1>6, <1>7 DEF Reading

-----------------------------------------------------------------------------
\* The steps of the table

\* What a step can do to the table: nothing but take an id; add an alert; change a status.
Kept ==
  /\ db'.rows = db.rows /\ log' = log
  /\ DbOK(db') /\ db'.serial >= db.serial
Adds(w, alert) ==
  /\ db' = WithRow(db, alert)
  /\ log' = Append(log, [by |-> w, id |-> db.serial + 1, status |-> "OPEN"])
Sets(c, id, status) ==
  /\ db' = WithStatus(db, id, status)
  /\ log' = Append(log, [by |-> c, id |-> id, status |-> status])
TableStep ==
  \/ Kept
  \/ \E w \in Writers, alert \in Alerts : Adds(w, alert)
  \/ \E c \in Clients, id \in DOMAIN db.rows, status \in Statuses : Sets(c, id, status)

\* What a client's call can be.
LEMMA ClientCalls ==
  ASSUME NEW c \in Clients \cup {Tab}, ClientOK(c), TabOK, call[c] # None
  PROVE  /\ request[c].open /\ OpenRequest(c) /\ Serves(c)
         /\ \/ call[c].op \in Reading
            \/ /\ call[c].op = "update"
               /\ call[c] = Call(request[c].asked) /\ request[c].asked.route = "patch"
               /\ c \in Clients
<1> DEFINE asked == request[c].asked
<1>1. request[c].open /\ OpenRequest(c) /\ Serves(c)
  BY DEF ClientOK
<1>2. CASE call[c] = Call(asked)
  <2>1. asked.route \in {"patch", "alert", "status", "alerts"}
    BY <1>1 DEF OpenRequest, Asked
  <2>2. CASE asked.route = "patch"
    <3>1. c # Tab
      BY <1>1, <2>2 DEF TabOK, PageRequest
    <3>2. call[c] = [op |-> "update", id |-> asked.id, status |-> asked.status]
      BY <1>2, <2>2 DEF Call
    <3> QED
      BY <1>1, <1>2, <2>2, <3>1, <3>2
  <2>3. CASE asked.route = "alert"
    BY <1>1, <1>2, <2>3 DEF Call, Reading
  <2>4. CASE asked.route = "status"
    BY <1>1, <1>2, <2>4 DEF Call, Reading
  <2>5. CASE asked.route = "alerts"
    BY <1>1, <1>2, <2>5 DEF Call, Reading
  <2> QED
    BY <2>1, <2>2, <2>3, <2>4, <2>5
<1>3. CASE call[c] # Call(asked)
  <2>1. call[c].op = "get"
    BY <1>1, <1>3 DEF Serves
  <2> QED
    BY <1>1, <2>1 DEF Reading
<1> QED
  BY <1>2, <1>3

\* What the statements of the thread in the mutex have done to the table, as long as the
\* connection is up.
LEMMA Outcomes ==
  ASSUME ArraysRoundTrip, ServiceTypes, CallsOK, holder # None, link = "open"
  PROVE  \/ /\ holder \in Writers /\ call[holder].op = "insert" /\ call[holder].alert \in Alerts
            /\ outcome = Done(WithRow(db, call[holder].alert), [alert_id |-> db.serial + 1])
         \/ /\ holder \in Clients \cup {Tab} /\ call[holder].op \in Reading
            /\ outcome.db = db
         \/ /\ holder \in Clients /\ call[holder].op = "update"
            /\ call[holder].id \in DOMAIN db.rows /\ call[holder].status \in Statuses
            /\ outcome = Done(WithStatus(db, call[holder].id, call[holder].status), [alert_id |-> call[holder].id])
         \/ /\ holder \in Clients /\ call[holder].op = "update"
            /\ call[holder].id \notin DOMAIN db.rows \/ call[holder].status \notin Statuses
            /\ outcome = Thrown(db)
<1>1. holder \in Threads /\ outcome = Execute(call[holder], db) /\ call[holder] # None /\ DbOK(db)
  BY DEF CallsOK, HolderOK, ServiceTypes
<1>2. CASE holder \in Writers
  <2>1. call[holder].op = "insert" /\ call[holder].alert \in Alerts
    BY <1>1, <1>2 DEF CallsOK, WriterOK
  <2>2. outcome = InsertAlert(db, call[holder].alert)
    BY <1>1, <2>1, Zenon DEF Execute
  <2> QED
    BY <1>1, <1>2, <2>1, <2>2, InsertAdds
<1>3. CASE holder \in Clients \cup {Tab}
  <2>1. ClientOK(holder) /\ TabOK
    BY <1>3 DEF CallsOK
  <2>2. CASE call[holder].op \in Reading
    BY <1>1, <1>3, <2>2, ReadingChangesNothing
  <2>3. CASE call[holder].op \notin Reading
    <3>1. holder \in Clients /\ call[holder].op = "update"
      BY <1>1, <1>3, <2>1, <2>3, ClientCalls
    <3>2. outcome = UpdateStatus(db, call[holder].id, call[holder].status)
      BY <1>1, <3>1, Zenon DEF Execute
    <3> QED
      BY <3>1, <3>2, Zenon DEF UpdateStatus, WithStatus
  <2> QED
    BY <2>2, <2>3
<1> QED
  BY <1>1, <1>2, <1>3 DEF Threads

LEMMA OutcomeSerial ==
  ASSUME ArraysRoundTrip, ServiceTypes, CallsOK, holder # None, link = "open"
  PROVE  outcome.db.serial \in {db.serial, db.serial + 1}
<1>1. DbOK(db)
  BY DEF ServiceTypes
<1>2. ASSUME NEW alert \in Alerts, outcome = Done(WithRow(db, alert), [alert_id |-> db.serial + 1])
      PROVE  outcome.db.serial = db.serial + 1
  BY <1>2 DEF Done, WithRow
<1>3. ASSUME NEW id \in DOMAIN db.rows, NEW status \in Statuses,
             outcome = Done(WithStatus(db, id, status), [alert_id |-> id])
      PROVE  outcome.db.serial = db.serial
  <2>1. outcome.db = WithStatus(db, id, status)
    BY <1>3 DEF Done
  <2>2. WithStatus(db, id, status).serial = db.serial
    BY <1>1, StatusSet
  <2> QED
    BY <2>1, <2>2
<1>4. outcome = Thrown(db) => outcome.db.serial = db.serial
  BY DEF Thrown
<1> QED
  BY <1>2, <1>3, <1>4, Outcomes

\* The transaction that is cut off: it is committed or it is not.
LEMMA CutOffSteps ==
  ASSUME ArraysRoundTrip, ServiceTypes, CallsOK, NEW reached \in BOOLEAN, CutOff(reached),
         reached => link = "open"
  PROVE  TableStep /\ (~reached => Kept) /\ (reached => holder \in Threads /\ call[holder] # None)
<1>1. DbOK(db) /\ db.serial \in Nat /\ (holder = None => outcome = None)
  BY DEF ServiceTypes, DbOK, CallsOK, HolderOK
<1>2. CASE outcome = None
  BY <1>1, <1>2 DEF CutOff, TableStep, Kept
<1>3. CASE outcome # None /\ ~reached
  <2>1. db' = [db EXCEPT !.serial = outcome.db.serial] /\ log' = log
    BY <1>3 DEF CutOff
  <2>2. outcome.db.serial \in Nat /\ outcome.db.serial >= db.serial
    <3>1. CASE link = "open"
      BY <1>1, <1>3, <3>1, OutcomeSerial
    <3>2. CASE link = "broken"
      BY <1>1, <1>3, <3>2 DEF CallsOK, HolderOK
    <3> QED
      BY <3>1, <3>2 DEF ServiceTypes
  <2>3. Kept
    BY <1>1, <2>1, <2>2 DEF Kept, DbOK
  <2> QED
    BY <1>3, <2>3 DEF TableStep
<1>4. CASE outcome # None /\ reached
  <2>1. db' = outcome.db /\ log' = log \o Change(holder) /\ ~outcome.thrown /\ link = "open"
        /\ holder # None /\ holder \in Threads /\ call[holder] # None
    BY <1>1, <1>4 DEF CutOff, CallsOK, HolderOK
  <2>2. TableStep
    <3>1. CASE call[holder].op = "insert" /\ holder \in Writers
      <4>1. call[holder].alert \in Alerts
            /\ outcome = Done(WithRow(db, call[holder].alert), [alert_id |-> db.serial + 1])
        BY <2>1, <3>1, Outcomes DEF Reading
      <4>2. outcome.db = WithRow(db, call[holder].alert) /\ outcome.db.serial = db.serial + 1
        BY <4>1 DEF Done, WithRow
      <4>3. log' = Append(log, [by |-> holder, id |-> db.serial + 1, status |-> "OPEN"])
        BY <2>1, <3>1, <4>2 DEF Change, ServiceTypes
      <4> QED
        BY <2>1, <3>1, <4>1, <4>2, <4>3 DEF TableStep, Adds
    <3>2. CASE call[holder].op \in Reading
      <4>1. outcome.db = db
        BY <2>1, <3>2, Outcomes DEF Reading
      <4>2. log' = log
        BY <2>1, <3>2 DEF Change, ServiceTypes, Reading
      <4> QED
        BY <1>1, <2>1, <4>1, <4>2 DEF TableStep, Kept
    <3>3. CASE call[holder].op = "update" /\ holder \in Clients
      <4>1. call[holder].id \in DOMAIN db.rows /\ call[holder].status \in Statuses
            /\ outcome.db = WithStatus(db, call[holder].id, call[holder].status)
        BY <2>1, <3>3, Outcomes DEF Reading, Done, Thrown
      <4>2. log' = Append(log, [by |-> holder, id |-> call[holder].id, status |-> call[holder].status])
        BY <2>1, <3>3 DEF Change, ServiceTypes
      <4> QED
        BY <2>1, <3>3, <4>1, <4>2 DEF TableStep, Sets
    <3> QED
      BY <2>1, <3>1, <3>2, <3>3, Outcomes
  <2> QED
    BY <1>4, <2>1, <2>2
<1> QED
  BY <1>2, <1>3, <1>4

\* Every step of the service is one of the three.
LEMMA TableSteps ==
  ASSUME ArraysRoundTrip, ServiceTypes, CallsOK, [ServiceNext]_serviceVars
  PROVE  TableStep
<1>0. DbOK(db) /\ db.serial \in Nat
  BY DEF ServiceTypes, DbOK
<1>1. CASE db' = db /\ log' = log
  BY <1>0, <1>1 DEF TableStep, Kept
<1>2. ASSUME NEW t \in Threads, Begin(t) PROVE TableStep
  BY <1>1, <1>2 DEF Begin
<1>3. ASSUME NEW t \in Threads, Commit(t) PROVE TableStep
  <2>1. link = "open" /\ holder = t /\ CutOff(TRUE) /\ holder # None
    BY <1>3, ServiceAssumption DEF Commit, CutOff
  <2> QED
    BY <2>1, CutOffSteps
<1>4. ASSUME NEW t \in Threads, Throw(t) PROVE TableStep
  <2>1. holder = t /\ CutOff(FALSE) /\ log' = log
    BY <1>4 DEF Throw, CutOff
  <2> QED
    BY <2>1, CutOffSteps
<1>5. CASE LoseLink
  BY <1>5, CutOffSteps DEF LoseLink
<1>6. CASE Kill
  <2>1. \E reached \in BOOLEAN : CutOff(reached) /\ (reached => link = "open")
    BY <1>6 DEF Kill
  <2> QED
    BY <2>1, CutOffSteps
<1>7. CASE Start
  BY <1>1, <1>7 DEF Start, ApplySchema
<1>8. ASSUME NEW w \in Writers, Raise(w) PROVE TableStep
  BY <1>1, <1>8 DEF Raise
<1>9. CASE OpenList \/ TurnPage \/ \E c \in Clients : Ask(c)
  <2>1. db' = db /\ log' = log
    BY <1>9 DEF OpenList, TurnPage, Ask, Handle
  <2> QED
    BY <1>1, <2>1
<1>10. CASE ReadPage \/ \E c \in Clients : Read(c)
  <2>1. db' = db /\ log' = log
    BY <1>10 DEF ReadPage, Read
  <2> QED
    BY <1>1, <2>1
<1>11. CASE UNCHANGED serviceVars
  BY <1>1, <1>11 DEF serviceVars
<1> QED
  BY <1>2, <1>3, <1>4, <1>5, <1>6, <1>7, <1>8, <1>9, <1>10, <1>11 DEF ServiceNext, Proceed

\* Of a step of the table: it keeps the rows and their alerts, and the log it has written.
LEMMA TableGrows ==
  ASSUME ServiceTypes, TableStep
  PROVE  /\ DbOK(db') /\ log' \in Seq(LogEntry)
         /\ Len(log) \in Nat /\ Len(log') \in Nat /\ Len(log) <= Len(log')
         /\ \A j \in 1 .. Len(log) : log'[j] = log[j]
         /\ DOMAIN db.rows \subseteq DOMAIN db'.rows
         /\ \A i \in DOMAIN db.rows : db'.rows[i].alert = db.rows[i].alert
<1>1. DbOK(db) /\ log \in Seq(LogEntry) /\ db.serial \in Nat /\ DOMAIN db.rows \subseteq 1 .. db.serial
  BY DEF ServiceTypes, DbOK
<1>2. CASE Kept
  BY <1>1, <1>2 DEF Kept
<1>3. ASSUME NEW w \in Writers, NEW alert \in Alerts, Adds(w, alert)
      PROVE  /\ DbOK(db') /\ log' \in Seq(LogEntry)
             /\ Len(log) \in Nat /\ Len(log') \in Nat /\ Len(log) <= Len(log')
             /\ \A j \in 1 .. Len(log) : log'[j] = log[j]
             /\ DOMAIN db.rows \subseteq DOMAIN db'.rows
             /\ \A i \in DOMAIN db.rows : db'.rows[i].alert = db.rows[i].alert
  <2>1. db' = WithRow(db, alert)
    BY <1>3 DEF Adds
  <2>2. /\ DbOK(db') /\ DOMAIN db.rows \subseteq DOMAIN db'.rows
        /\ \A i \in DOMAIN db.rows : db'.rows[i].alert = db.rows[i].alert
    BY <1>1, <2>1, RowAdded
  <2>3. [by |-> w, id |-> db.serial + 1, status |-> "OPEN"] \in LogEntry
    BY <1>1, ServiceAssumption DEF LogEntry, Threads
  <2> QED
    BY <1>1, <1>3, <2>2, <2>3 DEF Adds
<1>4. ASSUME NEW c \in Clients, NEW id \in DOMAIN db.rows, NEW status \in Statuses, Sets(c, id, status)
      PROVE  /\ DbOK(db') /\ log' \in Seq(LogEntry)
             /\ Len(log) \in Nat /\ Len(log') \in Nat /\ Len(log) <= Len(log')
             /\ \A j \in 1 .. Len(log) : log'[j] = log[j]
             /\ DOMAIN db.rows \subseteq DOMAIN db'.rows
             /\ \A i \in DOMAIN db.rows : db'.rows[i].alert = db.rows[i].alert
  <2>1. db' = WithStatus(db, id, status)
    BY <1>4 DEF Sets
  <2>2. /\ DbOK(WithStatus(db, id, status)) /\ DOMAIN WithStatus(db, id, status).rows = DOMAIN db.rows
        /\ WithStatus(db, id, status).rows[id] = [alert |-> db.rows[id].alert, status |-> status]
        /\ \A i \in DOMAIN db.rows \ {id} : WithStatus(db, id, status).rows[i] = db.rows[i]
    BY <1>1, StatusSet
  <2>5. \A i \in DOMAIN db.rows : WithStatus(db, id, status).rows[i].alert = db.rows[i].alert
    BY <2>2
  <2>3. [by |-> c, id |-> id, status |-> status] \in LogEntry
    BY <1>1 DEF LogEntry, Threads
  <2>4. /\ log' \in Seq(LogEntry) /\ Len(log) \in Nat /\ Len(log') \in Nat /\ Len(log) <= Len(log')
        /\ \A j \in 1 .. Len(log) : log'[j] = log[j]
    BY <1>1, <1>4, <2>3 DEF Sets
  <2> QED
    BY <2>1, <2>2, <2>4, <2>5
<1> QED
  BY <1>2, <1>3, <1>4 DEF TableStep

\* What the log said of an earlier moment it still says.
LEMMA LogKept ==
  ASSUME ServiceTypes, TableStep, NEW k \in 0 .. Len(log)
  PROVE  /\ k \in 0 .. Len(log')
         /\ Inserted(k)' = Inserted(k)
         /\ Ids(log', k) = Ids(log, k)
         /\ \A j, i : LatestChange(log', j, i, k) <=> LatestChange(log, j, i, k)
<1>1. /\ Len(log) \in Nat /\ Len(log') \in Nat /\ Len(log) <= Len(log')
      /\ \A j \in 1 .. Len(log) : log'[j] = log[j]
  BY TableGrows
<1>2. \A j \in 1 .. k : log'[j] = log[j]
  BY <1>1
<1> QED
  BY <1>1, <1>2 DEF Inserted, Ids, LatestChange

-----------------------------------------------------------------------------
\* The threads and their calls

\* A thread's own part of a state.
Own(t) == <<call[t], request[t], reply[t]>>

\* A client that does not move stays where it is.
LEMMA ClientRests ==
  ASSUME ServiceTypes, TableStep, NEW c \in Clients \cup {Tab}, ClientOK(c), UNCHANGED Own(c)
  PROVE  ClientOK(c)'
<1>1. call'[c] = call[c] /\ request'[c] = request[c] /\ reply'[c] = reply[c]
  BY DEF Own
<1>2. Len(log) \in Nat /\ Len(log') \in Nat /\ Len(log) <= Len(log')
  BY TableGrows
<1>3. OpenRequest(c) => OpenRequest(c)'
  BY <1>1, <1>2 DEF OpenRequest
<1>4. OpenRequest(c) /\ Serves(c) => Serves(c)'
  <2>1. OpenRequest(c) => Inserted(request[c].since)' = Inserted(request[c].since)
    <3>1. SUFFICES ASSUME OpenRequest(c) PROVE Inserted(request[c].since)' = Inserted(request[c].since)
      OBVIOUS
    <3>2. request[c].since \in 0 .. Len(log)
      BY <3>1 DEF OpenRequest
    <3>3. \A j \in 1 .. request[c].since : log'[j] = log[j]
      BY <1>2, <3>2, TableGrows
    <3> QED
      BY <1>1, <3>3 DEF Inserted
  <2> QED
    BY <1>1, <2>1 DEF Serves
<1>5. CASE request[c] = [open |-> FALSE]
  BY <1>1, <1>5 DEF ClientOK
<1>6. CASE OpenRequest(c)
  <2>1. request[c].open
    BY <1>6 DEF OpenRequest
  <2>2. reply[c] # None => reply'[c].at \in request'[c].since .. Len(log')
    BY <1>1, <1>2, <1>6 DEF ClientOK, OpenRequest
  <2> QED
    BY <1>1, <1>3, <1>4, <1>6, <2>1, <2>2 DEF ClientOK
<1> QED
  BY <1>5, <1>6 DEF ClientOK

\* A request that arrives is in its handler, or refused at once.
LEMMA HandleKeeps ==
  ASSUME ServiceTypes, NEW c \in Clients \cup {Tab}, ClientOK(c), NEW r, Asked(r), Handle(c, r)
  PROVE  /\ ClientOK(c)' /\ request'[c].asked = r
         /\ \A u \in Threads \ {c} : UNCHANGED Own(u)
<1> DEFINE q == [open |-> TRUE, asked |-> r, since |-> Len(log), changed |-> FALSE, inDoubt |-> FALSE]
<1>1. /\ call = [t \in Threads |-> call[t]] /\ request = [t \in Threads |-> request[t]]
      /\ reply = [t \in Threads |-> reply[t]] /\ c \in Threads /\ Len(log) \in Nat
  BY DEF ServiceTypes, Threads
<1>2. request' = [request EXCEPT ![c] = q] /\ log' = log /\ call[c] = None /\ reply[c] = None
  BY DEF Handle, ClientOK
<1>3. request'[c] = q /\ \A u \in Threads \ {c} : request'[u] = request[u]
  BY <1>1, <1>2
<1>4. OpenRequest(c)'
  <2>1. request'[c] = q /\ q.asked = r /\ q.since = Len(log') /\ q.changed = FALSE /\ q.inDoubt = FALSE
    BY <1>2, <1>3
  <2>2. q = [open |-> TRUE, asked |-> q.asked, since |-> q.since, changed |-> q.changed, inDoubt |-> q.inDoubt]
    OBVIOUS
  <2> HIDE DEF q
  <2>3. Asked(request'[c].asked) /\ Len(log') \in 0 .. Len(log')
    BY <1>1, <1>2, <2>1
  <2>4. request'[c].changed \in BOOLEAN /\ request'[c].inDoubt \in BOOLEAN
    BY <2>1
  <2> QED
    BY <2>1, <2>2, <2>3, <2>4 DEF OpenRequest, Asked
<1>5. CASE Refusal(r) # 0
  <2>1. /\ call' = call
        /\ reply' = [reply EXCEPT ![c] = [code |-> Refusal(r), body |-> None, at |-> Len(log)]]
    BY <1>2, <1>5 DEF Handle, Respond
  <2>2. /\ reply'[c] = [code |-> Refusal(r), body |-> None, at |-> Len(log)]
        /\ \A u \in Threads \ {c} : reply'[u] = reply[u]
    BY <1>1, <2>1
  <2> QED
    BY <1>1, <1>2, <1>3, <1>4, <2>1, <2>2 DEF ClientOK, Own
<1>6. CASE Refusal(r) = 0
  <2>1. call' = [call EXCEPT ![c] = Call(r)] /\ reply' = reply
    BY <1>6 DEF Handle
  <2>2. call'[c] = Call(r) /\ \A u \in Threads \ {c} : call'[u] = call[u]
    BY <1>1, <2>1
  <2>3. Serves(c)'
    BY <1>3, <1>6, <2>2 DEF Serves
  <2> QED
    BY <1>1, <1>2, <1>3, <1>4, <2>1, <2>2, <2>3 DEF ClientOK, Own
<1> QED
  BY <1>5, <1>6

\* The client that commits has its answer, or goes on to the second call of a PATCH.
LEMMA CommitKeeps ==
  ASSUME ArraysRoundTrip, ServiceTypes, CallsOK, NEW c \in Clients \cup {Tab}, Commit(c)
  PROVE  /\ ClientOK(c)' /\ request'[c].asked = request[c].asked /\ request'[c].open
         /\ \A u \in Threads \ {c} : UNCHANGED Own(u)
<1>1. /\ call = [t \in Threads |-> call[t]] /\ request = [t \in Threads |-> request[t]]
      /\ reply = [t \in Threads |-> reply[t]] /\ c \in Threads /\ c \notin Writers /\ c # None
  BY ServiceAssumption DEF ServiceTypes, Threads
<1>2. /\ ClientOK(c) /\ TabOK /\ holder = c /\ link = "open" /\ ~outcome.thrown /\ call[c] # None
      /\ log' = log \o Change(c)
  BY <1>1 DEF CallsOK, HolderOK, Commit
<1>3. request[c].open /\ OpenRequest(c) /\ Serves(c) /\ reply[c] = None
  BY <1>2, ClientCalls DEF ClientOK
<1>4. Continue(c)
  BY <1>1 DEF Commit
<1>5. Len(log) \in Nat /\ Len(log') \in Nat /\ Len(log) <= Len(log')
  BY <1>1, <1>2, TableGrows, TableSteps DEF ServiceNext, Proceed
<1>6. CASE call[c].op = "update"
  <2> DEFINE asked == request[c].asked
  <2>1. call[c] = Call(asked) /\ asked.route = "patch"
    BY <1>2, <1>6, ClientCalls DEF Reading
  <2>2. call[c] = [op |-> "update", id |-> asked.id, status |-> asked.status]
    BY <2>1 DEF Call
  <2>3. /\ call' = [call EXCEPT ![c] = [op |-> "get", id |-> call[c].id]] /\ reply' = reply
        /\ request' = [request EXCEPT ![c].since = Len(log'), ![c].changed = TRUE]
    BY <1>4, <1>6 DEF Continue
  <2>4. /\ call'[c] = [op |-> "get", id |-> asked.id]
        /\ \A u \in Threads \ {c} : UNCHANGED Own(u)
    BY <1>1, <2>2, <2>3 DEF Own
  <2>5. request'[c] = [open |-> TRUE, asked |-> asked, since |-> Len(log'), changed |-> TRUE,
                       inDoubt |-> request[c].inDoubt]
    <3>1. request'[c] = [request[c] EXCEPT !.since = Len(log'), !.changed = TRUE]
      BY <1>1, <2>3
    <3> QED
      BY <1>3, <3>1 DEF OpenRequest
  <2>6. OpenRequest(c)'
    BY <1>3, <1>5, <2>5 DEF OpenRequest
  <2>7. asked.status \in Statuses /\ log' = Append(log, [by |-> c, id |-> asked.id, status |-> asked.status])
    <3>1. outcome # Thrown(db)
      BY <1>2 DEF Thrown
    <3>2. call[c].status \in Statuses
      BY <1>1, <1>2, <1>6, <3>1, Outcomes DEF Reading
    <3> QED
      BY <1>2, <2>2, <3>2 DEF Change, ServiceTypes
  <2>8. asked.id \in {log'[j].id : j \in 1 .. Len(log')}
    <3>1. Len(log') \in 1 .. Len(log') /\ log'[Len(log')].id = asked.id
      BY <1>5, <2>7 DEF ServiceTypes
    <3> QED
      BY <3>1
  <2>9. Serves(c)'
    BY <1>3, <2>1, <2>4, <2>5, <2>7, <2>8 DEF Serves, Inserted
  <2> QED
    BY <1>3, <2>3, <2>4, <2>5, <2>6, <2>9 DEF ClientOK
<1>7. CASE call[c].op # "update"
  <2>1. /\ call' = [call EXCEPT ![c] = None] /\ request' = request
        /\ \E code, body : reply' = [reply EXCEPT ![c] = [code |-> code, body |-> body, at |-> Len(log')]]
    BY <1>4, <1>7 DEF Continue, Respond
  <2>2. PICK code, body : reply' = [reply EXCEPT ![c] = [code |-> code, body |-> body, at |-> Len(log')]]
    BY <2>1
  <2>3. /\ call'[c] = None /\ reply'[c] = [code |-> code, body |-> body, at |-> Len(log')]
        /\ \A u \in Threads \ {c} : UNCHANGED Own(u)
    BY <1>1, <2>1, <2>2 DEF Own
  <2>4. OpenRequest(c)'
    BY <1>3, <1>5, <2>1 DEF OpenRequest
  <2>5. Len(log') \in request'[c].since .. Len(log')
    BY <1>3, <1>5, <2>1 DEF OpenRequest
  <2> QED
    BY <1>3, <2>1, <2>3, <2>4, <2>5 DEF ClientOK
<1> QED
  BY <1>6, <1>7

\* The client that is thrown out of the store has an answer.
LEMMA ThrowKeeps ==
  ASSUME ServiceTypes, CallsOK, TableStep, NEW c \in Clients \cup {Tab}, Throw(c)
  PROVE  /\ ClientOK(c)' /\ request' = request /\ walk' = walk
         /\ holder' = None /\ outcome' = None /\ call'[c] = None
         /\ process' = process /\ process = "running"
         /\ reply'[c] # None => reply'[c].code \in {200, 400, 500}
         /\ \A u \in Threads \ {c} : UNCHANGED Own(u)
<1>1. /\ call = [t \in Threads |-> call[t]] /\ request = [t \in Threads |-> request[t]]
      /\ reply = [t \in Threads |-> reply[t]] /\ c \in Threads /\ c \notin Writers
  BY ServiceAssumption DEF ServiceTypes, Threads
<1>2. ClientOK(c) /\ TabOK /\ holder = c /\ call[c] # None
  BY <1>1, ServiceAssumption DEF CallsOK, HolderOK, Throw
<1>3. request[c].open /\ OpenRequest(c) /\ reply[c] = None
  BY <1>2, ClientCalls DEF ClientOK
<1>4. Len(log) \in Nat /\ Len(log') \in Nat /\ Len(log) <= Len(log')
  BY TableGrows
<1>5. /\ call' = [call EXCEPT ![c] = None] /\ request' = request /\ walk' = walk
      /\ holder' = None /\ outcome' = None /\ process' = process /\ process = "running" /\ log' = log
  BY <1>1 DEF Throw, Released
<1>6. \E code, body : code \in {200, 400, 500} /\ reply' = [reply EXCEPT ![c] = [code |-> code, body |-> body, at |-> Len(log')]]
  BY <1>1 DEF Throw, Respond, FailureCode
<1>7. PICK code, body : code \in {200, 400, 500} /\ reply' = [reply EXCEPT ![c] = [code |-> code, body |-> body, at |-> Len(log')]]
  BY <1>6
<1>8. /\ call'[c] = None /\ reply'[c] = [code |-> code, body |-> body, at |-> Len(log')]
      /\ \A u \in Threads \ {c} : UNCHANGED Own(u)
  BY <1>1, <1>5, <1>7 DEF Own
<1>9. OpenRequest(c)' /\ Len(log') \in request'[c].since .. Len(log')
  BY <1>3, <1>4, <1>5 DEF OpenRequest
<1>10. /\ reply'[c] = [code |-> reply'[c].code, body |-> reply'[c].body, at |-> reply'[c].at]
       /\ reply'[c].at \in request'[c].since .. Len(log')
  BY <1>8, <1>9
<1>11. request'[c].open
  BY <1>3, <1>5
<1>12. ClientOK(c)'
  BY <1>8, <1>9, <1>10, <1>11 DEF ClientOK
<1>13. reply'[c].code \in {200, 400, 500}
  BY <1>7, <1>8
<1> QED
  BY <1>5, <1>8, <1>12, <1>13

\* The threads that do not move.
LEMMA Bystanders ==
  ASSUME ServiceTypes, CallsOK, TableStep, NEW S, \A u \in Threads \ S : UNCHANGED Own(u)
  PROVE  /\ \A w \in Writers \ S : WriterOK(w)'
         /\ \A c \in (Clients \cup {Tab}) \ S : ClientOK(c)'
<1>1. ASSUME NEW w \in Writers \ S PROVE WriterOK(w)'
  <2>1. call'[w] = call[w] /\ request'[w] = request[w] /\ reply'[w] = reply[w]
    BY <1>1 DEF Own, Threads
  <2> QED
    BY <1>1, <2>1 DEF CallsOK, WriterOK
<1>2. ASSUME NEW c \in (Clients \cup {Tab}) \ S PROVE ClientOK(c)'
  <2>1. UNCHANGED Own(c) /\ ClientOK(c)
    BY <1>2 DEF Threads, CallsOK
  <2> QED
    BY <1>2, <2>1, ClientRests
<1> QED
  BY <1>1, <1>2

LEMMA TabRests ==
  ASSUME ServiceTypes, TabOK, TableStep, walk' = walk,
         request'[Tab].open => request[Tab].open /\ request'[Tab].asked = request[Tab].asked
  PROVE  TabOK'
<1>1. Len(log) \in Nat /\ Len(log') \in Nat /\ Len(log) <= Len(log')
  BY TableGrows
<1>2. WalkShape => WalkShape'
  BY <1>1 DEF WalkShape
<1> QED
  BY <1>2 DEF TabOK

\* When the process ends, every thread is gone.
LEMMA EndKeeps ==
  ASSUME Ends
  PROVE  CallsOK'
<1>1. /\ \A t \in Threads : call'[t] = None /\ request'[t] = [open |-> FALSE] /\ reply'[t] = None
      /\ walk' = None /\ process' = "dead" /\ holder' = None /\ outcome' = None
  BY DEF Ends, NoCalls, NoRequests
<1>2. \A w \in Writers : WriterOK(w)'
  BY <1>1 DEF WriterOK, Threads
<1>3. \A c \in Clients \cup {Tab} : ClientOK(c)'
  BY <1>1 DEF ClientOK, Threads
<1>4. TabOK'
  BY <1>1 DEF TabOK, Threads
<1>5. HolderOK'
  BY <1>1 DEF HolderOK, Ends, NoCalls, NoRequests
<1> QED
  BY <1>2, <1>3, <1>4, <1>5 DEF CallsOK

LEMMA HolderRests ==
  ASSUME HolderOK, UNCHANGED <<db, process, link, holder, outcome>>, process = "running",
         holder # None => call'[holder] = call[holder]
  PROVE  HolderOK'
BY DEF HolderOK

\* A request that comes: of a client, or of the tab for its list.
LEMMA RequestKeeps ==
  ASSUME ServiceTypes, CallsOK, TableStep, NEW c \in Clients \cup {Tab}, NEW r, Asked(r), Handle(c, r),
         c = Tab => WalkShape' /\ ~walk'.done /\ r = PageRequest(walk'.filter, walk'.offset),
         c # Tab => walk' = walk
  PROVE  CallsOK'
<1>1. ClientOK(c) /\ HolderOK /\ TabOK /\ c \in Threads /\ c \notin Writers
  BY ServiceAssumption DEF CallsOK, Threads
<1>2. ClientOK(c)' /\ request'[c].asked = r /\ \A u \in Threads \ {c} : UNCHANGED Own(u)
  BY <1>1, HandleKeeps
<1>3. /\ \A w \in Writers : WriterOK(w)'
      /\ \A u \in Clients \cup {Tab} : ClientOK(u)'
  BY <1>1, <1>2, Bystanders
<1>4. TabOK'
  <2>1. CASE c = Tab
    BY <1>2, <2>1 DEF TabOK
  <2>2. CASE c # Tab
    <3>1. request'[Tab] = request[Tab]
      BY <1>2, <2>2 DEF Own, Threads
    <3> QED
      BY <1>1, <2>2, <3>1, TabRests
  <2> QED
    BY <2>1, <2>2
<1>5. HolderOK'
  <2>1. UNCHANGED <<db, process, link, holder, outcome>> /\ process = "running" /\ ~request[c].open
    BY DEF Handle
  <2>2. holder # None => holder # c /\ holder \in Threads
    BY <1>1, <2>1 DEF HolderOK, ClientOK
  <2>3. holder # None => call'[holder] = call[holder]
    BY <1>2, <2>2 DEF Own
  <2> QED
    BY <1>1, <2>1, <2>3, HolderRests
<1> QED
  BY <1>3, <1>4, <1>5 DEF CallsOK

\* A client takes its answer, and the tab its page.
LEMMA AnswerRead ==
  ASSUME ServiceTypes, CallsOK, TableStep, NEW c \in Clients \cup {Tab}, reply[c] # None,
         request' = [request EXCEPT ![c] = [open |-> FALSE]], reply' = [reply EXCEPT ![c] = None],
         UNCHANGED <<db, process, link, holder, outcome, call, log>>,
         c = Tab => walk' = None \/ WalkShape', c # Tab => walk' = walk
  PROVE  CallsOK'
<1>1. /\ call = [t \in Threads |-> call[t]] /\ request = [t \in Threads |-> request[t]]
      /\ reply = [t \in Threads |-> reply[t]] /\ c \in Threads /\ c \notin Writers
      /\ ClientOK(c) /\ HolderOK /\ TabOK
  BY ServiceAssumption DEF ServiceTypes, Threads, CallsOK
<1>2. /\ request'[c] = [open |-> FALSE] /\ reply'[c] = None /\ call'[c] = None
      /\ \A u \in Threads \ {c} : UNCHANGED Own(u)
  BY <1>1 DEF Own, ClientOK
<1>3. ClientOK(c)'
  BY <1>2 DEF ClientOK
<1>4. /\ \A w \in Writers : WriterOK(w)'
      /\ \A u \in Clients \cup {Tab} : ClientOK(u)'
  BY <1>1, <1>2, <1>3, Bystanders
<1>5. process = "running"
  BY <1>1 DEF HolderOK, NoCalls, ServiceTypes
<1>6. HolderOK'
  BY <1>1, <1>5, HolderRests
<1>7. TabOK'
  <2>1. CASE c = Tab
    BY <1>2, <2>1 DEF TabOK
  <2>2. CASE c # Tab
    <3>1. request'[Tab] = request[Tab]
      BY <1>2, <2>2 DEF Own, Threads
    <3> QED
      BY <1>1, <2>2, <3>1, TabRests
  <2> QED
    BY <2>1, <2>2
<1> QED
  BY <1>4, <1>6, <1>7 DEF CallsOK

\* The connection breaks within somebody's transaction, or between two.
LEMMA LinkLost ==
  ASSUME ArraysRoundTrip, ServiceTypes, CallsOK, TableStep, LoseLink
  PROVE  CallsOK'
<1>1. PICK reached \in BOOLEAN :
        /\ CutOff(reached) /\ process = "running" /\ process' = process /\ link = "open" /\ link' = "broken"
        /\ request' = IF reached /\ holder \notin Writers
                      THEN [request EXCEPT ![holder].inDoubt = TRUE, ![holder].changed = TRUE] ELSE request
        /\ UNCHANGED <<holder, outcome, call, reply, walk>>
  BY DEF LoseLink
<1>2. /\ request = [t \in Threads |-> request[t]] /\ HolderOK /\ TabOK /\ DbOK(db) /\ holder \in Threads \cup {None}
      /\ reached => holder # None
  BY <1>1, CutOffSteps, ServiceAssumption DEF ServiceTypes, CallsOK, HolderOK
<1>3. HolderOK'
  <2>1. outcome # None => outcome.db.serial = db'.serial
    BY <1>1, <1>2 DEF CutOff, DbOK
  <2> QED
    BY <1>1, <1>2, <2>1 DEF HolderOK
<1>4. CASE ~(reached /\ holder \notin Writers)
  <2>1. request' = request
    BY <1>1, <1>4
  <2>2. \A u \in Threads \ {} : UNCHANGED Own(u)
    BY <1>1, <2>1 DEF Own
  <2>3. /\ \A w \in Writers : WriterOK(w)'
        /\ \A u \in Clients \cup {Tab} : ClientOK(u)'
    BY <2>2, Bystanders
  <2>4. TabOK'
    BY <1>1, <1>2, <2>1, TabRests
  <2> QED
    BY <1>3, <2>3, <2>4 DEF CallsOK
<1>5. CASE reached /\ holder \notin Writers
  <2>0. PICK c : c = holder
    OBVIOUS
  <2>1. c \in Clients \cup {Tab} /\ ClientOK(c) /\ call[c] # None
    BY <1>2, <1>5, <2>0 DEF Threads, CallsOK, HolderOK
  <2>2. OpenRequest(c) /\ Serves(c) /\ request[c].open /\ reply[c] = None
    BY <1>2, <2>1, ClientCalls DEF ClientOK
  <2>3. request' = [request EXCEPT ![c].inDoubt = TRUE, ![c].changed = TRUE]
    BY <1>1, <1>5, <2>0
  <2>4. request'[c] = [request[c] EXCEPT !.inDoubt = TRUE, !.changed = TRUE]
    BY <1>2, <2>1, <2>3 DEF Threads
  <2>5. request'[c] = [open |-> TRUE, asked |-> request[c].asked, since |-> request[c].since,
                            changed |-> TRUE, inDoubt |-> TRUE]
    BY <2>2, <2>4 DEF OpenRequest
  <2>6. \A u \in Threads \ {c} : UNCHANGED Own(u)
    BY <1>1, <1>2, <2>1, <2>3 DEF Own
  <2>7. Len(log) \in Nat /\ Len(log') \in Nat /\ Len(log) <= Len(log')
    BY TableGrows
  <2>8. OpenRequest(c)'
    <3>1. Asked(request'[c].asked) /\ request'[c].since \in 0 .. Len(log')
      BY <2>2, <2>5, <2>7 DEF OpenRequest
    <3>2. request'[c].changed = TRUE /\ request'[c].inDoubt = TRUE
      BY <2>5
    <3> QED
      BY <2>5, <3>1, <3>2 DEF OpenRequest, Asked
  <2>9. Serves(c)'
    <3>1. request[c].since \in 0 .. Len(log)
      BY <2>2 DEF OpenRequest
    <3>2. \A j \in 1 .. request[c].since : log'[j] = log[j]
      BY <2>7, <3>1, TableGrows
    <3>3. {log'[j].id : j \in 1 .. request[c].since} = Inserted(request[c].since)
      BY <3>2 DEF Inserted
    <3>4. request'[c].asked = request[c].asked /\ request'[c].since = request[c].since
          /\ call'[c] = call[c] /\ request'[c].inDoubt = TRUE
      BY <1>1, <2>5
    <3> QED
      BY <2>2, <3>3, <3>4, Zenon DEF Serves, Inserted
  <2>10. ClientOK(c)'
    BY <1>1, <2>2, <2>5, <2>8, <2>9 DEF ClientOK
  <2>11. /\ \A w \in Writers : WriterOK(w)'
         /\ \A u \in Clients \cup {Tab} : ClientOK(u)'
    <3>1. /\ \A w \in Writers \ {c} : WriterOK(w)'
          /\ \A u \in (Clients \cup {Tab}) \ {c} : ClientOK(u)'
      BY <2>6, Bystanders
    <3> QED
      BY <1>5, <2>0, <2>10, <3>1
  <2>12. TabOK'
    <3>1. request'[Tab].open => request[Tab].open /\ request'[Tab].asked = request[Tab].asked
      BY <2>2, <2>5, <2>6 DEF Own, Threads
    <3> QED
      BY <1>1, <1>2, <3>1, TabRests
  <2> QED
    BY <1>3, <2>11, <2>12 DEF CallsOK
<1> QED
  BY <1>4, <1>5

\* The thread in the mutex leaves it.
LEMMA CommitOrThrowKeeps ==
  ASSUME ArraysRoundTrip, ServiceTypes, CallsOK, TableStep, NEW t \in Threads, Commit(t) \/ Throw(t)
  PROVE  CallsOK'
<1>1. TabOK /\ HolderOK
  BY DEF CallsOK
<1>2. CASE t \in Clients \cup {Tab}
  <2>1. /\ ClientOK(t)' /\ request'[t].asked = request[t].asked
        /\ walk' = walk /\ holder' = None /\ outcome' = None /\ process = "running" /\ process' = process
        /\ \A u \in Threads \ {t} : UNCHANGED Own(u)
    <3>1. CASE Commit(t)
      BY <1>2, <3>1, CommitKeeps DEF Commit, Released
    <3>2. CASE Throw(t)
      BY <1>2, <3>2, ThrowKeeps
    <3> QED
      BY <3>1, <3>2
  <2>2. request[t].open
    BY <1>2, ServiceAssumption DEF Commit, Throw, CallsOK, ClientOK, HolderOK
  <2>3. /\ \A w \in Writers : WriterOK(w)'
        /\ \A u \in Clients \cup {Tab} : ClientOK(u)'
    <3>1. \A u \in Threads \ {t} : UNCHANGED Own(u)
      BY <2>1
    <3>2. /\ \A w \in Writers \ {t} : WriterOK(w)'
          /\ \A u \in (Clients \cup {Tab}) \ {t} : ClientOK(u)'
      BY <3>1, Bystanders
    <3> QED
      BY <1>2, <2>1, ServiceAssumption, <3>2
  <2>4. request'[Tab].open => request[Tab].open /\ request'[Tab].asked = request[Tab].asked
    BY <2>1, <2>2 DEF Own, Threads
  <2>5. TabOK' /\ HolderOK'
    BY <1>1, <2>1, <2>4, TabRests DEF HolderOK
  <2> QED
    BY <2>3, <2>5 DEF CallsOK
<1>3. CASE t \in Writers /\ Throw(t)
  BY <1>3, EndKeeps DEF Throw, Uncaught
<1>4. CASE t \in Writers /\ Commit(t)
  <2>1. /\ call = [u \in Threads |-> call[u]] /\ call' = [call EXCEPT ![t] = None] /\ UNCHANGED <<request, reply>>
        /\ walk' = walk /\ holder' = None /\ outcome' = None /\ process = "running" /\ process' = process
    BY <1>4 DEF Commit, Released, ServiceTypes
  <2>2. call'[t] = None /\ \A u \in Threads \ {t} : UNCHANGED Own(u)
    BY <2>1 DEF Own
  <2>3. WriterOK(t)'
    BY <1>4, <2>1, <2>2 DEF CallsOK, WriterOK
  <2>4. /\ \A w \in Writers : WriterOK(w)'
        /\ \A u \in Clients \cup {Tab} : ClientOK(u)'
    <3>1. \A u \in Threads \ {t} : UNCHANGED Own(u)
      BY <2>2
    <3>2. /\ \A w \in Writers \ {t} : WriterOK(w)'
          /\ \A u \in (Clients \cup {Tab}) \ {t} : ClientOK(u)'
      BY <3>1, Bystanders
    <3> QED
      BY <1>4, <2>2, <2>3, ServiceAssumption, <3>2
  <2>5. TabOK' /\ HolderOK'
    BY <1>1, <2>1, TabRests DEF HolderOK
  <2> QED
    BY <2>4, <2>5 DEF CallsOK
<1> QED
  BY <1>2, <1>3, <1>4 DEF Threads

LEMMA CallsKept ==
  ASSUME ArraysRoundTrip, ServiceTypes, CallsOK, [ServiceNext]_serviceVars
  PROVE  CallsOK'
<1>0. /\ TableStep /\ TabOK /\ HolderOK /\ call = [t \in Threads |-> call[t]]
      /\ \A w \in Writers : WriterOK(w)
      /\ \A c \in Clients \cup {Tab} : ClientOK(c)
  BY TableSteps DEF CallsOK, ServiceTypes
<1>1. ASSUME NEW w \in Writers, Raise(w) PROVE CallsOK'
  <2>1. PICK alert \in Alerts :
          /\ call' = [call EXCEPT ![w] = [op |-> "insert", alert |-> alert]] /\ call[w] = None
          /\ UNCHANGED <<db, process, link, holder, outcome, request, reply, walk>> /\ process = "running"
    BY <1>1 DEF Raise
  <2>2. /\ call'[w] = [op |-> "insert", alert |-> alert]
        /\ \A u \in Threads \ {w} : UNCHANGED Own(u)
    BY <1>0, <2>1 DEF Own, Threads
  <2>3. WriterOK(w)'
    BY <1>0, <2>1, <2>2 DEF WriterOK
  <2>4. /\ \A v \in Writers \ {w} : WriterOK(v)'
        /\ \A u \in (Clients \cup {Tab}) \ {w} : ClientOK(u)'
    BY <1>0, <2>2, Bystanders
  <2>5. HolderOK'
    <3>1. holder # None => call'[holder] = call[holder]
      BY <1>0, <2>1 DEF HolderOK
    <3> QED
      BY <1>0, <2>1, <3>1, HolderRests
  <2>6. TabOK'
    BY <1>0, <2>1, TabRests
  <2> QED
    BY <1>1, <2>3, <2>4, <2>5, <2>6, ServiceAssumption DEF CallsOK
<1>2. ASSUME NEW c \in Clients, Ask(c) PROVE CallsOK'
  <2>1. PICK r \in bounds.asks : Handle(c, r) /\ walk' = walk
    BY <1>2 DEF Ask
  <2>2. Asked(r) /\ c # Tab
    BY RequestsAssumption, ServiceAssumption DEF ServiceTypes, Asked
  <2> QED
    BY <1>0, <2>1, <2>2, RequestKeeps
<1>3. CASE OpenList
  <2>1. PICK filter \in Filters :
          /\ Handle(Tab, PageRequest(filter, 0))
          /\ walk' = [filter |-> filter, offset |-> 0, seen |-> {}, start |-> 0, done |-> FALSE]
    BY <1>3 DEF OpenList
  <2>2. Asked(PageRequest(filter, 0))
    BY ServiceAssumption DEF Asked, PageRequest
  <2>3. Len(log') \in Nat
    BY <1>0, TableGrows
  <2>4. WalkShape' /\ ~walk'.done /\ PageRequest(filter, 0) = PageRequest(walk'.filter, walk'.offset)
    BY <2>1, <2>3 DEF WalkShape, PageRequest
  <2> QED
    BY <1>0, <2>1, <2>2, <2>4, RequestKeeps
<1>4. CASE TurnPage
  <2>1. /\ WalkShape /\ ~walk.done /\ Handle(Tab, PageRequest(walk.filter, walk.offset)) /\ walk' = walk
    BY <1>0, <1>4 DEF TurnPage, TabOK
  <2>2. Asked(PageRequest(walk.filter, walk.offset))
    BY <2>1, ServiceAssumption DEF Asked, PageRequest, WalkShape
  <2>3. Len(log) \in Nat /\ Len(log') \in Nat /\ Len(log) <= Len(log')
    BY <1>0, TableGrows
  <2>4. WalkShape' /\ ~walk'.done /\ PageRequest(walk.filter, walk.offset) = PageRequest(walk'.filter, walk'.offset)
    BY <2>1, <2>3 DEF WalkShape
  <2> QED
    BY <1>0, <2>1, <2>2, <2>4, RequestKeeps
<1>5. ASSUME NEW c \in Clients, Read(c) PROVE CallsOK'
  <2>1. c # Tab
    BY ServiceAssumption
  <2> QED
    BY <1>0, <1>5, <2>1, AnswerRead DEF Read
<1>6. CASE ReadPage
  <2>1. /\ reply[Tab] # None /\ request[Tab].open /\ WalkShape /\ OpenRequest(Tab)
        /\ reply[Tab].at \in request[Tab].since .. Len(log)
    <3>1. reply[Tab] # None /\ ClientOK(Tab)
      BY <1>0, <1>6 DEF ReadPage
    <3>2. request[Tab].open /\ OpenRequest(Tab) /\ reply[Tab].at \in request[Tab].since .. Len(log)
      BY <3>1 DEF ClientOK
    <3> QED
      BY <1>0, <3>1, <3>2 DEF TabOK
  <2>2. Len(log) \in Nat /\ log' = log
    BY <1>0, <1>6, TableGrows DEF ReadPage
  <2>3. CASE reply[Tab].code # 200
    BY <1>0, <1>6, <2>1, <2>3, AnswerRead DEF ReadPage
  <2>4. CASE reply[Tab].code = 200
    <3> DEFINE start == IF walk.offset = 0 THEN reply[Tab].at ELSE walk.start
               seen == walk.seen \cup {a.alert_id : a \in Range(reply[Tab].body.alerts)}
               done == walk.offset + PageSize >= reply[Tab].body.total_count
    <3>1. walk' = [walk EXCEPT !.seen = seen, !.start = start, !.offset = walk.offset + PageSize, !.done = done]
      BY <1>6, <2>4 DEF ReadPage
    <3>2. start \in 0 .. Len(log') /\ walk.offset + PageSize \in Nat /\ done \in BOOLEAN
      BY <2>1, <2>2, ServiceAssumption DEF WalkShape, OpenRequest
    <3> HIDE DEF start, seen, done
    <3>3. walk' = [filter |-> walk.filter, offset |-> walk.offset + PageSize, seen |-> seen, start |-> start, done |-> done]
      BY <2>1, <3>1 DEF WalkShape
    <3>4. WalkShape'
      <4>1. walk'.offset = walk.offset + PageSize /\ walk'.start = start /\ walk'.done = done
        BY <3>3
      <4>2. walk' = [filter |-> walk'.filter, offset |-> walk'.offset, seen |-> walk'.seen,
                     start |-> walk'.start, done |-> walk'.done]
        BY <3>3
      <4> QED
        BY <3>2, <4>1, <4>2, Zenon DEF WalkShape
    <3> QED
      BY <1>0, <1>6, <2>1, <3>4, AnswerRead DEF ReadPage
  <2> QED
    BY <2>3, <2>4
<1>7. ASSUME NEW t \in Threads, Begin(t) PROVE CallsOK'
  <2>1. UNCHANGED <<call, request, reply, walk, db, process, link>> /\ process = "running" /\ call[t] # None
    BY <1>7 DEF Begin
  <2>2. \A u \in Threads \ {} : UNCHANGED Own(u)
    BY <2>1 DEF Own
  <2>3. /\ \A w \in Writers : WriterOK(w)'
        /\ \A u \in Clients \cup {Tab} : ClientOK(u)'
    BY <1>0, <2>2, Bystanders
  <2>4. TabOK'
    BY <1>0, <2>1, TabRests
  <2>5. HolderOK'
    <3>1. holder' = t /\ t # None /\ (link = "open" => outcome' = Execute(call[t], db))
      BY <1>7, ServiceAssumption DEF Begin, Guarded
    <3>2. link = "broken" => outcome' = Thrown(db)
      BY <1>7 DEF Begin
    <3>3. link = "broken" => outcome'.db.serial = db.serial
      BY <3>2 DEF Thrown
    <3> QED
      BY <1>0, <2>1, <3>1, <3>3 DEF HolderOK
  <2> QED
    BY <2>3, <2>4, <2>5 DEF CallsOK
<1>8. ASSUME NEW t \in Threads, Commit(t) \/ Throw(t) PROVE CallsOK'
  BY <1>0, <1>8, CommitOrThrowKeeps
<1>9. CASE LoseLink
  BY <1>0, <1>9, LinkLost
<1>10. CASE Kill
  BY <1>10, EndKeeps DEF Kill
<1>11. CASE Start \/ UNCHANGED serviceVars
  <2>1. UNCHANGED <<call, request, reply, walk, db, holder, outcome>>
    BY <1>11 DEF Start, ApplySchema, serviceVars
  <2>2. \A u \in Threads \ {} : UNCHANGED Own(u)
    BY <2>1 DEF Own
  <2>3. /\ \A w \in Writers : WriterOK(w)'
        /\ \A u \in Clients \cup {Tab} : ClientOK(u)'
    BY <1>0, <2>2, Bystanders
  <2>4. TabOK'
    BY <1>0, <2>1, TabRests
  <2>5. HolderOK'
    <3>1. CASE Start
      BY <1>0, <2>1, <3>1 DEF HolderOK, Start
    <3>2. CASE UNCHANGED serviceVars
      BY <1>0, <3>2 DEF HolderOK, serviceVars
    <3> QED
      BY <1>11, <3>1, <3>2
  <2> QED
    BY <2>3, <2>4, <2>5 DEF CallsOK
<1> QED
  BY <1>1, <1>2, <1>3, <1>4, <1>5, <1>6, <1>7, <1>8, <1>9, <1>10, <1>11 DEF ServiceNext, Proceed

-----------------------------------------------------------------------------
\* The accounts

LEMMA CutOffRows ==
  ASSUME ArraysRoundTrip, ServiceTypes, CallsOK, NEW reached \in BOOLEAN, CutOff(reached),
         reached => link = "open"
  PROVE  \/ DOMAIN db'.rows = DOMAIN db.rows
         \/ /\ reached /\ holder \in Writers /\ outcome # None
            /\ call[holder].op = "insert" /\ call[holder].alert \in Alerts
            /\ db' = WithRow(db, call[holder].alert) /\ outcome.answer = [alert_id |-> db.serial + 1]
<1>0. DbOK(db)
  BY DEF ServiceTypes
<1>1. CASE ~reached
  BY <1>1, CutOffSteps DEF Kept
<1>2. CASE reached
  <2>1. link = "open" /\ holder # None /\ outcome # None /\ ~outcome.thrown /\ db' = outcome.db
    BY <1>2, CutOffSteps, ServiceAssumption DEF CutOff
  <2>2. CASE call[holder].op = "insert"
    <3>1. /\ holder \in Writers /\ call[holder].alert \in Alerts
          /\ outcome = Done(WithRow(db, call[holder].alert), [alert_id |-> db.serial + 1])
      BY <2>1, <2>2, Outcomes DEF Reading
    <3>2. outcome.db = WithRow(db, call[holder].alert) /\ outcome.answer = [alert_id |-> db.serial + 1]
      BY <3>1 DEF Done
    <3> QED
      BY <1>2, <2>1, <2>2, <3>1, <3>2
  <2>3. CASE call[holder].op \in Reading
    BY <2>1, <2>3, Outcomes DEF Reading
  <2>4. CASE call[holder].op = "update"
    <3>1. outcome # Thrown(db)
      BY <2>1 DEF Thrown
    <3>2. /\ call[holder].id \in DOMAIN db.rows /\ call[holder].status \in Statuses
          /\ outcome = Done(WithStatus(db, call[holder].id, call[holder].status), [alert_id |-> call[holder].id])
      BY <2>1, <2>4, <3>1, Outcomes DEF Reading
    <3>3. outcome.db = WithStatus(db, call[holder].id, call[holder].status)
      BY <3>2 DEF Done
    <3>4. DOMAIN WithStatus(db, call[holder].id, call[holder].status).rows = DOMAIN db.rows
      BY <1>0, <3>2, StatusSet, ZenonT(60)
    <3> QED
      BY <2>1, <3>3, <3>4
  <2> QED
    BY <2>1, <2>2, <2>3, <2>4, Outcomes
<1> QED
  BY <1>1, <1>2

\* The sets that are counted are finite, and a writer in the store is in flight.
LEMMA AccountsFinite ==
  ASSUME ServiceTypes, CallsOK
  PROVE  /\ IsFiniteSet(DOMAIN db.rows) /\ IsFiniteSet(Unreturned) /\ Cardinality(Unreturned) \in Nat
         /\ IsFiniteSet({w \in Writers : call[w] # None}) /\ InFlight \in Nat
         /\ IsFiniteSet(returned) /\ Cardinality(returned) \in Nat
         /\ Suspect \in {0, 1} /\ Suspect <= InFlight /\ (holder \in Writers => InFlight >= 1)
<1>1. IsFiniteSet(DOMAIN db.rows)
  <2>1. DOMAIN db.rows \subseteq 1 .. db.serial /\ db.serial \in Nat
    BY DEF ServiceTypes, DbOK
  <2>2. IsFiniteSet(1 .. db.serial)
    BY <2>1, FS_Interval
  <2> QED
    BY <2>1, <2>2, FS_Subset
<1>2. IsFiniteSet(Unreturned) /\ Cardinality(Unreturned) \in Nat
  BY <1>1, FS_Subset, FS_CardinalityType DEF Unreturned
<1>3. IsFiniteSet({w \in Writers : call[w] # None}) /\ InFlight \in Nat
  BY ServiceAssumption, FS_Subset, FS_CardinalityType DEF InFlight
<1>4. IsFiniteSet(returned) /\ Cardinality(returned) \in Nat
  BY FS_CardinalityType DEF ServiceTypes
<1>5. holder \in Writers => InFlight >= 1
  <2>1. holder \in Writers => {w \in Writers : call[w] # None} # {}
    BY ServiceAssumption DEF CallsOK, HolderOK, Threads
  <2>2. {w \in Writers : call[w] # None} # {} => InFlight # 0
    BY <1>3, FS_EmptySet DEF InFlight
  <2> QED
    BY <1>3, <2>1, <2>2
<1>6. Suspect \in {0, 1} /\ Suspect <= InFlight
  BY <1>3, <1>5 DEF Suspect
<1> QED
  BY <1>1, <1>2, <1>3, <1>4, <1>5, <1>6

\* The alerts that were returned keep their rows.
LEMMA ReturnedStay ==
  ASSUME ServiceTypes, AccountsOK, TableStep, returned' = returned
  PROVE  /\ \A r \in returned' : r.id \in DOMAIN db'.rows /\ db'.rows[r.id].alert = r.alert
         /\ \A r, q \in returned' : r.id = q.id => r = q
BY TableGrows DEF AccountsOK

\* A step no writer takes a part in.
LEMMA AccountsRest ==
  ASSUME ServiceTypes, CallsOK, AccountsOK, TableStep, UNCHANGED <<returned, dropped, spent.alerts>>,
         DOMAIN db'.rows = DOMAIN db.rows, \A w \in Writers : call'[w] = call[w],
         Suspect' >= Suspect, Suspect' \in {0, 1}
  PROVE  AccountsOK'
<1>1. InFlight' = InFlight
  <2>1. {w \in Writers : call'[w] # None} = {w \in Writers : call[w] # None}
    OBVIOUS
  <2> QED
    BY <2>1 DEF InFlight
<1>2. Unreturned' = Unreturned
  BY DEF Unreturned
<1>3. Cardinality(Unreturned) \in Nat /\ Suspect \in {0, 1} /\ dropped \in Nat
  BY AccountsFinite DEF ServiceTypes
<1> QED
  BY <1>1, <1>2, <1>3, ReturnedStay DEF AccountsOK

\* The process ends, and the transaction that was open with it.
LEMMA AccountsClosed ==
  ASSUME ArraysRoundTrip, ServiceTypes, CallsOK, AccountsOK, TableStep, UNCHANGED <<returned, spent.alerts>>,
         NEW reached \in BOOLEAN, CutOff(reached), reached => link = "open", Ends
  PROVE  AccountsOK'
<1>1. InFlight' = 0
  <2>1. {w \in Writers : call'[w] # None} = {}
    BY DEF Ends, NoCalls, Threads
  <2> QED
    BY <2>1, FS_EmptySet DEF InFlight
<1>2. dropped' = dropped + InFlight /\ dropped \in Nat /\ Suspect' = 0
  BY ServiceAssumption DEF Ends, ServiceTypes, Suspect, Threads
<1>3. /\ InFlight \in Nat /\ Cardinality(Unreturned) \in Nat /\ Suspect \in {0, 1} /\ Suspect <= InFlight
      /\ (holder \in Writers => InFlight >= 1) /\ IsFiniteSet(Unreturned) /\ Cardinality(returned) \in Nat
  BY AccountsFinite
<1>4. Cardinality(Unreturned') <= dropped' + Suspect'
  <2>1. CASE DOMAIN db'.rows = DOMAIN db.rows
    <3>1. Unreturned' = Unreturned
      BY <2>1 DEF Unreturned
    <3> QED
      BY <1>2, <1>3, <3>1 DEF AccountsOK
  <2>2. CASE DOMAIN db'.rows # DOMAIN db.rows
    <3>1. reached /\ holder \in Writers /\ call[holder].alert \in Alerts /\ db' = WithRow(db, call[holder].alert)
      BY <2>2, CutOffRows
    <3>2. DOMAIN WithRow(db, call[holder].alert).rows = DOMAIN db.rows \cup {db.serial + 1}
      BY <3>1, RowAdded DEF ServiceTypes
    <3>3. IsFiniteSet(Unreturned') /\ Cardinality(Unreturned') <= Cardinality(Unreturned) + 1
      <4>1. Unreturned' \in SUBSET (Unreturned \cup {db.serial + 1})
        BY <3>1, <3>2 DEF Unreturned
      <4>2. IsFiniteSet(Unreturned \cup {db.serial + 1})
            /\ Cardinality(Unreturned \cup {db.serial + 1}) <= Cardinality(Unreturned) + 1
        <5>1. /\ IsFiniteSet(Unreturned \cup {db.serial + 1})
              /\ Cardinality(Unreturned \cup {db.serial + 1}) =
                   IF db.serial + 1 \in Unreturned THEN Cardinality(Unreturned) ELSE Cardinality(Unreturned) + 1
          BY <1>3, FS_AddElement
        <5> QED
          BY <1>3, <5>1
      <4>3. IsFiniteSet(Unreturned') /\ Cardinality(Unreturned') <= Cardinality(Unreturned \cup {db.serial + 1})
        BY <4>1, <4>2, FS_Subset
      <4> QED
        BY <1>3, <4>2, <4>3, FS_CardinalityType
    <3>4. Suspect = 0
      BY <3>1 DEF Suspect
    <3>5. Cardinality(Unreturned') \in Nat
      BY <3>3, FS_CardinalityType
    <3> QED
      BY <1>2, <1>3, <3>1, <3>3, <3>4, <3>5 DEF AccountsOK
  <2> QED
    BY <2>1, <2>2
<1>5. spent'.alerts = Cardinality(returned') + InFlight' + dropped'
  BY <1>1, <1>2, <1>3 DEF AccountsOK
<1> QED
  BY <1>4, <1>5, ReturnedStay DEF AccountsOK

\* An alert is handed to the sink ...
LEMMA AccountsRaised ==
  ASSUME ServiceTypes, CallsOK, AccountsOK, TableStep, NEW w \in Writers, Raise(w)
  PROVE  AccountsOK'
<1> DEFINE flying == {u \in Writers : call[u] # None}
<1>1. PICK alert \in Alerts :
        /\ call' = [call EXCEPT ![w] = [op |-> "insert", alert |-> alert]] /\ call[w] = None
        /\ spent' = [spent EXCEPT !.alerts = @ + 1]
        /\ UNCHANGED <<db, link, holder, returned, dropped>>
  BY DEF Raise
<1>2. call = [t \in Threads |-> call[t]] /\ spent.alerts \in Nat /\ spent'.alerts = spent.alerts + 1
  BY <1>1 DEF ServiceTypes
<1>3. {u \in Writers : call'[u] # None} = flying \cup {w}
  BY <1>1, <1>2, ServiceAssumption DEF Threads
<1>4. IsFiniteSet(flying) /\ InFlight = Cardinality(flying) /\ InFlight \in Nat /\ Cardinality(returned) \in Nat
  BY AccountsFinite DEF InFlight
<1>5. w \notin flying
  BY <1>1
<1> HIDE DEF flying
<1>6. InFlight' = InFlight + 1
  <2>1. Cardinality(flying \cup {w}) = Cardinality(flying) + 1
    BY <1>4, <1>5, FS_AddElement
  <2> QED
    BY <1>3, <1>4, <2>1 DEF InFlight
<1>7. Unreturned' = Unreturned /\ Suspect' = Suspect
  BY <1>1 DEF Unreturned, Suspect
<1>8. dropped \in Nat
  BY DEF ServiceTypes
<1> QED
  BY <1>1, <1>2, <1>4, <1>6, <1>7, <1>8, ReturnedStay DEF AccountsOK

\* ... which returns with its row committed ...
LEMMA AccountsSettled ==
  ASSUME ArraysRoundTrip, ServiceTypes, CallsOK, AccountsOK, TableStep, NEW w \in Writers, Commit(w)
  PROVE  AccountsOK' /\ returned' \subseteq [id : Nat, alert : Alerts]
<1> DEFINE flying == {u \in Writers : call[u] # None}
           id == db.serial + 1
           new == [id |-> id, alert |-> call[w].alert]
<1>1. /\ call' = [call EXCEPT ![w] = None] /\ UNCHANGED <<link, dropped, spent>> /\ holder' = None /\ holder = w
      /\ returned' = returned \cup {[id |-> outcome.answer.alert_id, alert |-> call[w].alert]}
      /\ link = "open" /\ call[w] # None /\ CutOff(TRUE) /\ DbOK(db)
  BY ServiceAssumption DEF Commit, Released, CutOff, ServiceTypes, CallsOK, HolderOK
<1>2. /\ call[w].alert \in Alerts
      /\ db' = WithRow(db, call[w].alert) /\ outcome.answer = [alert_id |-> id]
  <2>1. /\ call[w].alert \in Alerts
        /\ outcome = Done(WithRow(db, call[w].alert), [alert_id |-> id])
    BY <1>1, Outcomes, ServiceAssumption DEF Threads
  <2>2. db' = outcome.db
    BY <1>1 DEF Commit
  <2> QED
    BY <2>1, <2>2 DEF Done
<1>3. /\ returned' = returned \cup {new} /\ db.serial \in Nat /\ id \in Nat
      /\ returned \subseteq [id : Nat, alert : Alerts]
  BY <1>1, <1>2 DEF DbOK, ServiceTypes
<1>4. /\ DOMAIN db'.rows = DOMAIN db.rows \cup {id} /\ id \notin DOMAIN db.rows
      /\ db'.rows[id] = [alert |-> call[w].alert, status |-> "OPEN"]
      /\ \A i \in DOMAIN db.rows : db'.rows[i] = db.rows[i]
  BY <1>1, <1>2, RowAdded
<1>5. new.id = id /\ new.alert = call[w].alert /\ new \in [id : Nat, alert : Alerts]
  BY <1>2, <1>3
<1>6. call = [t \in Threads |-> call[t]] /\ spent.alerts \in Nat
  BY DEF ServiceTypes
<1>7. {u \in Writers : call'[u] # None} = flying \ {w} /\ w \in flying
  BY <1>1, <1>6, ServiceAssumption DEF Threads
<1>8. /\ IsFiniteSet(flying) /\ InFlight = Cardinality(flying) /\ InFlight \in Nat
      /\ IsFiniteSet(returned) /\ Cardinality(returned) \in Nat /\ Cardinality(Unreturned) \in Nat
  BY AccountsFinite DEF InFlight
<1> HIDE DEF flying, id, new
<1>9. new \notin returned
  BY <1>4, <1>5 DEF AccountsOK
<1>10. InFlight' = InFlight - 1
  <2>1. Cardinality(flying \ {w}) = Cardinality(flying) - 1
    BY <1>7, <1>8, FS_RemoveElement
  <2> QED
    BY <1>7, <1>8, <2>1 DEF InFlight
<1>11. Cardinality(returned') = Cardinality(returned) + 1
  <2>1. Cardinality(returned \cup {new}) = Cardinality(returned) + 1
    BY <1>8, <1>9, FS_AddElement
  <2> QED
    BY <1>3, <2>1
<1>12. Unreturned' = Unreturned
  <2>1. {r.id : r \in returned'} = {r.id : r \in returned} \cup {id}
    BY <1>3, <1>5
  <2>2. \A r \in returned : r.id # id
    BY <1>4 DEF AccountsOK
  <2> QED
    BY <1>4, <2>1, <2>2 DEF Unreturned
<1>13. Suspect' = 0 /\ Suspect = 0 /\ dropped \in Nat
  BY <1>1 DEF Suspect, ServiceTypes
<1>14. /\ \A r \in returned' : r.id \in DOMAIN db'.rows /\ db'.rows[r.id].alert = r.alert
       /\ \A r, q \in returned' : r.id = q.id => r = q
  <2>1. \A r \in returned : r.id \in DOMAIN db.rows /\ db.rows[r.id].alert = r.alert /\ r.id # id
    BY <1>4 DEF AccountsOK
  <2>2. \A r \in returned' : r.id \in DOMAIN db'.rows /\ db'.rows[r.id].alert = r.alert
    BY <1>3, <1>4, <1>5, <2>1
  <2>3. \A r, q \in returned' : r.id = q.id => r = q
    BY <1>3, <1>5, <2>1 DEF AccountsOK
  <2> QED
    BY <2>2, <2>3
<1>15. spent'.alerts = Cardinality(returned') + InFlight' + dropped'
  BY <1>1, <1>6, <1>8, <1>10, <1>11, <1>13 DEF AccountsOK
<1>16. Cardinality(Unreturned') <= dropped' + Suspect'
  BY <1>1, <1>8, <1>12, <1>13 DEF AccountsOK
<1> QED
  BY <1>3, <1>5, <1>14, <1>15, <1>16 DEF AccountsOK

\* ... or is in doubt when the connection breaks.
LEMMA AccountsInDoubt ==
  ASSUME ArraysRoundTrip, ServiceTypes, CallsOK, AccountsOK, TableStep, LoseLink
  PROVE  AccountsOK'
<1>1. PICK reached \in BOOLEAN :
        /\ CutOff(reached) /\ link = "open" /\ link' = "broken"
        /\ UNCHANGED <<holder, call, returned, dropped>> /\ spent' = [spent EXCEPT !.losses = @ + 1]
  BY DEF LoseLink
<1>2. spent'.alerts = spent.alerts /\ DbOK(db) /\ dropped \in Nat
  BY <1>1 DEF ServiceTypes
<1>3. Suspect = 0 /\ Suspect' = IF holder \in Writers THEN 1 ELSE 0
  BY <1>1 DEF Suspect
<1>4. CASE DOMAIN db'.rows = DOMAIN db.rows
  <2>1. Suspect' >= Suspect /\ Suspect' \in {0, 1}
    BY <1>3
  <2>2. \A w \in Writers : call'[w] = call[w]
    BY <1>1
  <2> QED
    BY <1>1, <1>2, <1>4, <2>1, <2>2, AccountsRest
<1>5. CASE DOMAIN db'.rows # DOMAIN db.rows
  <2>1. holder \in Writers /\ call[holder].alert \in Alerts /\ db' = WithRow(db, call[holder].alert)
    BY <1>1, <1>5, CutOffRows
  <2>2. DOMAIN db'.rows = DOMAIN db.rows \cup {db.serial + 1}
    BY <1>2, <2>1, RowAdded
  <2>3. IsFiniteSet(Unreturned) /\ Cardinality(Unreturned) \in Nat
    BY AccountsFinite
  <2>4. Unreturned' \in SUBSET (Unreturned \cup {db.serial + 1})
    BY <1>1, <2>2 DEF Unreturned
  <2>5. /\ IsFiniteSet(Unreturned \cup {db.serial + 1})
        /\ Cardinality(Unreturned \cup {db.serial + 1}) =
             IF db.serial + 1 \in Unreturned THEN Cardinality(Unreturned) ELSE Cardinality(Unreturned) + 1
    BY <2>3, FS_AddElement
  <2>6. IsFiniteSet(Unreturned') /\ Cardinality(Unreturned') <= Cardinality(Unreturned \cup {db.serial + 1})
    BY <2>4, <2>5, FS_Subset
  <2>7. Cardinality(Unreturned') \in Nat
    BY <2>6, FS_CardinalityType
  <2>8. Cardinality(Unreturned') <= dropped' + Suspect'
    BY <1>1, <1>2, <1>3, <2>1, <2>3, <2>5, <2>6, <2>7 DEF AccountsOK
  <2>9. InFlight' = InFlight
    BY <1>1 DEF InFlight
  <2> QED
    BY <1>1, <1>2, <2>8, <2>9, ReturnedStay DEF AccountsOK
<1> QED
  BY <1>4, <1>5

LEMMA AccountsKept ==
  ASSUME ArraysRoundTrip, ServiceTypes, CallsOK, AccountsOK, [ServiceNext]_serviceVars
  PROVE  AccountsOK'
<1>0. /\ TableStep /\ HolderOK /\ call = [t \in Threads |-> call[t]] /\ Suspect \in {0, 1}
      /\ spent \in [alerts : Nat, requests : Nat, walks : Nat, losses : Nat, kills : Nat]
      /\ Tab \notin Writers /\ \A c \in Clients : c \notin Writers
  BY TableSteps, AccountsFinite, ServiceAssumption DEF CallsOK, ServiceTypes
<1>1. ASSUME NEW w \in Writers, Raise(w) PROVE AccountsOK'
  BY <1>0, <1>1, AccountsRaised
<1>2. ASSUME NEW c \in Clients \cup {Tab}, NEW r, Handle(c, r), spent'.alerts = spent.alerts PROVE AccountsOK'
  <2>1. \A w \in Writers : call'[w] = call[w]
    <3>1. call' = call \/ \E m : call' = [call EXCEPT ![c] = m]
      BY <1>2 DEF Handle
    <3> QED
      BY <1>0, <1>2, <3>1 DEF Threads
  <2>2. UNCHANGED <<db, link, holder, returned, dropped>>
    BY <1>2 DEF Handle
  <2>3. Suspect' = Suspect
    BY <2>2 DEF Suspect
  <2> QED
    BY <1>0, <1>2, <2>1, <2>2, <2>3, AccountsRest
<1>3. ASSUME NEW c \in Clients, Ask(c) PROVE AccountsOK'
  <2>1. spent'.alerts = spent.alerts /\ \E r : Handle(c, r)
    BY <1>0, <1>3 DEF Ask
  <2> QED
    BY <1>2, <2>1
<1>4. CASE OpenList \/ TurnPage
  <2>1. spent'.alerts = spent.alerts /\ \E r : Handle(Tab, r)
    BY <1>0, <1>4 DEF OpenList, TurnPage
  <2> QED
    BY <1>2, <2>1
<1>5. CASE \/ ReadPage \/ UNCHANGED serviceVars
           \/ \E c \in Clients : Read(c)
  <2>1. UNCHANGED <<db, link, holder, returned, dropped, call, spent>>
    BY <1>5 DEF ReadPage, Read, serviceVars
  <2>2. Suspect' = Suspect
    BY <2>1 DEF Suspect
  <2>3. \A w \in Writers : call'[w] = call[w]
    BY <2>1
  <2> QED
    BY <1>0, <2>1, <2>2, <2>3, AccountsRest
<1>6. ASSUME NEW t \in Threads, Begin(t) PROVE AccountsOK'
  <2>1. UNCHANGED <<db, link, returned, dropped, call, spent>> /\ holder = None
    BY <1>6 DEF Begin, Guarded
  <2>2. Suspect = 0 /\ Suspect' \in {0, 1}
    BY <2>1, ServiceAssumption DEF Suspect, Threads
  <2>3. \A w \in Writers : call'[w] = call[w]
    BY <2>1
  <2> QED
    BY <1>0, <2>1, <2>2, <2>3, AccountsRest
<1>7. ASSUME NEW t \in Writers, Commit(t) PROVE AccountsOK'
  BY <1>0, <1>7, AccountsSettled
<1>8. ASSUME NEW t \in Writers, Throw(t) PROVE AccountsOK'
  <2>1. CutOff(FALSE) /\ Ends /\ UNCHANGED <<returned, spent>>
    BY <1>8 DEF Throw, Uncaught, CutOff
  <2> QED
    BY <1>0, <2>1, AccountsClosed
<1>9. ASSUME NEW t \in Clients \cup {Tab}, Commit(t) \/ Throw(t) PROVE AccountsOK'
  <2>1. t \notin Writers /\ holder = t /\ holder' = None
    BY <1>0, <1>9 DEF Commit, Throw, Released
  <2>2. UNCHANGED <<link, returned, dropped, spent>>
    BY <1>9, <2>1 DEF Commit, Throw
  <2>3. DOMAIN db'.rows = DOMAIN db.rows
    <3>1. CASE Commit(t)
      <4>1. CutOff(TRUE) /\ link = "open"
        BY <3>1, <2>1, ServiceAssumption DEF Commit, CutOff
      <4> QED
        BY <2>1, <4>1, CutOffRows
    <3>2. CASE Throw(t)
      <4>1. CutOff(FALSE)
        BY <2>1, <3>2 DEF Throw, CutOff
      <4> QED
        BY <4>1, CutOffRows
    <3> QED
      BY <1>9, <3>1, <3>2
  <2>4. Suspect = 0 /\ Suspect' = 0
    BY <2>1, ServiceAssumption DEF Suspect, Threads
  <2>5. \A w \in Writers : call'[w] = call[w]
    <3>1. \E m : call' = [call EXCEPT ![t] = m]
      BY <1>9, <2>1 DEF Commit, Throw, Continue
    <3> QED
      BY <1>0, <2>1, <3>1
  <2> QED
    BY <1>0, <2>2, <2>3, <2>4, <2>5, AccountsRest
<1>10. CASE LoseLink
  BY <1>0, <1>10, AccountsInDoubt
<1>11. CASE Kill
  <2>1. /\ \E reached \in BOOLEAN : CutOff(reached) /\ (reached => link = "open")
        /\ Ends /\ returned' = returned /\ spent'.alerts = spent.alerts
    BY <1>0, <1>11 DEF Kill
  <2> QED
    BY <1>0, <2>1, AccountsClosed
<1>12. CASE Start
  <2>1. UNCHANGED <<db, holder, returned, dropped, call, spent>> /\ holder = None
    BY <1>0, <1>12 DEF Start, ApplySchema, HolderOK
  <2>2. Suspect = 0 /\ Suspect' = 0
    BY <2>1, ServiceAssumption DEF Suspect, Threads
  <2>3. \A w \in Writers : call'[w] = call[w]
    BY <2>1
  <2> QED
    BY <1>0, <2>1, <2>2, <2>3, AccountsRest
<1> QED
  BY <1>1, <1>3, <1>4, <1>5, <1>6, <1>7, <1>8, <1>9, <1>10, <1>11, <1>12 DEF ServiceNext, Proceed, Threads

LEMMA TypesKept ==
  ASSUME ArraysRoundTrip, ServiceTypes, CallsOK, AccountsOK, [ServiceNext]_serviceVars
  PROVE  ServiceTypes'
<1>0. TableStep /\ InFlight \in Nat
  BY TableSteps, AccountsFinite
<1>1. DbOK(db') /\ log' \in Seq(LogEntry)
  BY <1>0, TableGrows
<1> DEFINE Functions ==
      /\ call' = [t \in Threads |-> call'[t]]
      /\ request' = [t \in Threads |-> request'[t]]
      /\ reply' = [t \in Threads |-> reply'[t]]
    Modes == process' \in {"running", "dead"} /\ link' \in {"open", "broken"}
    Counts == /\ dropped' \in Nat
              /\ spent' \in [alerts : Nat, requests : Nat, walks : Nat, losses : Nat, kills : Nat]
              /\ bounds' \in Bounds
    Receipts == returned' \subseteq [id : Nat, alert : Alerts] /\ IsFiniteSet(returned')
<1> USE DEF ServiceTypes
<1>2. ASSUME NEW w \in Writers, Raise(w) PROVE ServiceTypes'
  BY <1>1, <1>2 DEF Raise
<1>3. ASSUME NEW c, NEW r, Handle(c, r) PROVE Functions /\ Modes /\ Receipts /\ dropped' = dropped
  BY <1>3 DEF Handle, Respond
<1>4. ASSUME NEW c \in Clients, Ask(c) PROVE ServiceTypes'
  <2>1. /\ \E r : Handle(c, r)
        /\ spent' = [spent EXCEPT !.requests = @ + 1] /\ bounds' = bounds
    BY <1>4 DEF Ask
  <2>2. Functions /\ Modes /\ Receipts /\ dropped' = dropped
    BY <1>3, <2>1
  <2>3. spent' \in [alerts : Nat, requests : Nat, walks : Nat, losses : Nat, kills : Nat]
    BY <2>1
  <2> QED
    BY <1>1, <2>1, <2>2, <2>3
<1>5. CASE OpenList \/ TurnPage
  <2>1. /\ \E r : Handle(Tab, r)
        /\ spent' = [spent EXCEPT !.walks = @ + 1] \/ spent' = spent
        /\ bounds' = bounds
    BY <1>5 DEF OpenList, TurnPage
  <2>2. Functions /\ Modes /\ Receipts /\ dropped' = dropped
    BY <1>3, <2>1
  <2>3. spent' \in [alerts : Nat, requests : Nat, walks : Nat, losses : Nat, kills : Nat]
    BY <2>1
  <2> QED
    BY <1>1, <2>1, <2>2, <2>3
<1>6. CASE ReadPage \/ \E c \in Clients : Read(c)
  BY <1>1, <1>6 DEF ReadPage, Read
<1>7. CASE UNCHANGED serviceVars
  BY <1>1, <1>7 DEF serviceVars
<1>8. ASSUME NEW t \in Threads, Begin(t) PROVE ServiceTypes'
  BY <1>1, <1>8 DEF Begin
<1>9. ASSUME NEW t \in Writers, Commit(t) PROVE ServiceTypes'
  <2>1. returned' \subseteq [id : Nat, alert : Alerts]
    BY <1>0, <1>9, AccountsSettled
  <2>2. IsFiniteSet(returned')
    <3>1. returned' = returned \cup {[id |-> outcome.answer.alert_id, alert |-> call[t].alert]}
      BY <1>9 DEF Commit
    <3> QED
      BY <3>1, FS_AddElement
  <2>3. /\ call' = [call EXCEPT ![t] = None] /\ UNCHANGED <<request, reply, process, link, dropped, bounds, spent>>
    BY <1>9 DEF Commit
  <2> QED
    BY <1>1, <2>1, <2>2, <2>3
<1>10. ASSUME NEW t \in Clients \cup {Tab}, Commit(t) PROVE ServiceTypes'
  <2>1. t \notin Writers
    BY ServiceAssumption
  <2>2. Continue(t) /\ UNCHANGED <<returned, process, link, dropped, bounds, spent>>
    BY <1>10, <2>1 DEF Commit
  <2>3. Functions
    BY <2>2 DEF Continue, Respond
  <2> QED
    BY <1>1, <2>2, <2>3
<1>11. ASSUME Ends PROVE Functions /\ process' = "dead" /\ dropped' \in Nat
  BY <1>0, <1>11 DEF Ends, NoCalls, NoRequests
<1>12. ASSUME NEW t \in Threads, Throw(t) PROVE ServiceTypes'
  <2>1. UNCHANGED <<link, returned, bounds, spent>>
    BY <1>12 DEF Throw
  <2>2. CASE t \in Writers
    BY <1>1, <1>11, <1>12, <2>1, <2>2 DEF Throw, Uncaught
  <2>3. CASE t \notin Writers
    BY <1>1, <1>12, <2>1, <2>3 DEF Throw, Respond
  <2> QED
    BY <2>2, <2>3
<1>13. CASE LoseLink
  <2>1. /\ request' = request
           \/ request' = [request EXCEPT ![holder].inDoubt = TRUE, ![holder].changed = TRUE]
        /\ link' = "broken" /\ spent' = [spent EXCEPT !.losses = @ + 1]
        /\ UNCHANGED <<bounds, process, call, reply, returned, dropped>>
    BY <1>13 DEF LoseLink
  <2>2. spent' \in [alerts : Nat, requests : Nat, walks : Nat, losses : Nat, kills : Nat]
    BY <2>1
  <2>3. request' = [t \in Threads |-> request'[t]]
    BY <2>1
  <2> QED
    BY <1>1, <2>1, <2>2, <2>3
<1>14. CASE Kill
  <2>1. Ends /\ spent' = [spent EXCEPT !.kills = @ + 1] /\ UNCHANGED <<bounds, link, returned>>
    BY <1>14 DEF Kill
  <2>2. spent' \in [alerts : Nat, requests : Nat, walks : Nat, losses : Nat, kills : Nat]
    BY <2>1
  <2>3. Functions /\ process' = "dead" /\ dropped' \in Nat
    BY <1>11, <2>1
  <2> QED
    BY <1>1, <2>1, <2>2, <2>3
<1>15. CASE Start
  BY <1>1, <1>15 DEF Start
<1> QED
  BY <1>2, <1>4, <1>5, <1>6, <1>7, <1>8, <1>9, <1>10, <1>12, <1>13, <1>14, <1>15 DEF ServiceNext, Proceed, Threads

\* Every alert a detector handed to the sink is in the table once, under the id on_alert was
\* given, or it was in on_alert when the process ended.
LEMMA AccountsAgree ==
  ASSUME ServiceTypes, CallsOK, AccountsOK
  PROVE  EveryAlertAccounted
<1> DEFINE ids == {r.id : r \in returned}
<1>1. TableOK
  <2>1. \A i \in DOMAIN db.rows : db.rows[i] \in Row
    BY DEF ServiceTypes, DbOK
  <2> QED
    BY <2>1 DEF ServiceTypes, DbOK, CallsOK, HolderOK, TableOK, Row
<1>2. /\ IsFiniteSet(Unreturned) /\ Cardinality(Unreturned) \in Nat /\ IsFiniteSet(DOMAIN db.rows)
      /\ IsFiniteSet(returned) /\ Cardinality(returned) \in Nat /\ Suspect <= InFlight /\ InFlight \in Nat
      /\ Suspect \in {0, 1} /\ dropped \in Nat
  BY AccountsFinite DEF ServiceTypes
<1>3. IsFiniteSet(ids) /\ Cardinality(ids) <= Cardinality(returned) /\ Cardinality(ids) \in Nat
  <2>1. [r \in returned |-> r.id] \in Surjection(returned, ids)
    BY DEF Surjection
  <2> QED
    BY <1>2, <2>1, FS_Surjection, FS_CardinalityType
<1>4. DOMAIN db.rows \in SUBSET (Unreturned \cup ids)
  BY DEF Unreturned
<1> HIDE DEF ids
<1>5. /\ IsFiniteSet(Unreturned \cup ids)
      /\ Cardinality(Unreturned \cup ids) <= Cardinality(Unreturned) + Cardinality(ids)
  <2>1. /\ IsFiniteSet(Unreturned \cup ids)
        /\ Cardinality(Unreturned \cup ids) =
             Cardinality(Unreturned) + Cardinality(ids) - Cardinality(Unreturned \cap ids)
    BY <1>2, <1>3, FS_Union
  <2>2. Cardinality(Unreturned \cap ids) \in Nat
    BY <1>2, FS_Subset, FS_CardinalityType
  <2> QED
    BY <1>2, <1>3, <2>1, <2>2
<1>6. Cardinality(DOMAIN db.rows) <= Cardinality(Unreturned \cup ids)
  BY <1>4, <1>5, FS_Subset
<1>7. Cardinality(DOMAIN db.rows) \in Nat /\ Cardinality(Unreturned \cup ids) \in Nat
  BY <1>2, <1>5, FS_CardinalityType
<1>8. Cardinality(DOMAIN db.rows) <= Cardinality(returned) + InFlight + dropped
  BY <1>2, <1>3, <1>5, <1>6, <1>7 DEF AccountsOK
<1> QED
  BY <1>1, <1>8 DEF EveryAlertAccounted, AccountsOK
-----------------------------------------------------------------------------
\* The log

\* m is the log l of n changes with one more behind them: what that makes of the first and the
\* last change of a row.
Behind(l, n, e, m) ==
  /\ n \in Nat /\ Len(m) = n + 1 /\ DOMAIN l = 1 .. n /\ DOMAIN m = 1 .. n + 1
  /\ m[n + 1] = e /\ \A j \in 1 .. n : m[j] = l[j] /\ l[j].id \in Ids(l, n)
  /\ Ids(m, n + 1) = Ids(l, n) \cup {e.id}
  /\ \A i : LatestChange(m, n + 1, i, n + 1) <=> i = e.id
  /\ \A i, j : i # e.id /\ LatestChange(l, j, i, n) => LatestChange(m, j, i, n + 1)
  /\ \A i : \A j \in 1 .. n : LatestChange(m, j, i, n + 1) => i # e.id /\ LatestChange(l, j, i, n)
  /\ \A i : \A j \in 1 .. n : IsFirst(m, j, i) <=> IsFirst(l, j, i)
  /\ \A i : IsFirst(m, n + 1, i) <=> i = e.id /\ i \notin Ids(l, n)

LEMMA EntryAppended ==
  ASSUME NEW l \in Seq(LogEntry), NEW e \in LogEntry, NEW m, m = Append(l, e), NEW n, n = Len(l)
  PROVE  Behind(l, n, e, m)
<1>1. /\ n \in Nat /\ Len(m) = n + 1 /\ m[n + 1] = e /\ \A j \in 1 .. n : m[j] = l[j]
      /\ DOMAIN l = 1 .. n /\ DOMAIN m = 1 .. n + 1
  OBVIOUS
<1>2. Ids(m, n + 1) = Ids(l, n) \cup {e.id} /\ \A j \in 1 .. n : l[j].id \in Ids(l, n)
  <2>1. 1 .. n + 1 = (1 .. n) \cup {n + 1}
    BY <1>1
  <2>2. {m[j].id : j \in (1 .. n) \cup {n + 1}} = {l[j].id : j \in 1 .. n} \cup {e.id}
    BY <1>1
  <2> QED
    BY <2>1, <2>2 DEF Ids
<1>3. ASSUME NEW i PROVE LatestChange(m, n + 1, i, n + 1) <=> i = e.id
  BY <1>1 DEF LatestChange
<1>4. ASSUME NEW i, NEW j, i # e.id, LatestChange(l, j, i, n) PROVE LatestChange(m, j, i, n + 1)
  <2>1. j \in 1 .. n /\ l[j].id = i /\ \A h \in j + 1 .. n : l[h].id # i
    BY <1>4 DEF LatestChange
  <2>2. \A h \in j + 1 .. n + 1 : h \in j + 1 .. n \/ h = n + 1
    BY <1>1, <2>1
  <2>3. \A h \in j + 1 .. n : h \in 1 .. n
    BY <1>1, <2>1
  <2> QED
    BY <1>1, <1>4, <2>1, <2>2, <2>3 DEF LatestChange
<1>5. ASSUME NEW i, NEW j \in 1 .. n, LatestChange(m, j, i, n + 1) PROVE i # e.id /\ LatestChange(l, j, i, n)
  <2>1. m[j].id = i /\ \A h \in j + 1 .. n + 1 : m[h].id # i
    BY <1>1, <1>5 DEF LatestChange
  <2>2. n + 1 \in j + 1 .. n + 1 /\ \A h \in j + 1 .. n : h \in j + 1 .. n + 1 /\ h \in 1 .. n
    BY <1>1
  <2> QED
    BY <1>1, <2>1, <2>2 DEF LatestChange
<1>6. ASSUME NEW i, NEW j \in 1 .. n PROVE IsFirst(m, j, i) <=> IsFirst(l, j, i)
  <2>1. \A h \in 1 .. j - 1 : h \in 1 .. n
    BY <1>1
  <2> QED
    BY <1>1, <2>1 DEF IsFirst
<1>7. ASSUME NEW i PROVE IsFirst(m, n + 1, i) <=> i = e.id /\ i \notin Ids(l, n)
  <2>1. n + 1 \in DOMAIN m /\ n + 1 - 1 = n
    BY <1>1
  <2> QED
    BY <1>1, <2>1 DEF IsFirst, Ids
<1> QED
  BY <1>1, <1>2, <1>3, <1>4, <1>5, <1>6, <1>7 DEF Behind

\* The table is what the log makes of it after one more change.
LEMMA LogExtended ==
  ASSUME NEW d, NEW f, NEW l \in Seq(LogEntry), NEW e \in LogEntry, NEW m, m = Append(l, e), Records(d, l),
         DOMAIN f.rows = DOMAIN d.rows \cup {e.id}, f.rows[e.id].status = e.status,
         \A i \in DOMAIN d.rows \ {e.id} : f.rows[i] = d.rows[i],
         \/ e.id \in DOMAIN d.rows /\ e.by \in Clients
         \/ e.id \notin DOMAIN d.rows /\ e.status = "OPEN" /\ \A i \in DOMAIN d.rows : i < e.id
  PROVE  Records(f, m)
<1>0. PICK n : n = Len(l)
  OBVIOUS
<1>1. /\ n \in Nat /\ Len(m) = n + 1 /\ DOMAIN l = 1 .. n /\ DOMAIN m = 1 .. n + 1
      /\ m[n + 1] = e /\ \A j \in 1 .. n : m[j] = l[j] /\ l[j].id \in Ids(l, n)
      /\ Ids(m, n + 1) = Ids(l, n) \cup {e.id}
      /\ \A i : LatestChange(m, n + 1, i, n + 1) <=> i = e.id
      /\ \A i, j : i # e.id /\ LatestChange(l, j, i, n) => LatestChange(m, j, i, n + 1)
      /\ \A i : \A j \in 1 .. n : LatestChange(m, j, i, n + 1) => i # e.id /\ LatestChange(l, j, i, n)
      /\ \A i : \A j \in 1 .. n : IsFirst(m, j, i) <=> IsFirst(l, j, i)
      /\ \A i : IsFirst(m, n + 1, i) <=> i = e.id /\ i \notin Ids(l, n)
  <2>1. Behind(l, n, e, m)
    BY <1>0, EntryAppended
  <2> QED
    BY <2>1 DEF Behind
<1>2. /\ DOMAIN d.rows = Ids(l, n)
      /\ \A k \in 0 .. n : \A i \in Ids(l, k) : \E j \in 1 .. k : LatestChange(l, j, i, k)
      /\ \A j \in 1 .. n : LatestChange(l, j, l[j].id, n) => d.rows[l[j].id].status = l[j].status
      /\ \A i \in DOMAIN d.rows : \E j \in 1 .. n : IsFirst(l, j, i)
      /\ \A j, h \in 1 .. n : j < h /\ IsFirst(l, h, l[h].id) => l[j].id < l[h].id
      /\ \A j \in 1 .. n : l[j].by \notin Clients => IsFirst(l, j, l[j].id) /\ l[j].status = "OPEN"
  BY <1>0, <1>1 DEF Records
<1>4. \A k \in 0 .. n : Ids(m, k) = Ids(l, k) /\ \A j, i : LatestChange(m, j, i, k) <=> LatestChange(l, j, i, k)
  <2>1. SUFFICES ASSUME NEW k \in 0 .. n
                 PROVE  Ids(m, k) = Ids(l, k) /\ \A j, i : LatestChange(m, j, i, k) <=> LatestChange(l, j, i, k)
    OBVIOUS
  <2>2. \A j \in 1 .. k : m[j] = l[j]
    BY <1>1
  <2> QED
    BY <1>1, <2>2 DEF Ids, LatestChange
<1>6. \A k \in 0 .. n + 1 : \A i \in Ids(m, k) : \E j \in 1 .. k : LatestChange(m, j, i, k)
  <2>1. ASSUME NEW k \in 0 .. n, NEW i \in Ids(m, k) PROVE \E j \in 1 .. k : LatestChange(m, j, i, k)
    BY <1>2, <1>4, <2>1
  <2>2. ASSUME NEW i \in Ids(m, n + 1) PROVE \E j \in 1 .. n + 1 : LatestChange(m, j, i, n + 1)
    <3>1. CASE i = e.id
      BY <1>1, <3>1
    <3>2. CASE i # e.id
      <4>1. PICK j \in 1 .. n : LatestChange(l, j, i, n)
        BY <1>1, <1>2, <2>2, <3>2
      <4> QED
        BY <1>1, <3>2, <4>1
    <3> QED
      BY <3>1, <3>2
  <2> QED
    BY <1>1, <2>1, <2>2
<1>7. \A j \in 1 .. n + 1 : LatestChange(m, j, m[j].id, n + 1) => f.rows[m[j].id].status = m[j].status
  <2>1. ASSUME NEW j \in 1 .. n, LatestChange(m, j, m[j].id, n + 1) PROVE f.rows[m[j].id].status = m[j].status
    <3>1. m[j] = l[j] /\ l[j].id # e.id /\ LatestChange(l, j, l[j].id, n) /\ l[j].id \in DOMAIN d.rows
      BY <1>1, <1>2, <2>1
    <3>2. d.rows[l[j].id].status = l[j].status
      BY <1>2, <3>1
    <3> QED
      BY <3>1, <3>2
  <2> QED
    BY <1>1, <2>1
<1>8. \A i \in DOMAIN f.rows : \E j \in 1 .. n + 1 : IsFirst(m, j, i)
  <2>1. ASSUME NEW i \in DOMAIN d.rows PROVE \E j \in 1 .. n + 1 : IsFirst(m, j, i)
    <3>1. PICK j \in 1 .. n : IsFirst(l, j, i)
      BY <1>2, <2>1
    <3> QED
      BY <1>1, <3>1
  <2>2. e.id \notin DOMAIN d.rows => IsFirst(m, n + 1, e.id)
    BY <1>1, <1>2
  <2> QED
    BY <1>1, <2>1, <2>2
<1>9. \A j, h \in 1 .. n + 1 : j < h /\ IsFirst(m, h, m[h].id) => m[j].id < m[h].id
  <2>1. ASSUME NEW h \in 1 .. n, NEW j \in 1 .. n, j < h, IsFirst(m, h, m[h].id) PROVE m[j].id < m[h].id
    BY <1>1, <1>2, <2>1
  <2>2. ASSUME NEW j \in 1 .. n, IsFirst(m, n + 1, m[n + 1].id) PROVE m[j].id < m[n + 1].id
    <3>1. e.id \notin DOMAIN d.rows
      BY <1>1, <1>2, <2>2
    <3> QED
      BY <1>1, <1>2, <3>1
  <2>3. \A j, h \in 1 .. n + 1 : j < h => j \in 1 .. n /\ (h \in 1 .. n \/ h = n + 1)
    BY <1>1
  <2> QED
    BY <2>1, <2>2, <2>3
<1>10. \A j \in 1 .. n + 1 : m[j].by \notin Clients => IsFirst(m, j, m[j].id) /\ m[j].status = "OPEN"
  <2>1. ASSUME NEW j \in 1 .. n, m[j].by \notin Clients PROVE IsFirst(m, j, m[j].id) /\ m[j].status = "OPEN"
    BY <1>1, <1>2, <2>1
  <2>2. e.by \notin Clients => IsFirst(m, n + 1, e.id) /\ e.status = "OPEN"
    BY <1>1, <1>2
  <2> QED
    BY <1>1, <2>1, <2>2
<1> QED
  <2>1. Len(m) = n + 1 /\ DOMAIN m = 1 .. n + 1 /\ DOMAIN f.rows = Ids(m, n + 1)
    BY <1>1, <1>2
  <2> QED
    BY <2>1, <1>6, <1>7, <1>8, <1>9, <1>10, Zenon DEF Records

LEMMA RecordsKept ==
  ASSUME ServiceTypes, LogOK, TableStep
  PROVE  LogOK'
<1>1. DbOK(db) /\ log \in Seq(LogEntry) /\ DOMAIN db.rows \subseteq 1 .. db.serial /\ db.serial \in Nat
      /\ Records(db, log)
  BY DEF ServiceTypes, DbOK, LogOK
<1>2. CASE Kept
  BY <1>1, <1>2 DEF Kept, Records, LogOK
<1>3. ASSUME NEW w \in Writers, NEW alert \in Alerts, Adds(w, alert) PROVE Records(db', log')
  <2> DEFINE e == [by |-> w, id |-> db.serial + 1, status |-> "OPEN"]
  <2>1. e \in LogEntry /\ e.id = db.serial + 1 /\ e.status = "OPEN"
    BY <1>1, ServiceAssumption DEF LogEntry, Threads
  <2>2. log' = Append(log, e) /\ db' = WithRow(db, alert)
    BY <1>3 DEF Adds
  <2>3. /\ DOMAIN db'.rows = DOMAIN db.rows \cup {db.serial + 1} /\ db.serial + 1 \notin DOMAIN db.rows
        /\ db'.rows[db.serial + 1] = [alert |-> alert, status |-> "OPEN"]
        /\ \A i \in DOMAIN db.rows : db'.rows[i] = db.rows[i]
    BY <1>1, <2>2, RowAdded
  <2>4. \A i \in DOMAIN db.rows : i < db.serial + 1
    BY <1>1
  <2> HIDE DEF e
  <2>5. /\ DOMAIN db'.rows = DOMAIN db.rows \cup {e.id} /\ db'.rows[e.id].status = e.status
        /\ \A i \in DOMAIN db.rows \ {e.id} : db'.rows[i] = db.rows[i]
        /\ e.id \notin DOMAIN db.rows /\ e.status = "OPEN" /\ \A i \in DOMAIN db.rows : i < e.id
    BY <2>1, <2>3, <2>4
  <2> QED
    BY <1>1, <2>1, <2>2, <2>5, LogExtended
<1>4. ASSUME NEW c \in Clients, NEW id \in DOMAIN db.rows, NEW status \in Statuses, Sets(c, id, status)
      PROVE  Records(db', log')
  <2> DEFINE e == [by |-> c, id |-> id, status |-> status]
  <2>1. e \in LogEntry /\ e.id = id /\ e.status = status /\ e.by = c
    BY <1>1 DEF LogEntry, Threads
  <2>2. log' = Append(log, e) /\ db' = WithStatus(db, id, status)
    BY <1>4 DEF Sets
  <2>3. /\ DOMAIN db'.rows = DOMAIN db.rows
        /\ db'.rows[id] = [alert |-> db.rows[id].alert, status |-> status]
        /\ \A i \in DOMAIN db.rows \ {id} : db'.rows[i] = db.rows[i]
    BY <1>1, <2>2, StatusSet
  <2>4. DOMAIN db'.rows = DOMAIN db.rows \cup {id} /\ db'.rows[id].status = status
    BY <1>4, <2>3
  <2> HIDE DEF e
  <2>5. /\ DOMAIN db'.rows = DOMAIN db.rows \cup {e.id} /\ db'.rows[e.id].status = e.status
        /\ \A i \in DOMAIN db.rows \ {e.id} : db'.rows[i] = db.rows[i]
        /\ e.id \in DOMAIN db.rows /\ e.by \in Clients
    BY <1>4, <2>1, <2>3, <2>4
  <2> QED
    BY <1>1, <2>1, <2>2, <2>5, LogExtended
<1> QED
  BY <1>2, <1>3, <1>4 DEF TableStep, LogOK

-----------------------------------------------------------------------------
\* The causes of errors

\* What ErrorsHaveACause says of the answer a to the request q: of a refused PATCH, and, as long
\* as the connection is up, of an error when ids are in the table.
Undone(a, q) == q.asked.route = "patch" /\ a.code = 400 /\ q.changed => q.inDoubt
Explained(a, asked, ids) ==
  /\ asked.route = "status" => a.body.db_connected
  /\ a.code = 500 =>
       \/ Unparsable \in {asked.limit, asked.offset}
       \/ asked.limit < 0 \/ (asked.offset # None /\ asked.offset < 0)
  /\ a.code = 400 =>
       \/ asked.id = Unparsable
       \/ asked.route = "patch" /\ asked.status \notin Statuses
       \/ asked.route = "patch" /\ asked.id \notin ids
HasCause(c) ==
  reply[c] # None => /\ Undone(reply[c], request[c])
                     /\ link = "open" => Explained(reply[c], request[c].asked, Inserted(request[c].since))

LEMMA CausesOfAll ==
  ErrorsHaveACause <=> /\ \A c \in Clients : HasCause(c)
                       /\ process = "dead" => link = "broken" \/ spent.kills > 0
BY Zenon DEF ErrorsHaveACause, FailuresHaveACause, RefusedChangesNothing, HasReply, HasCause, Undone, Explained

\* An answer that was given keeps its cause.
LEMMA CauseRests ==
  ASSUME ServiceTypes, TableStep, NEW c \in Clients, ClientOK(c), HasCause(c),
         reply'[c] # None => UNCHANGED Own(c),
         link' = "open" /\ reply'[c] # None => link = "open"
  PROVE  HasCause(c)'
<1>1. CASE reply'[c] = None
  BY <1>1 DEF HasCause
<1>2. CASE reply'[c] # None
  <2>1. reply'[c] = reply[c] /\ request'[c] = request[c]
    BY <1>2 DEF Own
  <2>2. request[c].since \in 0 .. Len(log)
    BY <1>2, <2>1 DEF ClientOK, OpenRequest
  <2>3. {log'[j].id : j \in 1 .. request[c].since} = {log[j].id : j \in 1 .. request[c].since}
    BY <2>2, TableGrows
  <2> QED
    BY <1>2, <2>1, <2>3 DEF HasCause, Inserted
<1> QED
  BY <1>1, <1>2

\* A request that is refused before the store is called.
LEMMA RefusalHasCause ==
  ASSUME ServiceTypes, NEW c \in Clients, ClientOK(c), NEW r, Asked(r), Handle(c, r)
  PROVE  HasCause(c)'
<1>1. c \in Clients \cup {Tab} /\ c \in Threads
  BY DEF Threads
<1>2. request'[c] = [open |-> TRUE, asked |-> r, since |-> Len(log), changed |-> FALSE, inDoubt |-> FALSE]
  BY <1>1 DEF Handle, ServiceTypes
<1>3. request'[c].asked = r /\ request'[c].changed = FALSE
  BY <1>2
<1>4. CASE Refusal(r) = 0
  <2>1. reply'[c] = None
    BY <1>4 DEF Handle, ClientOK
  <2> QED
    BY <2>1 DEF HasCause
<1>5. CASE Refusal(r) # 0
  <2>1. reply'[c] = [code |-> Refusal(r), body |-> None, at |-> Len(log')]
    BY <1>1, <1>5 DEF Handle, Respond, ServiceTypes
  <2>2. reply'[c].code = Refusal(r)
    BY <2>1
  <2>3. r.route # "status"
    BY <1>5 DEF Refusal
  <2>4. Refusal(r) = 500 => Unparsable \in {r.limit, r.offset}
    BY <1>5 DEF Refusal
  <2>5. Refusal(r) = 400 => r.id = Unparsable \/ (r.route = "patch" /\ r.status = None)
    <3>1. CASE r.route \in {"alert", "patch"}
      BY <1>5, <3>1 DEF Refusal
    <3>2. CASE r.route \notin {"alert", "patch"}
      <4>1. Refusal(r) \in {0, 500}
        BY <3>2 DEF Refusal
      <4> QED
        BY <4>1
    <3> QED
      BY <3>1, <3>2
  <2> QED
    BY <1>3, <2>2, <2>3, <2>4, <2>5, ServiceAssumption DEF HasCause, Undone, Explained
<1> QED
  BY <1>4, <1>5

\* A call that was executed.
LEMMA AnswerHasCause ==
  ASSUME ServiceTypes, CallsOK, NEW c \in Clients, Commit(c)
  PROVE  HasCause(c)'
<1>1. /\ c \in Threads /\ c \in Clients \cup {Tab} /\ c \notin Writers /\ c # None
      /\ ClientOK(c) /\ TabOK /\ HolderOK /\ holder = c /\ link = "open" /\ call[c] # None
      /\ call = [t \in Threads |-> call[t]] /\ reply = [t \in Threads |-> reply[t]] /\ Continue(c)
      /\ outcome = Execute(call[c], db)
  BY ServiceAssumption DEF Commit, Threads, CallsOK, HolderOK, ServiceTypes
<1>2. Serves(c) /\ OpenRequest(c) /\ reply[c] = None
  BY <1>1, ClientCalls DEF ClientOK
<1>3. CASE call[c].op = "update"
  <2>1. reply'[c] = None
    BY <1>1, <1>2, <1>3 DEF Continue
  <2> QED
    BY <2>1 DEF HasCause
<1>4. CASE call[c].op = "get"
  <2>1. request' = request /\ \E code, body :
          code \in {200, 404} /\ reply' = [reply EXCEPT ![c] = [code |-> code, body |-> body, at |-> Len(log')]]
    BY <1>1, <1>4 DEF Continue, Respond
  <2>2. reply'[c].code \in {200, 404}
    BY <1>1, <2>1
  <2>3. request[c].asked.route # "status"
    <3>1. CASE call[c] = Call(request[c].asked)
      BY <1>4, <3>1 DEF Call
    <3>2. CASE call[c] # Call(request[c].asked)
      BY <1>2, <3>2 DEF Serves
    <3> QED
      BY <3>1, <3>2
  <2> QED
    BY <2>1, <2>2, <2>3 DEF HasCause, Undone, Explained
<1>5. CASE call[c].op \notin {"update", "get"}
  <2>1. request' = request /\ reply' = [reply EXCEPT ![c] = [code |-> 200, body |-> outcome.answer, at |-> Len(log')]]
    BY <1>1, <1>5 DEF Continue, Respond
  <2>2. reply'[c].code = 200 /\ reply'[c].body = outcome.answer
    BY <1>1, <2>1
  <2>3. request[c].asked.route = "status" => outcome.answer.db_connected
    <3>1. SUFFICES ASSUME request[c].asked.route = "status" PROVE outcome.answer.db_connected
      OBVIOUS
    <3>2. call[c] = [op |-> "ping"]
      BY <1>2, <3>1 DEF Serves, Call
    <3>3. outcome = IsConnected(db)
      <4>1. call[c].op = "ping"
        BY <3>2
      <4> QED
        BY <1>1, <4>1, Zenon DEF Execute
    <3>4. outcome.answer = [db_connected |-> TRUE]
      BY <3>3 DEF IsConnected, Done
    <3> QED
      BY <3>4
  <2> QED
    <3>1. Undone(reply'[c], request[c])
      BY <2>2 DEF Undone
    <3>2. \A ids : Explained(reply'[c], request[c].asked, ids)
      BY <2>2, <2>3 DEF Explained
    <3> QED
      BY <2>1, <3>1, <3>2 DEF HasCause
<1> QED
  BY <1>3, <1>4, <1>5

\* A call that has thrown.
LEMMA FailureHasCause ==
  ASSUME ArraysRoundTrip, ServiceTypes, CallsOK, LogOK, TableStep, NEW c \in Clients, Throw(c)
  PROVE  HasCause(c)'
<1> DEFINE asked == request[c].asked
<1>1. /\ c \in Threads /\ c \in Clients \cup {Tab} /\ c \notin Writers /\ c # None
      /\ ClientOK(c) /\ TabOK /\ HolderOK /\ holder = c /\ call[c] # None
      /\ call = [t \in Threads |-> call[t]] /\ reply = [t \in Threads |-> reply[t]]
      /\ link = "open" => outcome = Execute(call[c], db)
      /\ outcome.thrown \/ link = "broken"
      /\ request' = request /\ link' = link /\ log' = log
  BY ServiceAssumption DEF Throw, Threads, CallsOK, HolderOK, ServiceTypes
<1>2. Serves(c) /\ OpenRequest(c)
  BY <1>1, ClientCalls DEF ClientOK
<1>3. \/ call[c].op \in Reading
      \/ call[c].op = "update" /\ call[c] = Call(asked) /\ asked.route = "patch"
  BY <1>1, ClientCalls
<1>4. reply'[c].code = IF call[c].op = "ping" THEN 200 ELSE IF call[c].op = "update" THEN 400 ELSE 500
  BY <1>1 DEF Throw, Respond, FailureCode
<1>5. CASE call[c].op = "update"
  <2>1. call[c] = Call(asked) /\ asked.route = "patch" /\ reply'[c].code = 400
    BY <1>3, <1>4, <1>5 DEF Reading
  <2>2. call[c] = [op |-> "update", id |-> asked.id, status |-> asked.status]
    BY <2>1 DEF Call
  <2>3. request[c].changed => request[c].inDoubt
    BY <1>2, <2>2 DEF Serves
  <2>4. Undone(reply'[c], request[c])
    BY <2>3 DEF Undone
  <2>5. link = "open" => asked.id \notin DOMAIN db.rows \/ asked.status \notin Statuses
    <3>1. SUFFICES ASSUME link = "open", asked.id \in DOMAIN db.rows, asked.status \in Statuses PROVE FALSE
      OBVIOUS
    <3>2. outcome = Done(WithStatus(db, call[holder].id, call[holder].status), [alert_id |-> call[holder].id])
      BY <1>1, <1>5, <2>2, <3>1, Outcomes DEF Reading
    <3> QED
      BY <1>1, <3>1, <3>2 DEF Done
  <2>6. Inserted(request[c].since) \subseteq DOMAIN db.rows
    <3>1. request[c].since \in 0 .. Len(log) /\ Len(log) \in Nat /\ DOMAIN db.rows = Ids(log, Len(log))
      BY <1>2 DEF OpenRequest, LogOK, Records, ServiceTypes
    <3> QED
      BY <3>1 DEF Inserted, Ids
  <2>7. link = "open" => Explained(reply'[c], asked, Inserted(request[c].since))
    BY <2>1, <2>5, <2>6 DEF Explained
  <2> QED
    BY <1>1, <2>4, <2>7 DEF HasCause, Inserted
<1>6. CASE call[c].op # "update"
  <2>1. reply'[c].code \in {200, 500}
    BY <1>4, <1>6
  <2>2. Undone(reply'[c], request[c])
    BY <2>1 DEF Undone
  <2>3. ASSUME link = "open" PROVE \A ids : Explained(reply'[c], asked, ids)
    <3>1. outcome = Execute(call[c], db) /\ outcome.thrown
      BY <1>1, <2>3
    <3>2. call[c].op \in {"recent", "page"}
      <4>1. CASE call[c].op = "range"
        BY <3>1, <4>1, Zenon DEF Execute, QueryByTimeRange, List, Done
      <4>2. CASE call[c].op = "account"
        BY <3>1, <4>2, Zenon DEF Execute, QueryByAccount, List, Done
      <4>3. CASE call[c].op = "detector"
        BY <3>1, <4>3, Zenon DEF Execute, QueryByDetector, List, Done
      <4>4. CASE call[c].op = "get"
        BY <3>1, <4>4, Zenon DEF Execute, GetAlert, List, Done
      <4>5. CASE call[c].op = "ping"
        BY <3>1, <4>5, Zenon DEF Execute, IsConnected, Done
      <4> QED
        BY <1>3, <1>6, <4>1, <4>2, <4>3, <4>4, <4>5 DEF Reading
    <3>3. call[c] = Call(asked) /\ asked.route = "alerts"
      <4>1. call[c] = Call(asked)
        BY <1>2, <3>2 DEF Serves
      <4>2. asked.route \in {"patch", "alert", "status", "alerts"}
        BY <1>2 DEF OpenRequest, Asked
      <4>3. asked.route # "patch" /\ asked.route # "alert" /\ asked.route # "status"
        BY <3>2, <4>1 DEF Call
      <4> QED
        BY <4>1, <4>2, <4>3
    <3>4. asked.limit < 0 \/ (asked.offset # None /\ asked.offset < 0)
      <4>1. CASE call[c].op = "recent"
        <5>1. call[c].limit < 0
          BY <3>1, <4>1, Zenon DEF Execute, ListRecent, List, Done
        <5>2. call[c].limit = asked.limit
          BY <3>3, <4>1 DEF Call
        <5> QED
          BY <5>1, <5>2
      <4>2. CASE call[c].op = "page"
        <5>1. call[c].limit < 0 \/ call[c].offset < 0
          BY <3>1, <4>2, Zenon DEF Execute, ListPaginated, List, Done
        <5>2. call[c].limit = asked.limit /\ call[c].offset = asked.offset /\ asked.offset # None
          BY <3>3, <4>2 DEF Call
        <5> QED
          BY <5>1, <5>2
      <4> QED
        BY <3>2, <4>1, <4>2
    <3>5. reply'[c].code = 500
      BY <1>4, <3>2
    <3> QED
      BY <3>3, <3>4, <3>5 DEF Explained
  <2> QED
    BY <1>1, <2>2, <2>3 DEF HasCause
<1> QED
  BY <1>5, <1>6

LEMMA CausesKept ==
  ASSUME ArraysRoundTrip, ServiceTypes, CallsOK, LogOK, ErrorsHaveACause, [ServiceNext]_serviceVars
  PROVE  ErrorsHaveACause'
<1>0. /\ TableStep /\ HolderOK
      /\ \A c \in Clients : HasCause(c) /\ ClientOK(c) /\ c \in Threads /\ c # Tab /\ c \notin Writers
      /\ process = "dead" => link = "broken" \/ spent.kills > 0
      /\ spent \in [alerts : Nat, requests : Nat, walks : Nat, losses : Nat, kills : Nat]
      /\ call = [t \in Threads |-> call[t]] /\ reply = [t \in Threads |-> reply[t]]
      /\ request = [t \in Threads |-> request[t]]
  BY TableSteps, CausesOfAll, ServiceAssumption DEF CallsOK, Threads, ServiceTypes
<1>1. process' = "dead" => link' = "broken" \/ spent'.kills > 0
  <2>1. CASE process' = process /\ spent'.kills = spent.kills /\ (link' = link \/ link' = "broken")
    BY <1>0, <2>1
  <2>2. ASSUME NEW w \in Writers, Raise(w) PROVE process' = process /\ spent'.kills = spent.kills /\ link' = link
    BY <1>0, <2>2 DEF Raise
  <2>3. ASSUME NEW c \in Clients, Ask(c) PROVE process' = process /\ spent'.kills = spent.kills /\ link' = link
    BY <1>0, <2>3 DEF Ask, Handle
  <2>4. ASSUME OpenList \/ TurnPage PROVE process' = process /\ spent'.kills = spent.kills /\ link' = link
    BY <1>0, <2>4 DEF OpenList, TurnPage, Handle
  <2>5. ASSUME \/ ReadPage \/ UNCHANGED serviceVars
               \/ \E c \in Clients : Read(c)
        PROVE  process' = process /\ spent'.kills = spent.kills /\ link' = link
    BY <2>5 DEF ReadPage, Read, serviceVars
  <2>6. ASSUME NEW t \in Threads, Begin(t) \/ Commit(t)
        PROVE  process' = process /\ spent'.kills = spent.kills /\ link' = link
    BY <2>6 DEF Begin, Commit
  <2>7. ASSUME LoseLink PROVE process' = process /\ spent'.kills = spent.kills /\ link' = "broken"
    BY <1>0, <2>7 DEF LoseLink
  <2>8. CASE Kill
    BY <1>0, <2>8 DEF Kill
  <2>9. CASE Start
    BY <2>9 DEF Start
  <2>10. ASSUME NEW t \in Threads, Throw(t) PROVE process' = "dead" => link' = "broken" \/ spent'.kills > 0
    <3>1. CASE t \notin Writers
      BY <1>0, <2>10, <3>1 DEF Throw
    <3>2. CASE t \in Writers
      <4>1. holder = t /\ holder # None /\ link' = link /\ (outcome.thrown \/ link = "broken")
        BY <2>10, ServiceAssumption DEF Throw
      <4>2. link = "open" => ~outcome.thrown
        <5>1. SUFFICES ASSUME link = "open" PROVE ~outcome.thrown
          OBVIOUS
        <5>2. outcome = Done(WithRow(db, call[holder].alert), [alert_id |-> db.serial + 1])
          BY <3>2, <4>1, <5>1, Outcomes, ServiceAssumption
        <5> QED
          BY <5>2 DEF Done
      <4> QED
        BY <4>1, <4>2 DEF ServiceTypes
    <3> QED
      BY <3>1, <3>2
  <2> QED
    BY <2>1, <2>2, <2>3, <2>4, <2>5, <2>6, <2>7, <2>8, <2>9, <2>10 DEF ServiceNext, Proceed
<1>2. ASSUME NEW c \in Clients PROVE HasCause(c)'
  <2>0. ASSUME reply'[c] # None => UNCHANGED Own(c), link' = "open" /\ reply'[c] # None => link = "open"
        PROVE  HasCause(c)'
    BY <1>0, <1>2, <2>0, CauseRests
  <2>1. ASSUME NEW w \in Writers, Raise(w) PROVE HasCause(c)'
    BY <1>0, <1>2, <2>0, <2>1 DEF Raise, Own
  <2>2. ASSUME NEW u \in Clients \cup {Tab}, NEW r, Asked(r), Handle(u, r) PROVE HasCause(c)'
    <3>1. CASE u = c
      BY <1>0, <1>2, <2>2, <3>1, RefusalHasCause
    <3>2. CASE u # c
      <4>1. ClientOK(u)
        BY <2>2 DEF CallsOK
      <4>2. UNCHANGED Own(c)
        BY <1>0, <1>2, <2>2, <3>2, <4>1, HandleKeeps
      <4>3. link' = link
        BY <2>2 DEF Handle
      <4> QED
        BY <2>0, <4>2, <4>3
    <3> QED
      BY <3>1, <3>2
  <2>3. ASSUME NEW u \in Clients, Ask(u) PROVE HasCause(c)'
    <3>1. PICK r \in bounds.asks : Handle(u, r)
      BY <2>3 DEF Ask
    <3>2. Asked(r)
      BY RequestsAssumption DEF ServiceTypes, Asked
    <3> QED
      BY <2>2, <3>1, <3>2
  <2>4. CASE OpenList \/ TurnPage
    <3>1. \E r : Handle(Tab, r)
      BY <2>4 DEF OpenList, TurnPage
    <3>2. call'[c] = call[c] /\ request'[c] = request[c] /\ reply'[c] = reply[c] /\ link' = link
      BY <1>0, <1>2, <3>1 DEF Handle, Respond
    <3> QED
      BY <2>0, <3>2 DEF Own
  <2>5. CASE \/ ReadPage \/ UNCHANGED serviceVars
             \/ \E u \in Clients : Read(u)
    <3>1. /\ call' = call /\ link' = link
          /\ reply'[c] = None \/ (reply'[c] = reply[c] /\ request'[c] = request[c])
      BY <1>0, <1>2, <2>5 DEF ReadPage, Read, serviceVars
    <3> QED
      BY <2>0, <3>1 DEF Own
  <2>6. ASSUME NEW t \in Threads, Begin(t) PROVE HasCause(c)'
    BY <2>0, <2>6 DEF Begin, Own
  <2>7. CASE Commit(c)
    BY <1>2, <2>7, AnswerHasCause
  <2>8. CASE Throw(c)
    BY <1>0, <1>2, <2>8, FailureHasCause
  <2>9. ASSUME NEW t \in (Clients \cup {Tab}) \ {c}, Commit(t) \/ Throw(t) PROVE HasCause(c)'
    <3>1. UNCHANGED Own(c)
      <4>1. CASE Commit(t)
        BY <1>0, <1>2, <2>9, <4>1, CommitKeeps
      <4>2. CASE Throw(t)
        BY <1>0, <1>2, <2>9, <4>2, ThrowKeeps
      <4> QED
        BY <2>9, <4>1, <4>2
    <3>2. link' = link
      BY <2>9 DEF Commit, Throw
    <3> QED
      BY <2>0, <3>1, <3>2
  <2>10. ASSUME NEW t \in Writers, Commit(t) PROVE HasCause(c)'
    <3>1. call' = [call EXCEPT ![t] = None] /\ UNCHANGED <<request, reply, link>>
      BY <2>10 DEF Commit
    <3>2. call'[c] = call[c] /\ request'[c] = request[c] /\ reply'[c] = reply[c]
      BY <1>0, <1>2, <2>10, <3>1
    <3> QED
      BY <2>0, <3>1, <3>2 DEF Own
  <2>11. CASE Ends
    <3>1. reply'[c] = None
      BY <1>0, <1>2, <2>11 DEF Ends, NoCalls
    <3> QED
      BY <3>1 DEF HasCause
  <2>12. ASSUME NEW t \in Writers, Throw(t) PROVE HasCause(c)'
    BY <2>11, <2>12 DEF Throw, Uncaught
  <2>13. CASE LoseLink
    <3>1. PICK reached \in BOOLEAN :
            /\ CutOff(reached) /\ link = "open" /\ UNCHANGED <<call, reply>>
            /\ request' = IF reached /\ holder \notin Writers
                          THEN [request EXCEPT ![holder].inDoubt = TRUE, ![holder].changed = TRUE] ELSE request
      BY <2>13 DEF LoseLink
    <3>2. CASE reached /\ holder = c
      <4>1. call[c] # None
        BY <3>1, <3>2, CutOffSteps
      <4>2. reply'[c] = None
        BY <1>0, <1>2, <3>1, <4>1 DEF ClientOK
      <4> QED
        BY <4>2 DEF HasCause
    <3>3. CASE ~(reached /\ holder = c)
      <4>1. request'[c] = request[c]
        BY <1>0, <1>2, <3>1, <3>3
      <4> QED
        BY <2>0, <3>1, <4>1 DEF Own
    <3> QED
      BY <3>2, <3>3
  <2>14. CASE Kill
    BY <2>11, <2>14 DEF Kill
  <2>15. CASE Start
    <3>1. reply'[c] = None
      BY <1>0, <1>2, <2>15 DEF Start, HolderOK, NoCalls
    <3> QED
      BY <3>1 DEF HasCause
  <2> QED
    BY <2>1, <2>3, <2>4, <2>5, <2>6, <2>7, <2>8, <2>9, <2>10, <2>12, <2>13, <2>14, <2>15
       DEF ServiceNext, Proceed, Threads
<1> QED
  <2>1. \A c \in Clients : HasCause(c)'
    BY <1>2
  <2>2. (\A c \in Clients : HasCause(c))' /\ (process = "dead" => link = "broken" \/ spent.kills > 0)'
    BY <1>1, <2>1
  <2>3. (ErrorsHaveACause <=> /\ \A c \in Clients : HasCause(c)
                              /\ process = "dead" => link = "broken" \/ spent.kills > 0)'
    BY CausesOfAll, PTL
  <2> QED
    BY <2>2, <2>3

-----------------------------------------------------------------------------
\* A set whose elements are put in a row, each behind those that come before it, has an element
\* with as many before it as there is room for, and but one.
LEMMA Ranked ==
  ASSUME NEW S, IsFiniteSet(S), NEW Before,
         \A i \in S : Before[i] \subseteq S /\ i \notin Before[i],
         \A i \in S : \A j \in Before[i] : Before[j] \subseteq Before[i],
         \A i, j \in S : i = j \/ i \in Before[j] \/ j \in Before[i]
  PROVE  /\ Cardinality(S) \in Nat
         /\ \A i \in S : Cardinality(Before[i]) \in 0 .. Cardinality(S) - 1
         /\ \A i, j \in S : i \in Before[j] <=> Cardinality(Before[i]) < Cardinality(Before[j])
         /\ \A k \in 1 .. Cardinality(S) : \E i \in S : Cardinality(Before[i]) = k - 1
<1> DEFINE rank == [i \in S |-> Cardinality(Before[i])]
           n == Cardinality(S)
<1>1. n \in Nat
  BY FS_CardinalityType
<1>2. ASSUME NEW i \in S PROVE IsFiniteSet(Before[i]) /\ Cardinality(Before[i]) \in 0 .. n - 1
  <2>1. Before[i] \in SUBSET (S \ {i})
    OBVIOUS
  <2>2. IsFiniteSet(S \ {i}) /\ Cardinality(S \ {i}) = n - 1
    BY FS_RemoveElement
  <2>3. IsFiniteSet(Before[i]) /\ Cardinality(Before[i]) <= n - 1
    BY <2>1, <2>2, FS_Subset
  <2> QED
    BY <1>1, <2>3, FS_CardinalityType
<1>3. ASSUME NEW i \in S, NEW j \in S, i \in Before[j] PROVE Cardinality(Before[i]) < Cardinality(Before[j])
  <2>1. Before[i] \in SUBSET Before[j] /\ Before[i] # Before[j]
    BY <1>3
  <2>2. Cardinality(Before[i]) <= Cardinality(Before[j]) /\ Cardinality(Before[i]) # Cardinality(Before[j])
    BY <1>2, <2>1, FS_Subset
  <2> QED
    BY <1>2, <2>2
<1>4. \A i, j \in S : i \in Before[j] <=> Cardinality(Before[i]) < Cardinality(Before[j])
  <2>1. ASSUME NEW i \in S, NEW j \in S, Cardinality(Before[i]) < Cardinality(Before[j]) PROVE i \in Before[j]
    <3>1. Cardinality(Before[i]) \in Nat /\ Cardinality(Before[j]) \in Nat
      BY <1>1, <1>2
    <3>2. i # j
      BY <2>1, <3>1
    <3>3. j \in Before[i] => Cardinality(Before[j]) < Cardinality(Before[i])
      BY <1>3
    <3> QED
      BY <2>1, <3>1, <3>2, <3>3
  <2> QED
    BY <1>3, <2>1
<1>5. rank \in Injection(S, 0 .. n - 1)
  <2>1. rank \in [S -> 0 .. n - 1]
    BY <1>2
  <2>2. ASSUME NEW i \in S, NEW j \in S, rank[i] = rank[j] PROVE i = j
    <3>1. Cardinality(Before[i]) = Cardinality(Before[j]) /\ Cardinality(Before[i]) \in Nat
      BY <1>1, <1>2, <2>2
    <3> QED
      BY <1>4, <3>1
  <2> QED
    BY <2>1, <2>2 DEF Injection, IsInjective
<1>6. rank \in Surjection(S, 0 .. n - 1)
  <2>1. IsFiniteSet(0 .. n - 1) /\ Cardinality(0 .. n - 1) = n
    BY <1>1, FS_Interval
  <2> QED
    BY <1>5, <2>1, FS_Injection
<1>7. \A k \in 1 .. n : \E i \in S : Cardinality(Before[i]) = k - 1
  <2>1. \A k \in 1 .. n : k - 1 \in 0 .. n - 1
    BY <1>1
  <2>2. \A r \in 0 .. n - 1 : \E i \in S : rank[i] = r
    BY <1>6 DEF Surjection
  <2> QED
    BY <2>1, <2>2
<1> QED
  BY <1>1, <1>2, <1>4, <1>7

-----------------------------------------------------------------------------
\* The ids of a list that is read latest first.
IsLatestFirst(ids, S) ==
  LET Past(i) == Cardinality({j \in S : j > i})
  IN  /\ ids \in [1 .. Cardinality(S) -> S]
      /\ \A k \in DOMAIN ids : Past(ids[k]) = k - 1
      /\ \A j, k \in DOMAIN ids : j < k => ids[j] > ids[k]
      /\ \A i \in S : Past(i) + 1 \in DOMAIN ids /\ ids[Past(i) + 1] = i

LEMMA LatestComeFirst ==
  ASSUME NEW d, NEW S \in SUBSET Nat, IsFiniteSet(S)
  PROVE  IsLatestFirst(LatestFirst(d, S), S) /\ Cardinality(S) \in Nat
<1> DEFINE n == Cardinality(S)
           Before == [i \in S |-> {j \in S : j > i}]
           ids == [k \in 1 .. n |-> CHOOSE i \in S : Cardinality({j \in S : j > i}) = k - 1]
<1>0. LatestFirst(d, S) = ids
  BY Zenon DEF LatestFirst, Ordered
<1>1. \A i \in S : Before[i] = {j \in S : j > i}
  OBVIOUS
<1> HIDE DEF Before
<1>2. /\ \A i \in S : Before[i] \subseteq S /\ i \notin Before[i]
      /\ \A i \in S : \A j \in Before[i] : Before[j] \subseteq Before[i]
      /\ \A i, j \in S : i = j \/ i \in Before[j] \/ j \in Before[i]
      /\ \A i, j \in S : i \in Before[j] <=> i > j
  <2>1. \A i, j \in S : i \in Before[j] <=> i > j
    BY <1>1
  <2>2. \A i \in S : Before[i] \subseteq S
    BY <1>1
  <2>3. \A i, j \in S : i \in Nat /\ j \in Nat
    OBVIOUS
  <2>4. ASSUME NEW i \in S, NEW j \in Before[i] PROVE Before[j] \subseteq Before[i]
    <3>1. SUFFICES ASSUME NEW h \in Before[j] PROVE h \in Before[i]
      OBVIOUS
    <3>2. j \in S /\ h \in S
      BY <2>2, <2>4, <3>1
    <3>3. j > i /\ h > j
      BY <2>1, <2>4, <3>1, <3>2
    <3>4. h > i
      BY <2>3, <3>2, <3>3
    <3> QED
      BY <2>1, <3>2, <3>4
  <2>5. \A i, j \in S : i = j \/ i \in Before[j] \/ j \in Before[i]
    BY <2>1, <2>3
  <2>6. \A i \in S : i \notin Before[i]
    BY <2>1, <2>3
  <2> QED
    BY <2>1, <2>2, <2>4, <2>5, <2>6
<1>3. /\ n \in Nat
      /\ \A i \in S : Cardinality(Before[i]) \in 0 .. n - 1
      /\ \A i, j \in S : i \in Before[j] <=> Cardinality(Before[i]) < Cardinality(Before[j])
      /\ \A k \in 1 .. n : \E i \in S : Cardinality(Before[i]) = k - 1
  BY <1>2, Ranked
<1>4. ASSUME NEW k \in 1 .. n PROVE ids[k] \in S /\ Cardinality({j \in S : j > ids[k]}) = k - 1
  <2>1. \E i \in S : Cardinality({j \in S : j > i}) = k - 1
    BY <1>1, <1>3
  <2>2. ids[k] = CHOOSE i \in S : Cardinality({j \in S : j > i}) = k - 1
    OBVIOUS
  <2> QED
    BY <2>1, <2>2, Zenon
<1>5. ids \in [1 .. n -> S] /\ DOMAIN ids = 1 .. n
  BY <1>4
<1> HIDE DEF ids, n
<1>6. \A k \in 1 .. n : ids[k] \in S /\ Cardinality(Before[ids[k]]) = k - 1
  BY <1>1, <1>4, Zenon
<1>7. \A j, k \in 1 .. n : j < k => ids[j] > ids[k]
  <2>1. SUFFICES ASSUME NEW j \in 1 .. n, NEW k \in 1 .. n, j < k PROVE ids[j] > ids[k]
    OBVIOUS
  <2>2. Cardinality(Before[ids[j]]) < Cardinality(Before[ids[k]])
    BY <1>3, <1>6, <2>1
  <2> QED
    BY <1>2, <1>3, <1>6, <2>2
<1>8. ASSUME NEW i \in S PROVE Cardinality({j \in S : j > i}) + 1 \in 1 .. n /\ ids[Cardinality({j \in S : j > i}) + 1] = i
  <2>1. PICK r : r = Cardinality(Before[i])
    OBVIOUS
  <2>2. r + 1 \in 1 .. n
    BY <1>3, <1>8, <2>1
  <2>3. ids[r + 1] \in S /\ Cardinality(Before[ids[r + 1]]) = r
    BY <1>3, <1>6, <2>1, <2>2
  <2>4. ids[r + 1] = i
    <3>1. PICK h \in S : h = ids[r + 1] /\ Cardinality(Before[h]) = r
      BY <2>3
    <3>2. r \in Nat /\ ~(r < r)
      BY <1>3, <2>1
    <3>3. h \notin Before[i] /\ i \notin Before[h]
      BY <1>3, <2>1, <3>1, <3>2
    <3> QED
      BY <1>2, <3>1, <3>3
  <2> QED
    BY <1>1, <1>8, <2>1, <2>2, <2>4
<1> QED
  BY <1>0, <1>3, <1>4, <1>5, <1>7, <1>8 DEF IsLatestFirst, n

\* The other orders: whatever they are, what is listed is in the table.
LEMMA OldestComeFirst ==
  ASSUME NEW S \in SUBSET Nat, IsFiniteSet(S)
  PROVE  OldestFirst(S) \in [1 .. Cardinality(S) -> S] /\ Cardinality(S) \in Nat
<1> DEFINE n == Cardinality(S)
           Before == [i \in S |-> {j \in S : j < i}]
           ids == [k \in 1 .. n |-> CHOOSE i \in S : Cardinality({j \in S : j < i}) = k - 1]
<1>0. OldestFirst(S) = ids
  BY Zenon DEF OldestFirst, Ordered
<1>1. \A i \in S : Before[i] = {j \in S : j < i}
  OBVIOUS
<1> HIDE DEF Before
<1>2. /\ \A i \in S : Before[i] \subseteq S /\ i \notin Before[i]
      /\ \A i \in S : \A j \in Before[i] : Before[j] \subseteq Before[i]
      /\ \A i, j \in S : i = j \/ i \in Before[j] \/ j \in Before[i]
  <2>1. \A i, j \in S : i \in Before[j] <=> i < j
    BY <1>1
  <2>2. \A i \in S : Before[i] \subseteq S
    BY <1>1
  <2>3. \A i, j \in S : i \in Nat /\ j \in Nat
    OBVIOUS
  <2>4. ASSUME NEW i \in S, NEW j \in Before[i] PROVE Before[j] \subseteq Before[i]
    <3>1. SUFFICES ASSUME NEW h \in Before[j] PROVE h \in Before[i]
      OBVIOUS
    <3>2. j \in S /\ h \in S
      BY <2>2, <2>4, <3>1
    <3>3. j < i /\ h < j
      BY <2>1, <2>4, <3>1, <3>2
    <3>4. h < i
      BY <2>3, <3>2, <3>3
    <3> QED
      BY <2>1, <3>2, <3>4
  <2>5. \A i, j \in S : i = j \/ i \in Before[j] \/ j \in Before[i]
    BY <2>1, <2>3
  <2>6. \A i \in S : i \notin Before[i]
    BY <2>1, <2>3
  <2> QED
    BY <2>1, <2>2, <2>4, <2>5, <2>6
<1>3. n \in Nat /\ \A k \in 1 .. n : \E i \in S : Cardinality(Before[i]) = k - 1
  BY <1>2, Ranked
<1>4. ASSUME NEW k \in 1 .. n PROVE ids[k] \in S
  <2>1. \E i \in S : Cardinality({j \in S : j < i}) = k - 1
    BY <1>1, <1>3
  <2>2. ids[k] = CHOOSE i \in S : Cardinality({j \in S : j < i}) = k - 1
    OBVIOUS
  <2> QED
    BY <2>1, <2>2, Zenon
<1> QED
  BY <1>0, <1>3, <1>4

-----------------------------------------------------------------------------
\* ORDER BY the window: what is listed is in the table, too.
LEMMA EarliestComeFirst ==
  ASSUME NEW d, NEW S \in SUBSET Nat, IsFiniteSet(S), \A i \in S : d.rows[i].alert.window \in Int,
         NEW ids, ids = EarliestWindowFirst(d, S)
  PROVE  ids \in [1 .. Cardinality(S) -> S] /\ Cardinality(S) \in Nat
<1> DEFINE n == Cardinality(S)
           Earlier(i) == {j \in S : \/ d.rows[j].alert.window < d.rows[i].alert.window
                                    \/ d.rows[j].alert.window = d.rows[i].alert.window /\ j < i}
           Before == [i \in S |-> Earlier(i)]
<1>0. ids = [k \in 1 .. n |-> CHOOSE i \in S : Cardinality(Earlier(i)) = k - 1]
  BY Zenon DEF EarliestWindowFirst, Ordered
<1>1. \A i \in S : Before[i] = Earlier(i)
  OBVIOUS
<1>2. PICK w : w = [i \in S |-> d.rows[i].alert.window]
  OBVIOUS
<1>3. ASSUME NEW i \in S PROVE Before[i] \subseteq S /\ w[i] \in Int /\ i \in Nat
  BY <1>2
<1>4. ASSUME NEW i \in S, NEW j \in S PROVE i \in Before[j] <=> (w[i] < w[j] \/ (w[i] = w[j] /\ i < j))
  BY <1>2
<1> HIDE DEF Before
<1>5. ASSUME NEW i \in S, NEW j \in Before[i] PROVE Before[j] \subseteq Before[i]
  <2>1. SUFFICES ASSUME NEW h \in Before[j] PROVE h \in Before[i]
    OBVIOUS
  <2>2. j \in S /\ h \in S
    BY <1>3, <2>1
  <2>3. /\ w[i] \in Int /\ w[j] \in Int /\ w[h] \in Int /\ i \in Nat /\ j \in Nat /\ h \in Nat
        /\ h \in Before[j] <=> (w[h] < w[j] \/ (w[h] = w[j] /\ h < j))
        /\ j \in Before[i] <=> (w[j] < w[i] \/ (w[j] = w[i] /\ j < i))
        /\ h \in Before[i] <=> (w[h] < w[i] \/ (w[h] = w[i] /\ h < i))
    BY <1>3, <1>4, <2>2
  <2> QED
    BY <2>1, <2>3
<1>6. ASSUME NEW i \in S, NEW j \in S
      PROVE  i \notin Before[i] /\ (i = j \/ i \in Before[j] \/ j \in Before[i])
  <2>1. /\ w[i] \in Int /\ w[j] \in Int /\ i \in Nat /\ j \in Nat
        /\ i \in Before[i] <=> (w[i] < w[i] \/ (w[i] = w[i] /\ i < i))
        /\ i \in Before[j] <=> (w[i] < w[j] \/ (w[i] = w[j] /\ i < j))
        /\ j \in Before[i] <=> (w[j] < w[i] \/ (w[j] = w[i] /\ j < i))
    BY <1>3, <1>4
  <2> QED
    BY <2>1
<1>7. n \in Nat /\ \A k \in 1 .. n : \E i \in S : Cardinality(Before[i]) = k - 1
  <2>1. \A i \in S : Before[i] \subseteq S /\ i \notin Before[i]
    BY <1>3, <1>6
  <2>2. \A i \in S : \A j \in Before[i] : Before[j] \subseteq Before[i]
    BY <1>5
  <2>3. \A i, j \in S : i = j \/ i \in Before[j] \/ j \in Before[i]
    BY <1>6
  <2> QED
    BY <2>1, <2>2, <2>3, Ranked
<1>8. ASSUME NEW k \in 1 .. n PROVE ids[k] \in S
  <2>1. \E i \in S : Cardinality(Earlier(i)) = k - 1
    BY <1>1, <1>7
  <2>2. ids[k] = CHOOSE i \in S : Cardinality(Earlier(i)) = k - 1
    BY <1>0
  <2> QED
    BY <2>1, <2>2, Zenon
<1> QED
  BY <1>0, <1>7, <1>8

\* The part of n ids that a page shows.
PageLength(n, limit, offset) ==
  LET left == IF n > offset THEN n - offset ELSE 0
  IN  IF left < limit THEN left ELSE limit

IsPage(page, ids, n, limit, offset) ==
  /\ DOMAIN page = 1 .. PageLength(n, limit, offset)
  /\ \A k \in DOMAIN page : offset + k \in 1 .. n /\ page[k] = ids[offset + k]
  /\ \A k \in 1 .. n : offset < k /\ k <= offset + limit => k - offset \in DOMAIN page

LEMMA PageOf ==
  ASSUME NEW S, NEW n \in Nat, NEW ids \in [1 .. n -> S], NEW limit \in Nat, NEW offset \in Nat,
         NEW page, page = Page(ids, limit, offset)
  PROVE  /\ page \in Seq(S) /\ Len(page) = PageLength(n, limit, offset) /\ Len(page) \in Nat
         /\ IsPage(page, ids, n, limit, offset)
<1>1. ids \in Seq(S) /\ Len(ids) = n
  OBVIOUS
<1> DEFINE last == IF offset + limit < n THEN offset + limit ELSE n
<1>2. Min({offset + limit, n}) = last
  BY DEF Min
<1>3. page = SubSeq(ids, offset + 1, last)
  BY <1>1, <1>2 DEF Page
<1>4. last \in Nat /\ last <= n /\ last <= offset + limit /\ \A i \in offset + 1 .. last : i \in 1 .. n
      /\ (last = offset + limit \/ last = n)
  OBVIOUS
<1> HIDE DEF last
<1>5. /\ page \in Seq(S)
      /\ Len(page) = IF offset + 1 <= last THEN last - (offset + 1) + 1 ELSE 0
      /\ \A k \in 1 .. last - (offset + 1) + 1 : page[k] = ids[offset + 1 + k - 1]
  <2>1. \A i \in offset + 1 .. last : ids[i] \in S
    BY <1>4
  <2> QED
    BY <1>3, <1>4, <2>1, SubSeqProperties
<1>6. Len(page) = (IF offset < last THEN last - offset ELSE 0) /\ Len(page) \in Nat /\ DOMAIN page = 1 .. Len(page)
  BY <1>4, <1>5
<1>7. \A k \in 1 .. Len(page) : offset + k \in 1 .. n /\ page[k] = ids[offset + k]
  <2>1. SUFFICES ASSUME NEW k \in 1 .. Len(page) PROVE offset + k \in 1 .. n /\ page[k] = ids[offset + k]
    OBVIOUS
  <2>2. k \in 1 .. last - (offset + 1) + 1 /\ offset + 1 + k - 1 = offset + k /\ offset + k \in offset + 1 .. last
    BY <1>4, <1>6, <2>1
  <2> QED
    BY <1>4, <1>5, <2>2
<1>8. \A k \in 1 .. n : offset < k /\ k <= offset + limit => k - offset \in 1 .. Len(page)
  BY <1>4, <1>6 DEF last
<1>9. Len(page) = IF n > offset THEN (IF n - offset < limit THEN n - offset ELSE limit) ELSE (IF 0 < limit THEN 0 ELSE limit)
  BY <1>4, <1>6 DEF last
<1>10. Len(page) = PageLength(n, limit, offset)
  BY <1>9 DEF PageLength
<1> QED
  BY <1>5, <1>6, <1>7, <1>8, <1>10 DEF IsPage

LEMMA StoredIs ==
  ASSUME ArraysRoundTrip, NEW d, DbOK(d), NEW ids, \A k \in DOMAIN ids : ids[k] \in DOMAIN d.rows
  PROVE  StoredAlerts(d, ids) =
           [k \in DOMAIN ids |-> [alert_id |-> ids[k], alert |-> d.rows[ids[k]].alert,
                                  status |-> d.rows[ids[k]].status]]
<1>1. ASSUME NEW k \in DOMAIN ids
      PROVE  [d.rows[ids[k]].alert EXCEPT !.accounts = ReadBack[@]] = d.rows[ids[k]].alert
  <2>1. PICK alert \in Alerts : alert = d.rows[ids[k]].alert
    BY DEF DbOK, Row
  <2>2. ReadBack[alert.accounts] = alert.accounts
    BY DEF ArraysRoundTrip, Accounts
  <2>3. alert = [detector |-> alert.detector, accounts |-> alert.accounts, window |-> alert.window]
    BY AlertsAssumption
  <2>4. [alert EXCEPT !.accounts = alert.accounts] = alert
    BY <2>3
  <2> QED
    BY <2>1, <2>2, <2>4
<1> QED
  BY <1>1 DEF StoredAlerts

-----------------------------------------------------------------------------
LEMMA InsertedIds == ASSUME NEW k PROVE Inserted(k) = Ids(log, k)
BY DEF Inserted, Ids

LEMMA MatchingAtIn == ASSUME NEW filter, NEW k PROVE MatchingAt(filter, k) = MatchingIn(filter, k, db, log)
BY Zenon DEF MatchingAt, MatchingIn, StatusAt, LastChange, StatusIn, Inserted, Ids

LEMMA AgreesWithIn == ASSUME NEW c, NEW k PROVE AgreesWith(c, k) <=> Agrees(request[c].asked, reply[c], k, db, log)
BY Zenon DEF AgreesWith, Agrees, MatchingAt, MatchingIn, StatusAt, LastChange, StatusIn, Inserted, Ids

LEMMA StatusIs ==
  ASSUME NEW l, NEW k \in Nat, NEW i, NEW j, LatestChange(l, j, i, k)
  PROVE  StatusIn(l, i, k) = l[j].status
<1> DEFINE last == CHOOSE h \in 1 .. k : l[h].id = i /\ \A g \in h + 1 .. k : l[g].id # i
<1>1. j \in 1 .. k /\ l[j].id = i /\ \A g \in j + 1 .. k : l[g].id # i
  BY DEF LatestChange
<1>2. last \in 1 .. k /\ l[last].id = i /\ \A g \in last + 1 .. k : l[g].id # i
  BY <1>1, Zenon
<1> HIDE DEF last
<1>3. last = j
  <2>1. last < j => j \in last + 1 .. k
    BY <1>1, <1>2
  <2>2. j < last => last \in j + 1 .. k
    BY <1>1, <1>2
  <2> QED
    BY <1>1, <1>2, <2>1, <2>2
<1> QED
  BY <1>3, Zenon DEF StatusIn, last

\* The log m and the table f say of the moment after k changes what l and d do.
SameMoment(k, d, l, f, m) ==
  /\ Ids(m, k) = Ids(l, k)
  /\ \A i \in Ids(l, k) : StatusIn(m, i, k) = StatusIn(l, i, k)
  /\ \A filter : MatchingIn(filter, k, f, m) = MatchingIn(filter, k, d, l)
  /\ \A asked, a : a.at = k /\ TrueAnswer(asked, a, d, l) => TrueAnswer(asked, a, f, m)

\* What was true of an earlier moment stays true of it.
LEMMA MomentKept ==
  ASSUME NEW l, NEW m, NEW d, NEW f, NEW k \in Nat, \A j \in 1 .. k : m[j] = l[j],
         \A i \in Ids(l, k) : f.rows[i].alert = d.rows[i].alert,
         \A i \in Ids(l, k) : \E j \in 1 .. k : LatestChange(l, j, i, k)
  PROVE  SameMoment(k, d, l, f, m)
<1>1. Ids(m, k) = Ids(l, k)
  BY DEF Ids
<1>2. ASSUME NEW i \in Ids(l, k) PROVE StatusIn(m, i, k) = StatusIn(l, i, k)
  <2>1. PICK j \in 1 .. k : LatestChange(l, j, i, k)
    OBVIOUS
  <2>2. LatestChange(m, j, i, k)
    BY <2>1 DEF LatestChange
  <2>3. StatusIn(m, i, k) = m[j].status /\ StatusIn(l, i, k) = l[j].status
    BY <2>1, <2>2, StatusIs
  <2> QED
    BY <2>3
<1>3. ASSUME NEW filter PROVE MatchingIn(filter, k, f, m) = MatchingIn(filter, k, d, l)
  BY <1>1, <1>2 DEF MatchingIn
<1>4. ASSUME NEW asked, NEW a, Agrees(asked, a, k, d, l) PROVE Agrees(asked, a, k, f, m)
  <2>1. MatchingIn(asked, k, f, m) = MatchingIn(asked, k, d, l)
    BY <1>3
  <2>2. CASE a.code = 404
    BY <1>1, <1>4, <2>2 DEF Agrees
  <2>3. CASE a.code # 404
    <3> DEFINE listed == IF asked.route = "alerts" THEN Range(a.body.alerts) ELSE {a.body}
    <3>1. \A s \in listed : s.alert_id \in Ids(l, k) /\ s.alert = d.rows[s.alert_id].alert
                           /\ s.status = StatusIn(l, s.alert_id, k)
      BY <1>4, <2>3 DEF Agrees
    <3>2. \A s \in listed : s.alert_id \in Ids(m, k) /\ s.alert = f.rows[s.alert_id].alert
                           /\ s.status = StatusIn(m, s.alert_id, k)
      BY <1>1, <1>2, <3>1
    <3>3. asked.route = "alerts" /\ asked.offset # None =>
            LET total == Cardinality(MatchingIn(asked, k, f, m))
                left == IF total > asked.offset THEN total - asked.offset ELSE 0
            IN  /\ a.body.total_count = total
                /\ Cardinality(listed) = IF left < asked.limit THEN left ELSE asked.limit
      BY <1>4, <2>1, <2>3 DEF Agrees
    <3> HIDE DEF listed
    <3> QED
      BY <2>3, <3>2, <3>3 DEF Agrees, listed
  <2> QED
    BY <2>2, <2>3
<1>5. ASSUME NEW asked, NEW a, a.at = k, TrueAnswer(asked, a, d, l) PROVE TrueAnswer(asked, a, f, m)
  <2>1. MatchingIn(asked, k, f, m) = MatchingIn(asked, k, d, l)
    BY <1>3
  <2> QED
    BY <1>1, <1>4, <1>5, <2>1, Zenon DEF TrueAnswer
<1> QED
  BY <1>1, <1>2, <1>3, <1>5 DEF SameMoment

\* At the last change, what the log says is what is in the table.
LEMMA LastMoment ==
  ASSUME NEW d, NEW l \in Seq(LogEntry), Records(d, l)
  PROVE  /\ Ids(l, Len(l)) = DOMAIN d.rows
         /\ \A i \in DOMAIN d.rows : StatusIn(l, i, Len(l)) = d.rows[i].status
         /\ \A filter : MatchingIn(filter, Len(l), d, l) = Matching(d, filter.detector, filter.status)
<1> PICK n : n = Len(l)
  OBVIOUS
<1>1. n \in Nat /\ DOMAIN l = 1 .. n
  OBVIOUS
<1>2. Ids(l, n) = DOMAIN d.rows
  BY DEF Records
<1>3. ASSUME NEW i \in DOMAIN d.rows PROVE StatusIn(l, i, n) = d.rows[i].status
  <2>1. PICK j \in 1 .. n : LatestChange(l, j, i, n)
    BY <1>1, <1>2 DEF Records
  <2>2. l[j].id = i /\ d.rows[l[j].id].status = l[j].status
    BY <1>1, <2>1 DEF Records, LatestChange
  <2> QED
    BY <1>1, <2>1, <2>2, StatusIs
<1>4. ASSUME NEW filter PROVE MatchingIn(filter, n, d, l) = Matching(d, filter.detector, filter.status)
  BY <1>2, <1>3 DEF MatchingIn, Matching
<1> QED
  BY <1>2, <1>3, <1>4

-----------------------------------------------------------------------------
\* What is said of a row that is shown: it is in the table, with its alert and its status.
IsShown(s, k, d, l) == /\ s.alert_id \in Ids(l, k)
                       /\ s.alert = d.rows[s.alert_id].alert
                       /\ s.status = StatusIn(l, s.alert_id, k)

LEMMA RowsFinite ==
  ASSUME NEW d, DbOK(d), NEW S \in SUBSET DOMAIN d.rows
  PROVE  S \in SUBSET Nat /\ IsFiniteSet(S)
<1>1. DOMAIN d.rows \subseteq 1 .. d.serial /\ d.serial \in Nat
  BY DEF DbOK
<1>2. IsFiniteSet(1 .. d.serial)
  BY <1>1, FS_Interval
<1>3. S \in SUBSET (1 .. d.serial)
  BY <1>1
<1> QED
  BY <1>1, <1>2, <1>3, FS_Subset

LEMMA RowsShown ==
  ASSUME ArraysRoundTrip, NEW d, DbOK(d), NEW l \in Seq(LogEntry), Records(d, l),
         NEW n \in Nat, NEW ids \in [1 .. n -> DOMAIN d.rows], NEW alerts, alerts = StoredAlerts(d, ids)
  PROVE  /\ \A s \in Range(alerts) : IsShown(s, Len(l), d, l)
         /\ DOMAIN alerts = 1 .. n /\ Len(alerts) = n /\ \A k \in 1 .. n : alerts[k].alert_id = ids[k]
<1>1. /\ \A k \in 1 .. n : alerts[k] = [alert_id |-> ids[k], alert |-> d.rows[ids[k]].alert,
                                        status |-> d.rows[ids[k]].status]
      /\ DOMAIN alerts = 1 .. n /\ Len(alerts) = n
  <2>1. alerts = [k \in 1 .. n |-> [alert_id |-> ids[k], alert |-> d.rows[ids[k]].alert,
                                    status |-> d.rows[ids[k]].status]]
    BY StoredIs
  <2> QED
    BY <2>1
<1>2. ASSUME NEW k \in 1 .. n
      PROVE  /\ alerts[k].alert_id = ids[k] /\ ids[k] \in DOMAIN d.rows
             /\ alerts[k].alert = d.rows[ids[k]].alert /\ alerts[k].status = d.rows[ids[k]].status
  <2>1. ids[k] \in DOMAIN d.rows
    OBVIOUS
  <2>2. PICK i, alert, status : i = ids[k] /\ alert = d.rows[ids[k]].alert /\ status = d.rows[ids[k]].status
    OBVIOUS
  <2>3. alerts[k] = [alert_id |-> i, alert |-> alert, status |-> status]
    BY <1>1, <2>2, Zenon
  <2>4. alerts[k].alert_id = i /\ alerts[k].alert = alert /\ alerts[k].status = status
    BY <2>3
  <2> QED
    BY <2>1, <2>2, <2>4, Zenon
<1>3. Ids(l, Len(l)) = DOMAIN d.rows /\ \A i \in DOMAIN d.rows : StatusIn(l, i, Len(l)) = d.rows[i].status
  BY LastMoment
<1>4. ASSUME NEW s \in Range(alerts) PROVE IsShown(s, Len(l), d, l)
  <2>1. PICK k \in 1 .. n : s = alerts[k]
    BY <1>1, <1>4, Zenon DEF Range
  <2>2. /\ s.alert_id = ids[k] /\ ids[k] \in DOMAIN d.rows
        /\ s.alert = d.rows[ids[k]].alert /\ s.status = d.rows[ids[k]].status
    BY <1>2, <2>1, Zenon
  <2>3. s.alert_id \in Ids(l, Len(l)) /\ StatusIn(l, s.alert_id, Len(l)) = d.rows[s.alert_id].status
    BY <1>3, <2>2, Zenon
  <2> QED
    BY <2>2, <2>3, Zenon DEF IsShown
<1>5. DOMAIN alerts = 1 .. n /\ Len(alerts) = n
  BY <1>1, Zenon
<1>6. \A k \in 1 .. n : alerts[k].alert_id = ids[k]
  BY <1>2
<1> QED
  BY <1>4, <1>5, <1>6, Zenon

LEMMA Numbers == ASSUME NEW p \in Nat PROVE IsFiniteSet(1 .. p) /\ Cardinality(1 .. p) = p
BY FS_Interval

LEMMA PageIsPart ==
  ASSUME NEW S, NEW n, n \in Nat, NEW ids, ids \in [1 .. n -> S], NEW limit \in Nat, NEW offset \in Nat,
         NEW page, page = Page(ids, limit, offset)
  PROVE  /\ page \in Seq(S) /\ Len(page) = PageLength(n, limit, offset) /\ Len(page) \in Nat
         /\ IsPage(page, ids, n, limit, offset)
BY PageOf

\* A page: as many of the rows that match as there are, the latest first, from its offset on.
LEMMA PageShown ==
  ASSUME ArraysRoundTrip, NEW d, DbOK(d), NEW l \in Seq(LogEntry), Records(d, l),
         NEW S \in SUBSET DOMAIN d.rows, NEW limit \in Nat, NEW offset \in Nat,
         NEW alerts, alerts = StoredAlerts(d, Page(LatestFirst(d, S), limit, offset))
  PROVE  /\ Cardinality(S) \in Nat
         /\ \A s \in Range(alerts) : IsShown(s, Len(l), d, l)
         /\ Cardinality(Range(alerts)) = PageLength(Cardinality(S), limit, offset)
         /\ FillsItsPage(alerts, offset, limit, S)
         /\ offset = 0 => IsTheLatest(alerts, limit, S)
<1> PICK ids : ids = LatestFirst(d, S)
  OBVIOUS
<1> PICK n : n = Cardinality(S)
  OBVIOUS
<1> PICK page : page = Page(ids, limit, offset)
  OBVIOUS
<1>1. S \in SUBSET Nat /\ IsFiniteSet(S)
  BY RowsFinite, Zenon
<1>2. IsLatestFirst(ids, S) /\ n \in Nat
  BY <1>1, LatestComeFirst
<1>3. /\ ids \in [1 .. n -> S]
      /\ \A j, k \in 1 .. n : j < k => ids[j] > ids[k]
      /\ \A i \in S : Cardinality({j \in S : j > i}) + 1 \in 1 .. n /\ ids[Cardinality({j \in S : j > i}) + 1] = i
  BY <1>2 DEF IsLatestFirst
<1>4. /\ page \in Seq(S) /\ DOMAIN page = 1 .. Len(page) /\ Len(page) \in Nat
      /\ Len(page) = PageLength(n, limit, offset)
      /\ \A k \in 1 .. Len(page) : offset + k \in 1 .. n /\ page[k] = ids[offset + k]
      /\ \A k \in 1 .. n : offset < k /\ k <= offset + limit => k - offset \in 1 .. Len(page)
  <2>1. /\ page \in Seq(S) /\ Len(page) = PageLength(n, limit, offset) /\ Len(page) \in Nat
        /\ IsPage(page, ids, n, limit, offset)
    <3>1. n \in Nat /\ ids \in [1 .. n -> S] /\ page = Page(ids, limit, offset)
      BY <1>2, <1>3
    <3> QED
      BY <3>1, PageIsPart
  <2> QED
    BY <2>1 DEF IsPage
<1> PICK p : p = Len(page)
  OBVIOUS
<1>5. page \in [1 .. p -> DOMAIN d.rows] /\ p \in Nat /\ alerts = StoredAlerts(d, page)
  BY <1>4
<1>6. /\ \A s \in Range(alerts) : IsShown(s, Len(l), d, l)
      /\ DOMAIN alerts = 1 .. p /\ Len(alerts) = p /\ \A k \in 1 .. p : alerts[k].alert_id = page[k]
  BY <1>5, RowsShown
<1>7. \A j, k \in 1 .. p : j < k => alerts[j].alert_id > alerts[k].alert_id
  <2>1. SUFFICES ASSUME NEW j \in 1 .. p, NEW k \in 1 .. p, j < k PROVE page[j] > page[k]
    BY <1>6
  <2>2. offset + j \in 1 .. n /\ offset + k \in 1 .. n /\ page[j] = ids[offset + j] /\ page[k] = ids[offset + k]
        /\ offset + j < offset + k
    BY <1>4, <1>5, <2>1
  <2> QED
    BY <1>3, <2>2
<1>8. Cardinality(Range(alerts)) = p
  <2>1. \A k \in 1 .. p : alerts[k].alert_id \in Nat
    BY <1>1, <1>4, <1>6
  <2>2. ASSUME NEW j \in 1 .. p, NEW k \in 1 .. p, alerts[j] = alerts[k] PROVE j = k
    BY <1>5, <1>7, <2>1, <2>2
  <2>3. alerts \in [1 .. p -> Range(alerts)]
    <3>1. alerts = [k \in 1 .. p |-> alerts[k]]
      BY <1>5, StoredIs
    <3> QED
      BY <1>6, <3>1 DEF Range
  <2>4. alerts \in Surjection(1 .. p, Range(alerts)) /\ alerts \in Injection(1 .. p, Range(alerts))
    BY <1>6, <2>2, <2>3 DEF Surjection, Injection, IsInjective, Range
  <2>5. IsFiniteSet(1 .. p) /\ Cardinality(1 .. p) = p
    BY <1>5, Numbers
  <2> QED
    BY <2>4, <2>5, FS_Surjection
<1>9. ASSUME NEW i \in S, NEW later, later = Cardinality({j \in S : j > i})
      PROVE  /\ later \in 0 .. n - 1
             /\ offset <= later /\ later < offset + limit => \E k \in 1 .. p : alerts[k].alert_id = i
             /\ offset = 0 /\ limit <= later => p = limit /\ \A k \in 1 .. p : alerts[k].alert_id > i
  <2>1. later + 1 \in 1 .. n /\ ids[later + 1] = i
    BY <1>3, <1>9
  <2>2. later \in 0 .. n - 1 /\ later \in Int
    <3>1. later \in Nat
      <4>1. IsFiniteSet({j \in S : j > i})
        BY <1>1, FS_Subset
      <4> QED
        BY <1>9, <4>1, FS_CardinalityType
    <3> QED
      BY <1>2, <2>1, <3>1
  <2>3. ASSUME offset <= later, later < offset + limit PROVE \E k \in 1 .. p : alerts[k].alert_id = i
    <3>1. later + 1 - offset \in 1 .. p /\ offset + (later + 1 - offset) = later + 1
      BY <1>4, <2>1, <2>2, <2>3
    <3> QED
      BY <1>4, <1>6, <2>1, <3>1
  <2>4. ASSUME offset = 0, limit <= later PROVE p = limit /\ \A k \in 1 .. p : alerts[k].alert_id > i
    <3>1. p = limit
      BY <1>2, <1>4, <2>2, <2>4 DEF PageLength
    <3>2. \A k \in 1 .. p : k \in 1 .. n /\ k < later + 1 /\ page[k] = ids[k]
      BY <1>2, <1>4, <2>2, <2>4, <3>1
    <3> QED
      BY <1>3, <1>6, <2>1, <3>1, <3>2
  <2> QED
    BY <2>2, <2>3, <2>4
<1>10. Cardinality(Range(alerts)) = PageLength(n, limit, offset)
  BY <1>4, <1>8
<1>11. FillsItsPage(alerts, offset, limit, S)
  BY <1>6, <1>9 DEF FillsItsPage, Later, Shows
<1>12. ASSUME offset = 0 PROVE IsTheLatest(alerts, limit, S)
  <2>1. ASSUME NEW i \in S
        PROVE  \/ Shows(alerts, i)
               \/ Len(alerts) = limit /\ \A k \in DOMAIN alerts : alerts[k].alert_id > i
    <3>1. PICK later : later = Cardinality({j \in S : j > i})
      OBVIOUS
    <3>2. later < limit \/ limit <= later
      BY <1>9, <3>1
    <3> QED
      BY <1>6, <1>9, <1>12, <3>1, <3>2 DEF Shows
  <2> QED
    BY <1>5, <1>6, <1>7, <2>1 DEF IsTheLatest
<1> QED
  BY <1>2, <1>6, <1>10, <1>11, <1>12

-----------------------------------------------------------------------------
\* Three kinds of listing: a page, the latest, and what has no limit.
LEMMA Listings ==
  ASSUME NEW r, Asked(r), Refusal(r) = 0, r.route = "alerts"
  PROVE  \/ /\ r.offset # None /\ r.limit \in Int /\ r.offset \in Int
            /\ Call(r) = [op |-> "page", detector |-> r.detector, status |-> r.status, limit |-> r.limit, offset |-> r.offset]
         \/ r.offset = None /\ r.limit \in Int /\ Call(r) = [op |-> "recent", limit |-> r.limit]
         \/ /\ r.offset = None
            /\ \/ Call(r) = [op |-> "account", account |-> r.account]
               \/ Call(r) = [op |-> "detector", detector |-> r.detector]
               \/ Call(r) = [op |-> "range", from |-> r.range[1], to |-> r.range[2]]
<1>1. r.limit \in Int \cup {Unparsable} /\ r.offset \in Int \cup {None, Unparsable}
  BY DEF Asked
<1>2. Call(r).op \in {"page", "recent"} => Unparsable \notin {r.limit, r.offset}
  BY DEF Refusal
<1>3. CASE r.offset # None
  <2>1. Call(r) = [op |-> "page", detector |-> r.detector, status |-> r.status, limit |-> r.limit, offset |-> r.offset]
    BY <1>3 DEF Call
  <2> QED
    BY <1>1, <1>2, <1>3, <2>1
<1>4. CASE r.offset = None
  <2>1. \/ Call(r) = [op |-> "recent", limit |-> r.limit]
        \/ Call(r) = [op |-> "account", account |-> r.account]
        \/ Call(r) = [op |-> "detector", detector |-> r.detector]
        \/ Call(r) = [op |-> "range", from |-> r.range[1], to |-> r.range[2]]
    BY <1>4 DEF Call
  <2> QED
    BY <1>1, <1>2, <1>4, <2>1
<1> QED
  BY <1>3, <1>4

LEMMA Between == \A low, high : \A w \in low .. high : w \in Int
OBVIOUS

\* Whatever the order, the rows a query without limit lists are in the table.
LEMMA QueriesShow ==
  ASSUME ArraysRoundTrip, NEW d, DbOK(d), NEW l \in Seq(LogEntry), Records(d, l),
         NEW m, m.op \in {"account", "detector", "range"}
  PROVE  \A s \in Range(Execute(m, d).answer.alerts) : IsShown(s, Len(l), d, l)
<1>1. \E S, ids :
        /\ S \in SUBSET DOMAIN d.rows
        /\ ids \in [1 .. Cardinality(S) -> S] /\ Cardinality(S) \in Nat
        /\ Execute(m, d) = List(d, ids)
  <2>1. CASE m.op = "account"
    <3>1. PICK S \in SUBSET DOMAIN d.rows : S = {i \in DOMAIN d.rows : m.account \in Range(d.rows[i].alert.accounts)}
      OBVIOUS
    <3>2. OldestFirst(S) \in [1 .. Cardinality(S) -> S] /\ Cardinality(S) \in Nat
      BY RowsFinite, OldestComeFirst
    <3>3. Execute(m, d) = List(d, OldestFirst(S))
      BY <2>1, <3>1, Zenon DEF Execute, QueryByAccount
    <3> QED
      BY <3>2, <3>3
  <2>2. CASE m.op = "detector"
    <3>1. PICK S \in SUBSET DOMAIN d.rows : S = {i \in DOMAIN d.rows : d.rows[i].alert.detector = m.detector}
      OBVIOUS
    <3>2. OldestFirst(S) \in [1 .. Cardinality(S) -> S] /\ Cardinality(S) \in Nat
      BY RowsFinite, OldestComeFirst
    <3>3. Execute(m, d) = List(d, OldestFirst(S))
      BY <2>2, <3>1, Zenon DEF Execute, QueryByDetector
    <3> QED
      BY <3>2, <3>3
  <2>3. CASE m.op = "range"
    <3>1. PICK S \in SUBSET DOMAIN d.rows : S = {i \in DOMAIN d.rows : d.rows[i].alert.window \in m.from .. m.to}
      OBVIOUS
    <3>2. PICK ids : ids = EarliestWindowFirst(d, S)
      OBVIOUS
    <3>3. S \in SUBSET Nat /\ IsFiniteSet(S) /\ \A i \in S : d.rows[i].alert.window \in Int
      <4>1. S \in SUBSET Nat /\ IsFiniteSet(S)
        BY RowsFinite
      <4>2. \A i \in S : d.rows[i].alert.window \in m.from .. m.to
        BY <3>1, Zenon
      <4> QED
        BY <4>1, <4>2, Between
    <3>4. ids \in [1 .. Cardinality(S) -> S] /\ Cardinality(S) \in Nat
      BY <3>2, <3>3, EarliestComeFirst
    <3>5. Execute(m, d) = List(d, ids)
      BY <2>3, <3>1, <3>2, Zenon DEF Execute, QueryByTimeRange
    <3> QED
      BY <3>4, <3>5
  <2> QED
    BY <2>1, <2>2, <2>3
<1>2. PICK S, ids :
        /\ S \in SUBSET DOMAIN d.rows
        /\ ids \in [1 .. Cardinality(S) -> S] /\ Cardinality(S) \in Nat
        /\ Execute(m, d) = List(d, ids)
  BY <1>1
<1>3. PICK n, alerts : n \in Nat /\ n = Cardinality(S) /\ alerts = StoredAlerts(d, ids)
  BY <1>2
<1>4. Execute(m, d).answer.alerts = alerts
  BY <1>2, <1>3 DEF List, Done
<1>5. ids \in [1 .. n -> DOMAIN d.rows]
  BY <1>2, <1>3
<1>6. \A s \in Range(alerts) : IsShown(s, Len(l), d, l)
  BY <1>3, <1>5, RowsShown
<1> QED
  BY <1>4, <1>6

\* What it takes for a listing, and for a row, to agree with the table.
LEMMA ListingAgreesIf ==
  ASSUME NEW asked, NEW a, NEW k, NEW d, NEW l, a.code # 404, asked.route = "alerts",
         \A s \in Range(a.body.alerts) : IsShown(s, k, d, l),
         asked.offset # None =>
           /\ a.body.total_count = Cardinality(MatchingIn(asked, k, d, l))
           /\ Cardinality(Range(a.body.alerts))
                = PageLength(Cardinality(MatchingIn(asked, k, d, l)), asked.limit, asked.offset)
  PROVE  Agrees(asked, a, k, d, l)
BY DEF Agrees, IsShown, PageLength

LEMMA RowAgreesIf ==
  ASSUME NEW asked, NEW a, NEW k, NEW d, NEW l, asked.route # "alerts",
         IF a.code = 404 THEN asked.id \notin Ids(l, k) ELSE IsShown(a.body, k, d, l)
  PROVE  Agrees(asked, a, k, d, l)
BY DEF Agrees, IsShown

LEMMA ListingOKIf ==
  ASSUME NEW asked, NEW a, NEW d, NEW l, Agrees(asked, a, a.at, d, l), 
         asked.offset # None => FillsItsPage(a.body.alerts, asked.offset, asked.limit, MatchingIn(asked, a.at, d, l)),
         Call(asked).op = "recent" => IsTheLatest(a.body.alerts, asked.limit, Ids(l, a.at))
  PROVE  TrueAnswer(asked, a, d, l)
BY DEF TrueAnswer

\* A listing that was executed.
LEMMA ListingAgrees ==
  ASSUME ArraysRoundTrip, NEW d, DbOK(d), NEW l \in Seq(LogEntry), Records(d, l),
         NEW r, Asked(r), Refusal(r) = 0, r.route = "alerts", ~Execute(Call(r), d).thrown,
         NEW a, a = [code |-> 200, body |-> Execute(Call(r), d).answer, at |-> Len(l)]
  PROVE  TrueAnswer(r, a, d, l)
<1> PICK m, n : m = Call(r) /\ n = Len(l)
  OBVIOUS
<1> PICK o : o = Execute(m, d)
  OBVIOUS
<1>0. a.code = 200 /\ a.code # 404 /\ a.body = o.answer /\ a.at = n /\ ~o.thrown
  OBVIOUS
<1>1. ASSUME \A s \in Range(o.answer.alerts) : IsShown(s, n, d, l), r.offset = None PROVE Agrees(r, a, n, d, l)
  BY <1>0, <1>1, ListingAgreesIf
<1>2. CASE m.op = "page"
  <2>1. /\ m = [op |-> "page", detector |-> r.detector, status |-> r.status, limit |-> r.limit, offset |-> r.offset]
        /\ r.offset # None /\ r.limit \in Int /\ r.offset \in Int
    BY <1>2, Listings
  <2>2. m.detector = r.detector /\ m.status = r.status /\ m.limit = r.limit /\ m.offset = r.offset
    BY <2>1
  <2>3. o = ListPaginated(d, r.detector, r.status, r.limit, r.offset)
    BY <1>2, <2>2, Zenon DEF Execute
  <2>4. r.limit \in Nat /\ r.offset \in Nat
    <3>1. ~(r.limit < 0 \/ r.offset < 0)
      BY <1>0, <2>3 DEF ListPaginated, Thrown
    <3> QED
      BY <2>1, <3>1
  <2>5. PICK S \in SUBSET DOMAIN d.rows : S = Matching(d, r.detector, r.status)
    BY DEF Matching
  <2>6. PICK alerts : alerts = StoredAlerts(d, Page(LatestFirst(d, S), r.limit, r.offset))
    OBVIOUS
  <2>7. o.answer = [alerts |-> alerts, total_count |-> Cardinality(S)]
    <3>1. ~(r.limit < 0 \/ r.offset < 0)
      BY <2>4
    <3>2. o = Done(d, [alerts |-> alerts, total_count |-> Cardinality(S)])
      BY <2>3, <2>5, <2>6, <3>1, Zenon DEF ListPaginated
    <3> QED
      BY <3>2 DEF Done
  <2>8. /\ \A s \in Range(alerts) : IsShown(s, n, d, l)
        /\ Cardinality(Range(alerts)) = PageLength(Cardinality(S), r.limit, r.offset)
        /\ FillsItsPage(alerts, r.offset, r.limit, S)
    BY <2>4, <2>6, PageShown
  <2>9. MatchingIn(r, n, d, l) = S
    BY <2>5, LastMoment
  <2>10. a.body.alerts = alerts /\ a.body.total_count = Cardinality(S)
    BY <1>0, <2>7
  <2>11. Agrees(r, a, n, d, l)
    BY <1>0, <2>8, <2>9, <2>10, ListingAgreesIf
  <2>12. m.op # "recent"
    BY <1>2
  <2> QED
    BY <1>0, <2>8, <2>9, <2>10, <2>11, <2>12, ListingOKIf
<1>3. CASE m.op = "recent"
  <2>1. r.offset = None /\ r.limit \in Int /\ m.limit = r.limit
    BY <1>3, Listings
  <2>2. o = ListRecent(d, r.limit)
    BY <1>3, <2>1, Zenon DEF Execute
  <2>3. r.limit \in Nat
    <3>1. ~(r.limit < 0)
      BY <1>0, <2>2 DEF ListRecent, Thrown
    <3> QED
      BY <2>1, <3>1
  <2>4. PICK S \in SUBSET DOMAIN d.rows : S = DOMAIN d.rows
    OBVIOUS
  <2>5. PICK alerts : alerts = StoredAlerts(d, Page(LatestFirst(d, S), r.limit, 0))
    OBVIOUS
  <2>6. o.answer.alerts = alerts
    BY <2>2, <2>3, <2>4, <2>5 DEF ListRecent, List, Done
  <2>7. (\A s \in Range(alerts) : IsShown(s, n, d, l)) /\ IsTheLatest(alerts, r.limit, S)
    BY <2>3, <2>5, PageShown
  <2>8. Ids(l, n) = S
    BY <2>4, LastMoment
  <2> QED
    BY <1>0, <1>1, <2>1, <2>6, <2>7, <2>8, ListingOKIf
<1>4. CASE m.op \in {"account", "detector", "range"}
  <2>1. \A s \in Range(o.answer.alerts) : IsShown(s, n, d, l)
    BY <1>4, QueriesShow
  <2>2. r.offset = None
    BY <1>4, Listings
  <2>3. m.op # "recent"
    BY <1>4
  <2> QED
    BY <1>0, <1>1, <2>1, <2>2, <2>3, ListingOKIf
<1> QED
  BY <1>2, <1>3, <1>4, Listings

\* The answer to a request for a row, of what get_alert found.
RowAnswer(found, at) ==
  IF found = <<>> THEN [code |-> 404, body |-> None, at |-> at] ELSE [code |-> 200, body |-> found[1], at |-> at]

\* A row that was asked for by its id.
LEMMA RowAgrees ==
  ASSUME ArraysRoundTrip, NEW d, DbOK(d), NEW l \in Seq(LogEntry), Records(d, l), NEW r, r.route \in {"alert", "patch"},
         NEW found, found = GetAlert(d, r.id).answer.alerts,
         NEW a, a = RowAnswer(found, Len(l))
  PROVE  TrueAnswer(r, a, d, l)
<1> PICK n : n = Len(l)
  OBVIOUS
<1> DEFINE ids == IF r.id \in DOMAIN d.rows THEN <<r.id>> ELSE <<>>
<1>1. found = StoredAlerts(d, ids)
  BY DEF GetAlert, List, Done
<1>2. Ids(l, n) = DOMAIN d.rows /\ \A i \in DOMAIN d.rows : StatusIn(l, i, n) = d.rows[i].status
  BY LastMoment
<1>3. a.at = n /\ r.route # "alerts" /\ a.code \in {200, 404}
  BY DEF RowAnswer
<1>4. CASE r.id \notin DOMAIN d.rows
  <2>1. ids = <<>>
    BY <1>4
  <2>2. StoredAlerts(d, <<>>) = <<>>
    BY DEF StoredAlerts
  <2>3. found = <<>>
    BY <1>1, <2>1, <2>2
  <2>4. a.code = 404
    BY <2>3 DEF RowAnswer
  <2> QED
    BY <1>2, <1>3, <1>4, <2>4, Zenon DEF TrueAnswer, Agrees
<1>5. CASE r.id \in DOMAIN d.rows
  <2>1. PICK s : s = [alert_id |-> r.id, alert |-> d.rows[r.id].alert, status |-> d.rows[r.id].status]
    OBVIOUS
  <2>2. found = [k \in DOMAIN <<r.id>> |-> [alert_id |-> <<r.id>>[k], alert |-> d.rows[<<r.id>>[k]].alert,
                                            status |-> d.rows[<<r.id>>[k]].status]]
    <3>1. found = StoredAlerts(d, <<r.id>>)
      BY <1>1, <1>5
    <3>2. \A k \in DOMAIN <<r.id>> : <<r.id>>[k] \in DOMAIN d.rows
      BY <1>5
    <3> QED
      BY <3>1, <3>2, StoredIs
  <2>3. found[1] = s /\ found # <<>>
    BY <2>1, <2>2
  <2>4. a.body = s /\ a.code # 404
    BY <2>3 DEF RowAnswer
  <2>5. s.alert_id = r.id /\ s.alert = d.rows[r.id].alert /\ s.status = d.rows[r.id].status
    BY <2>1
  <2>6. IsShown(s, n, d, l)
    BY <1>2, <1>5, <2>5 DEF IsShown
  <2>7. Agrees(r, a, n, d, l)
    BY <1>3, <2>4, <2>6, RowAgreesIf
  <2> QED
    BY <1>3, <2>7, Zenon DEF TrueAnswer
<1> QED
  BY <1>4, <1>5

-----------------------------------------------------------------------------
\* A step of the table leaves every earlier moment as it was.
LEMMA MomentRests ==
  ASSUME ServiceTypes, LogOK, TableStep, NEW k \in 0 .. Len(log)
  PROVE  /\ Ids(log', k) = Ids(log, k)
         /\ \A filter : MatchingIn(filter, k, db', log') = MatchingIn(filter, k, db, log)
         /\ \A asked, a : a.at = k /\ TrueAnswer(asked, a, db, log) => TrueAnswer(asked, a, db', log')
<1>1. Len(log) \in Nat /\ k \in Nat
  BY DEF ServiceTypes
<1>2. \A j \in 1 .. k : log'[j] = log[j]
  BY <1>1, TableGrows
<1>3. Ids(log, k) \subseteq DOMAIN db.rows
  BY <1>1 DEF LogOK, Records, Ids
<1>4. \A i \in Ids(log, k) : db'.rows[i].alert = db.rows[i].alert
  BY <1>3, TableGrows
<1>5. \A i \in Ids(log, k) : \E j \in 1 .. k : LatestChange(log, j, i, k)
  BY DEF LogOK, Records
<1>6. SameMoment(k, db, log, db', log')
  BY <1>1, <1>2, <1>4, <1>5, MomentKept
<1> QED
  BY <1>6 DEF SameMoment

HasAnswer(c) == reply[c] # None => TrueAnswer(request[c].asked, reply[c], db, log)

\* An answer that was given stays true of its moment.
LEMMA AnswerRests ==
  ASSUME ServiceTypes, LogOK, TableStep, NEW c \in Clients \cup {Tab}, ClientOK(c), HasAnswer(c),
         reply'[c] # None => reply'[c] = reply[c] /\ request'[c].asked = request[c].asked
  PROVE  HasAnswer(c)'
<1>1. CASE reply'[c] = None
  BY <1>1 DEF HasAnswer
<1>2. CASE reply'[c] # None
  <2>1. PICK a, asked : a = reply[c] /\ asked = request[c].asked
    OBVIOUS
  <2>2. reply'[c] = a /\ request'[c].asked = asked /\ TrueAnswer(asked, a, db, log)
    BY <1>2, <2>1 DEF HasAnswer
  <2>3. a.at \in 0 .. Len(log)
    <3>1. reply[c].at \in request[c].since .. Len(log) /\ request[c].since \in 0 .. Len(log)
      BY <1>2 DEF ClientOK, OpenRequest
    <3> QED
      BY <2>1, <3>1
  <2>4. TrueAnswer(asked, a, db', log')
    BY <2>2, <2>3, MomentRests
  <2> QED
    BY <2>2, <2>4 DEF HasAnswer
<1> QED
  BY <1>1, <1>2

\* A refusal, or a failure, shows nothing.
LEMMA ErrorShowsNothing ==
  ASSUME NEW asked, NEW a, NEW d, NEW l, a.code \notin {200, 404} \/ (asked.route = "status" /\ a.code = 200)
  PROVE  TrueAnswer(asked, a, d, l)
BY DEF TrueAnswer

\* A request that comes.
LEMMA RefusalShowsNothing ==
  ASSUME ServiceTypes, NEW c \in Clients \cup {Tab}, ClientOK(c), NEW r, Handle(c, r)
  PROVE  HasAnswer(c)'
<1>1. c \in Threads
  BY DEF Threads
<1>2. CASE Refusal(r) = 0
  <2>1. reply'[c] = None
    BY <1>2 DEF Handle, ClientOK
  <2> QED
    BY <2>1 DEF HasAnswer
<1>3. CASE Refusal(r) # 0
  <2>1. reply'[c] = [code |-> Refusal(r), body |-> None, at |-> Len(log')]
    BY <1>1, <1>3 DEF Handle, Respond, ServiceTypes
  <2>2. Refusal(r) \in {0, 400, 500}
    BY DEF Refusal
  <2>3. reply'[c].code \notin {200, 404}
    BY <1>3, <2>1, <2>2
  <2> QED
    BY <2>3, ErrorShowsNothing DEF HasAnswer
<1> QED
  BY <1>2, <1>3

\* A call that was executed shows the table as it was at its commit.
LEMMA AnswerShows ==
  ASSUME ArraysRoundTrip, ServiceTypes, CallsOK, LogOK, NEW c \in Clients \cup {Tab}, Commit(c)
  PROVE  HasAnswer(c)'
<1> PICK asked, m : asked = request[c].asked /\ m = call[c]
  OBVIOUS
<1>1. /\ c \in Threads /\ c \notin Writers /\ c # None
      /\ ClientOK(c) /\ TabOK /\ HolderOK /\ holder = c /\ link = "open" /\ call[c] # None
      /\ call = [t \in Threads |-> call[t]] /\ reply = [t \in Threads |-> reply[t]] /\ Continue(c)
      /\ outcome = Execute(m, db) /\ ~outcome.thrown
      /\ db' = outcome.db /\ log' = log \o Change(c)
      /\ DbOK(db) /\ log \in Seq(LogEntry) /\ Records(db, log)
  BY ServiceAssumption DEF Commit, Threads, CallsOK, HolderOK, ServiceTypes, LogOK
<1>2. Serves(c) /\ OpenRequest(c) /\ reply[c] = None
  BY <1>1, ClientCalls DEF ClientOK
<1>3. CASE m.op = "update"
  <2>1. reply'[c] = None
    BY <1>1, <1>2, <1>3 DEF Continue
  <2> QED
    BY <2>1 DEF HasAnswer
<1>4. CASE m.op # "update"
  <2>1. m.op \in Reading
    BY <1>1, <1>4, ClientCalls
  <2>2. db' = db
    BY <1>1, <2>1, ReadingChangesNothing
  <2>3. log' = log
    BY <1>1, <2>1 DEF Change, Reading
  <2>4. /\ request'[c].asked = asked
        /\ reply'[c] = IF m.op # "get" THEN [code |-> 200, body |-> outcome.answer, at |-> Len(log)]
                       ELSE IF outcome.answer.alerts = <<>> THEN [code |-> 404, body |-> None, at |-> Len(log)]
                       ELSE [code |-> 200, body |-> outcome.answer.alerts[1], at |-> Len(log)]
    BY <1>1, <1>4, <2>3 DEF Continue, Respond
  <2>5. PICK a : a = reply'[c]
    OBVIOUS
  <2>6. asked.route \in {"patch", "alert", "status", "alerts"} /\ Asked(asked) /\ Refusal(asked) = 0
    BY <1>2 DEF OpenRequest, Asked, Serves
  <2>7. CASE m.op = "get"
    <3>1. m.id = asked.id /\ asked.route \in {"alert", "patch"}
      <4>1. CASE m = Call(asked)
        BY <2>6, <2>7, <4>1 DEF Call
      <4>2. CASE m # Call(asked)
        BY <1>2, <4>2 DEF Serves
      <4> QED
        BY <4>1, <4>2
    <3>2. outcome = GetAlert(db, asked.id)
      BY <1>1, <2>7, <3>1, Zenon DEF Execute
    <3>3. PICK found : found = GetAlert(db, asked.id).answer.alerts
      OBVIOUS
    <3>4. a = RowAnswer(found, Len(log))
      BY <2>4, <2>5, <2>7, <3>2, <3>3, Zenon DEF RowAnswer
    <3>5. TrueAnswer(asked, a, db, log)
      <4>1. DbOK(db) /\ log \in Seq(LogEntry) /\ Records(db, log) /\ asked.route \in {"alert", "patch"}
        BY <1>1, <3>1
      <4> QED
        BY <3>3, <3>4, <4>1, RowAgrees
    <3> QED
      BY <2>2, <2>3, <2>4, <2>5, <3>5, Zenon DEF HasAnswer
  <2>8. CASE m.op # "get"
    <3>1. m = Call(asked)
      BY <1>2, <2>8 DEF Serves
    <3>2. a = [code |-> 200, body |-> outcome.answer, at |-> Len(log)]
      BY <2>4, <2>5, <2>8, Zenon
    <3>3. asked.route # "patch" /\ asked.route # "alert"
      BY <1>4, <2>8, <3>1 DEF Call
    <3>4. CASE asked.route = "status"
      <4>1. a.code = 200
        BY <3>2
      <4>2. TrueAnswer(asked, a, db, log)
        BY <3>4, <4>1, ErrorShowsNothing
      <4> QED
        BY <2>2, <2>3, <2>4, <2>5, <4>2, Zenon DEF HasAnswer
    <3>5. CASE asked.route = "alerts"
      <4>1. ~Execute(Call(asked), db).thrown
            /\ a = [code |-> 200, body |-> Execute(Call(asked), db).answer, at |-> Len(log)]
        BY <1>1, <3>1, <3>2, Zenon
      <4>2. TrueAnswer(asked, a, db, log)
        BY <1>1, <2>6, <3>5, <4>1, ListingAgrees
      <4> QED
        BY <2>2, <2>3, <2>4, <2>5, <4>2, Zenon DEF HasAnswer
    <3> QED
      BY <2>6, <3>3, <3>4, <3>5
  <2> QED
    BY <2>7, <2>8
<1> QED
  BY <1>3, <1>4

\* A call that has thrown.
LEMMA FailureShowsNothing ==
  ASSUME ServiceTypes, CallsOK, NEW c \in Clients \cup {Tab}, Throw(c)
  PROVE  HasAnswer(c)'
<1>1. /\ c \in Threads /\ c \notin Writers /\ c # None
      /\ ClientOK(c) /\ TabOK /\ HolderOK /\ holder = c /\ call[c] # None
      /\ call = [t \in Threads |-> call[t]] /\ reply = [t \in Threads |-> reply[t]] /\ request' = request
  BY ServiceAssumption DEF Throw, Threads, CallsOK, HolderOK, ServiceTypes
<1>2. Serves(c)
  BY <1>1 DEF ClientOK
<1>3. reply'[c].code = IF call[c].op = "ping" THEN 200 ELSE IF call[c].op = "update" THEN 400 ELSE 500
  BY <1>1 DEF Throw, Respond, FailureCode
<1>4. CASE call[c].op = "ping"
  <2>1. call[c] = Call(request[c].asked)
    BY <1>2, <1>4 DEF Serves
  <2>2. request'[c].asked.route = "status"
    BY <1>1, <1>4, <2>1 DEF Call
  <2> QED
    BY <1>3, <1>4, <2>2, ErrorShowsNothing DEF HasAnswer
<1>5. CASE call[c].op # "ping"
  BY <1>3, <1>5, ErrorShowsNothing DEF HasAnswer
<1> QED
  BY <1>4, <1>5

-----------------------------------------------------------------------------
\* What a step can do to the answer of a client: leave it, or take it away; or it is the client's own.
LEMMA AnswerSteps ==
  ASSUME ArraysRoundTrip, ServiceTypes, CallsOK, [ServiceNext]_serviceVars, NEW c \in Clients \cup {Tab}
  PROVE  \/ reply'[c] # None => reply'[c] = reply[c] /\ request'[c].asked = request[c].asked
         \/ \E r : Asked(r) /\ Handle(c, r)
         \/ Commit(c) \/ Throw(c)
<1> DEFINE Rests == reply'[c] # None => reply'[c] = reply[c] /\ request'[c].asked = request[c].asked
           Comes == \E r : Asked(r) /\ Handle(c, r)
<1> HIDE DEF Rests, Comes
<1>0. /\ TableStep /\ HolderOK /\ TabOK /\ ClientOK(c) /\ c \in Threads /\ c \notin Writers
      /\ call = [t \in Threads |-> call[t]] /\ reply = [t \in Threads |-> reply[t]]
      /\ request = [t \in Threads |-> request[t]]
  BY TableSteps, ServiceAssumption DEF CallsOK, Threads, ServiceTypes
<1>1. ASSUME UNCHANGED Own(c) PROVE Rests
  BY <1>1 DEF Own, Rests
<1>2. ASSUME NEW w \in Writers, Raise(w) PROVE Rests
  BY <1>2 DEF Raise, Rests
<1>3. ASSUME NEW u \in (Clients \cup {Tab}) \ {c}, NEW r, Asked(r), Handle(u, r) PROVE Rests
  <2>1. ClientOK(u)
    BY <1>3 DEF CallsOK
  <2> QED
    BY <1>0, <1>1, <1>3, <2>1, HandleKeeps
<1>4. ASSUME NEW u \in Clients \cup {Tab}, NEW r, Asked(r), Handle(u, r) PROVE Rests \/ Comes
  BY <1>3, <1>4 DEF Comes
<1>5. ASSUME NEW u \in Clients, Ask(u) PROVE Rests \/ Comes
  <2>1. PICK r \in bounds.asks : Handle(u, r)
    BY <1>5 DEF Ask
  <2>2. Asked(r)
    BY RequestsAssumption DEF ServiceTypes, Asked
  <2> QED
    BY <1>4, <2>1, <2>2
<1>6. ASSUME OpenList \/ TurnPage PROVE Rests \/ Comes
  <2>1. PICK filter : \E offset \in Nat : Handle(Tab, PageRequest(filter, offset))
    <3>1. CASE OpenList
      BY <3>1 DEF OpenList
    <3>2. CASE TurnPage
      <4>1. walk # None /\ Handle(Tab, PageRequest(walk.filter, walk.offset))
        BY <3>2 DEF TurnPage
      <4>2. walk.offset \in Nat
        BY <1>0, <4>1 DEF TabOK, WalkShape
      <4> QED
        BY <4>1, <4>2
    <3> QED
      BY <1>6, <3>1, <3>2
  <2>2. PICK offset \in Nat : Handle(Tab, PageRequest(filter, offset))
    BY <2>1
  <2>3. PICK r : r = PageRequest(filter, offset)
    OBVIOUS
  <2>4. Asked(r) /\ Handle(Tab, r)
    BY <2>2, <2>3, ServiceAssumption DEF Asked, PageRequest
  <2> QED
    BY <1>4, <2>4
<1>7. ASSUME ReadPage \/ UNCHANGED serviceVars \/ \E u \in Clients : Read(u) PROVE Rests
  BY <1>0, <1>7 DEF ReadPage, Read, serviceVars, Rests
<1>8. ASSUME NEW t \in Threads, Begin(t) PROVE Rests
  BY <1>8 DEF Begin, Rests
<1>9. ASSUME NEW t \in (Clients \cup {Tab}) \ {c}, Commit(t) \/ Throw(t) PROVE Rests
  <2>1. CASE Commit(t)
    BY <1>0, <1>1, <1>9, <2>1, CommitKeeps
  <2>2. CASE Throw(t)
    BY <1>0, <1>1, <1>9, <2>2, ThrowKeeps
  <2> QED
    BY <1>9, <2>1, <2>2
<1>10. ASSUME NEW t \in Writers, Commit(t) PROVE Rests
  BY <1>10 DEF Commit, Rests
<1>11. ASSUME Ends PROVE Rests
  BY <1>0, <1>11 DEF Ends, NoCalls, Rests
<1>12. ASSUME NEW t \in Writers, Throw(t) PROVE Rests
  BY <1>11, <1>12 DEF Throw, Uncaught
<1>13. ASSUME LoseLink PROVE Rests
  <2>1. /\ reply' = reply
        /\ request' = request \/ request' = [request EXCEPT ![holder].inDoubt = TRUE, ![holder].changed = TRUE]
    BY <1>13 DEF LoseLink
  <2>2. request'[c].asked = request[c].asked
    <3>1. CASE request' = request
      BY <3>1
    <3>2. CASE request' = [request EXCEPT ![holder].inDoubt = TRUE, ![holder].changed = TRUE]
      <4>1. CASE holder = c
        <5>1. request'[c] = [request[c] EXCEPT !.inDoubt = TRUE, !.changed = TRUE]
          BY <1>0, <3>2, <4>1
        <5> QED
          BY <5>1
      <4>2. CASE holder # c
        BY <1>0, <3>2, <4>2
      <4> QED
        BY <4>1, <4>2
    <3> QED
      BY <2>1, <3>1, <3>2
  <2> QED
    BY <2>1, <2>2 DEF Rests
<1>14. ASSUME Kill PROVE Rests
  BY <1>11, <1>14 DEF Kill
<1>15. ASSUME Start PROVE Rests
  BY <1>0, <1>15 DEF Start, HolderOK, NoCalls, Rests
<1>16. Rests \/ Comes \/ Commit(c) \/ Throw(c)
  BY <1>2, <1>5, <1>6, <1>7, <1>8, <1>9, <1>10, <1>12, <1>13, <1>14, <1>15 DEF ServiceNext, Proceed, Threads
<1> QED
  BY <1>16 DEF Rests, Comes

LEMMA RepliesKept ==
  ASSUME ArraysRoundTrip, ServiceTypes, CallsOK, LogOK, RepliesOK, [ServiceNext]_serviceVars
  PROVE  RepliesOK'
<1>1. ASSUME NEW c \in Clients \cup {Tab} PROVE HasAnswer(c)'
  <2>0. TableStep /\ ClientOK(c) /\ HasAnswer(c)
    BY TableSteps DEF CallsOK, RepliesOK, HasAnswer
  <2>1. CASE reply'[c] # None => reply'[c] = reply[c] /\ request'[c].asked = request[c].asked
    BY <1>1, <2>0, <2>1, AnswerRests
  <2>2. ASSUME NEW r, Handle(c, r) PROVE HasAnswer(c)'
    BY <1>1, <2>0, <2>2, RefusalShowsNothing
  <2>3. CASE Commit(c)
    BY <1>1, <2>3, AnswerShows
  <2>4. CASE Throw(c)
    BY <1>1, <2>4, FailureShowsNothing
  <2> QED
    BY <1>1, <2>1, <2>2, <2>3, <2>4, AnswerSteps
<1> QED
  BY <1>1 DEF RepliesOK, HasAnswer

-----------------------------------------------------------------------------
\* What the answers show

\* Rows are inserted in the order of their ids.
LEMMA PositionsAreOrdered ==
  ASSUME ServiceTypes, LogOK, NEW i \in DOMAIN db.rows, NEW j \in DOMAIN db.rows
  PROVE  /\ Position(i) \in Nat
         /\ i < j <=> Position(i) < Position(j)
<1>1. DOMAIN db.rows \subseteq Nat /\ log \in Seq(LogEntry)
  BY DEF ServiceTypes, DbOK
<1>2. ASSUME NEW h \in DOMAIN db.rows PROVE IsFirst(log, Position(h), h)
  <2>1. \E p \in DOMAIN log : log[p].id = h /\ \A g \in 1 .. p - 1 : log[g].id # h
    BY DEF LogOK, Records, IsFirst
  <2> QED
    BY <2>1, Zenon DEF Position, IsFirst
<1>3. PICK p, q : p = Position(i) /\ q = Position(j)
  OBVIOUS
<1>4. p \in DOMAIN log /\ q \in DOMAIN log /\ log[p].id = i /\ log[q].id = j
  BY <1>2, <1>3 DEF IsFirst
<1>5. p \in Nat /\ q \in Nat
  BY <1>1, <1>4
<1>6. IsFirst(log, p, log[p].id) /\ IsFirst(log, q, log[q].id)
  BY <1>2, <1>3, <1>4
<1>7. (p < q => i < j) /\ (q < p => j < i)
  BY <1>4, <1>6 DEF LogOK, Records
<1> QED
  BY <1>1, <1>3, <1>4, <1>5, <1>7

LEMMA AgreeingRows ==
  ASSUME NEW asked, NEW a, NEW k, NEW d, NEW l, asked.route = "alerts", a.code # 404, Agrees(asked, a, k, d, l)
  PROVE  \A s \in Range(a.body.alerts) : s.alert_id \in Ids(l, k)
BY DEF Agrees

LEMMA LatestAreShown ==
  ASSUME ServiceTypes, CallsOK, LogOK, RepliesOK
  PROVE  RecentShowsTheLatest
<1>1. SUFFICES ASSUME NEW c \in Clients,
                      HasReply(c, "alerts") /\ reply[c].code = 200 /\ Call(request[c].asked).op = "recent"
               PROVE
      LET listed == [k \in DOMAIN reply[c].body.alerts |-> Position(reply[c].body.alerts[k].alert_id)]
      IN  /\ \A j, k \in DOMAIN listed : j < k => listed[j] > listed[k]
          /\ \A i \in Inserted(request[c].since) :
               Position(i) \in Range(listed)
               \/ (Len(listed) = request[c].asked.limit /\ \A p \in Range(listed) : Position(i) < p)
  BY Zenon DEF RecentShowsTheLatest
<1> DEFINE alerts == reply[c].body.alerts
           listed == [k \in DOMAIN alerts |-> Position(alerts[k].alert_id)]
<1> PICK at, n : at = reply[c].at /\ n = Len(alerts)
  OBVIOUS
<1>2. /\ reply[c] # None /\ request[c].asked.route = "alerts" /\ reply[c].code # 404 /\ ClientOK(c)
      /\ TrueAnswer(request[c].asked, reply[c], db, log)
  BY <1>1 DEF HasReply, RepliesOK, CallsOK
<1>3. Agrees(request[c].asked, reply[c], at, db, log) /\ IsTheLatest(alerts, request[c].asked.limit, Ids(log, at))
  BY <1>1, <1>2, Zenon DEF TrueAnswer
<1>20. /\ DOMAIN alerts = 1 .. n => DOMAIN listed = 1 .. n
       /\ \A k \in DOMAIN alerts : listed[k] = Position(alerts[k].alert_id)
  OBVIOUS
<1> HIDE DEF alerts, listed
<1>4. Inserted(request[c].since) \subseteq Ids(log, at) /\ Ids(log, at) \subseteq DOMAIN db.rows
  <2>1. request[c].since \in 0 .. Len(log) /\ at \in request[c].since .. Len(log) /\ Len(log) \in Nat
    BY <1>2 DEF ClientOK, OpenRequest, ServiceTypes
  <2>2. DOMAIN db.rows = Ids(log, Len(log))
    BY DEF LogOK, Records
  <2> QED
    BY <2>1, <2>2 DEF Ids, Inserted
<1>5. DOMAIN alerts = 1 .. n /\ n \in Nat
  BY <1>3 DEF IsTheLatest
<1>6. \A k \in 1 .. n : alerts[k].alert_id \in DOMAIN db.rows
  <2>1. \A s \in Range(alerts) : s.alert_id \in Ids(log, at)
    BY <1>2, <1>3, AgreeingRows DEF alerts
  <2>2. \A k \in 1 .. n : alerts[k] \in Range(alerts)
    BY <1>5, Zenon DEF Range
  <2> QED
    BY <1>4, <2>1, <2>2
<1>7. DOMAIN listed = 1 .. n /\ (\A k \in 1 .. n : listed[k] = Position(alerts[k].alert_id)) /\ Len(listed) = n
  <2>1. DOMAIN listed = 1 .. n /\ \A k \in 1 .. n : listed[k] = Position(alerts[k].alert_id)
    BY <1>20, <1>5
  <2>2. listed = [k \in 1 .. n |-> listed[k]]
    BY <1>5 DEF listed
  <2> QED
    BY <1>5, <2>1, <2>2
<1>8. Range(listed) = {listed[k] : k \in 1 .. n}
  BY <1>7 DEF Range
<1>9. \A j, k \in DOMAIN listed : j < k => listed[j] > listed[k]
  <2>1. SUFFICES ASSUME NEW j \in 1 .. n, NEW k \in 1 .. n, j < k PROVE listed[j] > listed[k]
    BY <1>7
  <2>2. alerts[j].alert_id > alerts[k].alert_id
    BY <1>3, <1>5, <2>1 DEF IsTheLatest
  <2>3. PICK g \in DOMAIN db.rows, h \in DOMAIN db.rows : g = alerts[j].alert_id /\ h = alerts[k].alert_id
    BY <1>6
  <2>4. h < g
    BY <2>2, <2>3 DEF ServiceTypes, DbOK
  <2>5. Position(h) < Position(g) /\ Position(g) \in Nat /\ Position(h) \in Nat
    BY <2>4, PositionsAreOrdered
  <2>6. listed[j] = Position(g) /\ listed[k] = Position(h)
    BY <1>7, <2>3
  <2> QED
    BY <2>5, <2>6
<1>10. ASSUME NEW i \in Inserted(request[c].since)
       PROVE  \/ Position(i) \in Range(listed)
              \/ Len(listed) = request[c].asked.limit /\ \A p \in Range(listed) : Position(i) < p
  <2>1. i \in Ids(log, at) /\ i \in DOMAIN db.rows
    BY <1>4
  <2>2. CASE Shows(alerts, i)
    BY <1>5, <1>7, <1>8, <2>2 DEF Shows
  <2>3. CASE n = request[c].asked.limit /\ \A k \in 1 .. n : alerts[k].alert_id > i
    <3>1. ASSUME NEW k \in 1 .. n PROVE Position(i) < listed[k]
      <4>1. PICK g \in DOMAIN db.rows : g = alerts[k].alert_id
        BY <1>6
      <4>2. i < g
        BY <2>1, <2>3, <4>1 DEF ServiceTypes, DbOK
      <4>3. Position(i) < Position(g)
        BY <2>1, <4>2, PositionsAreOrdered
      <4> QED
        BY <1>7, <4>1, <4>3
    <3> QED
      BY <1>7, <1>8, <2>3, <3>1
  <2> QED
    BY <1>3, <1>5, <2>1, <2>2, <2>3 DEF IsTheLatest
<1> QED
  BY <1>9, <1>10 DEF listed, alerts

LEMMA AnswersAgree ==
  ASSUME ServiceTypes, CallsOK, LogOK, RepliesOK
  PROVE  AnswersShowTheTable
<1>1. ASSUME NEW c \in Clients \cup {Tab}, reply[c] # None, request[c].asked.route # "status", reply[c].code \in {200, 404}
      PROVE  \E k \in request[c].since .. reply[c].at : AgreesWith(c, k)
  <2>1. Agrees(request[c].asked, reply[c], reply[c].at, db, log)
    BY <1>1 DEF RepliesOK, TrueAnswer
  <2>2. AgreesWith(c, reply[c].at)
    BY <2>1, AgreesWithIn
  <2>3. reply[c].at \in request[c].since .. reply[c].at
    <3>1. ClientOK(c) /\ Len(log) \in Nat
      BY <1>1 DEF CallsOK, ServiceTypes
    <3>2. reply[c].at \in request[c].since .. Len(log) /\ request[c].since \in 0 .. Len(log)
      BY <1>1, <3>1 DEF ClientOK, OpenRequest
    <3> QED
      BY <3>1, <3>2
  <2> QED
    BY <2>2, <2>3
<1> QED
  BY <1>1, LatestAreShown DEF AnswersShowTheTable, EveryAnswerIsASnapshot

-----------------------------------------------------------------------------
\* Rows before the first in a list are fewer than all.
LEMMA LaterIsSmall ==
  ASSUME NEW S \in SUBSET Nat, IsFiniteSet(S), NEW i \in S
  PROVE  Later(i, S) \in Nat /\ Cardinality(S) \in Nat /\ Later(i, S) < Cardinality(S)
<1>1. {j \in S : j > i} \in SUBSET (S \ {i})
  OBVIOUS
<1>2. IsFiniteSet(S \ {i}) /\ Cardinality(S \ {i}) = Cardinality(S) - 1
  BY FS_RemoveElement
<1>3. IsFiniteSet({j \in S : j > i}) /\ Cardinality({j \in S : j > i}) <= Cardinality(S) - 1
  BY <1>1, <1>2, FS_Subset
<1>4. Cardinality({j \in S : j > i}) \in Nat /\ Cardinality(S) \in Nat
  BY <1>3, FS_CardinalityType
<1> QED
  BY <1>3, <1>4 DEF Later

LEMMA MoreAreLater ==
  ASSUME NEW T \in SUBSET Nat, IsFiniteSet(T), NEW S \in SUBSET T, NEW i \in Nat
  PROVE  Later(i, S) \in Nat /\ Later(i, T) \in Nat /\ Later(i, S) <= Later(i, T)
<1>1. {j \in T : j > i} \in SUBSET T /\ {j \in S : j > i} \in SUBSET {j \in T : j > i}
  OBVIOUS
<1>2. IsFiniteSet({j \in T : j > i})
  BY <1>1, FS_Subset
<1>3. IsFiniteSet({j \in S : j > i}) /\ Cardinality({j \in S : j > i}) <= Cardinality({j \in T : j > i})
  BY <1>1, <1>2, FS_Subset
<1> QED
  BY <1>2, <1>3, FS_CardinalityType DEF Later

LEMMA MatchingFinite ==
  ASSUME NEW d, DbOK(d), NEW l \in Seq(LogEntry), Records(d, l), NEW k \in 0 .. Len(l), NEW F
  PROVE  MatchingIn(F, k, d, l) \in SUBSET Nat /\ IsFiniteSet(MatchingIn(F, k, d, l))
<1>1. Ids(l, k) \subseteq Ids(l, Len(l)) /\ Ids(l, Len(l)) = DOMAIN d.rows
  BY DEF Ids, Records
<1>2. MatchingIn(F, k, d, l) \in SUBSET DOMAIN d.rows
  BY <1>1 DEF MatchingIn
<1> QED
  BY <1>2, RowsFinite

\* While no client changes what the list filters by, what matches goes on to match, and what is
\* inserted comes before it.
LEMMA ListsGrow ==
  ASSUME NEW d, DbOK(d), NEW l \in Seq(LogEntry), Records(d, l), NEW F,
         NEW j \in 0 .. Len(l), NEW k \in j .. Len(l), F.status = None \/ \A h \in j + 1 .. k : l[h].by \notin Clients
  PROVE  /\ MatchingIn(F, j, d, l) \subseteq MatchingIn(F, k, d, l)
         /\ \A i \in MatchingIn(F, j, d, l) :
              /\ Later(i, MatchingIn(F, j, d, l)) \in Nat /\ Later(i, MatchingIn(F, k, d, l)) \in Nat
              /\ Later(i, MatchingIn(F, j, d, l)) <= Later(i, MatchingIn(F, k, d, l))
<1>1. j \in Nat /\ k \in Nat /\ j <= k /\ k <= Len(l) /\ Len(l) \in Nat /\ k \in 0 .. Len(l)
  OBVIOUS
<1>2. Ids(l, j) \subseteq Ids(l, k)
  BY <1>1 DEF Ids
<1>3. ASSUME NEW i \in Ids(l, j), F.status # None PROVE StatusIn(l, i, j) = StatusIn(l, i, k)
  <2>1. PICK p \in 1 .. j : LatestChange(l, p, i, j)
    BY DEF Records
  <2>2. p \in 1 .. k /\ l[p].id = i /\ \A h \in p + 1 .. j : l[h].id # i
    BY <1>1, <2>1 DEF LatestChange
  <2>3. ASSUME NEW h \in j + 1 .. k PROVE l[h].id # i
    <3>1. h \in DOMAIN l /\ l[h].by \notin Clients
      BY <1>1, <1>3
    <3>2. IsFirst(l, h, l[h].id)
      BY <3>1 DEF Records
    <3>3. p \in 1 .. h - 1
      BY <1>1, <2>1
    <3> QED
      BY <2>2, <3>2, <3>3 DEF IsFirst
  <2>4. \A h \in p + 1 .. k : h \in p + 1 .. j \/ h \in j + 1 .. k
    BY <1>1
  <2>5. LatestChange(l, p, i, k)
    BY <2>2, <2>3, <2>4 DEF LatestChange
  <2> QED
    BY <1>1, <2>1, <2>5, StatusIs
<1>4. MatchingIn(F, j, d, l) \subseteq MatchingIn(F, k, d, l)
  BY <1>2, <1>3 DEF MatchingIn
<1>5. PICK S, T : S = MatchingIn(F, j, d, l) /\ T = MatchingIn(F, k, d, l)
  OBVIOUS
<1>6. T \in SUBSET Nat /\ IsFiniteSet(T) /\ S \in SUBSET T
  BY <1>1, <1>4, <1>5, MatchingFinite
<1>7. \A i \in S : Later(i, S) \in Nat /\ Later(i, T) \in Nat /\ Later(i, S) <= Later(i, T)
  BY <1>6, MoreAreLater
<1> QED
  BY <1>4, <1>5, <1>7

\* What is ahead stays ahead as the table goes on.
LEMMA WalkGoesOn ==
  ASSUME ServiceTypes, LogOK, TableStep, NEW w, w.start \in 0 .. Len(log), w.offset \in Nat,
         NEW from \in 0 .. Len(log), NothingSkipped(w, from, db, log)
  PROVE  NothingSkipped(w, from, db', log') /\ NothingSkipped(w, Len(log'), db', log')
<1> PICK n, m, d, l : n = Len(log) /\ m = Len(log') /\ d = db' /\ l = log'
  OBVIOUS
<1>1. /\ n \in Nat /\ m \in Nat /\ n <= m /\ (\A j \in 1 .. n : l[j] = log[j])
      /\ DbOK(d) /\ l \in Seq(LogEntry) /\ Records(d, l) /\ m = Len(l)
      /\ w.start \in 0 .. n /\ w.start <= from /\ from \in 0 .. n
  BY TableGrows, RecordsKept DEF NothingSkipped, LogOK
<1>2. ASSUME NEW k \in 0 .. n PROVE MatchingIn(w.filter, k, d, l) = MatchingIn(w.filter, k, db, log)
  BY <1>2, MomentRests
<1>3. ASSUME NEW k \in from .. n PROVE Ahead(w, k, d, l)
  <2>1. Ahead(w, k, db, log)
    BY <1>3 DEF NothingSkipped
  <2>2. k \in 0 .. n /\ w.start \in 0 .. n
    BY <1>1
  <2>3. Undisturbed(w, k, l) => Undisturbed(w, k, log)
    BY <1>1 DEF Undisturbed
  <2> QED
    BY <1>2, <2>1, <2>2, <2>3 DEF Ahead
<1>4. ASSUME NEW k \in n .. m PROVE Ahead(w, k, d, l)
  <2>1. SUFFICES ASSUME Undisturbed(w, k, l), NEW i \in MatchingIn(w.filter, w.start, d, l), i \notin w.seen
                 PROVE  w.offset <= Later(i, MatchingIn(w.filter, k, d, l))
    BY DEF Ahead
  <2>2. Ahead(w, n, d, l)
    BY <1>1, <1>3
  <2>3. Undisturbed(w, n, l)
    BY <1>1, <2>1 DEF Undisturbed
  <2>4. w.offset <= Later(i, MatchingIn(w.filter, n, d, l))
    BY <2>1, <2>2, <2>3 DEF Ahead
  <2>5. MatchingIn(w.filter, w.start, d, l) \subseteq MatchingIn(w.filter, n, d, l)
    <3>1. w.filter.status = None \/ \A h \in w.start + 1 .. n : l[h].by \notin Clients
      BY <2>3 DEF Undisturbed
    <3>2. w.start \in 0 .. Len(l) /\ n \in w.start .. Len(l)
      BY <1>1
    <3> QED
      BY <1>1, <3>1, <3>2, ListsGrow
  <2>6. /\ Later(i, MatchingIn(w.filter, n, d, l)) \in Nat /\ Later(i, MatchingIn(w.filter, k, d, l)) \in Nat
        /\ Later(i, MatchingIn(w.filter, n, d, l)) <= Later(i, MatchingIn(w.filter, k, d, l))
    <3>1. w.filter.status = None \/ \A h \in n + 1 .. k : l[h].by \notin Clients
      BY <1>1, <2>1 DEF Undisturbed
    <3>2. n \in 0 .. Len(l) /\ k \in n .. Len(l)
      BY <1>1
    <3>3. i \in MatchingIn(w.filter, n, d, l)
      BY <2>1, <2>5
    <3> QED
      BY <1>1, <3>1, <3>2, <3>3, ListsGrow
  <2> QED
    BY <2>4, <2>6
<1>5. \A k \in from .. m : Ahead(w, k, d, l)
  BY <1>1, <1>3, <1>4
<1> QED
  BY <1>1, <1>5 DEF NothingSkipped

\* A walk that is done is complete, unless it was disturbed.
Complete(w, d, l) ==
  w.done /\ Undisturbed(w, Len(l), l) => MatchingIn(w.filter, w.start, d, l) \subseteq w.seen

LEMMA WalkIn == WalkMissesNothing <=> (walk # None => Complete(walk, db, log))
<1>1. walk # None => (MatchingAt(walk.filter, walk.start) = MatchingIn(walk.filter, walk.start, db, log))
  BY MatchingAtIn
<1> QED
  BY <1>1, Zenon DEF WalkMissesNothing, Complete, Undisturbed

LEMMA CompleteStays ==
  ASSUME ServiceTypes, LogOK, TableStep, NEW w, w.start \in 0 .. Len(log), Complete(w, db, log)
  PROVE  Complete(w, db', log')
<1>1. MatchingIn(w.filter, w.start, db', log') = MatchingIn(w.filter, w.start, db, log)
  BY MomentRests
<1>2. Undisturbed(w, Len(log'), log') => Undisturbed(w, Len(log), log)
  <2>1. PICK n, m, l : n = Len(log) /\ m = Len(log') /\ l = log'
    OBVIOUS
  <2>2. n \in Nat /\ m \in Nat /\ n <= m /\ (\A j \in 1 .. n : l[j] = log[j]) /\ w.start \in 0 .. n
    BY <2>1, TableGrows
  <2>3. Undisturbed(w, m, l) => Undisturbed(w, n, log)
    BY <2>2 DEF Undisturbed
  <2> QED
    BY <2>1, <2>3
<1> QED
  BY <1>1, <1>2 DEF Complete

-----------------------------------------------------------------------------
\* What a step can do to the walk: end it, leave it with the moment its page was asked for, start
\* one, read a page.
LEMMA WalkSteps ==
  ASSUME ArraysRoundTrip, ServiceTypes, CallsOK, [ServiceNext]_serviceVars
  PROVE  \/ walk' = None /\ ~request'[Tab].open
         \/ /\ walk' = walk
            /\ request'[Tab].open => request'[Tab].since = Pending /\ (request[Tab].open \/ walk # None)
         \/ OpenList \/ ReadPage
<1> DEFINE Rests == /\ walk' = walk
                    /\ request'[Tab].open => request'[Tab].since = Pending /\ (request[Tab].open \/ walk # None)
           Over == walk' = None /\ ~request'[Tab].open
<1> HIDE DEF Rests, Over
<1>0. /\ TableStep /\ HolderOK /\ TabOK /\ Tab \in Threads /\ Tab \notin Writers /\ Tab \notin Clients
      /\ Tab \in Clients \cup {Tab} /\ call = [t \in Threads |-> call[t]]
      /\ request = [t \in Threads |-> request[t]]
  BY TableSteps, ServiceAssumption DEF CallsOK, Threads, ServiceTypes
<1>1. ASSUME walk' = walk, request'[Tab] = request[Tab] PROVE Rests
  BY <1>1 DEF Rests, Pending
<1>2. ASSUME NEW w \in Writers, Raise(w) PROVE Rests
  BY <1>1, <1>2 DEF Raise
<1>3. ASSUME NEW u \in Clients, Ask(u) PROVE Rests
  BY <1>0, <1>1, <1>3 DEF Ask, Handle
<1>4. ASSUME TurnPage PROVE Rests
  <2>1. PICK r : Handle(Tab, r) /\ walk' = walk /\ walk # None
    BY <1>4 DEF TurnPage
  <2>2. request'[Tab] = [open |-> TRUE, asked |-> r, since |-> Len(log), changed |-> FALSE, inDoubt |-> FALSE]
        /\ ~request[Tab].open
    BY <1>0, <2>1 DEF Handle
  <2>3. request'[Tab].since = Len(log)
    BY <2>2
  <2> QED
    BY <2>1, <2>2, <2>3 DEF Rests, Pending
<1>5. ASSUME UNCHANGED serviceVars PROVE Rests
  BY <1>1, <1>5 DEF serviceVars
<1>6. ASSUME NEW u \in Clients, Read(u) PROVE Rests
  BY <1>0, <1>1, <1>6 DEF Read
<1>7. ASSUME NEW t \in Threads, Begin(t) PROVE Rests
  BY <1>1, <1>7 DEF Begin
<1>8. ASSUME NEW t \in Clients, Commit(t) PROVE Rests
  <2>1. UNCHANGED Own(Tab)
    BY <1>0, <1>8, CommitKeeps
  <2> QED
    BY <1>1, <1>8, <2>1 DEF Own, Commit
<1>9. ASSUME Commit(Tab) PROVE Rests
  <2>1. Continue(Tab) /\ walk' = walk /\ call[Tab] # None /\ ClientOK(Tab)
    BY <1>0, <1>9, ServiceAssumption DEF Commit, CallsOK, HolderOK
  <2>2. call[Tab].op # "update"
    BY <1>0, <2>1, ClientCalls DEF Reading
  <2>3. request' = request
    BY <2>1, <2>2 DEF Continue
  <2> QED
    BY <1>1, <2>1, <2>3
<1>10. ASSUME NEW t \in Writers, Commit(t) PROVE Rests
  BY <1>1, <1>10 DEF Commit
<1>11. ASSUME Ends PROVE Over
  BY <1>0, <1>11 DEF Ends, NoRequests, Over
<1>12. ASSUME NEW t \in Writers, Throw(t) PROVE Over
  BY <1>11, <1>12 DEF Throw, Uncaught
<1>13. ASSUME NEW t \in Clients \cup {Tab}, Throw(t) PROVE Rests
  BY <1>0, <1>1, <1>13, ThrowKeeps
<1>14. ASSUME LoseLink PROVE Rests
  <2>1. /\ walk' = walk
        /\ request' = request \/ request' = [request EXCEPT ![holder].inDoubt = TRUE, ![holder].changed = TRUE]
    BY <1>14 DEF LoseLink
  <2>2. request'[Tab].open = request[Tab].open /\ request'[Tab].since = request[Tab].since
    <3>1. CASE request' = request
      BY <3>1
    <3>2. CASE request' = [request EXCEPT ![holder].inDoubt = TRUE, ![holder].changed = TRUE]
      <4>1. CASE holder = Tab
        <5>1. request'[Tab] = [request[Tab] EXCEPT !.inDoubt = TRUE, !.changed = TRUE]
          BY <1>0, <3>2, <4>1
        <5> QED
          BY <5>1
      <4>2. CASE holder # Tab
        BY <1>0, <3>2, <4>2
      <4> QED
        BY <4>1, <4>2
    <3> QED
      BY <2>1, <3>1, <3>2
  <2> QED
    BY <2>1, <2>2 DEF Rests, Pending
<1>15. ASSUME Kill PROVE Over
  BY <1>11, <1>15 DEF Kill
<1>16. ASSUME Start PROVE Rests
  BY <1>1, <1>16 DEF Start
<1>17. Over \/ Rests \/ OpenList \/ ReadPage
  BY <1>2, <1>3, <1>4, <1>5, <1>6, <1>7, <1>8, <1>9, <1>10, <1>12, <1>13, <1>14, <1>15, <1>16
     DEF ServiceNext, Proceed, Threads
<1> QED
  BY <1>17 DEF Over, Rests

\* The walk after a page of it has been read.
Turned(w, a) ==
  [w EXCEPT !.seen = @ \cup {s.alert_id : s \in Range(a.body.alerts)},
            !.start = IF w.offset = 0 THEN a.at ELSE @,
            !.offset = @ + PageSize,
            !.done = w.offset + PageSize >= a.body.total_count]

\* A page that was asked for after what it left ahead was behind the pages before it: what is not
\* seen after it is behind it, too, and after the last page there is no such row.
LEMMA PageTurned ==
  ASSUME NEW d, DbOK(d), NEW l \in Seq(LogEntry), Records(d, l),
         NEW w, w = [filter |-> w.filter, offset |-> w.offset, seen |-> w.seen, start |-> w.start, done |-> w.done],
         w.offset \in Nat, NEW k \in 0 .. Len(l), w.start \in 0 .. k, Ahead(w, k, d, l),
         NEW a, a.at = k, a.code = 200, TrueAnswer(PageRequest(w.filter, w.offset), a, d, l),
         NEW v, v = Turned(w, a)
  PROVE  NothingSkipped(v, Len(l), d, l) /\ Complete(v, d, l)
<1> PICK F, n, M, alerts : F = w.filter /\ n = Len(l) /\ M = MatchingIn(F, k, d, l) /\ alerts = a.body.alerts
  OBVIOUS
<1>1. PICK asked : asked = PageRequest(F, w.offset)
  OBVIOUS
<1>2. /\ asked.route = "alerts" /\ asked.offset = w.offset /\ asked.limit = PageSize
      /\ asked.detector = F.detector /\ asked.status = F.status /\ asked.offset # None
  BY <1>1, ServiceAssumption DEF PageRequest
<1>3. /\ n \in Nat /\ k \in Nat /\ k <= n /\ w.start \in Nat /\ w.start <= k /\ PageSize \in Nat
  BY ServiceAssumption
<1>4. MatchingIn(asked, k, d, l) = M
  BY <1>2 DEF MatchingIn
<1>5. FillsItsPage(alerts, w.offset, PageSize, M) /\ a.body.total_count = Cardinality(M)
  <2>1. TrueAnswer(asked, a, d, l)
    BY <1>1
  <2>2. FillsItsPage(alerts, w.offset, PageSize, M) /\ Agrees(asked, a, k, d, l)
    BY <1>2, <1>4, <2>1 DEF TrueAnswer
  <2>3. a.body.total_count = Cardinality(M)
    BY <1>2, <1>4, <2>2 DEF Agrees
  <2> QED
    BY <2>2, <2>3
<1>6. M \in SUBSET Nat /\ IsFiniteSet(M)
  BY MatchingFinite
<1>7. /\ v.filter = F /\ v.offset = w.offset + PageSize
      /\ v.start = IF w.offset = 0 THEN k ELSE w.start
      /\ v.seen = w.seen \cup {s.alert_id : s \in Range(alerts)}
      /\ v.done = (w.offset + PageSize >= Cardinality(M))
  BY <1>5 DEF Turned
<1>8. ASSUME NEW i, Shows(alerts, i) PROVE i \in v.seen
  BY <1>7, <1>8 DEF Shows, Range
<1>9. ASSUME NEW i \in MatchingIn(F, v.start, d, l), w.offset = 0 \/ Undisturbed(w, k, l)
      PROVE  i \in M /\ (i \in v.seen \/ v.offset <= Later(i, M))
  <2>1. i \in M /\ (i \in w.seen \/ w.offset <= Later(i, M))
    <3>1. CASE w.offset = 0
      <4>1. i \in M
        BY <1>7, <1>9, <3>1
      <4> QED
        BY <1>6, <3>1, <4>1, LaterIsSmall
    <3>2. CASE w.offset # 0
      <4>1. Undisturbed(w, k, l) /\ i \in MatchingIn(F, w.start, d, l)
        BY <1>7, <1>9, <3>2
      <4>2. i \in w.seen \/ w.offset <= Later(i, M)
        BY <4>1 DEF Ahead
      <4>3. F.status = None \/ \A h \in w.start + 1 .. k : l[h].by \notin Clients
        BY <4>1 DEF Undisturbed
      <4>4. w.start \in 0 .. Len(l) /\ k \in w.start .. Len(l)
        BY <1>3
      <4>5. MatchingIn(F, w.start, d, l) \subseteq M
        BY <4>3, <4>4, ListsGrow
      <4> QED
        BY <4>1, <4>2, <4>5
    <3> QED
      BY <3>1, <3>2
  <2>2. Later(i, M) \in Nat
    BY <1>6, <2>1, LaterIsSmall
  <2>3. CASE i \in w.seen
    BY <1>7, <2>1, <2>3
  <2>4. CASE w.offset <= Later(i, M) /\ Later(i, M) < w.offset + PageSize
    BY <1>5, <1>8, <2>1, <2>4 DEF FillsItsPage
  <2>5. CASE w.offset + PageSize <= Later(i, M)
    BY <1>7, <2>1, <2>5
  <2> QED
    BY <1>3, <2>1, <2>2, <2>3, <2>4, <2>5
<1>10. Undisturbed(v, n, l) => w.offset = 0 \/ Undisturbed(w, k, l)
  BY <1>3, <1>7 DEF Undisturbed
<1>11. Ahead(v, n, d, l)
  <2>1. SUFFICES ASSUME Undisturbed(v, n, l), NEW i \in MatchingIn(F, v.start, d, l), i \notin v.seen
                 PROVE  v.offset <= Later(i, MatchingIn(F, n, d, l))
    BY <1>7 DEF Ahead
  <2>2. i \in M /\ v.offset <= Later(i, M)
    BY <1>9, <1>10, <2>1
  <2>3. F.status = None \/ \A h \in k + 1 .. n : l[h].by \notin Clients
    BY <1>3, <1>7, <2>1 DEF Undisturbed
  <2>4. k \in 0 .. Len(l) /\ n \in k .. Len(l)
    BY <1>3
  <2>5. /\ Later(i, M) \in Nat /\ Later(i, MatchingIn(F, n, d, l)) \in Nat
        /\ Later(i, M) <= Later(i, MatchingIn(F, n, d, l))
    BY <2>2, <2>3, <2>4, ListsGrow
  <2> QED
    BY <1>3, <1>7, <2>2, <2>5
<1>12. NothingSkipped(v, n, d, l)
  BY <1>3, <1>7, <1>11 DEF NothingSkipped
<1>13. Complete(v, d, l)
  <2>1. SUFFICES ASSUME v.done, Undisturbed(v, n, l), NEW i \in MatchingIn(F, v.start, d, l) PROVE i \in v.seen
    BY <1>7 DEF Complete
  <2>2. i \in M /\ (i \in v.seen \/ v.offset <= Later(i, M))
    BY <1>9, <1>10, <2>1
  <2>3. Later(i, M) \in Nat /\ Cardinality(M) \in Nat /\ Later(i, M) < Cardinality(M)
    BY <1>6, <2>2, LaterIsSmall
  <2>4. w.offset + PageSize >= Cardinality(M)
    BY <1>7, <2>1
  <2> QED
    BY <1>3, <1>7, <2>2, <2>3, <2>4
<1> QED
  BY <1>12, <1>13

LEMMA WalkKept ==
  ASSUME ArraysRoundTrip, ServiceTypes, CallsOK, LogOK, RepliesOK, WalkOK, WalkMissesNothing, [ServiceNext]_serviceVars
  PROVE  WalkOK' /\ WalkMissesNothing'
<1>0. /\ TableStep /\ TabOK /\ ClientOK(Tab) /\ Tab \in Threads /\ Len(log) \in Nat
      /\ request[Tab].open \/ walk # None => NothingSkipped(walk, Pending, db, log)
      /\ walk # None => Complete(walk, db, log)
      /\ request = [t \in Threads |-> request[t]]
  BY TableSteps, WalkIn DEF CallsOK, ServiceTypes, Threads, WalkOK
<1>1. (WalkMissesNothing <=> (walk # None => Complete(walk, db, log)))'
  BY WalkIn, PTL
<1>2. ASSUME request'[Tab].open \/ walk' # None => NothingSkipped(walk', Pending', db', log'),
             walk' # None => Complete(walk', db', log')
      PROVE  WalkOK' /\ WalkMissesNothing'
  BY <1>1, <1>2 DEF WalkOK
<1>3. request[Tab].open => OpenRequest(Tab)
  BY <1>0 DEF ClientOK
<1>4. Pending \in 0 .. Len(log)
  BY <1>0, <1>3 DEF Pending, OpenRequest
<1>5. CASE walk' = None /\ ~request'[Tab].open
  BY <1>2, <1>5
<1>6. CASE /\ walk' = walk
           /\ request'[Tab].open => request'[Tab].since = Pending /\ (request[Tab].open \/ walk # None)
  <2>1. CASE ~request[Tab].open /\ walk = None
    BY <1>2, <1>6, <2>1
  <2>2. CASE request[Tab].open \/ walk # None
    <3>1. PICK w, from : w = walk /\ from = Pending
      OBVIOUS
    <3>2. w.start \in 0 .. Len(log) /\ w.offset \in Nat /\ NothingSkipped(w, from, db, log)
      BY <1>0, <2>2, <3>1 DEF TabOK, WalkShape
    <3>3. NothingSkipped(w, from, db', log') /\ NothingSkipped(w, Len(log'), db', log')
      BY <1>0, <1>4, <3>1, <3>2, WalkGoesOn
    <3>4. walk # None => Complete(w, db', log')
      BY <1>0, <3>1, <3>2, CompleteStays
    <3>5. Pending' = from \/ Pending' = Len(log')
      BY <1>6, <3>1 DEF Pending
    <3> QED
      BY <1>2, <1>6, <3>1, <3>3, <3>4, <3>5
  <2> QED
    BY <2>1, <2>2
<1>7. CASE OpenList
  <2>1. PICK filter : /\ walk' = [filter |-> filter, offset |-> 0, seen |-> {}, start |-> 0, done |-> FALSE]
                      /\ Handle(Tab, PageRequest(filter, 0))
    BY <1>7 DEF OpenList
  <2>2. walk'.start = 0 /\ walk'.done = FALSE
    BY <2>1
  <2>3. \A F : MatchingIn(F, 0, db', log') = {}
    BY DEF MatchingIn, Ids
  <2>4. \A k : Ahead(walk', k, db', log')
    BY <2>2, <2>3 DEF Ahead
  <2>5. Complete(walk', db', log')
    BY <2>2 DEF Complete
  <2>6. Pending' \in Nat
    <3>1. request'[Tab].open => request'[Tab].since = Len(log)
      BY <1>0, <2>1 DEF Handle
    <3>2. Len(log') \in Nat
      BY <1>0, TableGrows
    <3> QED
      BY <1>0, <3>1, <3>2 DEF Pending
  <2> QED
    BY <1>2, <2>2, <2>4, <2>5, <2>6 DEF NothingSkipped
<1>8. CASE ReadPage
  <2>1. reply[Tab] # None /\ UNCHANGED <<db, log>> /\ request' = [request EXCEPT ![Tab] = [open |-> FALSE]]
    BY <1>8 DEF ReadPage
  <2>2. CASE reply[Tab].code # 200
    <3>1. walk' = None /\ ~request'[Tab].open
      BY <1>0, <1>8, <2>1, <2>2 DEF ReadPage
    <3> QED
      BY <1>5, <3>1
  <2>3. CASE reply[Tab].code = 200
    <3>1. PICK w, a, k : w = walk /\ a = reply[Tab] /\ k = reply[Tab].at
      OBVIOUS
    <3>2. /\ request[Tab].open /\ OpenRequest(Tab) /\ WalkShape
          /\ request[Tab].asked = PageRequest(w.filter, w.offset)
      <4>1. request[Tab].open
        BY <1>0, <2>1 DEF ClientOK
      <4>2. WalkShape /\ request[Tab].asked = PageRequest(w.filter, w.offset)
        BY <1>0, <3>1, <4>1 DEF TabOK
      <4> QED
        BY <1>3, <4>1, <4>2
    <3>3. k \in Pending .. Len(log) /\ k \in 0 .. Len(log)
      <4>1. k \in request[Tab].since .. Len(log)
        BY <1>0, <2>1, <3>1 DEF ClientOK
      <4> QED
        BY <1>4, <3>2, <4>1 DEF Pending
    <3>4. w.start \in 0 .. k /\ Ahead(w, k, db, log)
      <4>1. NothingSkipped(w, Pending, db, log)
        BY <1>0, <3>1, <3>2
      <4>2. w.start \in Nat
        BY <3>1, <3>2 DEF WalkShape
      <4> QED
        BY <1>4, <3>3, <4>1, <4>2 DEF NothingSkipped
    <3>5. TrueAnswer(PageRequest(w.filter, w.offset), a, db, log)
      BY <1>0, <2>1, <3>1, <3>2 DEF RepliesOK
    <3>6. PICK v : v = Turned(w, a)
      OBVIOUS
    <3>7. /\ w = [filter |-> w.filter, offset |-> w.offset, seen |-> w.seen, start |-> w.start, done |-> w.done]
          /\ w.offset \in Nat /\ a.at = k /\ a.code = 200
      BY <2>3, <3>1, <3>2 DEF WalkShape
    <3>8. DbOK(db) /\ log \in Seq(LogEntry) /\ Records(db, log)
      BY DEF ServiceTypes, LogOK
    <3>9. NothingSkipped(v, Len(log), db, log) /\ Complete(v, db, log)
      BY <3>3, <3>4, <3>5, <3>6, <3>7, <3>8, PageTurned
    <3>10. walk' = v
      BY <1>8, <2>3, <3>1, <3>6 DEF ReadPage, Turned
    <3>11. Pending' = Len(log)
      <4>1. request'[Tab] = [open |-> FALSE]
        BY <1>0, <2>1
      <4> QED
        BY <2>1, <4>1 DEF Pending
    <3> QED
      BY <1>2, <2>1, <3>9, <3>10, <3>11
  <2> QED
    BY <2>2, <2>3
<1> QED
  BY <1>5, <1>6, <1>7, <1>8, WalkSteps

-----------------------------------------------------------------------------
\* The inductive invariant

LEMMA ServiceStarts == ServiceInit => ServiceInvariant
<1> SUFFICES ASSUME ServiceInit PROVE ServiceInvariant
  OBVIOUS
<1>1. /\ db.rows = <<>> /\ db.serial = 0 /\ db = [rows |-> db.rows, serial |-> db.serial]
      /\ process = "running" /\ link = "open" /\ holder = None /\ outcome = None /\ walk = None
      /\ log = <<>> /\ returned = {} /\ dropped = 0 /\ bounds \in Bounds
      /\ spent = [alerts |-> 0, requests |-> 0, walks |-> 0, losses |-> 0, kills |-> 0]
  BY DEF ServiceInit, EmptyDb
<1>2. /\ call = [t \in Threads |-> call[t]] /\ request = [t \in Threads |-> request[t]]
      /\ reply = [t \in Threads |-> reply[t]]
      /\ \A t \in Threads : call[t] = None /\ reply[t] = None /\ request[t] = [open |-> FALSE] /\ ~request[t].open
  BY DEF ServiceInit, NoCalls, NoRequests
<1>3. DOMAIN db.rows = {} /\ log \in Seq(LogEntry) /\ Len(log) = 0 /\ DOMAIN log = {}
  BY <1>1
<1>4. DbOK(db)
  <2>1. db.rows \in [DOMAIN db.rows -> Row]
    BY <1>1, <1>3
  <2> QED
    BY <1>1, <1>3, <2>1 DEF DbOK
<1>5. IsFiniteSet({}) /\ Cardinality({}) = 0
  BY FS_EmptySet
<1>6. ServiceTypes
  BY <1>1, <1>2, <1>3, <1>4, <1>5 DEF ServiceTypes
<1>7. CallsOK
  <2>1. \A w \in Writers : WriterOK(w)
    BY <1>2 DEF WriterOK, Threads
  <2>2. \A c \in Clients \cup {Tab} : ClientOK(c)
    BY <1>2 DEF ClientOK, Threads
  <2>3. TabOK
    BY <1>1, <1>2 DEF TabOK, Threads
  <2>4. HolderOK
    BY <1>1 DEF HolderOK
  <2> QED
    BY <2>1, <2>2, <2>3, <2>4 DEF CallsOK
<1>8. AccountsOK
  <2>1. {w \in Writers : call[w] # None} = {} /\ Unreturned = {}
    BY <1>2, <1>3 DEF Threads, Unreturned
  <2>2. InFlight = 0 /\ Suspect = 0 /\ spent.alerts = 0
    BY <1>1, <1>5, <2>1 DEF InFlight, Suspect
  <2> QED
    BY <1>1, <1>5, <2>1, <2>2 DEF AccountsOK
<1>9. LogOK
  <2>1. Ids(log, 0) = {}
    BY DEF Ids
  <2> QED
    BY <1>3, <2>1 DEF LogOK, Records
<1>10. ErrorsHaveACause
  BY <1>1, <1>2, CausesOfAll DEF HasCause, Threads
<1>11. RepliesOK
  BY <1>2 DEF RepliesOK, Threads
<1>12. WalkOK /\ WalkMissesNothing
  BY <1>1, <1>2, WalkIn DEF WalkOK, Threads
<1> QED
  BY <1>6, <1>7, <1>8, <1>9, <1>10, <1>11, <1>12 DEF ServiceInvariant

LEMMA ServiceGoesOn ==
  ASSUME ArraysRoundTrip, ServiceInvariant, [ServiceNext]_serviceVars
  PROVE  ServiceInvariant'
<1>1. /\ ServiceTypes /\ CallsOK /\ AccountsOK /\ LogOK /\ ErrorsHaveACause
      /\ RepliesOK /\ WalkOK /\ WalkMissesNothing
  BY DEF ServiceInvariant
<1>2. ServiceTypes' /\ CallsOK' /\ AccountsOK'
  BY <1>1, TypesKept, CallsKept, AccountsKept
<1>3. LogOK' /\ ErrorsHaveACause'
  BY <1>1, TableSteps, RecordsKept, CausesKept
<1>4. RepliesOK' /\ WalkOK' /\ WalkMissesNothing'
  BY <1>1, RepliesKept, WalkKept
<1> QED
  BY <1>2, <1>3, <1>4 DEF ServiceInvariant

LEMMA ServiceIsInvariant ==
  ASSUME ArraysRoundTrip
  PROVE  ServiceSpec => []ServiceInvariant
<1>1. ServiceInvariant /\ [ServiceNext]_serviceVars => ServiceInvariant'
  BY ServiceGoesOn
<1> QED
  BY <1>1, ServiceStarts, PTL DEF ServiceSpec

\* Every alert that is handed to the sink is in the table under the id it was given, or was in
\* on_alert when the process ended, however many threads raise alerts, whatever the connection
\* does and however often the process is killed.
THEOREM ServiceAccountsForAlerts ==
  ASSUME ArraysRoundTrip
  PROVE  ServiceSpec => []EveryAlertAccounted
<1>1. ServiceInvariant => EveryAlertAccounted
  BY AccountsAgree DEF ServiceInvariant
<1> QED
  BY <1>1, ServiceIsInvariant, PTL

\* Every answer is the table as it was at one moment of its request, and a list of the recent
\* alerts the newest part of it, for any number of clients, requests and rows.
THEOREM ServiceAnswersShowTheTable ==
  ASSUME ArraysRoundTrip
  PROVE  ServiceSpec => []AnswersShowTheTable
<1>1. ServiceInvariant => AnswersShowTheTable
  BY AnswersAgree DEF ServiceInvariant
<1> QED
  BY <1>1, ServiceIsInvariant, PTL

\* Leafing through a list, of whatever length and in pages of whatever size, misses nothing that
\* was in it when its first page was read, unless a client changes a status it is filtered by.
THEOREM ServiceWalksMissNothing ==
  ASSUME ArraysRoundTrip
  PROVE  ServiceSpec => []WalkMissesNothing
<1>1. ServiceInvariant => WalkMissesNothing
  BY DEF ServiceInvariant
<1> QED
  BY <1>1, ServiceIsInvariant, PTL

\* An error has a cause and a refused PATCH no effect, whatever the threads do at the same time.
THEOREM ServiceErrorsHaveACause ==
  ASSUME ArraysRoundTrip
  PROVE  ServiceSpec => []ErrorsHaveACause
<1>1. ServiceInvariant => ErrorsHaveACause
  BY DEF ServiceInvariant
<1> QED
  BY <1>1, ServiceIsInvariant, PTL
=============================================================================
