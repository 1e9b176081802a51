-------------------------- MODULE MlScoringProofs --------------------------
(***************************************************************************)
(* Proofs about MlScoring, for every window, threshold and capacity and any *)
(* number of orders, whatever their timestamps.                             *)
(***************************************************************************)
EXTENDS MlScoring, Integers, FiniteSetTheorems, SequenceTheorems, TLAPS

Queue == INSTANCE DropOldestQueueProofs

-----------------------------------------------------------------------------
\* The inductive invariant

HotPathOK ==
  /\ history \in [Keys -> Seq(Order)]
  /\ stats \in [Keys -> WindowStats]
  /\ requests \in Seq(ScoringRequest)
  /\ submitter \in {"evaluate", "submit", "stopped"}
  /\ Len(requests) = pushed + (IF submitter = "submit" THEN 1 ELSE 0)

WorkerOK ==
  /\ worker \in {"pop", "score", "check", "last", "stopped"}
  /\ scored \in Nat /\ failed \in Nat /\ alerted \in 0 .. scored
  /\ scored + failed = Len(delivered)

Shape == Queue!QueueInv /\ HotPathOK /\ WorkerOK

\* The orders first .. last of a key were all tallied in one window.
InOneWindow(orders, first, last) ==
  \A i \in first .. last :
    orders[first].time <= orders[i].time /\ orders[i].time - orders[first].time <= Window

Tallies(orders, first, last, window) ==
  /\ window.orders = Number(SubSeq(orders, first, last), "New")
  /\ window.cancels = Number(SubSeq(orders, first, last), "Cancelled")

\* The open window of a key holds its latest orders, from the first of them on.
OpenWindows ==
  \A key \in Keys : stats[key].start # 0 =>
    \E first \in 1 .. Len(history[key]) :
      /\ history[key][first].time = stats[key].start
      /\ InOneWindow(history[key], first, Len(history[key]))
      /\ Tallies(history[key], first, Len(history[key]), stats[key])

RequestsOK ==
  \A i \in 1 .. Len(requests) :
    LET key == requests[i].key
        at == requests[i].at
    IN /\ at \in 1 .. Len(history[key])
       /\ \E first \in 1 .. at :
            InOneWindow(history[key], first, at) /\ Tallies(history[key], first, at, requests[i])

ScoringInv == Shape /\ OpenWindows /\ RequestsOK

-----------------------------------------------------------------------------
\* Tallies

\* The number of orders of a status in a sequence that one more order extends.
LEMMA NumberAppend ==
  ASSUME NEW s \in Seq(Order), NEW order \in Order, NEW status
  PROVE  /\ Number(s, status) \in Nat
         /\ Number(Append(s, order), status)
              = Number(s, status) + (IF order.status = status THEN 1 ELSE 0)
<1> DEFINE n == Len(s)
           t == Append(s, order)
           S == {i \in DOMAIN s : s[i].status = status}
           T == {i \in DOMAIN t : t[i].status = status}
<1>1. /\ n \in Nat /\ DOMAIN s = 1 .. n /\ DOMAIN t = (1 .. n) \cup {n + 1}
      /\ n + 1 \notin 1 .. n /\ t[n + 1] = order
      /\ \A i \in 1 .. n : t[i] = s[i]
  OBVIOUS
<1>2. IsFiniteSet(S)
  <2>1. IsFiniteSet(1 .. n)
    BY <1>1, FS_Interval
  <2> QED
    BY <1>1, <2>1, FS_Subset
<1>3. T = IF order.status = status THEN S \cup {n + 1} ELSE S
  BY <1>1
<1>4. n + 1 \notin S
  BY <1>1
<1>5. Cardinality(S) \in Nat
  BY <1>2, FS_CardinalityType
<1> HIDE DEF S, T
<1>6. Cardinality(T) = Cardinality(S) + (IF order.status = status THEN 1 ELSE 0)
  <2>1. CASE order.status = status
    BY <1>2, <1>3, <1>4, <2>1, FS_AddElement
  <2>2. CASE order.status # status
    BY <1>3, <1>5, <2>2
  <2> QED
    BY <2>1, <2>2
<1> QED
  BY <1>5, <1>6 DEF Number, S, T

\* Nothing is tallied in an empty sequence.
LEMMA NumberEmpty == \A status : Number(<<>>, status) = 0
<1> SUFFICES ASSUME NEW status PROVE Number(<<>>, status) = 0
  OBVIOUS
<1>1. {i \in DOMAIN <<>> : <<>>[i].status = status} = {}
  OBVIOUS
<1> QED
  BY <1>1, FS_EmptySet DEF Number

\* One more order leaves the earlier windows alone ...
LEMMA EarlierWindow ==
  ASSUME NEW s \in Seq(Order), NEW order \in Order, NEW first \in 1 .. Len(s), NEW last \in 1 .. Len(s)
  PROVE  SubSeq(Append(s, order), first, last) = SubSeq(s, first, last)
<1> DEFINE t == Append(s, order)
<1>1. \A i \in first .. last : t[i] = s[i] /\ s[i] \in Order
  OBVIOUS
<1> HIDE DEF t
<1>2. /\ SubSeq(s, first, last) \in Seq(Order) /\ SubSeq(t, first, last) \in Seq(Order)
      /\ Len(SubSeq(s, first, last)) = (IF first <= last THEN last - first + 1 ELSE 0)
      /\ Len(SubSeq(t, first, last)) = (IF first <= last THEN last - first + 1 ELSE 0)
      /\ \A i \in 1 .. last - first + 1 : SubSeq(s, first, last)[i] = s[first + i - 1]
      /\ \A i \in 1 .. last - first + 1 : SubSeq(t, first, last)[i] = t[first + i - 1]
  BY <1>1, SubSeqProperties
<1>3. \A i \in 1 .. Len(SubSeq(s, first, last)) : SubSeq(s, first, last)[i] = SubSeq(t, first, last)[i]
  BY <1>1, <1>2
<1> QED
  BY <1>2, <1>3, SeqEqual DEF t

\* ... and ends the latest one.
LEMMA LatestWindow ==
  ASSUME NEW s \in Seq(Order), NEW order \in Order, NEW first \in 1 .. Len(s) + 1
  PROVE  /\ SubSeq(s, first, Len(s)) \in Seq(Order)
         /\ SubSeq(Append(s, order), first, Len(s) + 1) = Append(SubSeq(s, first, Len(s)), order)
<1> DEFINE n == Len(s)
           t == Append(s, order)
           u == SubSeq(s, first, n)
           v == SubSeq(t, first, n + 1)
<1>1. /\ n \in Nat /\ t[n + 1] = order /\ first \in Int
      /\ \A i \in first .. n : t[i] = s[i] /\ s[i] \in Order
  OBVIOUS
<1>2. /\ u \in Seq(Order) /\ Len(u) = n - first + 1
      /\ \A i \in 1 .. n - first + 1 : u[i] = s[first + i - 1]
  BY <1>1, SubSeqProperties
<1>3. \A i \in first .. n + 1 : t[i] \in Order
  <2> TAKE i \in first .. n + 1
  <2>1. i \in first .. n \/ i = n + 1
    BY <1>1
  <2> QED
    BY <1>1, <2>1
<1> HIDE DEF t
<1>4. /\ v \in Seq(Order) /\ Len(v) = n + 1 - first + 1
      /\ \A i \in 1 .. n + 1 - first + 1 : v[i] = t[first + i - 1]
  BY <1>1, <1>3, SubSeqProperties
<1>5. /\ Append(u, order) \in Seq(Order) /\ Len(Append(u, order)) = Len(u) + 1
      /\ Append(u, order)[Len(u) + 1] = order
      /\ \A i \in 1 .. Len(u) : Append(u, order)[i] = u[i]
  BY <1>2
<1> HIDE DEF u, v
<1>6. \A i \in 1 .. Len(v) : v[i] = Append(u, order)[i]
  <2> TAKE i \in 1 .. Len(v)
  <2>1. i \in 1 .. n - first + 1 \/ i = n - first + 2
    BY <1>1, <1>4
  <2>2. CASE i \in 1 .. n - first + 1
    <3>1. first + i - 1 \in first .. n /\ i \in 1 .. Len(u) /\ i \in 1 .. n + 1 - first + 1
      BY <1>1, <1>2, <2>2
    <3> QED
      BY <1>1, <1>2, <1>4, <1>5, <2>2, <3>1
  <2>3. CASE i = n - first + 2
    <3>1. first + i - 1 = n + 1 /\ i = Len(u) + 1 /\ i \in 1 .. n + 1 - first + 1
      BY <1>1, <1>2, <1>4, <2>3
    <3> QED
      BY <1>1, <1>4, <1>5, <3>1
  <2> QED
    BY <2>1, <2>2, <2>3
<1>7. Len(v) = Len(Append(u, order))
  BY <1>1, <1>2, <1>4, <1>5
<1> QED
  BY <1>2, <1>4, <1>5, <1>6, <1>7, SeqEqual DEF u, v, t

-----------------------------------------------------------------------------
\* Shape

\* The actions of the ring buffer the proofs about it speak of.
LEMMA RingActions ==
  /\ Ring!Push => Queue!Push
  /\ Ring!FindFull => Queue!FindFull
  /\ Ring!Relent => Queue!Relent
  /\ Ring!Discard => Queue!Discard
  /\ Ring!Claim => Queue!Claim
  /\ Ring!Deliver => Queue!Deliver
<1>1. Ring!SlotOccupied = Queue!SlotOccupied
  BY DEF Ring!SlotOccupied, Queue!SlotOccupied, Ring!Items, Queue!Items
<1> QED
  BY <1>1 DEF Ring!Push, Ring!FindFull, Ring!Relent, Ring!Discard, Ring!Claim, Ring!Deliver,
       Queue!Push, Queue!FindFull, Queue!Relent, Queue!Discard, Queue!Claim, Queue!Deliver

\* Every step of the two threads is one of the ring buffer, or leaves it alone.
LEMMA RingStep == Shape /\ [Next]_vars => Queue!QueueInv'
<1> SUFFICES ASSUME Shape, [Next]_vars PROVE Queue!QueueInv'
  OBVIOUS
<1>1. [Queue!Next]_(Queue!vars)
  <2>1. CASE UNCHANGED queueVars
    BY <2>1 DEF Queue!vars, queueVars
  <2>2. CASE Submit \/ MakeRoom \/ Pop
    BY <2>2, RingActions DEF Submit, MakeRoom, Pop, Queue!Next
  <2>3. ASSUME NEW result, ProcessOne(result) PROVE Queue!Next
    BY <2>3, RingActions DEF ProcessOne, Queue!Next
  <2> QED
    BY <2>1, <2>2, <2>3 DEF Next, WorkerStep, NewOrder, CancelOrder, Evaluate, Stop, PopEmpty, CheckStop,
         LastPopEmpty, vars
<1> QED
  BY <1>1, Queue!QueueStep DEF Shape

\* The order evaluated, the window it falls into, that window with it, and the
\* request made of it if one is due.
Arriving(status, time) == [status |-> status, time |-> time]
Opened(key, time) == IF WindowOver(stats[key], time) THEN NewWindow(time) ELSE stats[key]
Extended(key, status, time) == Counted(Opened(key, time), status)
Asked(key, status, time) ==
  [key |-> key, at |-> Len(history[key]) + 1,
   orders |-> Extended(key, status, time).orders, cancels |-> Extended(key, status, time).cancels]

\* What an order or a cancel does to its window, and to no other.
LEMMA EvaluateEffect ==
  ASSUME Shape, NEW key \in Keys, NEW status \in Statuses, NEW time \in Times, Evaluate(key, status, time)
  PROVE  /\ Arriving(status, time) \in Order /\ history[key] \in Seq(Order)
         /\ Opened(key, time) \in WindowStats /\ Extended(key, status, time) \in WindowStats
         /\ Extended(key, status, time).start = Opened(key, time).start
         /\ Extended(key, status, time).orders = Opened(key, time).orders + (IF status = "New" THEN 1 ELSE 0)
         /\ Extended(key, status, time).cancels
              = Opened(key, time).cancels + (IF status = "Cancelled" THEN 1 ELSE 0)
         /\ Asked(key, status, time) \in ScoringRequest
         /\ history' = [history EXCEPT ![key] = Append(history[key], Arriving(status, time))]
         /\ stats' = [stats EXCEPT ![key] = Extended(key, status, time)]
         /\ \/ requests' = Append(requests, Asked(key, status, time)) /\ submitter' = "submit"
            \/ UNCHANGED <<requests, submitter>>
         /\ submitter = "evaluate" /\ UNCHANGED pushed
<1> DEFINE order == Arriving(status, time)
           open == Opened(key, time)
           window == Extended(key, status, time)
<1>1. order \in Order
  BY DEF Order, Arriving
<1>2. stats[key] \in WindowStats /\ history[key] \in Seq(Order) /\ Len(history[key]) \in Nat
      /\ history \in [Keys -> Seq(Order)]
  BY DEF Shape, HotPathOK
<1>3. open \in WindowStats
  BY <1>2 DEF Opened, NewWindow, WindowStats
<1>4. /\ window \in WindowStats /\ window.start = open.start
      /\ window.orders = open.orders + (IF status = "New" THEN 1 ELSE 0)
      /\ window.cancels = open.cancels + (IF status = "Cancelled" THEN 1 ELSE 0)
  <2>1. window = Counted(open, status)
    BY DEF Extended
  <2> HIDE DEF open, window
  <2>2. open.orders \in Nat /\ open.cancels \in Nat
    BY <1>3 DEF WindowStats
  <2>3. CASE status = "New"
    BY <1>3, <2>1, <2>2, <2>3 DEF Counted, WindowStats
  <2>4. CASE status = "Cancelled"
    BY <1>3, <2>1, <2>2, <2>4 DEF Counted, WindowStats
  <2> QED
    BY <2>3, <2>4 DEF Statuses
<1>5. Asked(key, status, time) \in ScoringRequest
  BY <1>2, <1>4 DEF Asked, ScoringRequest, WindowStats
<1>6. history' = [history EXCEPT ![key] = Append(history[key], order)]
  BY DEF Evaluate, Arriving
<1>7. Len(history'[key]) = Len(history[key]) + 1
  BY <1>1, <1>2, <1>6
<1>8. \/ requests' = Append(requests, Asked(key, status, time)) /\ submitter' = "submit"
      \/ UNCHANGED <<requests, submitter>>
  BY <1>7 DEF Evaluate, Asked, Extended, Opened
<1>9. stats' = [stats EXCEPT ![key] = window] /\ submitter = "evaluate" /\ UNCHANGED pushed
  BY DEF Evaluate, Extended, Opened, queueVars
<1> QED
  BY <1>1, <1>2, <1>3, <1>4, <1>5, <1>6, <1>8, <1>9

EvaluateNext ==
  \E key \in Keys, status \in Statuses, time \in Times : Evaluate(key, status, time)

\* An order or a cancel of Next is one evaluated.
LEMMA NextEvaluates ==
  ASSUME [Next]_vars
  PROVE  EvaluateNext \/ Submit \/ MakeRoom \/ Stop \/ WorkerStep \/ UNCHANGED vars
BY DEF Next, NewOrder, CancelOrder, EvaluateNext, Statuses

\* Every step keeps the types of what MlAnomalyDetector::evaluate keeps.
LEMMA HotPathStep == Shape /\ [Next]_vars => HotPathOK'
<1> SUFFICES ASSUME Shape, [Next]_vars PROVE HotPathOK'
  OBVIOUS
<1>1. Len(requests) \in Nat /\ pushed \in Nat /\ requests \in Seq(ScoringRequest)
  BY DEF Shape, HotPathOK, Queue!QueueInv, Queue!QueueTypeOK
<1>2. ASSUME NEW key \in Keys, NEW status \in Statuses, NEW time \in Times, Evaluate(key, status, time)
      PROVE  HotPathOK'
  <2>1. history' \in [Keys -> Seq(Order)] /\ stats' \in [Keys -> WindowStats]
    <3>1. /\ history' = [history EXCEPT ![key] = Append(history[key], Arriving(status, time))]
          /\ stats' = [stats EXCEPT ![key] = Extended(key, status, time)]
          /\ Arriving(status, time) \in Order /\ history[key] \in Seq(Order)
          /\ Extended(key, status, time) \in WindowStats
      BY <1>2, EvaluateEffect
    <3>2. Append(history[key], Arriving(status, time)) \in Seq(Order)
      BY <3>1, AppendProperties
    <3> QED
      BY <3>1, <3>2 DEF Shape, HotPathOK
  <2>2. CASE UNCHANGED <<requests, submitter>>
    BY <1>2, <2>1, <2>2, EvaluateEffect DEF Shape, HotPathOK
  <2>3. CASE requests' = Append(requests, Asked(key, status, time)) /\ submitter' = "submit"
    <3>1. Len(requests') = Len(requests) + 1 /\ requests' \in Seq(ScoringRequest)
      BY <1>1, <1>2, <2>3, EvaluateEffect
    <3> QED
      BY <1>1, <1>2, <2>1, <2>3, <3>1, EvaluateEffect DEF Shape, HotPathOK
  <2> QED
    BY <1>2, <2>2, <2>3, EvaluateEffect
<1>3. CASE Submit
  BY <1>1, <1>3 DEF Submit, Ring!Push, Shape, HotPathOK
<1>4. CASE MakeRoom
  BY <1>4 DEF MakeRoom, Ring!FindFull, Ring!Relent, Ring!Discard, hotVars, Shape, HotPathOK
<1>5. CASE Stop
  BY <1>5 DEF Stop, queueVars, Shape, HotPathOK
<1>6. CASE WorkerStep \/ UNCHANGED vars
  BY <1>6 DEF WorkerStep, Pop, Ring!Claim, ProcessOne, Ring!Deliver, PopEmpty, CheckStop, LastPopEmpty, vars,
       hotVars, queueVars, Shape, HotPathOK
<1> QED
  BY <1>2, <1>3, <1>4, <1>5, <1>6, NextEvaluates DEF EvaluateNext

\* Every step keeps the worker's counters those of the requests it was delivered.
LEMMA WorkerKeeps == Shape /\ [Next]_vars => WorkerOK'
<1> SUFFICES ASSUME Shape, [Next]_vars PROVE WorkerOK'
  OBVIOUS
<1>1. /\ scored \in Nat /\ failed \in Nat /\ alerted \in 0 .. scored /\ scored + failed = Len(delivered)
      /\ worker \in {"pop", "score", "check", "last", "stopped"}
  BY DEF Shape, WorkerOK
<1>2. ASSUME NEW result \in {"failed", "below", "alert"}, ProcessOne(result) PROVE WorkerOK'
  <2>1. Len(delivered') = Len(delivered) + 1
    BY <1>2, RingActions, Queue!DeliverAppends DEF ProcessOne, Shape
  <2> QED
    BY <1>1, <1>2, <2>1 DEF ProcessOne, CountedScored, WorkerOK
<1>3. CASE EvaluateNext \/ Stop \/ UNCHANGED vars
  <2>1. EvaluateNext => UNCHANGED <<delivered, workerVars>>
    BY DEF EvaluateNext, Evaluate, queueVars
  <2>2. Stop => UNCHANGED <<delivered, workerVars>>
    BY DEF Stop, queueVars
  <2>3. UNCHANGED vars => UNCHANGED <<delivered, workerVars>>
    BY DEF vars, queueVars
  <2>4. UNCHANGED <<delivered, workerVars>>
    BY <1>3, <2>1, <2>2, <2>3
  <2> QED
    BY <1>1, <2>4 DEF workerVars, WorkerOK
<1>4. CASE Submit \/ MakeRoom
  BY <1>1, <1>4 DEF Submit, Ring!Push, MakeRoom, Ring!FindFull, Ring!Relent, Ring!Discard, workerVars, WorkerOK
<1>5. CASE Pop \/ PopEmpty \/ CheckStop \/ LastPopEmpty
  BY <1>1, <1>5 DEF Pop, Ring!Claim, PopEmpty, CheckStop, AfterCheck, LastPopEmpty, queueVars, WorkerOK
<1> QED
  BY <1>2, <1>3, <1>4, <1>5, NextEvaluates DEF WorkerStep

\* Every step keeps the shape of the queue, the hot path and the worker.
LEMMA ShapeStep == Shape /\ [Next]_vars => Shape'
  BY RingStep, HotPathStep, WorkerKeeps DEF Shape

-----------------------------------------------------------------------------
\* Windows

\* The order evaluated falls into a window of its key's latest orders.
LEMMA WindowExtended ==
  ASSUME Shape, OpenWindows,
         NEW key \in Keys, NEW status \in Statuses, NEW time \in Times, Evaluate(key, status, time)
  PROVE  LET orders == Append(history[key], Arriving(status, time))
         IN \E first \in 1 .. Len(orders) :
              /\ orders[first].time = Extended(key, status, time).start
              /\ InOneWindow(orders, first, Len(orders))
              /\ Tallies(orders, first, Len(orders), Extended(key, status, time))
<1> DEFINE seen == history[key]
           n == Len(seen)
           order == Arriving(status, time)
           orders == Append(seen, order)
           open == Opened(key, time)
           window == Extended(key, status, time)
<1>1. /\ order \in Order /\ seen \in Seq(Order) /\ open \in WindowStats /\ window.start = open.start
      /\ window.orders = open.orders + (IF status = "New" THEN 1 ELSE 0)
      /\ window.cancels = open.cancels + (IF status = "Cancelled" THEN 1 ELSE 0)
  BY EvaluateEffect
<1>2. order.status = status /\ order.time = time /\ time \in Nat \ {0}
  BY TimesAssumption DEF Arriving
<1> HIDE DEF seen, order, open, window
<1>3. /\ n \in Nat /\ Len(orders) = n + 1 /\ orders[n + 1] = order
      /\ \A i \in 1 .. n : orders[i] = seen[i] /\ seen[i].time \in Nat
  <2>1. \A i \in 1 .. n : seen[i] \in Order
    BY <1>1, ElementOfSeq
  <2>2. \A o \in Order : o.time \in Nat
    BY TimesAssumption DEF Order
  <2> QED
    BY <1>1, <2>1, <2>2
<1>4. \E first \in 1 .. n + 1 :
         /\ orders[first].time = open.start /\ InOneWindow(orders, first, n + 1)
         /\ Tallies(seen, first, n, open)
  <2>1. CASE WindowOver(stats[key], time)
    <3>1. open = NewWindow(time)
      BY <2>1 DEF open, Opened
    <3>2. SubSeq(seen, n + 1, n) = <<>>
      BY <1>3, SubSeqEmpty
    <3>3. Tallies(seen, n + 1, n, open)
      BY <3>1, <3>2, NumberEmpty DEF Tallies, NewWindow
    <3>4. InOneWindow(orders, n + 1, n + 1) /\ orders[n + 1].time = open.start
      BY <1>2, <1>3, <3>1, MlConfigAssumption DEF InOneWindow, NewWindow
    <3> QED
      BY <1>3, <3>3, <3>4
  <2>2. CASE ~WindowOver(stats[key], time)
    <3>1. /\ open = stats[key] /\ open.start # 0 /\ open.start \in Nat
          /\ open.start <= time /\ time - open.start <= Window
      <4>1. open = stats[key] /\ open.start # 0
        BY <2>2 DEF open, Opened, WindowOver
      <4>2. open.start \in Nat
        <5> DEFINE Starts == Times \cup {0}
        <5>1. Starts \subseteq Nat
          BY TimesAssumption
        <5>2. WindowStats = [start : Starts, orders : Nat, cancels : Nat]
          BY DEF WindowStats
        <5> HIDE DEF Starts
        <5>3. open.start \in Starts
          BY <1>1, <5>2
        <5> QED
          BY <5>1, <5>3
      <4> QED
        BY <1>2, <2>2, <4>1, <4>2, MlConfigAssumption DEF WindowOver
    <3>2. PICK first \in 1 .. n :
            seen[first].time = open.start /\ InOneWindow(seen, first, n) /\ Tallies(seen, first, n, open)
      BY <3>1 DEF OpenWindows, seen
    <3>3. orders[first].time = open.start /\ first \in 1 .. n + 1
      BY <1>3, <3>2
    <3>4. InOneWindow(orders, first, n + 1)
      <4> SUFFICES ASSUME NEW i \in first .. n + 1
                   PROVE  open.start <= orders[i].time /\ orders[i].time - open.start <= Window
        BY <3>3 DEF InOneWindow
      <4>1. CASE i = n + 1
        BY <1>2, <1>3, <3>1, <4>1
      <4>2. CASE i \in first .. n
        <5>1. i \in 1 .. n
          BY <1>3, <4>2
        <5> QED
          BY <1>3, <3>2, <4>2, <5>1 DEF InOneWindow
      <4> QED
        BY <1>3, <4>1, <4>2
    <3> QED
      BY <3>2, <3>3, <3>4
  <2> QED
    BY <2>1, <2>2
<1>5. PICK first \in 1 .. n + 1 :
         /\ orders[first].time = open.start /\ InOneWindow(orders, first, n + 1)
         /\ Tallies(seen, first, n, open)
  BY <1>4
<1>6. Tallies(orders, first, n + 1, window)
  <2> DEFINE before == SubSeq(seen, first, n)
  <2>1. before \in Seq(Order) /\ SubSeq(orders, first, n + 1) = Append(before, order)
    BY <1>1, LatestWindow
  <2>2. open.orders = Number(before, "New") /\ open.cancels = Number(before, "Cancelled")
    BY <1>5 DEF Tallies
  <2> HIDE DEF before
  <2>3. /\ Number(Append(before, order), "New") = Number(before, "New") + (IF order.status = "New" THEN 1 ELSE 0)
        /\ Number(Append(before, order), "Cancelled")
             = Number(before, "Cancelled") + (IF order.status = "Cancelled" THEN 1 ELSE 0)
    BY <1>1, <2>1, NumberAppend
  <2> QED
    BY <1>1, <1>2, <2>1, <2>2, <2>3 DEF Tallies
<1> QED
  BY <1>1, <1>3, <1>5, <1>6 DEF seen, order, window

\* A window of earlier orders is the same once another order has come.
LEMMA WindowStays ==
  ASSUME NEW s \in Seq(Order), NEW order \in Order, NEW last \in 1 .. Len(s), NEW first \in 1 .. last,
         NEW window
  PROVE  /\ InOneWindow(Append(s, order), first, last) <=> InOneWindow(s, first, last)
         /\ Tallies(Append(s, order), first, last, window) <=> Tallies(s, first, last, window)
<1>1. first \in 1 .. Len(s) /\ \A i \in first .. last : Append(s, order)[i] = s[i]
  OBVIOUS
<1>2. Append(s, order)[first] = s[first]
  BY <1>1
<1> QED
  BY <1>1, <1>2, EarlierWindow DEF InOneWindow, Tallies

\* Every step keeps the open windows those of the latest orders, and the requests theirs.
LEMMA WindowsStep == ScoringInv /\ [Next]_vars => OpenWindows' /\ RequestsOK'
<1> SUFFICES ASSUME ScoringInv, [Next]_vars PROVE OpenWindows' /\ RequestsOK'
  OBVIOUS
<1> USE DEF ScoringInv
<1>1. ASSUME NEW key \in Keys, NEW status \in Statuses, NEW time \in Times, Evaluate(key, status, time)
      PROVE  OpenWindows' /\ RequestsOK'
  <2> DEFINE order == Arriving(status, time)
             orders == Append(history[key], order)
             request == Asked(key, status, time)
  <2>1. /\ order \in Order /\ history[key] \in Seq(Order)
        /\ history \in [Keys -> Seq(Order)] /\ stats \in [Keys -> WindowStats]
        /\ requests \in Seq(ScoringRequest) /\ Len(requests) \in Nat
        /\ history' = [history EXCEPT ![key] = orders]
        /\ stats' = [stats EXCEPT ![key] = Extended(key, status, time)]
        /\ requests' = Append(requests, request) \/ requests' = requests
    BY <1>1, EvaluateEffect DEF Shape, HotPathOK
  <2>2. PICK first \in 1 .. Len(orders) :
          /\ orders[first].time = Extended(key, status, time).start
          /\ InOneWindow(orders, first, Len(orders))
          /\ Tallies(orders, first, Len(orders), Extended(key, status, time))
    BY <1>1, WindowExtended
  <2>3. Len(orders) = Len(history[key]) + 1 /\ Len(history[key]) \in Nat
    BY <2>1
  <2>4. history'[key] = orders /\ \A other \in Keys : other # key => history'[other] = history[other]
    BY <2>1
  <2>5. OpenWindows'
    <3> SUFFICES ASSUME NEW other \in Keys, stats'[other].start # 0
                 PROVE  \E f \in 1 .. Len(history'[other]) :
                          /\ history'[other][f].time = stats'[other].start
                          /\ InOneWindow(history'[other], f, Len(history'[other]))
                          /\ Tallies(history'[other], f, Len(history'[other]), stats'[other])
      BY DEF OpenWindows
    <3>1. CASE other = key
      BY <2>1, <2>2, <2>4, <3>1
    <3>2. CASE other # key
      BY <2>1, <2>4, <3>2 DEF OpenWindows
    <3> QED
      BY <3>1, <3>2
  <2>6. ASSUME NEW i \in 1 .. Len(requests)
        PROVE  /\ requests[i].at \in 1 .. Len(history'[requests[i].key])
               /\ \E f \in 1 .. requests[i].at :
                    /\ InOneWindow(history'[requests[i].key], f, requests[i].at)
                    /\ Tallies(history'[requests[i].key], f, requests[i].at, requests[i])
    <3> DEFINE at == requests[i].at
               k == requests[i].key
    <3>1. k \in Keys
      <4>1. requests[i] \in ScoringRequest
        BY <2>1, ElementOfSeq
      <4> QED
        BY <4>1 DEF ScoringRequest
    <3>2. PICK f \in 1 .. at :
            InOneWindow(history[k], f, at) /\ Tallies(history[k], f, at, requests[i])
      BY DEF RequestsOK
    <3>3. at \in 1 .. Len(history[k])
      BY DEF RequestsOK
    <3> HIDE DEF at, k
    <3>4. CASE k = key
      <4>1. at \in 1 .. Len(orders)
        BY <2>3, <3>3, <3>4
      <4>2. InOneWindow(orders, f, at) /\ Tallies(orders, f, at, requests[i])
        BY <2>1, <3>2, <3>3, <3>4, WindowStays
      <4> QED
        BY <2>4, <3>2, <3>4, <4>1, <4>2 DEF at, k
    <3>5. CASE k # key
      BY <2>4, <3>1, <3>2, <3>3, <3>5 DEF at, k
    <3> QED
      BY <3>4, <3>5
  <2>7. /\ request.at = Len(orders) /\ request.key = key
        /\ Tallies(orders, first, Len(orders), request)
    BY <2>2, <2>3 DEF Asked, Tallies
  <2>8. RequestsOK'
    <3>1. CASE requests' = requests
      BY <2>6, <3>1 DEF RequestsOK
    <3>2. CASE requests' = Append(requests, request)
      <4> HIDE DEF orders, request
      <4>1. /\ Len(requests') = Len(requests) + 1 /\ requests'[Len(requests) + 1] = request
            /\ \A i \in 1 .. Len(requests) : requests'[i] = requests[i]
        BY <2>1, <3>2
      <4> SUFFICES ASSUME NEW i \in 1 .. Len(requests')
                   PROVE  LET r == requests'[i]
                          IN /\ r.at \in 1 .. Len(history'[r.key])
                             /\ \E f \in 1 .. r.at :
                                  InOneWindow(history'[r.key], f, r.at) /\ Tallies(history'[r.key], f, r.at, r)
        BY DEF RequestsOK
      <4>2. CASE i = Len(requests) + 1
        <5>1. Len(orders) \in 1 .. Len(orders)
          BY <2>3
        <5> QED
          BY <2>2, <2>4, <2>7, <4>1, <4>2, <5>1
      <4>3. CASE i \in 1 .. Len(requests)
        BY <2>6, <4>1, <4>3
      <4> QED
        BY <2>1, <4>1, <4>2, <4>3
    <3> QED
      BY <2>1, <3>1, <3>2
  <2> QED
    BY <2>5, <2>8
<1>2. CASE UNCHANGED <<history, stats, requests>>
  BY <1>2 DEF OpenWindows, RequestsOK
<1>3. CASE Submit \/ MakeRoom \/ Stop \/ WorkerStep \/ UNCHANGED vars
  BY <1>2, <1>3 DEF Submit, MakeRoom, Stop, WorkerStep, Pop, ProcessOne, PopEmpty, CheckStop, LastPopEmpty,
       vars, hotVars
<1> QED
  BY <1>1, <1>3, NextEvaluates DEF EvaluateNext

-----------------------------------------------------------------------------
\* The theorems

\* The detector and the worker start in the invariant.
LEMMA ScoringInit == Init => ScoringInv
<1> SUFFICES ASSUME Init PROVE ScoringInv
  OBVIOUS
<1>1. Queue!QueueInv
  BY Queue!QueueInit DEF Init, Ring!Init, Queue!Init
<1>2. HotPathOK /\ WorkerOK
  BY DEF Init, Ring!Init, HotPathOK, WorkerOK, WindowStats
<1>3. OpenWindows /\ RequestsOK
  BY DEF Init, OpenWindows, RequestsOK
<1> QED
  BY <1>1, <1>2, <1>3 DEF ScoringInv, Shape

\* The invariant of the scoring client holds always.
LEMMA ScoringInvariant == Spec => []ScoringInv
<1>1. Init => ScoringInv
  BY ScoringInit
<1>2. ScoringInv /\ [Next]_vars => ScoringInv'
  BY ShapeStep, WindowsStep DEF ScoringInv
<1> QED
  BY <1>1, <1>2, PTL DEF Spec

\* MlScoringWorker loses no request silently: each is scored, failed, dropped by
\* the ring buffer, or still on its way.
THEOREM MlRequestsAccounted == Spec => []EveryRequestAccounted
<1>1. ScoringInv => EveryRequestAccounted
  <2> SUFFICES ASSUME ScoringInv PROVE EveryRequestAccounted
    OBVIOUS
  <2>1. /\ queue \in Seq(Nat) /\ held \in Seq(Nat) /\ delivered \in Seq(Nat) /\ discarded \in Seq(Nat)
        /\ pushed \in Nat /\ Len(queue) <= pushed
        /\ Len(delivered) + Len(discarded) + Len(queue) + Len(held) = pushed
    BY DEF ScoringInv, Shape, Queue!QueueInv, Queue!QueueTypeOK, Queue!ItemsAccounted
  <2>2. /\ \A i \in 1 .. Len(queue) : queue[i] = pushed - Len(queue) + i - 1
        /\ \A i \in 1 .. Len(held) : held[i] < pushed - Len(queue)
        /\ \A i \in 1 .. Len(delivered) : delivered[i] < pushed - Len(queue)
        /\ \A i \in 1 .. Len(discarded) : discarded[i] < pushed - Len(queue)
    BY DEF ScoringInv, Shape, Queue!QueueInv, Queue!QueueInOrder, Queue!Front
  <2>3. \A i \in 1 .. Len(queue) : queue[i] \in Items
    BY <2>1, <2>2 DEF Items
  <2>4. ASSUME NEW s \in Seq(Nat), \A i \in 1 .. Len(s) : s[i] < pushed - Len(queue)
        PROVE  \A i \in 1 .. Len(s) : s[i] \in Items
    <3> TAKE i \in 1 .. Len(s)
    <3>1. s[i] \in Nat /\ s[i] < pushed - Len(queue)
      BY <2>4
    <3> QED
      BY <2>1, <3>1 DEF Items
  <2>5. queue \in Seq(Items)
    BY <2>1, <2>3, Queue!SeqOver
  <2>6. held \in Seq(Items) /\ delivered \in Seq(Items) /\ discarded \in Seq(Items)
    BY <2>1, <2>2, <2>4, Queue!SeqOver
  <2>7. Len(requests) = pushed + (IF submitter = "submit" THEN 1 ELSE 0)
    BY DEF ScoringInv, Shape, HotPathOK
  <2>8. TypeOK
    BY <2>1, <2>5, <2>6, <2>7 DEF TypeOK, ScoringInv, Shape, HotPathOK, WorkerOK
  <2> QED
    BY <2>1, <2>8 DEF EveryRequestAccounted, ScoringInv, Shape, WorkerOK
<1> QED
  BY <1>1, ScoringInvariant, PTL

\* MlAnomalyDetector's features are those of one tumbling window.
THEOREM MlFeaturesOfOneWindow == Spec => []FeaturesOfOneWindow
<1>1. ScoringInv => FeaturesOfOneWindow
  <2> SUFFICES ASSUME ScoringInv, NEW i \in DOMAIN requests
               PROVE  LET request == requests[i]
                          seen == history[request.key]
                      IN \E first \in 1 .. request.at :
                           LET window == SubSeq(seen, first, request.at)
                           IN /\ request.orders = Number(window, "New")
                              /\ request.cancels = Number(window, "Cancelled")
                              /\ \A j \in DOMAIN window :
                                   window[1].time <= window[j].time /\ window[j].time - window[1].time <= Window
    BY DEF FeaturesOfOneWindow
  <2> DEFINE request == requests[i]
             seen == history[request.key]
             at == request.at
  <2>1. i \in 1 .. Len(requests) /\ request.key \in Keys
    <3>1. requests \in Seq(ScoringRequest)
      BY DEF ScoringInv, Shape, HotPathOK
    <3>2. i \in 1 .. Len(requests) /\ request \in ScoringRequest
      BY <3>1, ElementOfSeq, LenProperties
    <3> QED
      BY <3>2 DEF ScoringRequest
  <2>2. seen \in Seq(Order)
    BY <2>1 DEF ScoringInv, Shape, HotPathOK
  <2>3. at \in 1 .. Len(seen)
    BY <2>1 DEF ScoringInv, RequestsOK
  <2>4. PICK first \in 1 .. at : InOneWindow(seen, first, at) /\ Tallies(seen, first, at, request)
    BY <2>1 DEF ScoringInv, RequestsOK
  <2> DEFINE window == SubSeq(seen, first, at)
  <2> HIDE DEF request, seen, at
  <2>5. /\ window \in Seq(Order) /\ Len(window) = at - first + 1
        /\ \A j \in 1 .. at - first + 1 : window[j] = seen[first + j - 1]
    <3>1. first \in Int /\ at \in Int /\ first <= at /\ \A j \in first .. at : seen[j] \in Order
      BY <2>2, <2>3
    <3> QED
      BY <3>1, SubSeqProperties
  <2>6. window[1] = seen[first]
    BY <2>3, <2>5
  <2>7. ASSUME NEW j \in DOMAIN window
        PROVE  window[1].time <= window[j].time /\ window[j].time - window[1].time <= Window
    <3>1. j \in 1 .. at - first + 1 /\ first + j - 1 \in first .. at
      BY <2>3, <2>5
    <3> QED
      BY <2>4, <2>5, <2>6, <3>1 DEF InOneWindow
  <2> HIDE DEF window
  <2> QED
    BY <2>4, <2>7 DEF Tallies, request, seen, at, window
<1> QED
  BY <1>1, ScoringInvariant, PTL
=============================================================================
