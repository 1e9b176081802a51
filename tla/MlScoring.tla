----------------------------- MODULE MlScoring -----------------------------
(***************************************************************************)
(* The asynchronous ML path: MlAnomalyDetector, on the hot path, tallies     *)
(* the orders and cancels of a tumbling window per account and instrument    *)
(* and from time to time submits them                                       *)
(* (cpp/ml_client/ml_anomaly_detector.cpp); MlScoringWorker, on its own      *)
(* thread, has the requests scored over HTTP and raises the alerts           *)
(* (cpp/ml_client/ml_scoring_worker.cpp).  Between them is another           *)
(* SpscRingBuffer, here its contract DropOldestQueue.                        *)
(*                                                                          *)
(* Of the window's features the model keeps the two counts; total_qty is a   *)
(* sum over the same orders and the others are quotients of these.           *)
(***************************************************************************)
EXTENDS Naturals, Sequences, FiniteSets

CONSTANTS Keys,         \* pairs of account and instrument
          Times,        \* timestamps of orders, not necessarily rising
          Window,       \* window_duration_ns
          MinOrders,    \* min_orders_before_submit
          Every,        \* submit_every_n_orders
          Capacity,     \* queue_capacity
          MaxEvents     \* bound on the orders and cancels evaluated

ASSUME TimesAssumption == Times \subseteq Nat \ {0}
ASSUME MlConfigAssumption == MinOrders \in Nat /\ Every \in Nat \ {0} /\ Window \in Nat

VARIABLES
  history,    \* per key, the orders and cancels evaluated
  stats,      \* stats_by_key_; start 0: no window yet
  requests,   \* every request submitted: item k of the queue is requests[k + 1]
  submitter,  \* the hot path: "evaluate", "submit", or "stopped" once it is over
  queue, pushed, held, pressed, delivered, discarded,  \* DropOldestQueue
  worker,     \* the worker thread: "pop", "score", "check", "last" or "stopped"
  scored, failed, alerted

hotVars == <<history, stats, requests, submitter>>
queueVars == <<queue, pushed, held, pressed, delivered, discarded>>
workerVars == <<worker, scored, failed, alerted>>
vars == <<hotVars, queueVars, workerVars>>

Ring == INSTANCE DropOldestQueue

Statuses == {"New", "Cancelled"}
Order == [status : Statuses, time : Times]
WindowStats == [start : Times \cup {0}, orders : Nat, cancels : Nat]
ScoringRequest == [key : Keys, at : Nat, orders : Nat, cancels : Nat]
Items == 0 .. pushed - 1

TypeOK ==
  /\ history \in [Keys -> Seq(Order)]
  /\ stats \in [Keys -> WindowStats]
  /\ requests \in Seq(ScoringRequest)
  /\ pushed <= Len(requests) /\ Len(requests) <= pushed + 1
  /\ submitter \in {"evaluate", "submit", "stopped"}
  /\ queue \in Seq(Items) /\ held \in Seq(Items)
  /\ delivered \in Seq(Items) /\ discarded \in Seq(Items)
  /\ worker \in {"pop", "score", "check", "last", "stopped"}
  /\ scored \in Nat /\ failed \in Nat /\ alerted \in 0 .. scored

Init ==
  /\ history = [k \in Keys |-> <<>>]
  /\ stats = [k \in Keys |-> [start |-> 0, orders |-> 0, cancels |-> 0]]
  /\ requests = <<>> /\ submitter = "evaluate"
  /\ Ring!Init
  /\ worker = "pop"
  /\ scored = 0 /\ failed = 0 /\ alerted = 0

-----------------------------------------------------------------------------
\* The hot path: MlAnomalyDetector::handle_order()

\* Fault: a timestamp before the window does not end it.
WindowOverForwardOnly(window, time) ==
  \/ window.start = 0
  \/ time >= window.start /\ time - window.start > Window

WindowOver(window, time) ==
  \/ window.start = 0
  \/ time < window.start
  \/ time - window.start > Window

NewWindow(time) == [start |-> time, orders |-> 0, cancels |-> 0]

Counted(window, status) ==
  IF status = "New" THEN [window EXCEPT !.orders = @ + 1]
                    ELSE [window EXCEPT !.cancels = @ + 1]

Due(window) == window.orders >= MinOrders /\ window.orders % Every = 0

Evaluations == Cardinality(UNION {{k} \X DOMAIN history[k] : k \in Keys})

Evaluate(key, status, time) ==
  /\ submitter = "evaluate" /\ Evaluations < MaxEvents
  /\ history' = [history EXCEPT ![key] = Append(@, [status |-> status, time |-> time])]
  /\ LET open == IF WindowOver(stats[key], time) THEN NewWindow(time) ELSE stats[key]
         window == Counted(open, status)
     IN /\ stats' = [stats EXCEPT ![key] = window]
        /\ \/ /\ Due(window)
              /\ requests' = Append(requests, [key |-> key, at |-> Len(history'[key]),
                                      orders |-> window.orders, cancels |-> window.cancels])
              /\ submitter' = "submit"
           \/ ~Due(window) /\ UNCHANGED <<requests, submitter>>
  /\ UNCHANGED <<queueVars, workerVars>>

Number(orders, status) == Cardinality({i \in DOMAIN orders : orders[i].status = status})

NewOrder(key, time) == Evaluate(key, "New", time)

\* Every order is cancelled once at most.
CancelOrder(key, time) ==
  /\ Number(history[key], "Cancelled") < Number(history[key], "New")
  /\ Evaluate(key, "Cancelled", time)

\* submit(): push() on the ring buffer.
Submit ==
  /\ submitter = "submit"
  /\ Ring!Push
  /\ submitter' = "evaluate"
  /\ UNCHANGED <<history, stats, requests, workerVars>>

MakeRoom ==
  /\ submitter = "submit"
  /\ Ring!FindFull \/ Ring!Relent \/ Ring!Discard
  /\ UNCHANGED <<hotVars, workerVars>>

\* The stop flag is set once the hot path's thread has ended.
Stop ==
  /\ submitter = "evaluate"
  /\ submitter' = "stopped"
  /\ UNCHANGED <<history, stats, requests, queueVars, workerVars>>

-----------------------------------------------------------------------------
\* The worker thread: MlScoringWorker::run()

Pop ==
  /\ worker \in {"pop", "last"}
  /\ Ring!Claim
  /\ worker' = "score"
  /\ UNCHANGED <<hotVars, scored, failed, alerted>>

\* Fault: a request that raises an alert is not counted as scored.
CountedIfQuiet(result) == scored + (IF result = "below" THEN 1 ELSE 0)

CountedScored(result) == scored + (IF result = "failed" THEN 0 ELSE 1)

\* score() fails (refused, timed out, not 200, not parsed), or the anomaly score is
\* below or at the threshold.
ProcessOne(result) ==
  /\ worker = "score"
  /\ Ring!Deliver
  /\ failed' = failed + (IF result = "failed" THEN 1 ELSE 0)
  /\ scored' = CountedScored(result)
  /\ alerted' = alerted + (IF result = "alert" THEN 1 ELSE 0)
  /\ worker' = "pop"
  /\ UNCHANGED hotVars

PopEmpty ==
  /\ worker = "pop" /\ queue = <<>>
  /\ worker' = "check"
  /\ UNCHANGED <<hotVars, queueVars, scored, failed, alerted>>

AfterCheck == IF submitter = "stopped" THEN "last" ELSE "pop"

CheckStop ==
  /\ worker = "check"
  /\ worker' = AfterCheck
  /\ UNCHANGED <<hotVars, queueVars, scored, failed, alerted>>

LastPopEmpty ==
  /\ worker = "last" /\ queue = <<>>
  /\ worker' = "stopped"
  /\ UNCHANGED <<hotVars, queueVars, scored, failed, alerted>>

WorkerStep ==
  \/ Pop \/ PopEmpty \/ CheckStop \/ LastPopEmpty
  \/ \E result \in {"failed", "below", "alert"} : ProcessOne(result)

Next ==
  \/ \E key \in Keys, time \in Times : NewOrder(key, time) \/ CancelOrder(key, time)
  \/ Submit \/ MakeRoom \/ Stop
  \/ WorkerStep

Spec == Init /\ [][Next]_vars

-----------------------------------------------------------------------------
\* Properties

\* Every request ends as scored, failed or dropped, or is still on its way.
EveryRequestAccounted ==
  /\ TypeOK
  /\ scored + failed + Len(discarded) + Len(queue) + Len(held) = pushed

\* The features of a request are those of one window: of the latest orders of its
\* key, none earlier than the first of them or more than the window's duration
\* after it, whatever the timestamps do.
FeaturesOfOneWindow ==
  \A i \in DOMAIN requests :
    LET request == requests[i]
        seen == history[request.key]
    IN \E first \in 1 .. request.at :
         LET window == SubSeq(seen, first, request.at)
         IN /\ request.orders = Number(window, "New")
            /\ request.cancels = Number(window, "Cancelled")
            /\ \A j \in DOMAIN window :
                 window[1].time <= window[j].time /\ window[j].time - window[1].time <= Window
=============================================================================
