---------------------------- MODULE AlertService ----------------------------
(***************************************************************************)
(* The demo server around its alert store: the consumer and the scoring      *)
(* thread hand alerts to DbAlertSink (cpp/db/db_alert_sink.hpp), the handlers *)
(* of cpp/api/api_server.cpp read the store and change the status of alerts,  *)
(* the dashboard leafs through its pages, the connection to the database may  *)
(* be lost at any moment, and the process may be killed and started again     *)
(* (main, cpp/api/main.cpp).                                                 *)
(*                                                                          *)
(* A method of the store is two steps: it takes the mutex and runs its        *)
(* statements in a transaction, then it commits or throws and unlocks.        *)
(***************************************************************************)
EXTENDS AlertStore

CONSTANTS
  Writers,      \* threads that raise alerts: the consumer, the scoring worker
  Clients,      \* clients of the REST API that send one request after another
  Tab,          \* the client that leafs through the pages
  Filters,      \* what the tab may list: records with detector and status
  PageSize,
  Unparsable,   \* a parameter that std::stoi, std::stoll or parse_id refuses
  Bounds        \* bounds of the exploration, one chosen per behaviour: the requests the clients
                \* may ask, how many of them, of alerts, walks, losses of the link and kills,
                \* and the threads that act

Threads == Writers \cup Clients \cup {Tab}

ASSUME ServiceAssumption ==
  /\ "OPEN" \in Statuses
  /\ PageSize \in Nat \ {0}
  /\ IsFiniteSet(Writers)
  /\ Tab \notin Clients \cup Writers /\ Clients \cap Writers = {}
  /\ None \notin Threads /\ None \notin Statuses /\ None \notin Nat
  /\ \A alert \in Alerts : [op |-> "insert", alert |-> alert] # None

ASSUME RequestsAssumption == \A b \in Bounds : \A r \in b.asks :
  /\ r.route \in {"patch", "alert", "status", "alerts"}
  /\ r.route = "alerts" => /\ r.limit \in Int \cup {Unparsable}
                           /\ r.offset \in Int \cup {None, Unparsable}

VARIABLES
  db,        \* the database, as committed
  process,   \* "running", "dead"
  link,      \* the connection of this process: "open", "broken"
  holder,    \* the thread in a method of the store (None: mutex_ is free)
  outcome,   \* what its statements gave
  call,      \* per thread the method it has called
  request,   \* per client the request being handled
  reply,     \* per client the answer, until it has read it
  walk,      \* the pages the tab has read
  log,       \* every change of the alerts table in the order of the commits
  returned,  \* the alerts whose on_alert returned, with their ids
  dropped,   \* how many were in on_alert when the process ended
  bounds,    \* the bounds of this behaviour
  spent      \* what they count

serviceVars == <<db, process, link, holder, outcome, call, request, reply, walk, log, returned, dropped, bounds, spent>>

NoCalls == [t \in Threads |-> None]
NoRequests == [t \in Threads |-> [open |-> FALSE]]

ServiceInit ==
  /\ db = EmptyDb
  /\ process = "running" /\ link = "open"
  /\ holder = None /\ outcome = None
  /\ call = NoCalls /\ request = NoRequests /\ reply = NoCalls
  /\ walk = None
  /\ log = <<>> /\ returned = {} /\ dropped = 0
  /\ bounds \in Bounds
  /\ spent = [alerts |-> 0, requests |-> 0, walks |-> 0, losses |-> 0, kills |-> 0]

-----------------------------------------------------------------------------
\* The store under its mutex

\* Fault: no lock_guard; two transactions on one connection are a usage_error.
Unlocked(t) == [thrown |-> holder # None, turn |-> TRUE]

Guarded(t) == [thrown |-> FALSE, turn |-> holder = None]

\* lock_guard, pqxx::work and the statements: on a broken connection they throw.
Begin(t) ==
  /\ process = "running" /\ call[t] # None /\ holder # t
  /\ Guarded(t).turn
  /\ holder' = t
  /\ outcome' = IF link = "broken" \/ Guarded(t).thrown THEN Thrown(db) ELSE Execute(call[t], db)
  /\ UNCHANGED <<db, process, link, call, request, reply, walk, log, returned, dropped, bounds, spent>>

Change(t) ==
  IF call[t].op = "insert" THEN <<[by |-> t, id |-> outcome.db.serial, status |-> "OPEN"]>>
  ELSE IF call[t].op = "update" THEN <<[by |-> t, id |-> call[t].id, status |-> call[t].status]>>
  ELSE <<>>

\* Alerts a thread is in the midst of handing to the sink.
InFlight == Cardinality({w \in Writers : call[w] # None})

\* The process ends: an exception has left a thread's function, or it was killed.
Ends ==
  /\ process' = "dead"
  /\ holder' = None /\ outcome' = None
  /\ call' = NoCalls /\ request' = NoRequests /\ reply' = NoCalls
  /\ walk' = None
  /\ dropped' = dropped + InFlight

\* Fault: a method that throws keeps the mutex.
HeldOnThrow(t) == IF outcome.thrown THEN t ELSE None

Released(t) == None

\* What the server makes of the transaction when it is cut off: it has received the COMMIT or not.
CutOff(reached) ==
  /\ outcome = None \/ outcome.thrown => ~reached
  /\ db' = IF outcome = None THEN db
           ELSE IF reached THEN outcome.db ELSE [db EXCEPT !.serial = outcome.db.serial]
  /\ log' = IF reached THEN log \o Change(holder) ELSE log

-----------------------------------------------------------------------------
\* The handlers

Call(r) ==
  CASE r.route = "patch"  -> [op |-> "update", id |-> r.id, status |-> r.status]
    [] r.route = "alert"  -> [op |-> "get", id |-> r.id]
    [] r.route = "status" -> [op |-> "ping"]
    [] r.route = "alerts" /\ r.offset # None ->
         [op |-> "page", detector |-> r.detector, status |-> r.status, limit |-> r.limit, offset |-> r.offset]
    [] r.route = "alerts" /\ r.offset = None /\ r.account # None -> [op |-> "account", account |-> r.account]
    [] r.route = "alerts" /\ r.offset = None /\ r.account = None /\ r.detector # None ->
         [op |-> "detector", detector |-> r.detector]
    [] r.route = "alerts" /\ r.offset = None /\ r.account = None /\ r.detector = None /\ r.range # None ->
         [op |-> "range", from |-> r.range[1], to |-> r.range[2]]
    [] OTHER -> [op |-> "recent", limit |-> r.limit]

\* The code answered before the store is called: 0 for none.
Refusal(r) ==
  IF r.route \in {"alert", "patch"} THEN
       IF r.id = Unparsable \/ (r.route = "patch" /\ r.status = None) THEN 400 ELSE 0
  ELSE IF r.route = "alerts" /\ Call(r).op \in {"page", "recent"} /\ Unparsable \in {r.limit, r.offset} THEN 500
  ELSE 0

Respond(c, code, body) ==
  reply' = [reply EXCEPT ![c] = [code |-> code, body |-> body, at |-> Len(log')]]

Handle(c, r) ==
  /\ process = "running" /\ ~request[c].open
  /\ request' = [request EXCEPT ![c] = [open |-> TRUE, asked |-> r, since |-> Len(log),
                                       changed |-> FALSE, inDoubt |-> FALSE]]
  /\ UNCHANGED <<db, process, link, holder, outcome, log, returned, dropped>>
  /\ IF Refusal(r) # 0 THEN Respond(c, Refusal(r), None) /\ UNCHANGED call
     ELSE call' = [call EXCEPT ![c] = Call(r)] /\ UNCHANGED reply

Ask(c) == \E r \in bounds.asks :
  /\ c \in bounds.threads /\ spent.requests < bounds.requests
  /\ Handle(c, r)
  /\ spent' = [spent EXCEPT !.requests = @ + 1]
  /\ UNCHANGED <<walk, bounds>>

Read(c) ==
  /\ reply[c] # None
  /\ request' = [request EXCEPT ![c] = [open |-> FALSE]] /\ reply' = [reply EXCEPT ![c] = None]
  /\ UNCHANGED <<db, process, link, holder, outcome, call, walk, log, returned, dropped, bounds, spent>>

FailureCode(c) == IF call[c].op = "update" THEN 400 ELSE 500

\* After an update the handler calls get_alert; every other route has its answer.
Continue(c) ==
  IF call[c].op = "update"
  THEN /\ call' = [call EXCEPT ![c] = [op |-> "get", id |-> @.id]]
       /\ request' = [request EXCEPT ![c].since = Len(log'), ![c].changed = TRUE]
       /\ UNCHANGED reply
  ELSE /\ call' = [call EXCEPT ![c] = None]
       /\ IF call[c].op # "get" THEN Respond(c, 200, outcome.answer)
          ELSE IF outcome.answer.alerts = <<>> THEN Respond(c, 404, None) ELSE Respond(c, 200, outcome.answer.alerts[1])
       /\ UNCHANGED request

Commit(t) ==
  /\ process = "running" /\ holder = t /\ outcome # None
  /\ ~outcome.thrown /\ link = "open"
  /\ db' = outcome.db /\ log' = log \o Change(t)
  /\ holder' = Released(t) /\ outcome' = None
  /\ IF t \in Writers
     THEN /\ returned' = returned \cup {[id |-> outcome.answer.alert_id, alert |-> call[t].alert]}
          /\ call' = [call EXCEPT ![t] = None]
          /\ UNCHANGED <<request, reply>>
     ELSE Continue(t) /\ UNCHANGED returned
  /\ UNCHANGED <<process, link, walk, dropped, bounds, spent>>

\* Fault: the sink swallows what insert_alert throws.
Swallow(t) ==
  /\ process' = process /\ holder' = None /\ outcome' = None
  /\ call' = [call EXCEPT ![t] = None]
  /\ UNCHANGED <<request, reply, walk, dropped>>

Uncaught(t) == Ends

Throw(t) ==
  /\ process = "running" /\ holder = t /\ outcome # None
  /\ outcome.thrown \/ link = "broken"
  /\ db' = [db EXCEPT !.serial = outcome.db.serial]
  /\ IF t \in Writers THEN Uncaught(t) /\ UNCHANGED log
     ELSE /\ holder' = Released(t) /\ outcome' = None
          /\ UNCHANGED <<process, walk, request, log, dropped>>
          /\ call' = [call EXCEPT ![t] = None]
          /\ IF call[t].op = "ping" THEN Respond(t, 200, [db_connected |-> FALSE]) ELSE Respond(t, FailureCode(t), None)
  /\ UNCHANGED <<link, returned, bounds, spent>>

\* on_alert of DbAlertSink, called by a thread that has evaluated an event.
Raise(w) == \E alert \in Alerts :
  /\ process = "running" /\ w \in bounds.threads /\ call[w] = None /\ spent.alerts < bounds.alerts
  /\ call' = [call EXCEPT ![w] = [op |-> "insert", alert |-> alert]]
  /\ spent' = [spent EXCEPT !.alerts = @ + 1]
  /\ UNCHANGED <<bounds, db, process, link, holder, outcome, request, reply, walk, log, returned, dropped>>

-----------------------------------------------------------------------------
\* The dashboard's list of alerts, page after page to the last

PageRequest(filter, offset) ==
  [route |-> "alerts", detector |-> filter.detector, status |-> filter.status, account |-> None,
   range |-> None, limit |-> PageSize, offset |-> offset]

OpenList == \E filter \in Filters :
  /\ walk # None => walk.done
  /\ spent.walks < bounds.walks
  /\ Handle(Tab, PageRequest(filter, 0))
  /\ walk' = [filter |-> filter, offset |-> 0, seen |-> {}, start |-> 0, done |-> FALSE]
  /\ spent' = [spent EXCEPT !.walks = @ + 1]
  /\ UNCHANGED bounds

ReadPage ==
  /\ reply[Tab] # None
  /\ reply' = [reply EXCEPT ![Tab] = None] /\ request' = [request EXCEPT ![Tab] = [open |-> FALSE]]
  /\ walk' = IF reply[Tab].code # 200 THEN None
             ELSE [walk EXCEPT !.seen = @ \cup {a.alert_id : a \in Range(reply[Tab].body.alerts)},
                               !.start = IF walk.offset = 0 THEN reply[Tab].at ELSE @,
                               !.offset = @ + PageSize,
                               !.done = walk.offset + PageSize >= reply[Tab].body.total_count]
  /\ UNCHANGED <<db, process, link, holder, outcome, call, log, returned, dropped, bounds, spent>>

TurnPage ==
  /\ walk # None /\ walk.offset > 0 /\ ~walk.done
  /\ Handle(Tab, PageRequest(walk.filter, walk.offset))
  /\ UNCHANGED <<walk, bounds, spent>>

-----------------------------------------------------------------------------
\* Faults, and the start of the process

\* The connection breaks and stays broken: the store has the one connection it was built with.
LoseLink == \E reached \in BOOLEAN :
  /\ process = "running" /\ link = "open" /\ spent.losses < bounds.losses
  /\ CutOff(reached)
  /\ link' = "broken"
  /\ request' = IF reached /\ holder \notin Writers
                THEN [request EXCEPT ![holder].inDoubt = TRUE, ![holder].changed = TRUE] ELSE request
  /\ spent' = [spent EXCEPT !.losses = @ + 1]
  /\ UNCHANGED <<bounds, process, holder, outcome, call, reply, walk, returned, dropped>>

Kill == \E reached \in BOOLEAN :
  /\ process = "running" /\ spent.kills < bounds.kills
  /\ CutOff(reached /\ link = "open") /\ (reached => link = "open")
  /\ Ends
  /\ spent' = [spent EXCEPT !.kills = @ + 1]
  /\ UNCHANGED <<bounds, link, returned>>

Start ==
  /\ process = "dead"
  /\ process' = "running" /\ link' = "open"
  /\ db' = ApplySchema(db)
  /\ UNCHANGED <<holder, outcome, call, request, reply, walk, log, returned, dropped, bounds, spent>>

\* Every thread runs on; requests, alerts and faults are the environment's.
Proceed(t) ==
  \/ Begin(t) \/ Commit(t) \/ Throw(t)
  \/ t \in Clients /\ Read(t)
  \/ t = Tab /\ ReadPage

ServiceNext ==
  \/ \E w \in Writers : Raise(w)
  \/ \E c \in Clients : Ask(c)
  \/ \E t \in Threads : Proceed(t)
  \/ OpenList \/ TurnPage
  \/ LoseLink \/ Kill \/ Start

Fairness == \A t \in Threads : WF_serviceVars(Proceed(t))

ServiceSpec == ServiceInit /\ [][ServiceNext]_serviceVars /\ Fairness

-----------------------------------------------------------------------------
\* Properties

TableOK ==
  /\ process \in {"running", "dead"} /\ link \in {"open", "broken"}
  /\ holder \in Threads \cup {None}
  /\ DOMAIN db.rows \subseteq 1 .. db.serial
  /\ \A i \in DOMAIN db.rows : db.rows[i].alert \in Alerts /\ db.rows[i].status \in Statuses

\* The table after the first k changes: its ids, the status of a row, where a row was inserted.
Inserted(k) == {log[j].id : j \in 1 .. k}
LastChange(i, k) == CHOOSE j \in 1 .. k : log[j].id = i /\ \A h \in j + 1 .. k : log[h].id # i
StatusAt(i, k) == log[LastChange(i, k)].status
Position(i) == CHOOSE j \in DOMAIN log : log[j].id = i /\ \A h \in 1 .. j - 1 : log[h].id # i
MatchingAt(filter, k) ==
  {i \in Inserted(k) : /\ filter.detector \in {None, db.rows[i].alert.detector}
                       /\ filter.status \in {None, StatusAt(i, k)}}

\* An alert a detector hands to the sink is in the table under the id on_alert was given, once
\* and unchanged, or it was in on_alert when the process ended: no thread goes on after a
\* write that failed (DbAlertSink::on_alert and insert_alert, which lets the exception out).
EveryAlertAccounted ==
  /\ TableOK
  /\ \A r \in returned : r.id \in DOMAIN db.rows /\ db.rows[r.id].alert = r.alert
  /\ \A r, q \in returned : r.id = q.id => r = q
  /\ spent.alerts = Cardinality(returned) + InFlight + dropped
  /\ Cardinality(DOMAIN db.rows) <= Cardinality(returned) + InFlight + dropped

HasReply(c, route) == reply[c] # None /\ request[c].asked.route = route

\* What a 200 or 404 shows is the table as it was at one moment between the request and the
\* answer, for a PATCH between its own change and the answer: rows, statuses and the count of
\* a page come from the same moment, whatever other requests change meanwhile.
AgreesWith(c, k) ==
  LET asked == request[c].asked
      body == reply[c].body
      shown == IF asked.route = "alerts" THEN Range(body.alerts) ELSE {body}
  IN  IF reply[c].code = 404 THEN asked.id \notin Inserted(k)
      ELSE /\ \A a \in shown : /\ a.alert_id \in Inserted(k)
                               /\ a.alert = db.rows[a.alert_id].alert
                               /\ a.status = StatusAt(a.alert_id, k)
           /\ asked.route = "alerts" /\ asked.offset # None =>
                LET total == Cardinality(MatchingAt(asked, k))
                    left == IF total > asked.offset THEN total - asked.offset ELSE 0
                IN  /\ body.total_count = total
                    /\ Cardinality(shown) = IF left < asked.limit THEN left ELSE asked.limit

EveryAnswerIsASnapshot ==
  \A c \in Clients \cup {Tab} :
    reply[c] # None /\ request[c].asked.route # "status" /\ reply[c].code \in {200, 404}
      => \E k \in request[c].since .. reply[c].at : AgreesWith(c, k)

\* list_recent_alerts: an alert that is left out was inserted before every alert that is shown,
\* and they are shown latest insertion first, whatever the clock of the session says.
RecentShowsTheLatest ==
  \A c \in Clients :
    HasReply(c, "alerts") /\ reply[c].code = 200 /\ Call(request[c].asked).op = "recent" =>
      LET shown == [k \in DOMAIN reply[c].body.alerts |-> Position(reply[c].body.alerts[k].alert_id)]
      IN  /\ \A j, k \in DOMAIN shown : j < k => shown[j] > shown[k]
          /\ \A i \in Inserted(request[c].since) :
               Position(i) \in Range(shown)
               \/ (Len(shown) = request[c].asked.limit /\ \A p \in Range(shown) : Position(i) < p)

\* What a client is shown was the table at some moment, and the newest part of it.
AnswersShowTheTable == EveryAnswerIsASnapshot /\ RecentShowsTheLatest

\* Leafing through a list to its last page shows every alert that was in the list when the
\* first page was read, however many are inserted at its front meanwhile: one can be missed
\* only in a list by status, when somebody changes a status.
WalkMissesNothing ==
  walk # None /\ walk.done =>
    \/ MatchingAt(walk.filter, walk.start) \subseteq walk.seen
    \/ /\ walk.filter.status # None
       /\ \E k \in walk.start + 1 .. Len(log) : log[k].by \in Clients

\* A PATCH that is answered 400 has changed nothing, unless the connection broke within its
\* own commit.
RefusedChangesNothing ==
  \A c \in Clients :
    HasReply(c, "patch") /\ reply[c].code = 400 /\ request[c].changed => request[c].inDoubt

\* Requests at the same time are no reason to fail: an error that the request itself does not
\* explain, and the end of the process, follow from a lost connection or a kill.
FailuresHaveACause ==
  /\ process = "dead" => link = "broken" \/ spent.kills > 0
  /\ \A c \in Clients :
       LET asked == request[c].asked
       IN  reply[c] # None /\ link = "open" =>
             /\ asked.route = "status" => reply[c].body.db_connected
             /\ reply[c].code = 500 =>
                  \/ Unparsable \in {asked.limit, asked.offset}
                  \/ asked.limit < 0 \/ (asked.offset # None /\ asked.offset < 0)
             /\ reply[c].code = 400 =>
                  \/ asked.id = Unparsable
                  \/ asked.route = "patch" /\ asked.status \notin Statuses
                  \/ asked.route = "patch" /\ asked.id \notin Inserted(request[c].since)

\* An error has a cause, and a refusal no effect, whatever the threads do at the same time.
ErrorsHaveACause == FailuresHaveACause /\ RefusedChangesNothing

\* Every request is answered, or the process has ended.
EveryRequestIsAnswered == \A c \in Clients : request[c].open ~> ~request[c].open
=============================================================================
