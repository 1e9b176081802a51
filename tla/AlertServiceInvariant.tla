----------------------- MODULE AlertServiceInvariant -----------------------
(***************************************************************************)
(* Why the alert store answers with what is in its table: what the threads   *)
(* around it, its mutex and its log of commits have to do with each other,    *)
(* strong enough to be inductive.                                            *)
(***************************************************************************)
EXTENDS AlertService

\* The array syntax gives every list of accounts back (alert_store.cpp:31-80): a statement
\* about folds over texts, without a variable.
ArraysRoundTrip ==
  \A items \in Accounts : Written[items] = {items} /\ ReadBack[items] = items

Row == [alert : Alerts, status : Statuses]

\* Ids come from the sequence, which is never set back.
DbOK(d) ==
  /\ d = [rows |-> d.rows, serial |-> d.serial]
  /\ d.serial \in Nat
  /\ DOMAIN d.rows \subseteq 1 .. d.serial
  /\ d.rows \in [DOMAIN d.rows -> Row]

LogEntry == [by : Threads, id : Nat \ {0}, status : Statuses]

ServiceTypes ==
  /\ DbOK(db)
  /\ process \in {"running", "dead"} /\ link \in {"open", "broken"}
  /\ call = [t \in Threads |-> call[t]]
  /\ request = [t \in Threads |-> request[t]]
  /\ reply = [t \in Threads |-> reply[t]]
  /\ log \in Seq(LogEntry)
  /\ returned \subseteq [id : Nat, alert : Alerts] /\ IsFiniteSet(returned)
  /\ dropped \in Nat
  /\ spent \in [alerts : Nat, requests : Nat, walks : Nat, losses : Nat, kills : Nat]
  /\ bounds \in Bounds

-----------------------------------------------------------------------------
\* The calls

\* A writing thread is in on_alert or not in the store at all.
WriterOK(w) ==
  /\ ~request[w].open /\ reply[w] = None
  /\ call[w] # None => call[w] \in [op : {"insert"}, alert : Alerts]

\* A request as register_routes sees it.
Asked(r) ==
  /\ r.route \in {"patch", "alert", "status", "alerts"}
  /\ r.route = "alerts" => /\ r.limit \in Int \cup {Unparsable}
                           /\ r.offset \in Int \cup {None, Unparsable}

\* What was asked, and what it has done so far.
OpenRequest(c) ==
  /\ request[c] = [open |-> TRUE, asked |-> request[c].asked, since |-> request[c].since,
                   changed |-> request[c].changed, inDoubt |-> request[c].inDoubt]
  /\ Asked(request[c].asked)
  /\ request[c].since \in 0 .. Len(log)
  /\ request[c].changed \in BOOLEAN /\ request[c].inDoubt \in BOOLEAN

\* The call a handler is in: the one of its route, or the second one of a PATCH, whose first
\* has changed the row.
Serves(c) ==
  LET asked == request[c].asked
  IN  /\ Refusal(asked) = 0
      /\ \/ call[c] = Call(asked) /\ (request[c].changed => request[c].inDoubt)
         \/ /\ call[c] = [op |-> "get", id |-> asked.id] /\ asked.route = "patch"
            /\ asked.id \in Inserted(request[c].since) /\ asked.status \in Statuses

\* The three stages of a request: none, in the handler, answered.
ClientOK(c) ==
  /\ request[c] = [open |-> FALSE] \/ OpenRequest(c)
  /\ ~request[c].open => call[c] = None /\ reply[c] = None
  /\ call[c] # None => reply[c] = None /\ Serves(c)
  /\ reply[c] # None =>
       /\ reply[c] = [code |-> reply[c].code, body |-> reply[c].body, at |-> reply[c].at]
       /\ reply[c].at \in request[c].since .. Len(log)

\* The tab asks for one page of its list at a time.
WalkShape ==
  /\ walk = [filter |-> walk.filter, offset |-> walk.offset, seen |-> walk.seen,
             start |-> walk.start, done |-> walk.done]
  /\ walk.offset \in Nat /\ walk.start \in 0 .. Len(log) /\ walk.done \in BOOLEAN

TabOK ==
  /\ walk = None \/ WalkShape
  /\ request[Tab].open =>
       WalkShape /\ ~walk.done /\ request[Tab].asked = PageRequest(walk.filter, walk.offset)

\* The thread that has the mutex is in a method, and what its statements gave is still true of
\* the database as long as the connection is up.
HolderOK ==
  /\ holder \in Threads \cup {None}
  /\ holder = None => outcome = None
  /\ holder # None =>
       /\ process = "running" /\ call[holder] # None
       /\ link = "open" => outcome = Execute(call[holder], db)
       /\ link = "broken" /\ outcome # None => outcome.db.serial = db.serial
  /\ process = "dead" => holder = None /\ call = NoCalls /\ request = NoRequests /\ reply = NoCalls

CallsOK ==
  /\ \A w \in Writers : WriterOK(w)
  /\ \A c \in Clients \cup {Tab} : ClientOK(c)
  /\ TabOK /\ HolderOK

-----------------------------------------------------------------------------
\* The accounts of the alerts

\* Rows no on_alert has returned the id of: committed as the connection broke, or as the
\* process was killed.
Unreturned == DOMAIN db.rows \ {r.id : r \in returned}

\* The writer that has the mutex on a broken connection may have committed its row.
Suspect == IF link = "broken" /\ holder \in Writers THEN 1 ELSE 0

AccountsOK ==
  /\ \A r \in returned : r.id \in DOMAIN db.rows /\ db.rows[r.id].alert = r.alert
  /\ \A r, q \in returned : r.id = q.id => r = q
  /\ spent.alerts = Cardinality(returned) + InFlight + dropped
  /\ Cardinality(Unreturned) <= dropped + Suspect

-----------------------------------------------------------------------------
\* The log of commits

\* Of a log l: the ids it knows after k changes, the last of them that concerns row i, the first.
Ids(l, k) == {l[j].id : j \in 1 .. k}
LatestChange(l, j, i, k) == j \in 1 .. k /\ l[j].id = i /\ \A h \in j + 1 .. k : l[h].id # i
IsFirst(l, j, i) == j \in DOMAIN l /\ l[j].id = i /\ \A h \in 1 .. j - 1 : l[h].id # i

\* The table d is what the changes of the log l make of it: a row has the status of its last
\* change; rows were inserted in the order of their ids; whatever a client did not do is an insert.
Records(d, l) ==
  /\ DOMAIN d.rows = Ids(l, Len(l))
  /\ \A k \in 0 .. Len(l) : \A i \in Ids(l, k) : \E j \in 1 .. k : LatestChange(l, j, i, k)
  /\ \A j \in DOMAIN l : LatestChange(l, j, l[j].id, Len(l)) => d.rows[l[j].id].status = l[j].status
  /\ \A i \in DOMAIN d.rows : \E j \in DOMAIN l : IsFirst(l, j, i)
  /\ \A j, h \in DOMAIN l : j < h /\ IsFirst(l, h, l[h].id) => l[j].id < l[h].id
  /\ \A j \in DOMAIN l : l[j].by \notin Clients => IsFirst(l, j, l[j].id) /\ l[j].status = "OPEN"

LogOK == Records(db, log)

-----------------------------------------------------------------------------
\* The answers

\* Of a log l and a table d: the status of row i after k changes, the rows that match a filter.
StatusIn(l, i, k) == l[CHOOSE j \in 1 .. k : l[j].id = i /\ \A h \in j + 1 .. k : l[h].id # i].status
MatchingIn(filter, k, d, l) ==
  {i \in Ids(l, k) : /\ filter.detector \in {None, d.rows[i].alert.detector}
                     /\ filter.status \in {None, StatusIn(l, i, k)}}

\* AgreesWith, of the answer a to what was asked.
Agrees(asked, a, k, d, l) ==
  LET shown == IF asked.route = "alerts" THEN Range(a.body.alerts) ELSE {a.body}
  IN  IF a.code = 404 THEN asked.id \notin Ids(l, k)
      ELSE /\ \A s \in shown : /\ s.alert_id \in Ids(l, k)
                               /\ s.alert = d.rows[s.alert_id].alert
                               /\ s.status = StatusIn(l, s.alert_id, k)
           /\ asked.route = "alerts" /\ asked.offset # None =>
                LET total == Cardinality(MatchingIn(asked, k, d, l))
                    left == IF total > asked.offset THEN total - asked.offset ELSE 0
                IN  /\ a.body.total_count = total
                    /\ Cardinality(shown) = IF left < asked.limit THEN left ELSE asked.limit

\* How many of S are listed before i, latest first.
Later(i, S) == Cardinality({j \in S : j > i})

Shows(alerts, i) == \E n \in DOMAIN alerts : alerts[n].alert_id = i

\* The rows of S a page is there for are on it.
FillsItsPage(alerts, offset, limit, S) ==
  \A i \in S : offset <= Later(i, S) /\ Later(i, S) < offset + limit => Shows(alerts, i)

\* Latest first, and the latest of ids.
IsTheLatest(alerts, limit, ids) ==
  /\ DOMAIN alerts = 1 .. Len(alerts) /\ Len(alerts) \in Nat
  /\ \A j, k \in DOMAIN alerts : j < k => alerts[j].alert_id > alerts[k].alert_id
  /\ \A i \in ids : \/ Shows(alerts, i)
                    \/ Len(alerts) = limit /\ \A k \in DOMAIN alerts : alerts[k].alert_id > i

\* What an answer shows is the table as it was when it was made, and all of it that was asked for.
TrueAnswer(asked, a, d, l) ==
  /\ asked.route # "status" /\ a.code \in {200, 404} => Agrees(asked, a, a.at, d, l)
  /\ asked.route = "alerts" /\ a.code = 200 =>
       /\ asked.offset # None =>
            FillsItsPage(a.body.alerts, asked.offset, asked.limit, MatchingIn(asked, a.at, d, l))
       /\ Call(asked).op = "recent" => IsTheLatest(a.body.alerts, asked.limit, Ids(l, a.at))

RepliesOK ==
  \A c \in Clients \cup {Tab} : reply[c] # None => TrueAnswer(request[c].asked, reply[c], db, log)

-----------------------------------------------------------------------------
\* The walk over the pages

\* Nobody has changed what the list filters by, from its first page to the k-th change.
Undisturbed(w, k, l) == w.filter.status = None \/ \A h \in w.start + 1 .. k : l[h].by \notin Clients

\* What the walk w has not shown yet is behind the pages it has read, as the table is after k changes.
Ahead(w, k, d, l) ==
  Undisturbed(w, k, l) =>
    \A i \in MatchingIn(w.filter, w.start, d, l) :
      i \in w.seen \/ w.offset <= Later(i, MatchingIn(w.filter, k, d, l))

\* From the moment the tab asks for a page: whenever that is executed, nothing is skipped.
NothingSkipped(w, from, d, l) ==
  w.start <= from /\ \A k \in from .. Len(l) : Ahead(w, k, d, l)

Pending == IF request[Tab].open THEN request[Tab].since ELSE Len(log)

WalkOK == request[Tab].open \/ walk # None => NothingSkipped(walk, Pending, db, log)

-----------------------------------------------------------------------------
ServiceInvariant ==
  /\ ServiceTypes /\ CallsOK /\ AccountsOK /\ LogOK /\ ErrorsHaveACause
  /\ RepliesOK /\ WalkOK /\ WalkMissesNothing
=============================================================================
