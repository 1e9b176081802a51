----------------------------- MODULE AlertStore -----------------------------
(***************************************************************************)
(* AlertStore (cpp/db/alert_store.cpp): what each method does to the alerts  *)
(* table and what it returns.  A database is its rows, a function on alert   *)
(* ids, and the last id its BIGSERIAL gave out.  A method is a transaction   *)
(* whose statements see the database and whose effect is its "db".           *)
(***************************************************************************)
EXTENDS Integers, FiniteSets, PgTextArray

CONSTANTS
  Alerts,    \* what detectors raise: records with detector, accounts (strings) and window
  Statuses,  \* the CHECK constraint of the column status
  None       \* std::nullopt, or no such thread

ASSUME AlertsAssumption ==
  \A alert \in Alerts :
    alert = [detector |-> alert.detector, accounts |-> alert.accounts, window |-> alert.window]

EmptyDb == [rows |-> <<>>, serial |-> 0]

Done(db, answer) == [db |-> db, answer |-> answer, thrown |-> FALSE]
\* A statement the server refuses, or a row that is not there: the transaction is rolled back,
\* but an id taken from the sequence is gone.
Thrown(db) == [db |-> db, answer |-> None, thrown |-> TRUE]

ApplySchema(db) == db

Accounts == {alert.accounts : alert \in Alerts}

\* What the server stores for the literal of a list (none: it refuses it), and what is read back.
Written == [items \in Accounts |-> ArrayIn(ToPgTextArray(items), Accounts)]
ReadBack == [items \in Accounts |-> FromPgTextArray(ArrayOut(items))]

InsertAlert(db, alert) ==
  LET id == db.serial + 1
      row(items) == [alert |-> [alert EXCEPT !.accounts = items], status |-> "OPEN"]
  IN  IF Written[alert.accounts] = {} THEN Thrown([db EXCEPT !.serial = id])
      ELSE Done([rows |-> [i \in DOMAIN db.rows \cup {id} |->
                             IF i = id THEN row(CHOOSE items \in Written[alert.accounts] : TRUE) ELSE db.rows[i]],
                 serial |-> id], [alert_id |-> id])

StoredAlerts(db, ids) == [k \in DOMAIN ids |->
  [alert_id |-> ids[k],
   alert |-> [db.rows[ids[k]].alert EXCEPT !.accounts = ReadBack[@]],
   status |-> db.rows[ids[k]].status]]

List(db, ids) == Done(db, [alerts |-> StoredAlerts(db, ids)])

\* The members of S, those that have most to precede them last.
Ordered(S, Precedes(_, _)) ==
  [k \in 1 .. Cardinality(S) |-> CHOOSE i \in S : Cardinality({j \in S : Precedes(j, i)}) = k - 1]

OldestFirst(S) == Ordered(S, <)

\* Fault: the latest by the clock of the session.
LatestWindowFirst(db, S) ==
  LET window(i) == db.rows[i].alert.window
  IN  Ordered(S, LAMBDA i, j : window(i) > window(j) \/ (window(i) = window(j) /\ i < j))

LatestFirst(db, S) == Ordered(S, >)

\* ORDER BY the window alone: the model lets equal windows follow their ids.
EarliestWindowFirst(db, S) ==
  LET window(i) == db.rows[i].alert.window
  IN  Ordered(S, LAMBDA i, j : window(i) < window(j) \/ (window(i) = window(j) /\ i < j))

QueryByTimeRange(db, from, to) ==
  List(db, EarliestWindowFirst(db, {i \in DOMAIN db.rows : db.rows[i].alert.window \in from .. to}))

QueryByAccount(db, account) ==
  List(db, OldestFirst({i \in DOMAIN db.rows : account \in Range(db.rows[i].alert.accounts)}))

QueryByDetector(db, detector) ==
  List(db, OldestFirst({i \in DOMAIN db.rows : db.rows[i].alert.detector = detector}))

Page(ids, limit, offset) == SubSeq(ids, offset + 1, Min({offset + limit, Len(ids)}))

ListRecent(db, limit) ==
  IF limit < 0 THEN Thrown(db) ELSE List(db, Page(LatestFirst(db, DOMAIN db.rows), limit, 0))

Matching(db, detector, status) ==
  {i \in DOMAIN db.rows : /\ detector \in {None, db.rows[i].alert.detector}
                          /\ status \in {None, db.rows[i].status}}

\* Fault: the count is that of the page.
CountedPage(db, detector, status, limit, offset) ==
  LET page == Page(LatestFirst(db, Matching(db, detector, status)), limit, offset)
  IN  IF limit < 0 \/ offset < 0 THEN Thrown(db)
      ELSE Done(db, [alerts |-> StoredAlerts(db, page), total_count |-> Len(page)])

ListPaginated(db, detector, status, limit, offset) ==
  LET found == Matching(db, detector, status)
  IN  IF limit < 0 \/ offset < 0 THEN Thrown(db)
      ELSE Done(db, [alerts |-> StoredAlerts(db, Page(LatestFirst(db, found), limit, offset)),
                     total_count |-> Cardinality(found)])

\* A std::optional: a sequence of one row or of none.
GetAlert(db, id) ==
  List(db, IF id \in DOMAIN db.rows THEN <<id>> ELSE <<>>)

UpdateStatus(db, id, status) ==
  IF id \notin DOMAIN db.rows \/ status \notin Statuses THEN Thrown(db)
  ELSE Done([db EXCEPT !.rows[id].status = status], [alert_id |-> id])

IsConnected(db) == Done(db, [db_connected |-> TRUE])

Execute(call, db) ==
  CASE call.op = "insert"   -> InsertAlert(db, call.alert)
    [] call.op = "range"    -> QueryByTimeRange(db, call.from, call.to)
    [] call.op = "account"  -> QueryByAccount(db, call.account)
    [] call.op = "detector" -> QueryByDetector(db, call.detector)
    [] call.op = "recent"   -> ListRecent(db, call.limit)
    [] call.op = "page"     -> ListPaginated(db, call.detector, call.status, call.limit, call.offset)
    [] call.op = "get"      -> GetAlert(db, call.id)
    [] call.op = "update"   -> UpdateStatus(db, call.id, call.status)
    [] call.op = "ping"     -> IsConnected(db)
=============================================================================
