--------------------------- MODULE MCAlertService ---------------------------
EXTENDS AlertServiceInvariant

CONSTANTS consumer, worker, desk1, desk2

\* Two alerts whose windows are in the other order than their detection may be, one with
\* account ids that need every rule of the array syntax.
MCAlerts == {[detector |-> "wash", accounts |-> <<<<"a">>, <<"a", "quote">>, <<>>>>, window |-> 2],
             [detector |-> "front", accounts |-> <<<<"a", "backslash", "comma">>>>, window |-> 1]}

Listing(account, detector, range, status, limit, offset) ==
  [route |-> "alerts", account |-> account, detector |-> detector, range |-> range, status |-> status,
   limit |-> limit, offset |-> offset]

\* What the theorems of ServerProofs take as their hypothesis, evaluated here.
ASSUME MCArraysRoundTrip == ArraysRoundTrip

MCRequests ==
  {[route |-> "patch", id |-> id, status |-> status] : id \in {1, 2}, status \in {"CLOSED", "BOGUS"}}
  \cup {[route |-> "patch", id |-> 1, status |-> "OPEN"], [route |-> "alert", id |-> 2]}
  \cup {Listing(None, None, None, None, 1, None), [route |-> "status"]}

MCRefused ==
  {[route |-> "patch", id |-> 1, status |-> None], [route |-> "alert", id |-> Unparsable],
   Listing(None, None, None, None, Unparsable, None), Listing(None, None, None, None, -1, None),
   Listing(None, None, None, None, 1, -1),
   Listing(<<"a", "quote">>, None, None, None, 1, None), Listing(None, "wash", None, None, 1, None),
   Listing(None, None, <<1, 2>>, None, 1, None), Listing(None, None, None, "OPEN", 2, 1)}

Patches == {r \in MCRequests : r.route = "patch"}

\* Two clients at once; every request, over a link and a process that may fail; a list read to
\* its end while alerts arrive and a status changes.
MCBounds ==
  {[asks |-> MCRequests, threads |-> {consumer, desk1, desk2},
    requests |-> 2, alerts |-> 1, walks |-> 0, losses |-> 0, kills |-> 0],
   [asks |-> MCRequests \cup MCRefused, threads |-> {consumer, worker, desk1},
    requests |-> 1, alerts |-> 2, walks |-> 0, losses |-> 1, kills |-> 1],
   [asks |-> Patches, threads |-> {consumer, desk1},
    requests |-> 1, alerts |-> 3, walks |-> 1, losses |-> 0, kills |-> 0]}

MCFilters == {[detector |-> None, status |-> None], [detector |-> None, status |-> "OPEN"],
              [detector |-> "wash", status |-> None]}
=============================================================================
