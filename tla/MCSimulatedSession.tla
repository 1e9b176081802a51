------------------------ MODULE MCSimulatedSession ------------------------
(* Sessions for SimulatedSession.                                            *)
EXTENDS SimulatedSession

CONSTANTS a, b, c, mkt, equity, fx

Session(scenarios) ==
  [scenarios |-> scenarios, start |-> 0, baseline |-> 0, gaps |-> {20}, delays |-> {1, 30},
   anchors |-> {100}, streams |-> [1 .. 6 -> BOOLEAN], ambientQty |-> 20, demo |-> FALSE]
One(kind, severity) == [kind |-> kind, severity |-> severity]

Flow == [Session(<<>>) EXCEPT !.baseline = 2]
Wash == {Session(<<One("WashTrade", s)>>) : s \in {0, 50, 100}}
Spoof == {[Session(<<One("SpoofingLayering", s)>>) EXCEPT !.streams = [1 .. 9 -> BOOLEAN]] : s \in {0, 60, 100}}
Marks == {[Session(<<One("MarkingTheClose", s)>>) EXCEPT !.streams = [1 .. 7 -> BOOLEAN]] : s \in {0, 50, 100}}
Leads == {[Session(<<One("FrontRunning", s)>>) EXCEPT !.streams = [1 .. 10 -> BOOLEAN]] : s \in {0, 50, 100}}
\* Several scenarios in one session, overlapping, on one or two instruments.
Few == {<<FALSE>>, <<TRUE>>, <<FALSE, TRUE, TRUE, FALSE>>}
Mixed == {[Session(<<One("WashTrade", s), One("SpoofingLayering", s), One("FrontRunning", s)>>)
             EXCEPT !.streams = Few] : s \in {50, 100}}
Twice == {[Session(<<One("MarkingTheClose", 50), One("MarkingTheClose", s)>>) EXCEPT !.streams = Few] : s \in {0, 100}}
\* The demo server's way: scenarios at the same anchor, an unstable merge.
Demo == {[Session(<<One("SpoofingLayering", 60), One("FrontRunning", 60)>>)
            EXCEPT !.streams = {<<FALSE>>, <<TRUE>>}, !.demo = TRUE]}

MCConfigs == {Flow} \cup Demo \cup Wash \cup Spoof \cup Marks \cup Leads \cup Mixed \cup Twice
MCSpoof == Spoof
MCPairs == {<<a, b>>}
MCTick == [i \in Instruments |-> IF i = equity THEN 100 ELSE 1]
MCCloseTime == [i \in Instruments |-> SessionClose]
=============================================================================
