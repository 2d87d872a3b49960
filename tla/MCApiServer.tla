---------------------------- MODULE MCApiServer ----------------------------
(* Two connections, one token and a ticker, on a map where every dog       *)
(* stands still: the road is one point and the speed is zero.              *)
EXTENDS ApiServer

MCRoadsOf == [m \in MapIds |-> <<[x0 |-> 0, y0 |-> 0, x1 |-> 0, y1 |-> 0]>>]

MCMapSpeed == [m \in MapIds |-> 0]
=============================================================================
