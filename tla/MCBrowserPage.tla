--------------------------- MODULE MCBrowserPage ---------------------------
(* Two players on two maps.  Each behaviour has one kind of request of     *)
(* which several can be on their way: joins, lists, states or actions.     *)
EXTENDS BrowserPage

Dot(x) == <<[x0 |-> x, y0 |-> 0, x1 |-> x, y1 |-> 0]>>
MCRoadsOf  == [m \in MapIds |-> IF m = "map1" THEN Dot(0) ELSE Dot(1)]
MCMapSpeed == [m \in MapIds |-> 1]

Several(k, n, lost, pressed, company, others) ==
  [inFlight |-> [j \in Kinds |-> IF j = k THEN n ELSE 1], drops |-> lost, keys |-> pressed,
   company |-> company, others |-> others]

MCBounds == {Several("join", 2, 1, {}, {"strangers", "tabs"}, {}),
             Several("players", 3, 1, {}, {"strangers"}, {}),
             Several("state", 2, 0, {}, {"strangers", "tabs"}, {"D"}),
             Several("action", 3, 1, {"R"}, {}, {}),
             Several("action", 3, 0, {"R", "D"}, {}, {}),
             Several("action", 1, 0, {"R"}, {"strangers"}, {})}
=============================================================================
