---------------------------- MODULE MCGameMotion ----------------------------
(* The motion of one dog on a map with a corner, crossings, roads given    *)
(* backwards, two roads that continue each other and a road of length      *)
(* zero.  The ticks move it by 11 or 33 units, so that it can be inside a  *)
(* cell but outside its road (9 units from the next line) and jumps over   *)
(* whole cells.  The last spot is one beside a road at a negative          *)
(* coordinate.                                                             *)
EXTENDS MapTiles

MCRoadsOf == [m \in MapIds |->
  << [x0 |-> 0, y0 |-> 0, x1 |-> 1, y1 |-> 0],
     [x0 |-> 0, y0 |-> 1, x1 |-> 0, y1 |-> 0],
     [x0 |-> 1, y0 |-> 0, x1 |-> 2, y1 |-> 0],
     [x0 |-> 1, y0 |-> -1, x1 |-> 1, y1 |-> 1],
     [x0 |-> 0, y0 |-> 1, x1 |-> 0, y1 |-> 1],
     [x0 |-> 2, y0 |-> -1, x1 |-> 1, y1 |-> -1] >>]

MCMapSpeed == [m \in MapIds |-> 1]

MCSpots == {[x |-> 0, y |-> 0], [x |-> 25, y |-> -7], [x |-> 30, y |-> -11]}
=============================================================================
