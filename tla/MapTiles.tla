------------------------------ MODULE MapTiles ------------------------------
(***************************************************************************)
(* The tiles from which the browser paints a map (game_map.js): one for    *)
(* each cell of the grid, with road or without, and open to the neighbours *)
(* that a road leads to.  The server moves dogs by the rectangles of the   *)
(* roads instead (GameMap); the two are computed from the same list.       *)
(***************************************************************************)
EXTENDS GameWorld

(* The loop over z goes from s to e along the road.                        *)
Low(r) == IF IsHorizontal(r) THEN Least(r.x0, r.x1) ELSE Least(r.y0, r.y1)
High(r) == IF IsHorizontal(r) THEN Greatest(r.x0, r.x1) ELSE Greatest(r.y0, r.y1)

(* The z at which the loop of the road comes to the cell, if it does.      *)
Across(r, c) == IF IsHorizontal(r) THEN c.y = r.y0 ELSE c.x = r.x0
Z(r, c)      == IF IsHorizontal(r) THEN c.x ELSE c.y

Passes(r, c) == Across(r, c) /\ Low(r) <= Z(r, c) /\ Z(r, c) <= High(r)

(* Fault: the first cell of a road is open, and the last one is not.       *)
BackAtLast(r, c) == Passes(r, c) /\ Z(r, c) # High(r)

OpenBack(r, c)    == Passes(r, c) /\ Z(r, c) # Low(r)
OpenForward(r, c) == Passes(r, c) /\ Z(r, c) # High(r)

(* map_tiles                                                               *)
Tile(id, c) ==
  [road |-> \E r \in RoadSet(id) : Passes(r, c),
   l |-> \E r \in RoadSet(id) : IsHorizontal(r) /\ OpenBack(r, c),
   r |-> \E r \in RoadSet(id) : IsHorizontal(r) /\ OpenForward(r, c),
   u |-> \E r \in RoadSet(id) : ~ IsHorizontal(r) /\ OpenBack(r, c),
   d |-> \E r \in RoadSet(id) : ~ IsHorizontal(r) /\ OpenForward(r, c)]

(* The point half a cell from the middle of the cell, where it meets its   *)
(* neighbour.                                                              *)
Border(c, dx, dy) ==
  [x |-> Cell * c.x + dx * (Cell \div 2), y |-> Cell * c.y + dy * (Cell \div 2)]

TileFits(id, c) ==
  /\ Tile(id, c).road <=> GetRoadsByCoords(id, c) # {}
  /\ Tile(id, c).l <=> OnRoad(id, Border(c, -1, 0))
  /\ Tile(id, c).r <=> OnRoad(id, Border(c, 1, 0))
  /\ Tile(id, c).u <=> OnRoad(id, Border(c, 0, -1))
  /\ Tile(id, c).d <=> OnRoad(id, Border(c, 0, 1))

(* The map that players see is the one that dogs walk on, although server  *)
(* and browser compute them by different means: a tile is painted as road  *)
(* exactly where the server's index has roads, and open to a neighbour     *)
(* exactly where the border between the two lies on a road; and a dog is   *)
(* always seen on a tile with road.                                        *)
DogsAreSeenOnRoads ==
  \A t \in Tokens :
    Placed(t) => /\ Tile(MapOf(t), CellAt(dog[t].pos)).road
                 /\ \A cx, cy \in Coord : TileFits(MapOf(t), [x |-> cx, y |-> cy])
=============================================================================
