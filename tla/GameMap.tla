------------------------------ MODULE GameMap ------------------------------
(***************************************************************************)
(* The road geometry of the game server (model.h, model.cpp) and the move  *)
(* of one dog (model_game.cpp).                                            *)
(*                                                                         *)
(* Roads join grid points with integer coordinates (Point, Coord).  A dog  *)
(* stands at a real position (ParamPairDouble), which is kept here in      *)
(* fixed point: Cell units make one grid step, so that a position is a     *)
(* pair of integers.  With Cell = 20 the 0.4 by which a road extends to    *)
(* each side is exactly HalfWidth = 8 units, and the positions strictly    *)
(* between the edge of a road (8 units) and the edge of its cell           *)
(* (10 units), which decide what happens at a crossing, exist.             *)
(***************************************************************************)
EXTENDS Integers, Sequences

CONSTANTS MapIds,    \* ids of the maps of the configuration file
          RoadsOf,   \* RoadsOf[m]: the vector roads_ of map m
          CoordMax   \* a grid coordinate is an int in -CoordMax..CoordMax

Coord == -CoordMax .. CoordMax
Road  == [x0 : Coord, y0 : Coord, x1 : Coord, y1 : Coord]
Pair  == [x : Int, y : Int]

IsHorizontal(r) == r.y0 = r.y1
IsVertical(r)   == r.x0 = r.x1

(* A road of the configuration file has x1 or y1, never a diagonal: the    *)
(* two constructors of Road.                                               *)
ASSUME MapAssumption ==
  /\ CoordMax \in Nat
  /\ \A m \in MapIds :
       /\ RoadsOf[m] \in Seq(Road)
       /\ \A i \in 1 .. Len(RoadsOf[m]) :
            IsHorizontal(RoadsOf[m][i]) \/ IsVertical(RoadsOf[m][i])

Cell      == 20
HalfWidth == 8

Least(a, b)    == IF b < a THEN b ELSE a
Greatest(a, b) == IF a < b THEN b ELSE a

(* road_area_: SetRoadArea gives the same rectangle for either direction.  *)
XLo(r) == Cell * Least(r.x0, r.x1) - HalfWidth
XHi(r) == Cell * Greatest(r.x0, r.x1) + HalfWidth
YLo(r) == Cell * Least(r.y0, r.y1) - HalfWidth
YHi(r) == Cell * Greatest(r.y0, r.y1) + HalfWidth

PointIsOnRoad(r, p) ==
  /\ XLo(r) <= p.x /\ p.x <= XHi(r)
  /\ YLo(r) <= p.y /\ p.y <= YHi(r)

(* The grid points that AddRoad enters in coord_to_road for a road: every  *)
(* integer point from its start to its end.                                *)
CoversCell(r, c) ==
  \/ /\ IsHorizontal(r)
     /\ c.y = r.y0
     /\ Least(r.x0, r.x1) <= c.x /\ c.x <= Greatest(r.x0, r.x1)
  \/ /\ IsVertical(r)
     /\ c.x = r.x0
     /\ Least(r.y0, r.y1) <= c.y /\ c.y <= Greatest(r.y0, r.y1)

RoadSet(m) == {RoadsOf[m][i] : i \in 1 .. Len(RoadsOf[m])}

GetRoadsByCoords(m, c) == {r \in RoadSet(m) : CoversCell(r, c)}

(* std::round: to the nearest integer, halves away from zero.              *)
Round(v) ==
  IF v >= 0 THEN (2 * v + Cell) \div (2 * Cell)
            ELSE -((Cell - 2 * v) \div (2 * Cell))

CellAt(p) == [x |-> Round(p.x), y |-> Round(p.y)]

RoadsUnder(m, p) == GetRoadsByCoords(m, CellAt(p))

OnRoad(m, p) == \E r \in RoadSet(m) : PointIsOnRoad(r, p)

-----------------------------------------------------------------------------
(***************************************************************************)
(* UpdateDogsPosition for one dog.  The new position is kept when one of   *)
(* the roads registered at the dog's cell contains it (CheckIfMovedProper- *)
(* ly).  Otherwise the position is clamped to the bounding box of those    *)
(* roads (CreateMaxMovingCoords, SetMaxMoveForTick) and the dog stops; the *)
(* code computes that box from roads.begin(), which is undefined when no   *)
(* road is registered at the cell.                                         *)
(***************************************************************************)
MinIn(S) == CHOOSE v \in S : \A w \in S : v <= w
MaxIn(S) == CHOOSE v \in S : \A w \in S : w <= v

CreateMaxMovingCoords(roads) ==
  [xlo |-> MinIn({XLo(r) : r \in roads}), ylo |-> MinIn({YLo(r) : r \in roads}),
   xhi |-> MaxIn({XHi(r) : r \in roads}), yhi |-> MaxIn({YHi(r) : r \in roads})]

(* Fault: the y coordinate is not clamped.                                 *)
ClampXOnly(roads, p) ==
  LET box == CreateMaxMovingCoords(roads)
  IN  [x |-> Least(Greatest(p.x, box.xlo), box.xhi), y |-> p.y]

SetMaxMoveForTick(roads, p) ==
  LET box == CreateMaxMovingCoords(roads)
  IN  [x |-> Least(Greatest(p.x, box.xlo), box.xhi),
       y |-> Least(Greatest(p.y, box.ylo), box.yhi)]

NoSpeed == [x |-> 0, y |-> 0]

Advance(p, v, dt) == [x |-> p.x + v.x * dt, y |-> p.y + v.y * dt]

MovesProperly(roads, p) == \E r \in roads : PointIsOnRoad(r, p)

(* Fault: the dog is clamped but not stopped.                              *)
MovedOn(m, d, dt) ==
  LET roads == RoadsUnder(m, d.pos)
      new   == Advance(d.pos, d.speed, dt)
  IN  IF MovesProperly(roads, new)
        THEN [d EXCEPT !.pos = new]
        ELSE [d EXCEPT !.pos = SetMaxMoveForTick(roads, new)]

(* Fault: the dog is stopped where it has run to.                          *)
MovedOut(m, d, dt) ==
  LET roads == RoadsUnder(m, d.pos)
      new   == Advance(d.pos, d.speed, dt)
  IN  [d EXCEPT !.pos = new,
                !.speed = IF MovesProperly(roads, new) THEN d.speed ELSE NoSpeed]

(* The dog that the tick leaves; a dog has pos, speed, dir and top, its    *)
(* default_dog_speed_.                                                     *)
Moved(m, d, dt) ==
  LET roads == RoadsUnder(m, d.pos)
      new   == Advance(d.pos, d.speed, dt)
  IN  IF MovesProperly(roads, new)
        THEN [d EXCEPT !.pos = new]
        ELSE [d EXCEPT !.pos = SetMaxMoveForTick(roads, new), !.speed = NoSpeed]

(* The tick reads roads.begin() of an empty set.                           *)
ReadsEmptySet(m, d, dt) ==
  LET roads == RoadsUnder(m, d.pos)
  IN  roads = {} /\ ~ MovesProperly(roads, Advance(d.pos, d.speed, dt))

-----------------------------------------------------------------------------
(***************************************************************************)
(* GetStartPosition: the start of the first road, or a random position on  *)
(* a random road.  RoundToTwoDigits truncates towards zero after adding    *)
(* one half, once for the offset across the road, which ends in            *)
(* -0.39 .. 0.40, and once for the coordinate it was added to.  There it   *)
(* adds another hundredth if the coordinate is negative: the offset from a *)
(* road at a negative coordinate ends in -0.38 .. 0.41, and the last       *)
(* hundredth is off the road.  HalfWidth + 1 stands for it, the one        *)
(* position of the grid between the edge of a road and that of its cell.   *)
(*                                                                         *)
(* For a road given backwards uniform_real_distribution gets its bounds in *)
(* the wrong order, which is undefined.  The standard library scales a     *)
(* number below one by their difference, so that the position is between   *)
(* the ends of the road all the same.                                      *)
(***************************************************************************)
StartPosition(m) == [x |-> Cell * RoadsOf[m][1].x0, y |-> Cell * RoadsOf[m][1].y0]

OffsetAcross(line) == (1 - HalfWidth) .. (IF line < 0 THEN HalfWidth + 1 ELSE HalfWidth)

Along(a, b) == (Cell * Least(a, b)) .. (Cell * Greatest(a, b))

GetRandomDogPosition(m, p) ==
  \E r \in RoadSet(m) :
    \/ /\ IsHorizontal(r) /\ ~ IsVertical(r)
       /\ p.x \in Along(r.x0, r.x1) /\ p.y - Cell * r.y0 \in OffsetAcross(r.y0)
    \/ /\ IsVertical(r) /\ ~ IsHorizontal(r)
       /\ p.y \in Along(r.y0, r.y1) /\ p.x - Cell * r.x0 \in OffsetAcross(r.x0)
    \/ /\ IsHorizontal(r) /\ IsVertical(r)
       /\ p.x - Cell * r.x0 \in OffsetAcross(r.x0) /\ p.y = Cell * r.y0

GetStartPosition(m, random, p) ==
  IF random THEN GetRandomDogPosition(m, p) ELSE p = StartPosition(m)
=============================================================================
