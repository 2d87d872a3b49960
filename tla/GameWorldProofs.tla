-------------------------- MODULE GameWorldProofs --------------------------
(***************************************************************************)
(* The game world keeps its invariants for every set of maps, roads,       *)
(* tokens, speeds and tick lengths.  The argument is one inductive         *)
(* invariant, WorldInv: what is true of a dog is stated through the index  *)
(* of the session whose dogs_ holds it, so that a step that appends a      *)
(* session or a dog leaves the other dogs' facts alone.                    *)
(***************************************************************************)
EXTENDS GameWorld, SequenceTheorems, WellFoundedInduction, TLAPS

(***************************************************************************)
(* Facts about the road geometry, for every map: rounding, the extremes of *)
(* a bounded set, and what one move of a dog preserves.                    *)
(***************************************************************************)
USE DEF Cell, HalfWidth

-----------------------------------------------------------------------------
(* std::round returns the nearest grid coordinate.                         *)
LEMMA RoundNear ==
  ASSUME NEW v \in Int
  PROVE  /\ Round(v) \in Int
         /\ 20 * Round(v) - 10 <= v
         /\ v <= 20 * Round(v) + 10
<1>1. CASE v >= 0
  BY <1>1, Z3 DEF Round
<1>2. CASE v < 0
  BY <1>2, Z3 DEF Round
<1> QED BY <1>1, <1>2

(* Rounding is monotone.                                                   *)
LEMMA RoundMonotone ==
  ASSUME NEW v \in Int, NEW w \in Int, v <= w
  PROVE  Round(v) <= Round(w)
BY Z3 DEF Round

(* From the edge of one road to the edge of another, and a unit beyond     *)
(* either, rounding stays between their grid coordinates.                  *)
LEMMA RoundWithin ==
  ASSUME NEW v \in Int, NEW a \in Int, NEW b \in Int,
         20 * a - 9 <= v, v <= 20 * b + 9
  PROVE  a <= Round(v) /\ Round(v) <= b
<1>1. /\ Round(v) \in Int
      /\ 20 * Round(v) - 10 <= v
      /\ v <= 20 * Round(v) + 10
  BY RoundNear
<1> QED BY <1>1

LEMMA RoundBetween ==
  ASSUME NEW v \in Int, NEW a \in Int, NEW b \in Int,
         20 * a - 8 <= v, v <= 20 * b + 8
  PROVE  a <= Round(v) /\ Round(v) <= b
<1>1. 20 * a - 9 <= v /\ v <= 20 * b + 9
  OBVIOUS
<1> QED BY <1>1, RoundWithin

(* A bounded nonempty set of integers has a least and a greatest member.   *)
LEMMA Extremes ==
  ASSUME NEW S, S \subseteq Int, S # {}, NEW K \in Int,
         \A v \in S : -K <= v /\ v <= K
  PROVE  /\ MinIn(S) \in S /\ \A w \in S : MinIn(S) <= w
         /\ MaxIn(S) \in S /\ \A w \in S : w <= MaxIn(S)
<1>1. \E v \in S : \A w \in S : v <= w
  <2> DEFINE T == {k \in Nat : k - K \in S}
  <2>1. PICK s \in S : TRUE
    OBVIOUS
  <2>2. s + K \in T
    BY <2>1
  <2>3. PICK n \in T : \A k \in T : ~ (<<k, n>> \in OpToRel(<, Nat))
    <3> HIDE DEF T
    <3>1. T \subseteq Nat /\ T # {}
      BY <2>2 DEF T
    <3> QED BY <3>1, NatLessThanWellFounded, WFMin
  <2>4. ASSUME NEW w \in S PROVE n - K <= w
    <3>1. w + K \in T
      OBVIOUS
    <3>2. ~ (w + K < n)
      BY <2>3, <3>1 DEF OpToRel
    <3> QED BY <3>2
  <2>5. n - K \in S
    OBVIOUS
  <2> QED BY <2>4, <2>5
<1>2. \E v \in S : \A w \in S : w <= v
  <2> DEFINE T == {k \in Nat : K - k \in S}
  <2>1. PICK s \in S : TRUE
    OBVIOUS
  <2>2. K - s \in T
    BY <2>1
  <2>3. PICK n \in T : \A k \in T : ~ (<<k, n>> \in OpToRel(<, Nat))
    <3> HIDE DEF T
    <3>1. T \subseteq Nat /\ T # {}
      BY <2>2 DEF T
    <3> QED BY <3>1, NatLessThanWellFounded, WFMin
  <2>4. ASSUME NEW w \in S PROVE w <= K - n
    <3>1. K - w \in T
      OBVIOUS
    <3>2. ~ (K - w < n)
      BY <2>3, <3>1 DEF OpToRel
    <3> QED BY <3>2
  <2>5. K - n \in S
    OBVIOUS
  <2> QED BY <2>4, <2>5
<1>3. MinIn(S) \in S /\ \A w \in S : MinIn(S) <= w
  BY <1>1 DEF MinIn
<1>4. MaxIn(S) \in S /\ \A w \in S : w <= MaxIn(S)
  BY <1>2 DEF MaxIn
<1> QED BY <1>3, <1>4

-----------------------------------------------------------------------------
(* What the configuration guarantees of a road.                            *)
LEMMA RoadFacts ==
  ASSUME NEW m \in MapIds, NEW r \in RoadSet(m)
  PROVE  /\ r.x0 \in Int /\ r.y0 \in Int /\ r.x1 \in Int /\ r.y1 \in Int
         /\ CoordMax \in Nat
         /\ -CoordMax <= r.x0 /\ r.x0 <= CoordMax
         /\ -CoordMax <= r.y0 /\ r.y0 <= CoordMax
         /\ -CoordMax <= r.x1 /\ r.x1 <= CoordMax
         /\ -CoordMax <= r.y1 /\ r.y1 <= CoordMax
         /\ IsHorizontal(r) \/ IsVertical(r)
<1>1. PICK i \in 1 .. Len(RoadsOf[m]) : r = RoadsOf[m][i]
  BY DEF RoadSet
<1>2. RoadsOf[m] \in Seq(Road) /\ CoordMax \in Nat
  BY MapAssumption
<1>3. r \in Road
  BY <1>1, <1>2
<1>4. IsHorizontal(r) \/ IsVertical(r)
  BY <1>1, MapAssumption
<1> QED BY <1>2, <1>3, <1>4 DEF Road, Coord

(* The bounding box that CreateMaxMovingCoords builds from a nonempty set  *)
(* of roads: each of its sides is the side of one of the roads.            *)
LEMMA BoxFacts ==
  ASSUME NEW m \in MapIds, NEW R \in SUBSET RoadSet(m), R # {},
         NEW box, box = CreateMaxMovingCoords(R)
  PROVE  /\ \E r \in R : box.xlo = XLo(r)
         /\ \E r \in R : box.ylo = YLo(r)
         /\ \E r \in R : box.xhi = XHi(r)
         /\ \E r \in R : box.yhi = YHi(r)
         /\ \A r \in R : /\ box.xlo <= XLo(r) /\ box.ylo <= YLo(r)
                         /\ XHi(r) <= box.xhi /\ YHi(r) <= box.yhi
<1> DEFINE K == 20 * CoordMax + 8
<1>1. K \in Int
  BY MapAssumption
<1>2. \A r \in R : /\ XLo(r) \in Int /\ -K <= XLo(r) /\ XLo(r) <= K
                   /\ YLo(r) \in Int /\ -K <= YLo(r) /\ YLo(r) <= K
                   /\ XHi(r) \in Int /\ -K <= XHi(r) /\ XHi(r) <= K
                   /\ YHi(r) \in Int /\ -K <= YHi(r) /\ YHi(r) <= K
  BY RoadFacts DEF XLo, YLo, XHi, YHi, Least, Greatest
<1> HIDE DEF K
<1>3. /\ box.xlo = MinIn({XLo(r) : r \in R})
      /\ box.ylo = MinIn({YLo(r) : r \in R})
      /\ box.xhi = MaxIn({XHi(r) : r \in R})
      /\ box.yhi = MaxIn({YHi(r) : r \in R})
  BY DEF CreateMaxMovingCoords
<1>4. (\E r \in R : box.xlo = XLo(r)) /\ \A r \in R : box.xlo <= XLo(r)
  <2> DEFINE S == {XLo(r) : r \in R}
  <2>1. S \subseteq Int /\ S # {} /\ \A v \in S : -K <= v /\ v <= K
    BY <1>2
  <2>2. MinIn(S) \in S /\ \A w \in S : MinIn(S) <= w
    <3> HIDE DEF S
    <3> QED BY <1>1, <2>1, Extremes
  <2> QED BY <1>3, <2>2
<1>5. (\E r \in R : box.ylo = YLo(r)) /\ \A r \in R : box.ylo <= YLo(r)
  <2> DEFINE S == {YLo(r) : r \in R}
  <2>1. S \subseteq Int /\ S # {} /\ \A v \in S : -K <= v /\ v <= K
    BY <1>2
  <2>2. MinIn(S) \in S /\ \A w \in S : MinIn(S) <= w
    <3> HIDE DEF S
    <3> QED BY <1>1, <2>1, Extremes
  <2> QED BY <1>3, <2>2
<1>6. (\E r \in R : box.xhi = XHi(r)) /\ \A r \in R : XHi(r) <= box.xhi
  <2> DEFINE S == {XHi(r) : r \in R}
  <2>1. S \subseteq Int /\ S # {} /\ \A v \in S : -K <= v /\ v <= K
    BY <1>2
  <2>2. MaxIn(S) \in S /\ \A w \in S : w <= MaxIn(S)
    <3> HIDE DEF S
    <3> QED BY <1>1, <2>1, Extremes
  <2> QED BY <1>3, <2>2
<1>7. (\E r \in R : box.yhi = YHi(r)) /\ \A r \in R : YHi(r) <= box.yhi
  <2> DEFINE S == {YHi(r) : r \in R}
  <2>1. S \subseteq Int /\ S # {} /\ \A v \in S : -K <= v /\ v <= K
    BY <1>2
  <2>2. MaxIn(S) \in S /\ \A w \in S : w <= MaxIn(S)
    <3> HIDE DEF S
    <3> QED BY <1>1, <2>1, Extremes
  <2> QED BY <1>3, <2>2
<1> QED BY <1>4, <1>5, <1>6, <1>7

(* A point on a road, or within a unit of one, lies in a cell at           *)
(* which AddRoad registered the road.                                      *)
NearRoad(r, p) ==
  /\ 20 * Least(r.x0, r.x1) - 9 <= p.x /\ p.x <= 20 * Greatest(r.x0, r.x1) + 9
  /\ 20 * Least(r.y0, r.y1) - 9 <= p.y /\ p.y <= 20 * Greatest(r.y0, r.y1) + 9

LEMMA NearRoadHasCell ==
  ASSUME NEW m \in MapIds, NEW r \in RoadSet(m), NEW p \in Pair, NearRoad(r, p)
  PROVE  CoversCell(r, CellAt(p))
<1> DEFINE xa == Least(r.x0, r.x1)
           xb == Greatest(r.x0, r.x1)
           ya == Least(r.y0, r.y1)
           yb == Greatest(r.y0, r.y1)
<1>1. /\ xa \in Int /\ xb \in Int /\ ya \in Int /\ yb \in Int
      /\ p.x \in Int /\ p.y \in Int
  BY RoadFacts DEF Least, Greatest, Pair
<1>2. /\ 20 * xa - 9 <= p.x /\ p.x <= 20 * xb + 9
      /\ 20 * ya - 9 <= p.y /\ p.y <= 20 * yb + 9
  BY DEF NearRoad
<1>3. xa <= Round(p.x) /\ Round(p.x) <= xb
  <2> HIDE DEF xa, xb
  <2> QED BY <1>1, <1>2, RoundWithin
<1>4. ya <= Round(p.y) /\ Round(p.y) <= yb
  <2> HIDE DEF ya, yb
  <2> QED BY <1>1, <1>2, RoundWithin
<1>5. CellAt(p).x = Round(p.x) /\ CellAt(p).y = Round(p.y)
  BY DEF CellAt
<1>6. Round(p.x) \in Int /\ Round(p.y) \in Int
  BY <1>1, RoundNear
<1>7. CASE IsHorizontal(r)
  BY <1>1, <1>3, <1>4, <1>5, <1>6, <1>7, RoadFacts
     DEF CoversCell, IsHorizontal, Least, Greatest
<1>8. CASE IsVertical(r)
  BY <1>1, <1>3, <1>4, <1>5, <1>6, <1>8, RoadFacts
     DEF CoversCell, IsVertical, Least, Greatest
<1> QED BY <1>7, <1>8, RoadFacts

LEMMA OnRoadHasCell ==
  ASSUME NEW m \in MapIds, NEW r \in RoadSet(m), NEW p \in Pair, PointIsOnRoad(r, p)
  PROVE  CoversCell(r, CellAt(p))
<1>1. /\ Least(r.x0, r.x1) \in Int /\ Greatest(r.x0, r.x1) \in Int
      /\ Least(r.y0, r.y1) \in Int /\ Greatest(r.y0, r.y1) \in Int
      /\ p.x \in Int /\ p.y \in Int
  BY RoadFacts DEF Least, Greatest, Pair
<1>2. NearRoad(r, p)
  BY <1>1 DEF NearRoad, PointIsOnRoad, XLo, XHi, YLo, YHi
<1> QED BY <1>2, NearRoadHasCell

(* A coordinate that the move left alone rounds, after the clamp, to the   *)
(* grid line it rounded to before: the box reaches HalfWidth to both sides *)
(* of that line.                                                           *)
LEMMA ClampKeepsLine ==
  ASSUME NEW v \in Int, NEW lo \in Int, NEW hi \in Int,
         lo <= 20 * Round(v) - 8, 20 * Round(v) + 8 <= hi
  PROVE  Round(Least(Greatest(v, lo), hi)) = Round(v)
<1> DEFINE c == Round(v)
<1>1. c \in Int
  BY RoundNear
<1>2. CASE v < lo
  <2>1. Least(Greatest(v, lo), hi) = lo
    BY <1>1, <1>2 DEF Least, Greatest
  <2>2. Round(v) <= Round(lo)
    BY <1>2, RoundMonotone
  <2>3. Round(lo) <= c
    BY <1>1, RoundNear
  <2>4. Round(lo) \in Int
    BY RoundNear
  <2> QED BY <1>1, <2>1, <2>2, <2>3, <2>4
<1>3. CASE hi < v
  <2>1. Least(Greatest(v, lo), hi) = hi
    BY <1>1, <1>3 DEF Least, Greatest
  <2>2. Round(hi) <= Round(v)
    BY <1>3, RoundMonotone
  <2>3. c <= Round(hi)
    BY <1>1, RoundNear
  <2>4. Round(hi) \in Int
    BY RoundNear
  <2> QED BY <1>1, <2>1, <2>2, <2>3, <2>4
<1>4. CASE lo <= v /\ v <= hi
  BY <1>4 DEF Least, Greatest
<1> QED BY <1>2, <1>3, <1>4

(* A coordinate clamped to the box rounds to a line between the outermost  *)
(* grid lines of the roads that make up the box.                           *)
LEMMA ClampStaysBetween ==
  ASSUME NEW v \in Int, NEW lo \in Int, NEW hi \in Int, lo <= hi
  PROVE  LET w == Least(Greatest(v, lo), hi)
         IN  w \in Int /\ lo <= w /\ w <= hi
BY DEF Least, Greatest

(* A cell between a cell of a road and one of its ends is a cell of it.    *)
LEMMA CellTowardsEnd ==
  ASSUME NEW m \in MapIds, NEW r \in RoadSet(m),
         NEW a \in Int, NEW b \in Int, NEW k \in Int,
         CoversCell(r, [x |-> a, y |-> b])
  PROVE  /\ \/ Least(r.x0, r.x1) <= k /\ k <= a
            \/ a <= k /\ k <= Greatest(r.x0, r.x1)
            => CoversCell(r, [x |-> k, y |-> b])
         /\ \/ Least(r.y0, r.y1) <= k /\ k <= b
            \/ b <= k /\ k <= Greatest(r.y0, r.y1)
            => CoversCell(r, [x |-> a, y |-> k])
         /\ Least(r.x0, r.x1) <= a /\ a <= Greatest(r.x0, r.x1)
         /\ Least(r.y0, r.y1) <= b /\ b <= Greatest(r.y0, r.y1)
BY RoadFacts DEF CoversCell, IsHorizontal, IsVertical, Least, Greatest

(* A road reaches over the middle of every cell that it is registered at.  *)
LEMMA RoadSurrounds ==
  ASSUME NEW m \in MapIds, NEW r \in RoadSet(m), NEW a \in Int, NEW b \in Int,
         CoversCell(r, [x |-> a, y |-> b])
  PROVE  /\ XLo(r) \in Int /\ XHi(r) \in Int /\ YLo(r) \in Int /\ YHi(r) \in Int
         /\ XLo(r) <= 20 * a - 8 /\ 20 * a + 8 <= XHi(r)
         /\ YLo(r) <= 20 * b - 8 /\ 20 * b + 8 <= YHi(r)
<1>1. /\ Least(r.x0, r.x1) <= a /\ a <= Greatest(r.x0, r.x1)
      /\ Least(r.y0, r.y1) <= b /\ b <= Greatest(r.y0, r.y1)
  BY CellTowardsEnd
<1>2. /\ Least(r.x0, r.x1) \in Int /\ Greatest(r.x0, r.x1) \in Int
      /\ Least(r.y0, r.y1) \in Int /\ Greatest(r.y0, r.y1) \in Int
  BY RoadFacts DEF Least, Greatest
<1> QED BY <1>1, <1>2 DEF XLo, XHi, YLo, YHi

(* A dog that has moved along one axis and is clamped to the box of the    *)
(* roads at its old cell ends in a cell of one of those roads.             *)
LEMMA ClampKeepsRoad ==
  ASSUME NEW m \in MapIds, NEW p \in Pair, NEW q \in Pair,
         RoadsUnder(m, p) # {}, q.x = p.x \/ q.y = p.y
  PROVE  /\ SetMaxMoveForTick(RoadsUnder(m, p), q) \in Pair
         /\ RoadsUnder(m, SetMaxMoveForTick(RoadsUnder(m, p), q)) # {}
<1> DEFINE R   == RoadsUnder(m, p)
           box == CreateMaxMovingCoords(R)
           s   == SetMaxMoveForTick(R, q)
           a   == Round(p.x)
           b   == Round(p.y)
<1>1. /\ R \in SUBSET RoadSet(m) /\ R # {}
      /\ \A r \in R : CoversCell(r, [x |-> a, y |-> b])
  BY DEF RoadsUnder, GetRoadsByCoords, CellAt
<1>2. /\ p.x \in Int /\ p.y \in Int /\ q.x \in Int /\ q.y \in Int
      /\ a \in Int /\ b \in Int
  BY RoundNear DEF Pair
<1>3. /\ s = [x |-> Least(Greatest(q.x, box.xlo), box.xhi),
              y |-> Least(Greatest(q.y, box.ylo), box.yhi)]
  BY DEF SetMaxMoveForTick
<1>4. PICK r1 \in R : box.xlo = XLo(r1)
  BY <1>1, BoxFacts
<1>5. PICK r2 \in R : box.xhi = XHi(r2)
  BY <1>1, BoxFacts
<1>6. PICK r3 \in R : box.ylo = YLo(r3)
  BY <1>1, BoxFacts
<1>7. PICK r4 \in R : box.yhi = YHi(r4)
  BY <1>1, BoxFacts
<1> HIDE DEF R, box, s, a, b
<1>8. \A r \in R : /\ XLo(r) \in Int /\ XHi(r) \in Int /\ YLo(r) \in Int /\ YHi(r) \in Int
                   /\ XLo(r) <= 20 * a - 8 /\ 20 * a + 8 <= XHi(r)
                   /\ YLo(r) <= 20 * b - 8 /\ 20 * b + 8 <= YHi(r)
  BY <1>1, <1>2, RoadSurrounds
<1>9. /\ box.xlo \in Int /\ box.xhi \in Int /\ box.xlo <= 20 * a - 8 /\ 20 * a + 8 <= box.xhi
      /\ box.ylo \in Int /\ box.yhi \in Int /\ box.ylo <= 20 * b - 8 /\ 20 * b + 8 <= box.yhi
  BY <1>4, <1>5, <1>6, <1>7, <1>8
<1>10. /\ s.x \in Int /\ box.xlo <= s.x /\ s.x <= box.xhi
       /\ s.y \in Int /\ box.ylo <= s.y /\ s.y <= box.yhi
  <2>1. box.xlo <= box.xhi /\ box.ylo <= box.yhi
    BY <1>2, <1>9
  <2> QED BY <1>2, <1>3, <1>9, <2>1, ClampStaysBetween
<1>11. s \in Pair
  BY <1>3, <1>10 DEF Pair
<1>12. /\ Round(s.x) \in Int /\ Round(s.y) \in Int
       /\ CellAt(s) = [x |-> Round(s.x), y |-> Round(s.y)]
  BY <1>10, RoundNear DEF CellAt
<1>13. CASE q.y = p.y
  <2>1. Round(s.y) = b
    BY <1>2, <1>3, <1>9, <1>13, ClampKeepsLine DEF b
  <2>2. Least(r1.x0, r1.x1) <= Round(s.x) /\ Round(s.x) <= Greatest(r2.x0, r2.x1)
    <3>1. Least(r1.x0, r1.x1) \in Int /\ Greatest(r2.x0, r2.x1) \in Int
      BY <1>1, RoadFacts DEF Least, Greatest
    <3>2. 20 * Least(r1.x0, r1.x1) - 8 <= s.x /\ s.x <= 20 * Greatest(r2.x0, r2.x1) + 8
      BY <1>4, <1>5, <1>10 DEF XLo, XHi
    <3> QED BY <1>10, <3>1, <3>2, RoundBetween
  <2>3. \E r \in R : CoversCell(r, [x |-> Round(s.x), y |-> b])
    <3>1. CASE Round(s.x) <= a
      BY <1>1, <1>2, <1>12, <2>2, <3>1, CellTowardsEnd
    <3>2. CASE a <= Round(s.x)
      BY <1>1, <1>2, <1>12, <2>2, <3>2, CellTowardsEnd
    <3> QED BY <1>2, <1>12, <3>1, <3>2
  <2> QED BY <1>1, <1>11, <1>12, <2>1, <2>3 DEF RoadsUnder, GetRoadsByCoords, s, R
<1>14. CASE q.x = p.x
  <2>1. Round(s.x) = a
    BY <1>2, <1>3, <1>9, <1>14, ClampKeepsLine DEF a
  <2>2. Least(r3.y0, r3.y1) <= Round(s.y) /\ Round(s.y) <= Greatest(r4.y0, r4.y1)
    <3>1. Least(r3.y0, r3.y1) \in Int /\ Greatest(r4.y0, r4.y1) \in Int
      BY <1>1, RoadFacts DEF Least, Greatest
    <3>2. 20 * Least(r3.y0, r3.y1) - 8 <= s.y /\ s.y <= 20 * Greatest(r4.y0, r4.y1) + 8
      BY <1>6, <1>7, <1>10 DEF YLo, YHi
    <3> QED BY <1>10, <3>1, <3>2, RoundBetween
  <2>3. \E r \in R : CoversCell(r, [x |-> a, y |-> Round(s.y)])
    <3>1. CASE Round(s.y) <= b
      BY <1>1, <1>2, <1>12, <2>2, <3>1, CellTowardsEnd
    <3>2. CASE b <= Round(s.y)
      BY <1>1, <1>2, <1>12, <2>2, <3>2, CellTowardsEnd
    <3> QED BY <1>2, <1>12, <3>1, <3>2
  <2> QED BY <1>1, <1>11, <1>12, <2>1, <2>3 DEF RoadsUnder, GetRoadsByCoords, s, R
<1> QED BY <1>13, <1>14

(* Where all roads at a cell run the same way, they lie on one line and    *)
(* meet in the cell: the bounding box is what they cover together, and a   *)
(* clamped dog is on one of them.                                          *)
LEMMA ClampOnStraightRoads ==
  ASSUME NEW m \in MapIds, NEW p \in Pair, NEW q \in Pair,
         RoadsUnder(m, p) # {},
         \/ \A r \in RoadsUnder(m, p) : IsVertical(r)
         \/ \A r \in RoadsUnder(m, p) : IsHorizontal(r)
  PROVE  OnRoad(m, SetMaxMoveForTick(RoadsUnder(m, p), q))
<1> DEFINE R   == RoadsUnder(m, p)
           box == CreateMaxMovingCoords(R)
           s   == SetMaxMoveForTick(R, q)
           a   == Round(p.x)
           b   == Round(p.y)
<1>1. /\ R \in SUBSET RoadSet(m) /\ R # {}
      /\ \A r \in R : CoversCell(r, [x |-> a, y |-> b])
  BY DEF RoadsUnder, GetRoadsByCoords, CellAt
<1>2. q.x \in Int /\ q.y \in Int /\ a \in Int /\ b \in Int
  BY RoundNear DEF Pair
<1>3. s = [x |-> Least(Greatest(q.x, box.xlo), box.xhi),
           y |-> Least(Greatest(q.y, box.ylo), box.yhi)]
  BY DEF SetMaxMoveForTick
<1>4. PICK r1 \in R : box.xlo = XLo(r1)
  BY <1>1, BoxFacts
<1>5. PICK r2 \in R : box.xhi = XHi(r2)
  BY <1>1, BoxFacts
<1>6. PICK r3 \in R : box.ylo = YLo(r3)
  BY <1>1, BoxFacts
<1>7. PICK r4 \in R : box.yhi = YHi(r4)
  BY <1>1, BoxFacts
<1>8. \/ \A r \in R : IsVertical(r)
      \/ \A r \in R : IsHorizontal(r)
  OBVIOUS
<1> HIDE DEF R, box, s, a, b
<1>9. \A r \in R : /\ XLo(r) \in Int /\ XHi(r) \in Int /\ YLo(r) \in Int /\ YHi(r) \in Int
                   /\ XLo(r) <= 20 * a - 8 /\ 20 * a + 8 <= XHi(r)
                   /\ YLo(r) <= 20 * b - 8 /\ 20 * b + 8 <= YHi(r)
  BY <1>1, <1>2, RoadSurrounds
<1>10. /\ box.xlo \in Int /\ box.xhi \in Int /\ box.xlo <= 20 * a - 8 /\ 20 * a + 8 <= box.xhi
       /\ box.ylo \in Int /\ box.yhi \in Int /\ box.ylo <= 20 * b - 8 /\ 20 * b + 8 <= box.yhi
  BY <1>4, <1>5, <1>6, <1>7, <1>9
<1>11. /\ s.x \in Int /\ box.xlo <= s.x /\ s.x <= box.xhi
       /\ s.y \in Int /\ box.ylo <= s.y /\ s.y <= box.yhi
  <2>1. box.xlo <= box.xhi /\ box.ylo <= box.yhi
    BY <1>2, <1>10
  <2> QED BY <1>2, <1>3, <1>10, <2>1, ClampStaysBetween
<1>12. \E r \in R : PointIsOnRoad(r, s)
  <2>1. CASE \A r \in R : IsVertical(r)
    <3>1. 20 * a - 8 <= s.x /\ s.x <= 20 * a + 8
      <4>1. \A r \in R : XLo(r) = 20 * a - 8 /\ XHi(r) = 20 * a + 8
        BY <1>1, <1>2, <2>1, RoadFacts
           DEF CoversCell, IsHorizontal, IsVertical, XLo, XHi, Least, Greatest
      <4> QED BY <1>2, <1>4, <1>5, <1>11, <4>1
    <3>2. CASE s.y <= 20 * b
      BY <1>2, <1>6, <1>9, <1>11, <3>1, <3>2 DEF PointIsOnRoad
    <3>3. CASE 20 * b <= s.y
      BY <1>2, <1>7, <1>9, <1>11, <3>1, <3>3 DEF PointIsOnRoad
    <3> QED BY <1>2, <1>11, <3>2, <3>3
  <2>2. CASE \A r \in R : IsHorizontal(r)
    <3>1. 20 * b - 8 <= s.y /\ s.y <= 20 * b + 8
      <4>1. \A r \in R : YLo(r) = 20 * b - 8 /\ YHi(r) = 20 * b + 8
        BY <1>1, <1>2, <2>2, RoadFacts
           DEF CoversCell, IsHorizontal, IsVertical, YLo, YHi, Least, Greatest
      <4> QED BY <1>2, <1>6, <1>7, <1>11, <4>1
    <3>2. CASE s.x <= 20 * a
      BY <1>2, <1>4, <1>9, <1>11, <3>1, <3>2 DEF PointIsOnRoad
    <3>3. CASE 20 * a <= s.x
      BY <1>2, <1>5, <1>9, <1>11, <3>1, <3>3 DEF PointIsOnRoad
    <3> QED BY <1>2, <1>11, <3>2, <3>3
  <2> QED BY <1>8, <2>1, <2>2
<1> QED BY <1>1, <1>12 DEF OnRoad, R, s

(* One move of a dog that is over a road and moves along one axis: the     *)
(* tick does not read an empty set, and the dog is over a road again.      *)
LEMMA MovedKeepsRoad ==
  ASSUME NEW m \in MapIds, NEW d, NEW dt \in Nat,
         d.pos \in Pair, d.speed \in Pair,
         d.speed.x = 0 \/ d.speed.y = 0,
         RoadsUnder(m, d.pos) # {},
         d = [pos |-> d.pos, speed |-> d.speed, dir |-> d.dir, top |-> d.top]
  PROVE  /\ ~ ReadsEmptySet(m, d, dt)
         /\ Moved(m, d, dt).pos \in Pair
         /\ Moved(m, d, dt).speed \in {d.speed, NoSpeed}
         /\ Moved(m, d, dt).dir = d.dir
         /\ Moved(m, d, dt).top = d.top
         /\ Moved(m, d, dt) = [pos |-> Moved(m, d, dt).pos, speed |-> Moved(m, d, dt).speed,
                               dir |-> d.dir, top |-> d.top]
         /\ RoadsUnder(m, Moved(m, d, dt).pos) # {}
<1> DEFINE roads == RoadsUnder(m, d.pos)
           new   == Advance(d.pos, d.speed, dt)
           clamp == SetMaxMoveForTick(roads, new)
<1>1. new \in Pair /\ (new.x = d.pos.x \/ new.y = d.pos.y)
  <2>1. /\ d.pos.x \in Int /\ d.pos.y \in Int /\ d.speed.x \in Int /\ d.speed.y \in Int
    BY DEF Pair
  <2>2. /\ d.speed.x * dt \in Int /\ d.speed.y * dt \in Int
        /\ d.speed.x = 0 => d.speed.x * dt = 0
        /\ d.speed.y = 0 => d.speed.y * dt = 0
    BY <2>1
  <2>3. /\ new = [x |-> d.pos.x + d.speed.x * dt, y |-> d.pos.y + d.speed.y * dt]
    BY DEF Advance
  <2>4. /\ d.pos.x + d.speed.x * dt \in Int /\ d.pos.y + d.speed.y * dt \in Int
        /\ d.speed.x = 0 => d.pos.x + d.speed.x * dt = d.pos.x
        /\ d.speed.y = 0 => d.pos.y + d.speed.y * dt = d.pos.y
    <3> DEFINE i == d.speed.x * dt
               j == d.speed.y * dt
    <3> HIDE DEF i, j
    <3>1. /\ d.pos.x + i \in Int /\ d.pos.y + j \in Int
          /\ d.speed.x = 0 => d.pos.x + i = d.pos.x
          /\ d.speed.y = 0 => d.pos.y + j = d.pos.y
      BY <2>1, <2>2 DEF i, j
    <3> QED BY <3>1 DEF i, j
  <2> QED BY <2>3, <2>4 DEF Pair
<1>2. ~ ReadsEmptySet(m, d, dt)
  BY DEF ReadsEmptySet
<1>3. CASE MovesProperly(roads, new)
  <2>1. Moved(m, d, dt) = [d EXCEPT !.pos = new]
    BY <1>3 DEF Moved
  <2>2. Moved(m, d, dt) = [pos |-> new, speed |-> d.speed, dir |-> d.dir, top |-> d.top]
    BY <2>1, Zenon
  <2>3. PICK r \in RoadSet(m) : PointIsOnRoad(r, new)
    BY <1>3 DEF MovesProperly, RoadsUnder, GetRoadsByCoords
  <2>4. RoadsUnder(m, new) # {}
    BY <1>1, <2>3, OnRoadHasCell DEF RoadsUnder, GetRoadsByCoords
  <2> HIDE DEF new
  <2> QED BY <1>1, <1>2, <2>2, <2>4
<1>4. CASE ~ MovesProperly(roads, new)
  <2>1. Moved(m, d, dt) = [d EXCEPT !.pos = clamp, !.speed = NoSpeed]
    BY <1>4 DEF Moved
  <2>2. Moved(m, d, dt) = [pos |-> clamp, speed |-> NoSpeed, dir |-> d.dir, top |-> d.top]
    BY <2>1, Zenon
  <2>3. clamp \in Pair /\ RoadsUnder(m, clamp) # {}
    BY <1>1, ClampKeepsRoad
  <2> HIDE DEF clamp
  <2> QED BY <1>2, <2>2, <2>3
<1> QED BY <1>3, <1>4

(* A coordinate drawn along a segment or across one of its ends is at most *)
(* a unit further from it than half a road width.                          *)
LEMMA OffsetIsSmall ==
  ASSUME NEW line \in Int, NEW v \in OffsetAcross(line)
  PROVE  v \in -7 .. 9
<1>1. CASE line < 0
  BY <1>1 DEF OffsetAcross
<1>2. CASE ~ (line < 0)
  BY <1>2 DEF OffsetAcross
<1> QED BY <1>1, <1>2

LEMMA NearSegment ==
  ASSUME NEW v \in Int, NEW a \in Int, NEW b \in Int, NEW e \in Int,
         a <= e, e <= b,
         v \in (20 * a) .. (20 * b) \/ v - 20 * e \in -7 .. 9
  PROVE  20 * a - 9 <= v /\ v <= 20 * b + 9
OBVIOUS

(* Wherever GetStartPosition puts a dog, a road is registered.             *)
LEMMA StartHasRoad ==
  ASSUME NEW m \in MapIds, RoadsOf[m] # <<>>,
         NEW random \in BOOLEAN, NEW p \in Pair, GetStartPosition(m, random, p)
  PROVE  RoadsUnder(m, p) # {}
<1>1. CASE random
  <2>1. PICK r \in RoadSet(m) :
          \/ /\ IsHorizontal(r) /\ ~ IsVertical(r)
             /\ p.x \in Along(r.x0, r.x1) /\ p.y - Cell * r.y0 \in OffsetAcross(r.y0)
          \/ /\ IsVertical(r) /\ ~ IsHorizontal(r)
             /\ p.y \in Along(r.y0, r.y1) /\ p.x - Cell * r.x0 \in OffsetAcross(r.x0)
          \/ /\ IsHorizontal(r) /\ IsVertical(r)
             /\ p.x - Cell * r.x0 \in OffsetAcross(r.x0) /\ p.y = Cell * r.y0
    BY <1>1 DEF GetStartPosition, GetRandomDogPosition
  <2>2. p.x \in Int /\ p.y \in Int
    BY DEF Pair
  <2>5. r.x0 \in Int /\ r.y0 \in Int /\ r.x1 \in Int /\ r.y1 \in Int
    BY RoadFacts
  <2>3. NearRoad(r, p)
    <3> DEFINE xa == Least(r.x0, r.x1)
               xb == Greatest(r.x0, r.x1)
               ya == Least(r.y0, r.y1)
               yb == Greatest(r.y0, r.y1)
    <3>1. /\ xa \in Int /\ xb \in Int /\ ya \in Int /\ yb \in Int
          /\ xa <= r.x0 /\ r.x0 <= xb /\ ya <= r.y0 /\ r.y0 <= yb
      BY <2>5 DEF Least, Greatest
    <3>2. \/ p.x \in (20 * xa) .. (20 * xb) /\ p.y - 20 * r.y0 \in -7 .. 9
          \/ p.y \in (20 * ya) .. (20 * yb) /\ p.x - 20 * r.x0 \in -7 .. 9
          \/ p.x - 20 * r.x0 \in -7 .. 9 /\ p.y = 20 * r.y0
      BY <2>1, <2>5, OffsetIsSmall DEF Along
    <3> HIDE DEF xa, xb, ya, yb
    <3>6. /\ 20 * xa - 9 <= p.x /\ p.x <= 20 * xb + 9
          /\ 20 * ya - 9 <= p.y /\ p.y <= 20 * yb + 9
      <4>3. CASE p.x \in (20 * xa) .. (20 * xb) /\ p.y - 20 * r.y0 \in -7 .. 9
        BY <2>2, <2>5, <3>1, <4>3, NearSegment
      <4>4. CASE p.y \in (20 * ya) .. (20 * yb) /\ p.x - 20 * r.x0 \in -7 .. 9
        BY <2>2, <2>5, <3>1, <4>4, NearSegment
      <4>5. CASE p.x - 20 * r.x0 \in -7 .. 9 /\ p.y = 20 * r.y0
        <5>1. p.y - 20 * r.y0 \in -7 .. 9
          BY <2>5, <4>5
        <5> QED BY <2>2, <2>5, <3>1, <4>5, <5>1, NearSegment
      <4> QED BY <3>2, <4>3, <4>4, <4>5
    <3> QED BY <3>6 DEF NearRoad, xa, xb, ya, yb
  <2> QED BY <2>3, NearRoadHasCell DEF RoadsUnder, GetRoadsByCoords
<1>2. CASE ~ random
  <2>1. RoadsOf[m] \in Seq(Road)
    BY MapAssumption
  <2>2. RoadsOf[m][1] \in RoadSet(m)
    BY <2>1 DEF RoadSet
  <2>3. PointIsOnRoad(RoadsOf[m][1], p)
    <3>1. PICK r \in RoadSet(m) : r = RoadsOf[m][1]
      BY <2>2
    <3>2. r.x0 \in Int /\ r.y0 \in Int /\ r.x1 \in Int /\ r.y1 \in Int
      BY RoadFacts
    <3>3. p.x = 20 * r.x0 /\ p.y = 20 * r.y0
      BY <1>2, <3>1 DEF GetStartPosition, StartPosition
    <3>4. /\ 20 * Least(r.x0, r.x1) - 8 <= p.x /\ p.x <= 20 * Greatest(r.x0, r.x1) + 8
          /\ 20 * Least(r.y0, r.y1) - 8 <= p.y /\ p.y <= 20 * Greatest(r.y0, r.y1) + 8
      BY <3>2, <3>3 DEF Least, Greatest
    <3> QED BY <3>1, <3>4 DEF PointIsOnRoad, XLo, XHi, YLo, YHi
  <2> QED BY <2>2, <2>3, OnRoadHasCell DEF RoadsUnder, GetRoadsByCoords
<1> QED BY <1>1, <1>2

HIDE DEF Cell, HalfWidth

-----------------------------------------------------------------------------
(***************************************************************************)
(* The inductive invariant of the world.                                   *)
(***************************************************************************)

PlayersHaveSessions ==
  \A t \in registered : player[t].session \in 1 .. Len(sessions)

DogFits(i, t) ==
  /\ RoadsUnder(sessions[i].map, dog[t].pos) # {}
  /\ dog[t].top = MapSpeed[sessions[i].map]
  /\ dog[t].speed \in {NoSpeed, SpeedFor(dog[t].dir, dog[t].top)}

DogsFit ==
  \A i \in 1 .. Len(sessions) : \A t \in Tokens : InSession(i, t) => DogFits(i, t)

OnlyRoadlessHalfJoined ==
  \A t \in registered :
    Placed(t) \/ RoadsOf[sessions[player[t].session].map] = <<>>

KnownArePlaced == \A t \in known : Placed(t)

WorldInv ==
  /\ TypeOK
  /\ OneSessionPerMap
  /\ RosterAgreesWithPlayers
  /\ PlayersHaveSessions
  /\ UniqueIds
  /\ OnlyRoadlessHalfJoined
  /\ KnownArePlaced
  /\ HalfJoinedDogsRest
  /\ DogsFit
  /\ ServerAlive

-----------------------------------------------------------------------------
(* A new dog is a dog, and no speed or a chosen speed is along one axis.   *)
LEMMA NewDogType == NewDog \in Dog
BY GameAssumption DEF NewDog, DogAt, Dog, NoSpeed, Pair, Directions

LEMMA SpeedForFacts ==
  ASSUME NEW dir \in Directions, NEW top \in Nat
  PROVE  /\ SpeedFor(dir, top) \in Pair
         /\ SpeedFor(dir, top).x = 0 \/ SpeedFor(dir, top).y = 0
         /\ NoSpeed \in Pair
         /\ NoSpeed.x = 0
<1>1. /\ SpeedFor(dir, top).x \in Int /\ SpeedFor(dir, top).y \in Int
      /\ SpeedFor(dir, top).x = 0 \/ SpeedFor(dir, top).y = 0
      /\ SpeedFor(dir, top) = [x |-> SpeedFor(dir, top).x, y |-> SpeedFor(dir, top).y]
  <2>1. CASE dir = "R"
    BY <2>1 DEF SpeedFor
  <2>2. CASE dir = "L"
    BY <2>2 DEF SpeedFor
  <2>3. CASE dir = "U"
    BY <2>3 DEF SpeedFor
  <2>4. CASE dir = "D"
    BY <2>4 DEF SpeedFor
  <2>5. CASE dir \notin {"R", "L", "U", "D"}
    BY <2>5 DEF SpeedFor
  <2> QED BY <2>1, <2>2, <2>3, <2>4, <2>5
<1>2. NoSpeed \in Pair /\ NoSpeed.x = 0
  BY DEF NoSpeed, Pair
<1> HIDE DEF SpeedFor
<1> QED BY <1>1, <1>2 DEF Pair

(* What a placed dog's session is: MapOf has only one choice.              *)
LEMMA MapOfPlaced ==
  ASSUME RosterAgreesWithPlayers, NEW t \in Tokens,
         NEW i \in 1 .. Len(sessions), InSession(i, t)
  PROVE  /\ MapOf(t) = sessions[i].map
         /\ player[t].session = i
         /\ t \in registered
         /\ Placed(t)
<1>1. \A j \in 1 .. Len(sessions) : InSession(j, t) => player[t].session = j /\ t \in registered
  BY DEF RosterAgreesWithPlayers, InSession
<1>2. (CHOOSE j \in 1 .. Len(sessions) : InSession(j, t)) = i
  BY <1>1
<1> QED BY <1>1, <1>2 DEF MapOf, Placed

(* GetGameSession and SessionIndex: the sessions there are stay where they *)
(* are, and the one at the index is of the map that was asked for; it is   *)
(* new and empty exactly when the map had none.                            *)
LEMMA SessionFacts ==
  ASSUME TypeOK, NEW id \in MapIds
  PROVE  LET s == GetGameSession(id)
             k == SessionIndex(id)
         IN  /\ s \in Seq(Session)
             /\ k \in 1 .. Len(s)
             /\ s[k].map = id
             /\ Len(sessions) <= Len(s)
             /\ \A j \in 1 .. Len(sessions) : s[j] = sessions[j]
             /\ \A j \in 1 .. Len(s) :
                  \/ j \in 1 .. Len(sessions)
                  \/ /\ j = k /\ s[j].dogs = <<>>
                     /\ \A i \in 1 .. Len(sessions) : sessions[i].map # id
<1>1. sessions \in Seq(Session) /\ Len(sessions) \in Nat
  BY DEF TypeOK
<1>2. CASE HasSession(id)
  <2> DEFINE S == {i \in 1 .. Len(sessions) : sessions[i].map = id}
  <2>1. S \subseteq Int /\ S # {}
    BY <1>2 DEF HasSession
  <2>2. \A v \in S : -Len(sessions) <= v /\ v <= Len(sessions)
    BY <1>1
  <2>3. MinIn(S) \in S /\ \A w \in S : MinIn(S) <= w
    <3>1. Len(sessions) \in Int
      BY <1>1
    <3> HIDE DEF S
    <3> QED BY <2>1, <2>2, <3>1, Extremes
  <2>4. \E i \in 1 .. Len(sessions) :
          sessions[i].map = id /\ \A j \in 1 .. (i - 1) : sessions[j].map # id
    <3>1. \A j \in 1 .. (MinIn(S) - 1) : j \notin S
      BY <1>1, <2>3
    <3>2. \A j \in 1 .. (MinIn(S) - 1) : sessions[j].map # id
      BY <1>1, <2>3, <3>1
    <3> QED BY <2>3, <3>2
  <2>5. SessionIndex(id) \in 1 .. Len(sessions) /\ sessions[SessionIndex(id)].map = id
    BY <1>2, <2>4 DEF SessionIndex
  <2> QED BY <1>1, <1>2, <2>5 DEF GetGameSession
<1>3. CASE ~ HasSession(id)
  <2>1. [map |-> id, dogs |-> <<>>] \in Session
    BY DEF Session
  <2>2. /\ GetGameSession(id) = Append(sessions, [map |-> id, dogs |-> <<>>])
        /\ SessionIndex(id) = Len(sessions) + 1
    BY <1>3 DEF GetGameSession, SessionIndex
  <2> QED BY <1>1, <1>3, <2>1, <2>2 DEF HasSession
<1> QED BY <1>2, <1>3

(* The sessions when GetGameSession is all that happened to them.          *)
LEMMA GrownSessions ==
  ASSUME TypeOK, OneSessionPerMap, NEW id \in MapIds, sessions' = GetGameSession(id)
  PROVE  /\ sessions' \in Seq(Session)
         /\ Len(sessions) \in Nat /\ Len(sessions') \in Nat
         /\ Len(sessions) <= Len(sessions')
         /\ SessionIndex(id) \in 1 .. Len(sessions')
         /\ sessions'[SessionIndex(id)].map = id
         /\ \A j \in 1 .. Len(sessions) : sessions'[j] = sessions[j]
         /\ \A j \in 1 .. Len(sessions') :
              j \in 1 .. Len(sessions) \/ sessions'[j].dogs = <<>>
         /\ OneSessionPerMap'
<1> DEFINE k == SessionIndex(id)
<1>1. /\ sessions' \in Seq(Session)
      /\ k \in 1 .. Len(sessions')
      /\ sessions'[k].map = id
      /\ Len(sessions) <= Len(sessions')
      /\ \A j \in 1 .. Len(sessions) : sessions'[j] = sessions[j]
      /\ \A j \in 1 .. Len(sessions') :
           \/ j \in 1 .. Len(sessions)
           \/ /\ j = k /\ sessions'[j].dogs = <<>>
              /\ \A i \in 1 .. Len(sessions) : sessions[i].map # id
  BY SessionFacts
<1>2. Len(sessions) \in Nat /\ Len(sessions') \in Nat
  BY <1>1 DEF TypeOK
<1> HIDE DEF k
<1>3. ASSUME NEW i \in 1 .. Len(sessions'), NEW j \in 1 .. Len(sessions'),
             sessions'[i].map = sessions'[j].map
      PROVE  i = j
  <2>1. CASE i \in 1 .. Len(sessions) /\ j \in 1 .. Len(sessions)
    BY <1>1, <1>3, <2>1 DEF OneSessionPerMap
  <2>2. CASE i \in 1 .. Len(sessions) /\ j \notin 1 .. Len(sessions)
    BY <1>1, <1>3, <2>2
  <2>3. CASE i \notin 1 .. Len(sessions) /\ j \in 1 .. Len(sessions)
    BY <1>1, <1>3, <2>3
  <2>4. CASE i \notin 1 .. Len(sessions) /\ j \notin 1 .. Len(sessions)
    BY <1>1, <2>4
  <2> QED BY <2>1, <2>2, <2>3, <2>4
<1>4. OneSessionPerMap'
  BY <1>3 DEF OneSessionPerMap
<1> QED BY <1>1, <1>2, <1>4 DEF k

(* A join that fails leaves every dogs_ as it was, and the dogs too.       *)
LEMMA FailedJoinRest ==
  ASSUME TypeOK, OneSessionPerMap, NEW id \in MapIds,
         sessions' = GetGameSession(id), dog' = dog
  PROVE  /\ \A j \in 1 .. Len(sessions') : \A u \in Tokens :
              InSession(j, u)' <=> (j \in 1 .. Len(sessions) /\ InSession(j, u))
         /\ \A u \in Tokens : Placed(u)' <=> Placed(u)
         /\ DogsFit => DogsFit'
         /\ HalfJoinedDogsRest => HalfJoinedDogsRest'
<1>1. \A j \in 1 .. Len(sessions) : sessions'[j] = sessions[j]
  BY GrownSessions
<1>2. \A j \in 1 .. Len(sessions') :
        j \in 1 .. Len(sessions) \/ sessions'[j].dogs = <<>>
  BY GrownSessions
<1>3. 1 .. Len(sessions) \subseteq 1 .. Len(sessions')
  BY GrownSessions
<1>4. ASSUME NEW j \in 1 .. Len(sessions'), NEW u \in Tokens
      PROVE  InSession(j, u)' <=> (j \in 1 .. Len(sessions) /\ InSession(j, u))
  BY <1>1, <1>2 DEF InSession
<1>5. \A u \in Tokens : Placed(u)' <=> Placed(u)
  BY <1>3, <1>4 DEF Placed
<1>6. DogsFit => DogsFit'
  BY <1>1, <1>4 DEF DogsFit, DogFits
<1>7. HalfJoinedDogsRest => HalfJoinedDogsRest'
  BY <1>5 DEF HalfJoinedDogsRest, NewDog, DogAt, NoSpeed
<1> QED BY <1>4, <1>5, <1>6, <1>7

(* TokenCollides and AddDogThrows: the response is 500, the session may be *)
(* new and the counter has moved.                                          *)
LEMMA FailedJoinKeepsInv ==
  ASSUME WorldInv, NEW id \in MapIds, NEW t \in Tokens, NEW code,
         \/ TokenCollides(id, t, code)
         \/ AddPlayer(id, t) /\ AddDogThrows(id, code),
         UNCHANGED <<tick, up>>
  PROVE  WorldInv'
<1> USE DEF WorldInv
<1>1. /\ sessions' = GetGameSession(id) /\ dog' = dog /\ known' = known
      /\ counter' = counter + 1
  BY DEF TokenCollides, AddPlayer, AddDogThrows
<1>2. /\ sessions' \in Seq(Session)
      /\ Len(sessions) \in Nat /\ Len(sessions') \in Nat
      /\ Len(sessions) <= Len(sessions')
      /\ SessionIndex(id) \in 1 .. Len(sessions')
      /\ sessions'[SessionIndex(id)].map = id
      /\ \A j \in 1 .. Len(sessions) : sessions'[j] = sessions[j]
      /\ \A j \in 1 .. Len(sessions') :
           j \in 1 .. Len(sessions) \/ sessions'[j].dogs = <<>>
      /\ OneSessionPerMap'
  BY <1>1, GrownSessions
<1>3. /\ \A u \in Tokens : Placed(u)' <=> Placed(u)
      /\ DogsFit'
      /\ HalfJoinedDogsRest'
  BY <1>1, FailedJoinRest
<1>4. \/ registered' = registered /\ player' = player
      \/ /\ t \notin registered /\ registered' = registered \cup {t}
         /\ player' = [player EXCEPT ![t] = [id |-> counter + 1, session |-> SessionIndex(id)]]
         /\ RoadsOf[id] = <<>>
  BY DEF TokenCollides, AddPlayer, AddDogThrows
<1>5. [id |-> counter + 1, session |-> SessionIndex(id)] \in Player
  BY <1>2 DEF TypeOK, Player
<1> DEFINE newPlayer == [id |-> counter + 1, session |-> SessionIndex(id)]
<1>6. /\ newPlayer.id = counter + 1 /\ newPlayer.session = SessionIndex(id)
      /\ newPlayer \in Player
  BY <1>5
<1>7. /\ \A u \in registered : u \in registered' /\ player'[u] = player[u]
      /\ \A u \in registered' : \/ u \in registered
                                \/ /\ u = t /\ player'[u] = newPlayer
                                   /\ RoadsOf[id] = <<>>
  BY <1>4 DEF TypeOK
<1> HIDE DEF newPlayer
<1>8. TypeOK'
  <2>1. player' \in [Tokens -> Player] /\ registered' \subseteq Tokens
    BY <1>4, <1>5 DEF TypeOK
  <2>2. counter' \in Nat /\ dog' \in [Tokens -> Dog] /\ tick' \in Int /\ up' \in BOOLEAN
        /\ known' \subseteq Tokens
    BY <1>1 DEF TypeOK
  <2> QED BY <1>2, <2>1, <2>2 DEF TypeOK
<1>9. RosterAgreesWithPlayers'
  <2>1. ASSUME NEW i \in 1 .. Len(sessions'), NEW n \in 1 .. Len(sessions'[i].dogs)
        PROVE  i \in 1 .. Len(sessions) /\ sessions'[i] = sessions[i]
    BY <1>2
  <2> QED BY <1>7, <2>1 DEF RosterAgreesWithPlayers
<1>10. PlayersHaveSessions'
  BY <1>2, <1>6, <1>7 DEF PlayersHaveSessions
<1>11. UniqueIds'
  <2>1. counter \in Nat
    BY DEF TypeOK
  <2>2. \A u \in registered' : \/ u \in registered /\ player'[u].id \in 1 .. counter
                               \/ u = t /\ player'[u].id = counter + 1
    BY <1>6, <1>7 DEF UniqueIds
  <2>3. \A u \in registered' : player'[u].id \in 1 .. counter'
    BY <1>1, <2>1, <2>2
  <2>4. \A u, v \in registered' : player'[u].id = player'[v].id => u = v
    BY <1>7, <2>1, <2>2 DEF UniqueIds
  <2> QED BY <2>3, <2>4 DEF UniqueIds
<1>12. OnlyRoadlessHalfJoined'
  <2>1. ASSUME NEW u \in registered', u \in registered
        PROVE  Placed(u)' \/ RoadsOf[sessions'[player'[u].session].map] = <<>>
    <3>1. u \in Tokens /\ player'[u] = player[u] /\ player[u].session \in 1 .. Len(sessions)
      BY <1>7, <2>1 DEF TypeOK, PlayersHaveSessions
    <3> QED BY <1>2, <1>3, <2>1, <3>1 DEF OnlyRoadlessHalfJoined
  <2>2. ASSUME NEW u \in registered', u \notin registered
        PROVE  RoadsOf[sessions'[player'[u].session].map] = <<>>
    BY <1>2, <1>6, <1>7, <2>2
  <2> QED BY <2>1, <2>2 DEF OnlyRoadlessHalfJoined
<1>13. KnownArePlaced'
  BY <1>1, <1>3 DEF KnownArePlaced, TypeOK
<1> QED BY <1>2, <1>3, <1>8, <1>9, <1>10, <1>11, <1>12, <1>13 DEF ServerAlive

(* Replacing the dogs of a session, and a session of a sequence.           *)
LEMMA DogsExcept ==
  ASSUME NEW c \in Session, NEW e
  PROVE  [c EXCEPT !.dogs = e] = [map |-> c.map, dogs |-> e]
BY SMT DEF Session

LEMMA SessionExcept ==
  ASSUME NEW s \in Seq(Session), NEW k \in 1 .. Len(s), NEW e \in Session,
         NEW q, q = [s EXCEPT ![k] = e]
  PROVE  /\ q \in Seq(Session)
         /\ Len(q) = Len(s)
         /\ q[k] = e
         /\ \A j \in 1 .. Len(s) : j # k => q[j] = s[j]
<1>1. q \in Seq(Session) /\ Len(q) = Len(s)
  BY ExceptSeq
<1>2. \A j \in 1 .. Len(s) : q[j] = IF j = k THEN e ELSE s[j]
  BY ExceptSeq
<1> QED BY <1>1, <1>2

(* The sessions after AddDog: one dog more in the session of the map.      *)
LEMMA SessionsWithNewDog ==
  ASSUME TypeOK, OneSessionPerMap, NEW id \in MapIds, NEW t \in Tokens,
         NEW k, SessionIndex(id) = k,
         sessions' = DogAppended(id, t)
  PROVE  /\ sessions' \in Seq(Session)
         /\ Len(sessions) \in Nat /\ Len(sessions') \in Nat
         /\ Len(sessions) <= Len(sessions')
         /\ k \in 1 .. Len(sessions')
         /\ sessions'[k].map = id
         /\ \A j \in 1 .. Len(sessions) : sessions'[j].map = sessions[j].map
         /\ \A j \in 1 .. Len(sessions') :
              j # k => j \in 1 .. Len(sessions) /\ sessions'[j] = sessions[j]
         /\ sessions'[k].dogs =
              Append(IF k \in 1 .. Len(sessions) THEN sessions[k].dogs ELSE <<>>, t)
         /\ OneSessionPerMap'
<1> DEFINE s == GetGameSession(id)
<1>1. /\ s \in Seq(Session)
      /\ k \in 1 .. Len(s)
      /\ s[k].map = id
      /\ Len(sessions) <= Len(s)
      /\ \A j \in 1 .. Len(sessions) : s[j] = sessions[j]
      /\ \A j \in 1 .. Len(s) :
           \/ j \in 1 .. Len(sessions)
           \/ /\ j = k /\ s[j].dogs = <<>>
              /\ \A i \in 1 .. Len(sessions) : sessions[i].map # id
  BY SessionFacts
<1>2. Len(sessions) \in Nat
  BY DEF TypeOK
<1>3. sessions' = [s EXCEPT ![k] = [s[k] EXCEPT !.dogs = Append(s[k].dogs, t)]]
  BY DEF DogAppended
<1> HIDE DEF s
<1>4. s[k] \in Session
  BY <1>1
<1>5. /\ s[k] = [map |-> s[k].map, dogs |-> s[k].dogs]
      /\ s[k].dogs \in Seq(Tokens)
      /\ s[k].map \in MapIds
  BY <1>4 DEF Session
<1>6. [s[k] EXCEPT !.dogs = Append(s[k].dogs, t)] = [map |-> s[k].map, dogs |-> Append(s[k].dogs, t)]
  BY <1>4, DogsExcept
<1>7. [map |-> s[k].map, dogs |-> Append(s[k].dogs, t)] \in Session
  BY <1>5 DEF Session
<1> DEFINE e == [map |-> s[k].map, dogs |-> Append(s[k].dogs, t)]
<1>8. e.map = id /\ e.dogs = Append(s[k].dogs, t) /\ e \in Session
  BY <1>1, <1>7
<1>9. sessions' = [s EXCEPT ![k] = e]
  BY <1>3, <1>6
<1> HIDE DEF e
<1>10. /\ sessions' \in Seq(Session)
       /\ Len(sessions') = Len(s)
       /\ sessions'[k] = e
       /\ \A j \in 1 .. Len(s) : j # k => sessions'[j] = s[j]
  <2> DEFINE q == sessions'
  <2>1. s \in Seq(Session) /\ k \in 1 .. Len(s) /\ e \in Session
    BY <1>1, <1>8
  <2>2. q = [s EXCEPT ![k] = e]
    BY <1>9
  <2> HIDE DEF q
  <2>3. /\ q \in Seq(Session)
        /\ Len(q) = Len(s)
        /\ q[k] = e
        /\ \A j \in 1 .. Len(s) : j # k => q[j] = s[j]
    BY <2>1, <2>2, SessionExcept
  <2> QED BY <2>3 DEF q
<1>11. Len(sessions') \in Nat
  BY <1>10
<1>12. \A j \in 1 .. Len(sessions) : sessions'[j].map = sessions[j].map
  <2> SUFFICES ASSUME NEW j \in 1 .. Len(sessions) PROVE sessions'[j].map = sessions[j].map
    OBVIOUS
  <2>1. j \in 1 .. Len(s) /\ s[j] = sessions[j]
    BY <1>1, <1>2, <1>10, <1>11
  <2> QED BY <1>1, <1>8, <1>10, <2>1
<1>13. \A j \in 1 .. Len(sessions') :
         j # k => j \in 1 .. Len(sessions) /\ sessions'[j] = sessions[j]
  BY <1>1, <1>10
<1>14. sessions'[k].dogs =
         Append(IF k \in 1 .. Len(sessions) THEN sessions[k].dogs ELSE <<>>, t)
  BY <1>1, <1>8, <1>10
<1>15. OneSessionPerMap'
  <2>1. \A j \in 1 .. Len(sessions') : j # k => sessions'[j].map # id
    <3> SUFFICES ASSUME NEW j \in 1 .. Len(sessions'), j # k PROVE sessions'[j].map # id
      OBVIOUS
    <3>1. j \in 1 .. Len(sessions) /\ sessions'[j] = sessions[j]
      BY <1>13
    <3>2. CASE k \in 1 .. Len(sessions)
      BY <1>1, <3>1, <3>2 DEF OneSessionPerMap
    <3>3. CASE k \notin 1 .. Len(sessions)
      BY <1>1, <3>1, <3>3
    <3> QED BY <3>2, <3>3
  <2>2. sessions'[k].map = id
    BY <1>8, <1>10
  <2>3. ASSUME NEW i \in 1 .. Len(sessions'), NEW j \in 1 .. Len(sessions'),
               sessions'[i].map = sessions'[j].map
        PROVE  i = j
    <3>1. CASE i = k \/ j = k
      BY <2>1, <2>2, <2>3, <3>1
    <3>2. CASE i # k /\ j # k
      BY <1>13, <2>3, <3>2 DEF OneSessionPerMap
    <3> QED BY <3>1, <3>2
  <2> QED BY <2>3 DEF OneSessionPerMap
<1> QED BY <1>1, <1>2, <1>8, <1>10, <1>11, <1>12, <1>13, <1>14, <1>15

(* The dog that AddDog places: a new one, over a road, at rest.            *)
LEMMA StartIsPair ==
  ASSUME NEW id \in MapIds, RoadsOf[id] # <<>>
  PROVE  StartPosition(id) \in Pair
<1>1. RoadsOf[id] \in Seq(Road)
  BY MapAssumption
<1>2. RoadsOf[id][1] \in RoadSet(id)
  BY <1>1 DEF RoadSet
<1>3. RoadsOf[id][1].x0 \in Int /\ RoadsOf[id][1].y0 \in Int
  BY <1>2, RoadFacts
<1> QED BY <1>3 DEF StartPosition, Pair, Cell

LEMMA PlacedDog ==
  ASSUME NEW id \in MapIds, RoadsOf[id] # <<>>,
         NEW p \in Spots \cup {StartPosition(id)}, GetStartPosition(id, RandomSpawn, p),
         NEW d, d = DogAt(p, MapSpeed[id])
  PROVE  /\ d \in Dog
         /\ d.speed = NoSpeed
         /\ d.top = MapSpeed[id]
         /\ RoadsUnder(id, d.pos) # {}
<1>1. p \in Pair
  BY StartIsPair, GameAssumption
<1>2. MapSpeed[id] \in Nat
  BY GameAssumption
<1>3. RoadsUnder(id, p) # {}
  BY <1>1, GameAssumption, StartHasRoad
<1>4. NoSpeed \in Pair /\ "U" \in Directions
  BY DEF NoSpeed, Pair, Directions
<1> QED BY <1>1, <1>2, <1>3, <1>4 DEF Dog, DogAt

(* AddDog after AddPlayer: the response is 200.                            *)
LEMMA JoinKeepsInv ==
  ASSUME WorldInv, NEW id \in MapIds, NEW t \in Tokens, NEW code,
         AddPlayer(id, t), AddDog(id, t, code), UNCHANGED <<tick, up>>
  PROVE  WorldInv'
<1> USE DEF WorldInv
<1>0. PICK k : k = SessionIndex(id)
  OBVIOUS
<1> DEFINE newPlayer == [id |-> counter + 1, session |-> k]
<1>1. /\ sessions' \in Seq(Session)
      /\ Len(sessions) \in Nat /\ Len(sessions') \in Nat
      /\ Len(sessions) <= Len(sessions')
      /\ k \in 1 .. Len(sessions')
      /\ sessions'[k].map = id
      /\ \A j \in 1 .. Len(sessions) : sessions'[j].map = sessions[j].map
      /\ \A j \in 1 .. Len(sessions') :
           j # k => j \in 1 .. Len(sessions) /\ sessions'[j] = sessions[j]
      /\ sessions'[k].dogs =
           Append(IF k \in 1 .. Len(sessions) THEN sessions[k].dogs ELSE <<>>, t)
      /\ OneSessionPerMap'
  <2>1. sessions' = DogAppended(id, t) /\ SessionIndex(id) = k
    BY <1>0 DEF AddDog
  <2>2. TypeOK /\ OneSessionPerMap
    OBVIOUS
  <2> QED BY <2>1, <2>2, SessionsWithNewDog
<1>2. PICK p \in Spots \cup {StartPosition(id)} :
        /\ GetStartPosition(id, RandomSpawn, p)
        /\ dog' = [dog EXCEPT ![t] = DogAt(p, MapSpeed[id])]
  BY DEF AddDog
<1>3. PICK d : d = DogAt(p, MapSpeed[id])
  OBVIOUS
<1>4. /\ d \in Dog
      /\ d.speed = NoSpeed
      /\ d.top = MapSpeed[id]
      /\ RoadsUnder(id, d.pos) # {}
  BY <1>2, <1>3, PlacedDog DEF AddDog
<1>5. dog' = [dog EXCEPT ![t] = d]
  BY <1>2, <1>3
<1>6. newPlayer \in Player /\ newPlayer.id = counter + 1 /\ newPlayer.session = k
  BY <1>1 DEF TypeOK, Player
<1>7. /\ t \notin registered
      /\ registered' = registered \cup {t}
      /\ counter' = counter + 1
      /\ known' = known \cup {t}
      /\ player' = [player EXCEPT ![t] = newPlayer]
  BY <1>0 DEF AddPlayer, AddDog
<1> HIDE DEF newPlayer
<1>8. /\ \A u \in registered : player'[u] = player[u]
      /\ player'[t] = newPlayer
      /\ dog'[t] = d
      /\ \A u \in Tokens : u # t => dog'[u] = dog[u]
  BY <1>5, <1>7 DEF TypeOK
<1> DEFINE old == IF k \in 1 .. Len(sessions) THEN sessions[k].dogs ELSE <<>>
<1>9. old \in Seq(Tokens)
  <2>1. CASE k \in 1 .. Len(sessions)
    <3>1. sessions[k] \in Session
      BY <2>1 DEF TypeOK
    <3> QED BY <2>1, <3>1 DEF Session
  <2>2. CASE k \notin 1 .. Len(sessions)
    BY <2>2
  <2> QED BY <2>1, <2>2
<1>10. /\ Len(sessions'[k].dogs) = Len(old) + 1
       /\ sessions'[k].dogs[Len(old) + 1] = t
       /\ \A n \in 1 .. Len(old) : sessions'[k].dogs[n] = old[n]
       /\ Len(old) \in Nat
  BY <1>1, <1>9
<1>11. /\ \A n \in 1 .. Len(old) : old[n] \in registered /\ player[old[n]].session = k
       /\ \A n, l \in 1 .. Len(old) : old[n] = old[l] => n = l
  BY DEF RosterAgreesWithPlayers
<1>12. \A u \in Tokens : (\E n \in 1 .. Len(old) : old[n] = u)
                          <=> (k \in 1 .. Len(sessions) /\ InSession(k, u))
  BY DEF InSession
<1> HIDE DEF old
<1>13. ASSUME NEW j \in 1 .. Len(sessions'), NEW u \in Tokens
       PROVE  InSession(j, u)' <=> \/ j \in 1 .. Len(sessions) /\ InSession(j, u)
                                   \/ j = k /\ u = t
  <2>1. CASE j # k
    <3>1. j \in 1 .. Len(sessions) /\ sessions'[j] = sessions[j]
      BY <1>1, <2>1
    <3>2. InSession(j, u)' <=> InSession(j, u)
      BY <3>1 DEF InSession
    <3> QED BY <2>1, <3>1, <3>2
  <2>2. CASE j = k
    <3>1. InSession(k, u)' <=> \E n \in 1 .. Len(old) + 1 : sessions'[k].dogs[n] = u
      BY <1>10 DEF InSession
    <3>2. InSession(k, u)' <=> (\E n \in 1 .. Len(old) : old[n] = u) \/ u = t
      BY <1>10, <3>1
    <3> QED BY <1>12, <2>2, <3>2
  <2> QED BY <2>1, <2>2
<1>14. \A u \in Tokens : Placed(u)' <=> Placed(u) \/ u = t
  BY <1>1, <1>13 DEF Placed
<1>15. TypeOK'
  BY <1>1, <1>4, <1>5, <1>6, <1>7 DEF TypeOK
<1>16. RosterAgreesWithPlayers'
  <2>1. ASSUME NEW i \in 1 .. Len(sessions'), NEW n \in 1 .. Len(sessions'[i].dogs)
        PROVE  /\ sessions'[i].dogs[n] \in registered'
               /\ player'[sessions'[i].dogs[n]].session = i
               /\ \A l \in 1 .. Len(sessions'[i].dogs) :
                    sessions'[i].dogs[n] = sessions'[i].dogs[l] => n = l
    <3>1. CASE i # k
      <4>1. i \in 1 .. Len(sessions) /\ sessions'[i] = sessions[i]
        BY <1>1, <3>1
      <4> QED BY <1>7, <1>8, <2>1, <4>1 DEF RosterAgreesWithPlayers
    <3>2. CASE i = k
      <4>1. \A l \in 1 .. Len(old) + 1 :
              \/ l \in 1 .. Len(old) /\ sessions'[k].dogs[l] = old[l] /\ old[l] # t
              \/ l = Len(old) + 1 /\ sessions'[k].dogs[l] = t
        BY <1>7, <1>10, <1>11
      <4>2. \A l \in 1 .. Len(old) + 1 :
              sessions'[k].dogs[l] \in registered' /\ player'[sessions'[k].dogs[l]].session = k
        BY <1>6, <1>7, <1>8, <1>11, <4>1
      <4>3. \A l, q \in 1 .. Len(old) + 1 :
              sessions'[k].dogs[l] = sessions'[k].dogs[q] => l = q
        BY <1>11, <4>1
      <4> QED BY <1>10, <2>1, <3>2, <4>2, <4>3
    <3> QED BY <3>1, <3>2
  <2> QED BY <2>1 DEF RosterAgreesWithPlayers
<1>17. PlayersHaveSessions'
  BY <1>1, <1>6, <1>7, <1>8 DEF PlayersHaveSessions
<1>18. UniqueIds'
  <2>1. counter \in Nat
    BY DEF TypeOK
  <2>2. \A u \in registered' : \/ u \in registered /\ player'[u].id \in 1 .. counter
                               \/ u = t /\ player'[u].id = counter + 1
    BY <1>6, <1>7, <1>8 DEF UniqueIds
  <2>3. \A u \in registered' : player'[u].id \in 1 .. counter'
    BY <1>7, <2>1, <2>2
  <2>4. \A u, v \in registered' : player'[u].id = player'[v].id => u = v
    BY <1>8, <2>1, <2>2 DEF UniqueIds
  <2> QED BY <2>3, <2>4 DEF UniqueIds
<1>19. OnlyRoadlessHalfJoined'
  <2>1. ASSUME NEW u \in registered', u # t
        PROVE  Placed(u)' \/ RoadsOf[sessions'[player'[u].session].map] = <<>>
    <3>1. u \in registered /\ u \in Tokens /\ player'[u] = player[u]
          /\ player[u].session \in 1 .. Len(sessions)
      BY <1>7, <1>8, <2>1 DEF TypeOK, PlayersHaveSessions
    <3> QED BY <1>1, <1>14, <3>1 DEF OnlyRoadlessHalfJoined
  <2> QED BY <1>14, <2>1 DEF OnlyRoadlessHalfJoined
<1>20. KnownArePlaced'
  BY <1>7, <1>14 DEF KnownArePlaced, TypeOK
<1>21. HalfJoinedDogsRest'
  BY <1>8, <1>14 DEF HalfJoinedDogsRest, NewDog, DogAt, NoSpeed
<1>22. DogsFit'
  <2> SUFFICES ASSUME NEW j \in 1 .. Len(sessions'), NEW u \in Tokens, InSession(j, u)'
               PROVE  DogFits(j, u)'
    BY DEF DogsFit
  <2>1. CASE u # t
    <3>1. j \in 1 .. Len(sessions) /\ InSession(j, u)
      BY <1>13, <2>1
    <3>2. DogFits(j, u)
      BY <3>1 DEF DogsFit
    <3>3. dog'[u] = dog[u] /\ sessions'[j].map = sessions[j].map
      BY <1>1, <1>8, <2>1, <3>1
    <3> QED BY <3>2, <3>3 DEF DogFits
  <2>2. CASE u = t
    <3>1. j = k
      BY <1>7, <1>13, <2>2 DEF RosterAgreesWithPlayers, InSession
    <3> QED BY <1>1, <1>4, <1>8, <2>2, <3>1 DEF DogFits
  <2> QED BY <2>1, <2>2
<1> QED BY <1>1, <1>15, <1>16, <1>17, <1>18, <1>19, <1>20, <1>21, <1>22 DEF ServerAlive

-----------------------------------------------------------------------------
(* SetDogDirection: only the speed and the direction of one dog change.    *)
LEMMA ActionKeepsInv ==
  ASSUME WorldInv, NEW a \in registered, Placed(a), NEW dir \in Directions,
         SetDogDirection(a, dir),
         UNCHANGED <<sessions, registered, player, counter, tick, up, known>>
  PROVE  WorldInv'
<1> USE DEF WorldInv
<1>1. a \in Tokens /\ dog[a] \in Dog
  BY DEF TypeOK
<1>2. PICK v : v = SpeedFor(dir, dog[a].top)
  OBVIOUS
<1>3. v \in Pair
  BY <1>1, <1>2, SpeedForFacts DEF Dog
<1>4. PICK d : d = [dog[a] EXCEPT !.dir = dir, !.speed = v]
  OBVIOUS
<1>5. dog' = [dog EXCEPT ![a] = d]
  BY <1>2, <1>4 DEF SetDogDirection
<1>6. /\ d \in Dog
      /\ d.pos = dog[a].pos /\ d.top = dog[a].top
      /\ d.dir = dir /\ d.speed = v
  BY <1>1, <1>3, <1>4 DEF Dog
<1>7. dog'[a] = d /\ \A t \in Tokens : t # a => dog'[t] = dog[t]
  BY <1>1, <1>5 DEF TypeOK
<1>8. TypeOK'
  BY <1>5, <1>6 DEF TypeOK
<1>9. /\ OneSessionPerMap' /\ RosterAgreesWithPlayers' /\ PlayersHaveSessions'
      /\ UniqueIds' /\ ServerAlive'
  BY DEF OneSessionPerMap, RosterAgreesWithPlayers, PlayersHaveSessions, UniqueIds, ServerAlive
<1>10. /\ \A i \in 1 .. Len(sessions) : \A t \in Tokens : InSession(i, t)' <=> InSession(i, t)
       /\ \A t \in Tokens : Placed(t)' <=> Placed(t)
  BY DEF Placed, InSession
<1>11. OnlyRoadlessHalfJoined' /\ KnownArePlaced'
  BY <1>10 DEF OnlyRoadlessHalfJoined, KnownArePlaced, TypeOK
<1>12. HalfJoinedDogsRest'
  BY <1>7, <1>10 DEF HalfJoinedDogsRest, NewDog, DogAt
<1>13. DogsFit'
  <2> SUFFICES ASSUME NEW i \in 1 .. Len(sessions), NEW t \in Tokens, InSession(i, t)
               PROVE  DogFits(i, t)'
    BY <1>10 DEF DogsFit
  <2>1. DogFits(i, t)
    BY DEF DogsFit
  <2>2. CASE t # a
    BY <1>7, <2>1, <2>2 DEF DogFits
  <2>3. CASE t = a
    BY <1>2, <1>6, <1>7, <2>1, <2>3 DEF DogFits
  <2> QED BY <2>2, <2>3
<1> QED BY <1>8, <1>9, <1>11, <1>12, <1>13

(* The tick: every placed dog is over a road and moves along one axis, so  *)
(* that no tick reads an empty set and every dog is over a road again.     *)
LEMMA TickKeepsInv ==
  ASSUME WorldInv, OnTick
  PROVE  WorldInv'
<1> USE DEF WorldInv
<1>1. PICK delta \in Deltas :
        IF \E t \in Tokens : Placed(t) /\ ReadsEmptySet(MapOf(t), dog[t], delta)
          THEN up' = FALSE /\ UNCHANGED dog
          ELSE UpdateDogsPosition(delta) /\ UNCHANGED up
  BY DEF OnTick
<1>2. delta \in Nat
  BY GameAssumption
<1>3. UNCHANGED <<sessions, registered, player, counter, tick, known>>
  BY DEF OnTick
<1>4. ASSUME NEW t \in Tokens, NEW i \in 1 .. Len(sessions), InSession(i, t)
      PROVE  LET d == dog[t]
                 e == Moved(sessions[i].map, d, delta)
             IN  /\ MapOf(t) = sessions[i].map
                 /\ ~ ReadsEmptySet(MapOf(t), d, delta)
                 /\ e \in Dog
                 /\ e.speed \in {d.speed, NoSpeed} /\ e.dir = d.dir /\ e.top = d.top
                 /\ RoadsUnder(sessions[i].map, e.pos) # {}
  <2>1. PICK m : m = sessions[i].map
    OBVIOUS
  <2>2. MapOf(t) = m
    BY <1>4, <2>1, MapOfPlaced
  <2>3. m \in MapIds
    <3>1. sessions[i] \in Session
      BY DEF TypeOK
    <3> QED BY <2>1, <3>1 DEF Session
  <2>4. PICK d : d = dog[t]
    OBVIOUS
  <2>5. /\ d \in Dog /\ d.pos \in Pair /\ d.speed \in Pair /\ d.dir \in Directions /\ d.top \in Nat
        /\ d = [pos |-> d.pos, speed |-> d.speed, dir |-> d.dir, top |-> d.top]
    BY <2>4 DEF TypeOK, Dog
  <2>6. /\ RoadsUnder(m, d.pos) # {}
        /\ d.speed \in {NoSpeed, SpeedFor(d.dir, d.top)}
    BY <1>4, <2>1, <2>4 DEF DogsFit, DogFits
  <2>7. d.speed.x = 0 \/ d.speed.y = 0
    BY <2>5, <2>6, SpeedForFacts
  <2>8. PICK e : e = Moved(m, d, delta)
    OBVIOUS
  <2>9. /\ ~ ReadsEmptySet(m, d, delta)
        /\ e.pos \in Pair /\ e.speed \in {d.speed, NoSpeed} /\ e.dir = d.dir /\ e.top = d.top
        /\ e = [pos |-> e.pos, speed |-> e.speed, dir |-> d.dir, top |-> d.top]
        /\ RoadsUnder(m, e.pos) # {}
    BY <1>2, <2>3, <2>5, <2>6, <2>7, <2>8, MovedKeepsRoad
  <2>10. e \in Dog
    <3>1. e.speed \in Pair
      BY <2>5, <2>9, SpeedForFacts
    <3> QED BY <2>5, <2>9, <3>1 DEF Dog
  <2> QED BY <2>1, <2>2, <2>4, <2>8, <2>9, <2>10
<1>5. ~ \E t \in Tokens : Placed(t) /\ ReadsEmptySet(MapOf(t), dog[t], delta)
  BY <1>4 DEF Placed
<1>6. UpdateDogsPosition(delta) /\ up' = up
  BY <1>1, <1>5
<1>7. \A t \in Tokens : dog'[t] = IF Placed(t) THEN Moved(MapOf(t), dog[t], delta) ELSE dog[t]
  BY <1>6 DEF UpdateDogsPosition
<1>8. dog' \in [Tokens -> Dog]
  <2>1. \A t \in Tokens : Placed(t) => Moved(MapOf(t), dog[t], delta) \in Dog
    BY <1>4 DEF Placed
  <2> QED BY <1>6, <2>1 DEF UpdateDogsPosition, TypeOK
<1>9. TypeOK'
  BY <1>3, <1>6, <1>8 DEF TypeOK
<1>10. /\ OneSessionPerMap' /\ RosterAgreesWithPlayers' /\ PlayersHaveSessions'
       /\ UniqueIds' /\ ServerAlive'
  BY <1>3, <1>6
     DEF OneSessionPerMap, RosterAgreesWithPlayers, PlayersHaveSessions, UniqueIds, ServerAlive
<1>11. /\ \A i \in 1 .. Len(sessions) : \A t \in Tokens : InSession(i, t)' <=> InSession(i, t)
       /\ \A t \in Tokens : Placed(t)' <=> Placed(t)
  BY <1>3 DEF Placed, InSession
<1>12. OnlyRoadlessHalfJoined' /\ KnownArePlaced'
  BY <1>3, <1>11 DEF OnlyRoadlessHalfJoined, KnownArePlaced, TypeOK
<1>13. HalfJoinedDogsRest'
  BY <1>7, <1>11 DEF HalfJoinedDogsRest, NewDog, DogAt
<1>14. DogsFit'
  <2> SUFFICES ASSUME NEW i \in 1 .. Len(sessions), NEW t \in Tokens, InSession(i, t)
               PROVE  DogFits(i, t)'
    BY <1>3, <1>11 DEF DogsFit
  <2>1. DogFits(i, t)
    BY DEF DogsFit
  <2>2. Placed(t)
    BY DEF Placed
  <2>3. PICK e : e = Moved(sessions[i].map, dog[t], delta)
    OBVIOUS
  <2>4. /\ e.speed \in {dog[t].speed, NoSpeed} /\ e.dir = dog[t].dir /\ e.top = dog[t].top
        /\ RoadsUnder(sessions[i].map, e.pos) # {}
        /\ MapOf(t) = sessions[i].map
    BY <1>4, <2>3
  <2>5. dog'[t] = e
    BY <1>7, <2>2, <2>3, <2>4
  <2> QED BY <1>3, <2>1, <2>4, <2>5 DEF DogFits
<1> QED BY <1>9, <1>10, <1>12, <1>13, <1>14

-----------------------------------------------------------------------------
LEMMA InitInv == Init => WorldInv
<1> SUFFICES ASSUME Init PROVE WorldInv
  OBVIOUS
<1>1. Len(sessions) = 0 /\ sessions \in Seq(Session)
  BY DEF Init
<1>2. NoPlayer \in Player
  BY DEF NoPlayer, Player
<1>3. TypeOK
  BY <1>1, <1>2, NewDogType DEF Init, TypeOK
<1>4. /\ OneSessionPerMap /\ RosterAgreesWithPlayers /\ DogsFit
  BY <1>1 DEF OneSessionPerMap, RosterAgreesWithPlayers, DogsFit
<1>5. /\ PlayersHaveSessions /\ UniqueIds /\ OnlyRoadlessHalfJoined /\ KnownArePlaced
      /\ HalfJoinedDogsRest /\ ServerAlive
  BY DEF Init, PlayersHaveSessions, UniqueIds, OnlyRoadlessHalfJoined, KnownArePlaced,
         HalfJoinedDogsRest, ServerAlive
<1> QED BY <1>3, <1>4, <1>5 DEF WorldInv

(* A step that leaves everything but tick_ alone.                          *)
LEMMA IdleKeepsInv ==
  ASSUME WorldInv, tick' \in Int,
         UNCHANGED <<sessions, registered, player, dog, counter, up, known>>
  PROVE  WorldInv'
<1> USE DEF WorldInv
<1>1. TypeOK'
  BY DEF TypeOK
<1>2. /\ \A i \in 1 .. Len(sessions) : \A t \in Tokens : InSession(i, t)' <=> InSession(i, t)
      /\ \A t \in Tokens : Placed(t)' <=> Placed(t)
  BY DEF Placed, InSession
<1>3. /\ OneSessionPerMap' /\ RosterAgreesWithPlayers' /\ PlayersHaveSessions'
      /\ UniqueIds' /\ ServerAlive'
  BY DEF OneSessionPerMap, RosterAgreesWithPlayers, PlayersHaveSessions, UniqueIds, ServerAlive
<1>4. OnlyRoadlessHalfJoined' /\ KnownArePlaced'
  BY <1>2 DEF OnlyRoadlessHalfJoined, KnownArePlaced, TypeOK
<1>5. HalfJoinedDogsRest'
  BY <1>2 DEF HalfJoinedDogsRest, NewDog, DogAt
<1>6. DogsFit'
  BY <1>2 DEF DogsFit, DogFits
<1> QED BY <1>1, <1>3, <1>4, <1>5, <1>6

LEMMA NextKeepsInv ==
  ASSUME WorldInv, [Next]_vars
  PROVE  WorldInv'
<1>1. ASSUME UNCHANGED vars PROVE WorldInv'
  <2>1. tick' \in Int /\ UNCHANGED <<sessions, registered, player, dog, counter, up, known>>
    BY <1>1 DEF vars, WorldInv, TypeOK
  <2> QED BY <2>1, IdleKeepsInv
<1>2. ASSUME NEW code, NEW codes, Reply(code, codes) PROVE WorldInv'
  BY <1>1, <1>2 DEF Reply
<1>3. CASE OnTick
  BY <1>3, TickKeepsInv
<1>4. ASSUME NEW code, HandleMapRequest(code) PROVE WorldInv'
  BY <1>2, <1>4 DEF HandleMapRequest
<1>5. ASSUME NEW code, NEW t \in Tokens, HandlePlayerJoinRequest(t, code) PROVE WorldInv'
  <2>1. CASE \E codes : Reply(code, codes)
    BY <1>2, <2>1
  <2>2. ASSUME NEW id \in MapIds, JoinGame(id, t, code) PROVE WorldInv'
    <3>1. UNCHANGED <<tick, up>>
      BY <2>2 DEF JoinGame
    <3>2. CASE TokenCollides(id, t, code)
      BY <3>1, <3>2, FailedJoinKeepsInv
    <3>3. CASE AddPlayer(id, t) /\ AddDogThrows(id, code)
      BY <3>1, <3>3, FailedJoinKeepsInv
    <3>4. CASE AddPlayer(id, t) /\ AddDog(id, t, code)
      BY <3>1, <3>4, JoinKeepsInv
    <3> QED BY <2>2, <3>2, <3>3, <3>4 DEF JoinGame
  <2> QED BY <1>5, <2>1, <2>2 DEF HandlePlayerJoinRequest
<1>6. ASSUME NEW code, NEW a, HandlePlayersListRequest(a, code) \/ HandleStateRequest(a, code)
      PROVE  WorldInv'
  BY <1>2, <1>6 DEF HandlePlayersListRequest, HandleStateRequest, Unauthorized
<1>7. ASSUME NEW code, NEW a \in Credentials, HandleActionRequest(a, code) PROVE WorldInv'
  <2>1. CASE \E codes : Reply(code, codes)
    BY <1>2, <2>1
  <2>2. CASE /\ a \in registered
             /\ \E dir \in Directions : SetDogDirection(a, dir)
             /\ UNCHANGED <<sessions, registered, player, counter, tick, up, known>>
    <3>1. Placed(a)
      BY <2>2, GameAssumption DEF Credentials, WorldInv, TypeOK, KnownArePlaced
    <3> QED BY <2>2, <3>1, ActionKeepsInv
  <2> QED BY <1>7, <2>1, <2>2 DEF HandleActionRequest, Unauthorized
<1>8. ASSUME NEW code, HandleTickRequest(code) PROVE WorldInv'
  <2>1. CASE \E codes : Reply(code, codes)
    BY <1>2, <2>1
  <2>2. CASE /\ \E delta \in Deltas \cup {-1, 0} : tick' = delta
             /\ UNCHANGED <<sessions, registered, player, dog, counter, up, known>>
    <3>1. tick' \in Int
      BY <2>2, GameAssumption
    <3> QED BY <2>2, <3>1, IdleKeepsInv
  <2> QED BY <1>8, <2>1, <2>2 DEF HandleTickRequest
<1> QED BY <1>1, <1>3, <1>4, <1>5, <1>6, <1>7, <1>8 DEF Next

-----------------------------------------------------------------------------
(* WorldInv is an invariant of every game world.                           *)
THEOREM WorldInvariant == Spec => []WorldInv
<1>1. Init => WorldInv
  BY InitInv
<1>2. WorldInv /\ [Next]_vars => WorldInv'
  BY NextKeepsInv
<1> QED BY <1>1, <1>2, PTL DEF Spec

(* Every variable keeps its type.                                          *)
THEOREM TypeCorrect == Spec => []TypeOK
<1>1. WorldInv => TypeOK
  BY DEF WorldInv
<1> QED BY <1>1, WorldInvariant, PTL

(* GetGameSession never makes a second session for a map.                  *)
THEOREM SessionsAreUnique == Spec => []OneSessionPerMap
<1>1. WorldInv => OneSessionPerMap
  BY DEF WorldInv
<1> QED BY <1>1, WorldInvariant, PTL

(* The dogs_ of a session are, once each, dogs of players that point to    *)
(* this session: a tick moves no dog twice.                                *)
THEOREM RosterIsSound == Spec => []RosterAgreesWithPlayers
<1>1. WorldInv => RosterAgreesWithPlayers
  BY DEF WorldInv
<1> QED BY <1>1, WorldInvariant, PTL

(* A join that failed half-way stays invisible: it needs a map without     *)
(* roads, and no client knows its token.                                   *)
THEOREM HalfJoinsAreContained == Spec => []HalfJoinedOnlyWithoutRoads
<1>1. WorldInv => HalfJoinedOnlyWithoutRoads
  BY DEF WorldInv, HalfJoinedOnlyWithoutRoads, HalfJoined, KnownArePlaced,
         OnlyRoadlessHalfJoined, PlayersHaveSessions
<1> QED BY <1>1, WorldInvariant, PTL

(* A player whose join has failed has a dog that no tick and no action     *)
(* touches.                                                                *)
THEOREM HalfJoinedDogsAreIdle == Spec => []HalfJoinedDogsRest
<1>1. WorldInv => HalfJoinedDogsRest
  BY DEF WorldInv
<1> QED BY <1>1, WorldInvariant, PTL

(* Player ids are distinct however many joins have failed.                 *)
THEOREM IdsAreUnique == Spec => []UniqueIds
<1>1. WorldInv => UniqueIds
  BY DEF WorldInv
<1> QED BY <1>1, WorldInvariant, PTL

(* The state request and the tick agree on who is in a session.            *)
THEOREM StateIsComplete == Spec => []StateShowsTheSession
<1>1. ASSUME WorldInv, NEW t \in registered, RoadsOf[sessions[player[t].session].map] # <<>>
      PROVE  SessionMates(t) = {u \in Tokens : InSession(player[t].session, u)}
  <2>1. PICK i : i = player[t].session
    OBVIOUS
  <2>2. i \in 1 .. Len(sessions)
    BY <1>1, <2>1 DEF WorldInv, PlayersHaveSessions
  <2>3. ASSUME NEW u \in registered, player[u].session = i
        PROVE  InSession(i, u)
    <3>1. u \in Tokens /\ Placed(u)
      BY <1>1, <2>1, <2>3 DEF WorldInv, TypeOK, OnlyRoadlessHalfJoined
    <3>2. PICK j \in 1 .. Len(sessions) : InSession(j, u)
      BY <3>1 DEF Placed
    <3>3. j = i
      BY <1>1, <2>3, <3>1, <3>2, MapOfPlaced DEF WorldInv
    <3> QED BY <3>2, <3>3
  <2>4. ASSUME NEW u \in Tokens, InSession(i, u)
        PROVE  u \in registered /\ player[u].session = i
    BY <1>1, <2>2, <2>4, MapOfPlaced DEF WorldInv
  <2> QED BY <1>1, <2>1, <2>3, <2>4 DEF SessionMates, WorldInv, TypeOK
<1>2. WorldInv => StateShowsTheSession
  BY <1>1 DEF StateShowsTheSession
<1> QED BY <1>2, WorldInvariant, PTL

(* Every placed dog is over a cell with a road, whatever the ticks and the *)
(* speeds: the undefined read of an empty set is out of reach.             *)
THEOREM DogsStayOverRoads == Spec => []RoadUnderDog
<1>1. ASSUME WorldInv, NEW t \in Tokens, Placed(t)
      PROVE  RoadsUnder(MapOf(t), dog[t].pos) # {}
  <2>1. PICK i \in 1 .. Len(sessions) : InSession(i, t)
    BY <1>1 DEF Placed
  <2>2. MapOf(t) = sessions[i].map
    BY <1>1, <2>1, MapOfPlaced DEF WorldInv
  <2> QED BY <1>1, <2>1, <2>2 DEF WorldInv, DogsFit, DogFits
<1>2. WorldInv => RoadUnderDog
  BY <1>1 DEF RoadUnderDog
<1> QED BY <1>2, WorldInvariant, PTL

(* The process survives every tick.                                        *)
THEOREM TicksAreSafe == Spec => []ServerAlive
<1>1. WorldInv => ServerAlive
  BY DEF WorldInv
<1> QED BY <1>1, WorldInvariant, PTL

(* A dog runs at its map's speed in the direction chosen last, or rests.   *)
THEOREM SpeedIsChosen == Spec => []SpeedFollowsDirection
<1>1. ASSUME WorldInv, NEW t \in Tokens, Placed(t)
      PROVE  /\ dog[t].top = MapSpeed[MapOf(t)]
             /\ dog[t].speed \in {NoSpeed, SpeedFor(dog[t].dir, dog[t].top)}
  <2>1. PICK i \in 1 .. Len(sessions) : InSession(i, t)
    BY <1>1 DEF Placed
  <2>2. MapOf(t) = sessions[i].map
    BY <1>1, <2>1, MapOfPlaced DEF WorldInv
  <2> QED BY <1>1, <2>1, <2>2 DEF WorldInv, DogsFit, DogFits
<1>2. WorldInv => SpeedFollowsDirection
  BY <1>1 DEF SpeedFollowsDirection
<1> QED BY <1>2, WorldInvariant, PTL

-----------------------------------------------------------------------------
(***************************************************************************)
(* Leaving the roads.                                                      *)
(***************************************************************************)
(* A dog whose session and position stay as they are stays on or off the   *)
(* roads.                                                                  *)
LEMMA DogStaysWhereItIs ==
  ASSUME WorldInv, WorldInv', NEW t \in Tokens,
         NEW i \in 1 .. Len(sessions), InSession(i, t),
         i \in 1 .. Len(sessions'), InSession(i, t)', sessions'[i].map = sessions[i].map,
         dog'[t].pos = dog[t].pos
  PROVE  OffRoad(t)' <=> OffRoad(t)
<1>1. MapOf(t) = sessions[i].map /\ Placed(t)
  BY MapOfPlaced DEF WorldInv
<1>2. MapOf(t)' = sessions'[i].map /\ Placed(t)'
  <2>1. \A j \in 1 .. Len(sessions') : InSession(j, t)' => player'[t].session = j
    BY DEF WorldInv, RosterAgreesWithPlayers, InSession
  <2>2. (CHOOSE j \in 1 .. Len(sessions') : InSession(j, t)') = i
    BY <2>1
  <2> QED BY <2>2 DEF MapOf, Placed
<1> QED BY <1>1, <1>2 DEF OffRoad

(* A join appends a session or a dog: who was placed stays in place.       *)
LEMMA JoinMovesNobody ==
  ASSUME WorldInv, WorldInv', NEW id \in MapIds, NEW u \in Tokens, NEW code,
         JoinGame(id, u, code), NEW t \in Tokens, Placed(t)
  PROVE  OffRoad(t)' <=> OffRoad(t)
<1>1. PICK i \in 1 .. Len(sessions) : InSession(i, t)
  BY DEF Placed
<1>2. t \in registered
  BY <1>1, MapOfPlaced DEF WorldInv
<1>3. CASE (sessions' = GetGameSession(id) /\ dog' = dog) \/ AddDogThrows(id, code)
  <2>1. sessions' = GetGameSession(id) /\ dog' = dog
    BY <1>3 DEF AddDogThrows
  <2>2. i \in 1 .. Len(sessions') /\ sessions'[i] = sessions[i]
    BY <2>1, GrownSessions DEF WorldInv
  <2> QED BY <1>1, <2>1, <2>2, DogStaysWhereItIs DEF InSession
<1>4. CASE AddPlayer(id, u) /\ AddDog(id, u, code)
  <2>1. t # u /\ dog'[t] = dog[t]
    BY <1>2, <1>4 DEF AddPlayer, AddDog, WorldInv, TypeOK
  <2>2. PICK k : k = SessionIndex(id)
    OBVIOUS
  <2>3. /\ Len(sessions) \in Nat /\ Len(sessions') \in Nat
        /\ Len(sessions) <= Len(sessions')
        /\ \A j \in 1 .. Len(sessions) : sessions'[j].map = sessions[j].map
        /\ \A j \in 1 .. Len(sessions') :
             j # k => j \in 1 .. Len(sessions) /\ sessions'[j] = sessions[j]
        /\ sessions'[k].dogs =
             Append(IF k \in 1 .. Len(sessions) THEN sessions[k].dogs ELSE <<>>, u)
    <3>1. sessions' = DogAppended(id, u) /\ SessionIndex(id) = k
      BY <1>4, <2>2 DEF AddDog
    <3>2. TypeOK /\ OneSessionPerMap
      BY DEF WorldInv
    <3> QED BY <3>1, <3>2, SessionsWithNewDog
  <2>4. i \in 1 .. Len(sessions')
    BY <2>3
  <2>5. InSession(i, t)'
    <3>1. CASE i # k
      BY <1>1, <2>3, <2>4, <3>1 DEF InSession
    <3>2. CASE i = k
      <4>1. PICK n \in 1 .. Len(sessions[i].dogs) : sessions[i].dogs[n] = t
        BY <1>1 DEF InSession
      <4>2. sessions[i].dogs \in Seq(Tokens)
        <5>1. sessions[i] \in Session
          BY DEF WorldInv, TypeOK
        <5> QED BY <5>1 DEF Session
      <4>3. sessions'[i].dogs = Append(sessions[i].dogs, u)
        BY <2>3, <3>2
      <4>4. n \in 1 .. Len(sessions'[i].dogs) /\ sessions'[i].dogs[n] = t
        BY <4>1, <4>2, <4>3
      <4> QED BY <4>4 DEF InSession
    <3> QED BY <3>1, <3>2
  <2> QED BY <1>1, <2>1, <2>3, <2>4, <2>5, DogStaysWhereItIs
<1>5. TokenCollides(id, u, code) => sessions' = GetGameSession(id) /\ dog' = dog
  BY DEF TokenCollides
<1> QED BY <1>3, <1>4, <1>5 DEF JoinGame

(* Where the roads at the dog's cell run the same way, a tick leaves it on *)
(* a road: on one that contains its new position, or clamped to their box. *)
LEMMA TickKeepsOnRoad ==
  ASSUME WorldInv, WorldInv', OnTick, NEW t \in Tokens, Placed(t),
         ~ Crossing(RoadsUnder(MapOf(t), dog[t].pos))
  PROVE  OffRoad(t)' => OffRoad(t)
<1>1. PICK delta \in Deltas :
        \/ UNCHANGED dog
        \/ dog' = [u \in Tokens |-> IF Placed(u) THEN Moved(MapOf(u), dog[u], delta) ELSE dog[u]]
  BY DEF OnTick, UpdateDogsPosition
<1>2. UNCHANGED sessions
  BY DEF OnTick
<1>3. PICK i \in 1 .. Len(sessions) : InSession(i, t)
  BY DEF Placed
<1>4. MapOf(t) = sessions[i].map /\ MapOf(t)' = MapOf(t)
  BY <1>2, <1>3, MapOfPlaced DEF WorldInv, MapOf, InSession
<1>5. PICK m : m = MapOf(t)
  OBVIOUS
<1>6. m \in MapIds
  <2>1. sessions[i] \in Session
    BY DEF WorldInv, TypeOK
  <2> QED BY <1>4, <1>5, <2>1 DEF Session
<1>7. PICK d : d = dog[t]
  OBVIOUS
<1>8. /\ d.pos \in Pair /\ d.speed \in Pair
      /\ RoadsUnder(m, d.pos) # {}
      /\ d = [pos |-> d.pos, speed |-> d.speed, dir |-> d.dir, top |-> d.top]
  BY <1>3, <1>4, <1>5, <1>7 DEF WorldInv, TypeOK, Dog, DogsFit, DogFits
<1>9. CASE UNCHANGED dog
  BY <1>2, <1>4, <1>9 DEF OffRoad, Placed, InSession
<1>10. CASE dog'[t] = Moved(m, d, delta)
  <2>1. PICK q : q = Advance(d.pos, d.speed, delta)
    OBVIOUS
  <2>2. q \in Pair
    BY <1>8, <2>1, GameAssumption DEF Advance, Pair
  <2>3. PICK R : R = RoadsUnder(m, d.pos)
    OBVIOUS
  <2>4. R \subseteq RoadSet(m)
    BY <2>3 DEF RoadsUnder, GetRoadsByCoords
  <2>5. CASE MovesProperly(R, q)
    <3>1. dog'[t].pos = q
      BY <1>8, <1>10, <2>1, <2>3, <2>5 DEF Moved
    <3>2. OnRoad(m, q)
      BY <2>4, <2>5 DEF MovesProperly, OnRoad
    <3> QED BY <1>4, <1>5, <3>1, <3>2 DEF OffRoad
  <2>6. CASE ~ MovesProperly(R, q)
    <3>1. dog'[t].pos = SetMaxMoveForTick(R, q)
      BY <1>8, <1>10, <2>1, <2>3, <2>6 DEF Moved
    <3>2. OnRoad(m, SetMaxMoveForTick(R, q))
      BY <1>5, <1>6, <1>7, <1>8, <2>2, <2>3, ClampOnStraightRoads DEF Crossing
    <3> QED BY <1>4, <1>5, <3>1, <3>2 DEF OffRoad
  <2> QED BY <2>5, <2>6
<1> QED BY <1>1, <1>5, <1>7, <1>9, <1>10

(* Only from a crossing can a step take a dog off the roads.               *)
THEOREM RoadsAreLeftAtCrossings == Spec => OffRoadOnlyFromCrossing
<1> DEFINE Step == \A t \in Tokens :
                     (Placed(t) /\ ~ OffRoad(t) /\ OffRoad(t)')
                        => Crossing(RoadsUnder(MapOf(t), dog[t].pos))
<1>1. ASSUME WorldInv, WorldInv', Next, NEW t \in Tokens, Placed(t), ~ OffRoad(t), OffRoad(t)'
      PROVE  Crossing(RoadsUnder(MapOf(t), dog[t].pos))
  <2>1. PICK i \in 1 .. Len(sessions) : InSession(i, t)
    BY <1>1 DEF Placed
  <2>2. ~ (sessions' = sessions /\ dog'[t].pos = dog[t].pos)
    BY <1>1, <2>1, DogStaysWhereItIs DEF InSession
  <2>3. CASE OnTick
    BY <1>1, <2>3, TickKeepsOnRoad
  <2>4. ASSUME NEW id \in MapIds, NEW u \in Tokens, NEW code, JoinGame(id, u, code)
        PROVE  FALSE
    BY <1>1, <2>4, JoinMovesNobody
  <2>5. ~ (sessions' = sessions /\ dog' = dog)
    BY <2>2
  <2>6. ASSUME NEW a \in registered, NEW dir \in Directions, SetDogDirection(a, dir)
        PROVE  dog'[t].pos = dog[t].pos
    <3>1. dog[t] \in Dog /\ dog \in [Tokens -> Dog]
      BY <1>1 DEF WorldInv, TypeOK
    <3>2. PICK v : v = SpeedFor(dir, dog[a].top)
      OBVIOUS
    <3>3. dog' = [dog EXCEPT ![a] = [dog[a] EXCEPT !.dir = dir, !.speed = v]]
      BY <2>6, <3>2 DEF SetDogDirection
    <3> QED BY <3>1, <3>3 DEF Dog
  <2> QED
    BY <1>1, <2>2, <2>3, <2>4, <2>5, <2>6
       DEF Next, Reply, vars, HandleMapRequest, HandlePlayerJoinRequest, HandlePlayersListRequest,
           HandleStateRequest, HandleActionRequest, HandleTickRequest, Unauthorized
<1>2. WorldInv /\ WorldInv' /\ [Next]_vars => [Step]_vars
  BY <1>1
<1> QED BY <1>2, WorldInvariant, PTL DEF Spec, OffRoadOnlyFromCrossing
=============================================================================
