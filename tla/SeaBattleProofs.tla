-------------------------- MODULE SeaBattleProofs --------------------------
(***************************************************************************)
(* The sea battle for every size of the field, all ships and every play.   *)
(* There are four parts.                                                   *)
(*                                                                         *)
(* Geometry: in a field no two ship cells meet at a corner, so the cells   *)
(* that a true KILL marks beside the killed ones hold no ship              *)
(* (KillMarksNoShip).  This also holds for a KILL that came too early.     *)
(*                                                                         *)
(* Connection: the game is in one of eight phases (PhaseInv), which say    *)
(* where the loops of both players are and what is on its way.             *)
(*                                                                         *)
(* Pictures: a result on its way is true of the field it comes from, and   *)
(* the picture of its receiver lacks just the cell it is about             *)
(* (PictureInv).                                                           *)
(*                                                                         *)
(* The end: no shot changes the number of ship cells of a field, a loop    *)
(* ends exactly when one of the weights it knows is zero (EndInv), and so  *)
(* the players never disagree about the winner.                            *)
(***************************************************************************)
EXTENDS SeaBattle, FiniteSetTheorems, SequenceTheorems, TLAPS

(* A field as the code writes it: the state of every cell.                 *)
Afloat(f) == f \in [Cells -> {"EMPTY", "SHIP", "KILLED"}]

(* No two ship cells of a field meet at a corner only.                     *)
NoCorners(f) ==
  \A x, y, u, v \in Coords :
    (f[At(x, y)] # "EMPTY" /\ f[At(u, v)] # "EMPTY") => ~ (u - x \in {-1, 1} /\ v - y \in {-1, 1})

LEMMA AtInField ==
  ASSUME NEW x \in Coords, NEW y \in Coords
  PROVE  At(x, y) \in Cells
<1> Size \in Nat
  BY SeaAssumption
<1>1. x \in Int /\ y \in Int /\ 0 <= x /\ x <= Size - 1 /\ 0 <= y /\ y <= Size - 1
  BY DEF Coords
<1>2. y * Size \in Int /\ 0 <= y * Size
  BY <1>1
<1>3. y * Size <= (Size - 1) * Size
  BY <1>1
<1>4. (Size - 1) * Size = Size * Size - Size
  OBVIOUS
<1> QED BY <1>1, <1>2, <1>3, <1>4 DEF At, Cells

LEMMA AtInjective ==
  ASSUME NEW x \in Coords, NEW y \in Coords, NEW u \in Coords, NEW v \in Coords,
         At(x, y) = At(u, v)
  PROVE  x = u /\ y = v
<1> Size \in Nat \ {0}
  BY SeaAssumption
<1>1. /\ x \in Int /\ y \in Int /\ 0 <= x /\ x < Size
      /\ u \in Int /\ v \in Int /\ 0 <= u /\ u < Size
  BY DEF Coords
<1>2. x + y * Size = u + v * Size
  BY DEF At
<1>3. ~ y < v
  <2> SUFFICES ASSUME y < v PROVE FALSE
    OBVIOUS
  <2>1. y + 1 <= v
    BY <1>1
  <2>2. (y + 1) * Size <= v * Size
    BY <2>1, <1>1
  <2>3. (y + 1) * Size = y * Size + Size
    BY <1>1
  <2>4. y * Size \in Int /\ v * Size \in Int
    BY <1>1
  <2> QED BY <2>2, <2>3, <2>4, <1>1, <1>2
<1>4. ~ v < y
  <2> SUFFICES ASSUME v < y PROVE FALSE
    OBVIOUS
  <2>1. v + 1 <= y
    BY <1>1
  <2>2. (v + 1) * Size <= y * Size
    BY <2>1, <1>1
  <2>3. (v + 1) * Size = v * Size + Size
    BY <1>1
  <2>4. y * Size \in Int /\ v * Size \in Int
    BY <1>1
  <2> QED BY <2>2, <2>3, <2>4, <1>1, <1>2
<1>5. y = v
  BY <1>1, <1>3, <1>4
<1>6. y * Size \in Int
  BY <1>1
<1> QED BY <1>1, <1>2, <1>5, <1>6

(* The cells of a ship are in a line, and ships do not touch.              *)
LEMMA ShipsAreStraight ==
  ASSUME NEW s, s.x \in Int, s.y \in Int, s.dir \in Dirs, s.size \in Int,
         NEW a \in ShipOf(s), NEW b \in ShipOf(s)
  PROVE  a.x = b.x \/ a.y = b.y
<1>1. PICK i \in 0 .. s.size - 1 : a = [x |-> s.x + i * s.dir[1], y |-> s.y + i * s.dir[2]]
  BY DEF ShipOf
<1>2. PICK j \in 0 .. s.size - 1 : b = [x |-> s.x + j * s.dir[1], y |-> s.y + j * s.dir[2]]
  BY DEF ShipOf
<1>3. s.dir[1] = 0 \/ s.dir[2] = 0
  BY DEF Dirs
<1>4. CASE s.dir[1] = 0
  BY <1>1, <1>2, <1>4
<1>5. CASE s.dir[2] = 0
  BY <1>1, <1>2, <1>5
<1> QED BY <1>3, <1>4, <1>5

LEMMA RandomHasNoCorners ==
  ASSUME NEW f \in RandomFields
  PROVE  f \in [Cells -> {"EMPTY", "SHIP"}] /\ NoCorners(f)
<1>1. PICK fleet \in Fleets :
        f = [c \in Cells |-> IF \E i \in DOMAIN fleet : \E s \in ShipOf(fleet[i]) : CellOf(s) = c
                               THEN "SHIP" ELSE "EMPTY"]
  BY DEF RandomFields
<1>2. f \in [Cells -> {"EMPTY", "SHIP"}]
  BY <1>1
<1> DEFINE N == Len(ShipSizes)
<1> DEFINE Ships == [x : Coords, y : Coords, dir : Dirs, size : {ShipSizes[i] : i \in 1 .. N}]
<1>3. /\ fleet \in [1 .. N -> Ships]
      /\ \A i \in 1 .. N :
           /\ \A c \in ShipOf(fleet[i]) : InField(c.x, c.y)
           /\ \A j \in 1 .. i - 1 : ~ Touch(fleet[i], fleet[j])
  BY DEF Fleets
<1>4. ASSUME NEW x \in Coords, NEW y \in Coords, f[At(x, y)] # "EMPTY"
      PROVE  \E i \in 1 .. N : \E s \in ShipOf(fleet[i]) : s.x = x /\ s.y = y
  <2>1. At(x, y) \in Cells
    BY AtInField
  <2>2. PICK i \in DOMAIN fleet : \E s \in ShipOf(fleet[i]) : CellOf(s) = At(x, y)
    BY <1>1, <1>4, <2>1
  <2>3. PICK s \in ShipOf(fleet[i]) : CellOf(s) = At(x, y)
    BY <2>2
  <2>4. i \in 1 .. N
    BY <1>3
  <2>5. s.x \in Coords /\ s.y \in Coords
    BY <1>3, <2>4 DEF InField
  <2>6. At(s.x, s.y) = At(x, y)
    BY <2>3 DEF CellOf
  <2>7. s.x = x /\ s.y = y
    BY <2>5, <2>6, AtInjective
  <2> QED BY <2>4, <2>7
<1>5. ASSUME NEW x \in Coords, NEW y \in Coords, NEW u \in Coords, NEW v \in Coords,
             f[At(x, y)] # "EMPTY", f[At(u, v)] # "EMPTY",
             u - x \in {-1, 1}, v - y \in {-1, 1}
      PROVE  FALSE
  <2>1. PICK i \in 1 .. N : \E s \in ShipOf(fleet[i]) : s.x = x /\ s.y = y
    BY <1>4, <1>5
  <2>2. PICK a \in ShipOf(fleet[i]) : a.x = x /\ a.y = y
    BY <2>1
  <2>3. PICK j \in 1 .. N : \E s \in ShipOf(fleet[j]) : s.x = u /\ s.y = v
    BY <1>4, <1>5
  <2>4. PICK b \in ShipOf(fleet[j]) : b.x = u /\ b.y = v
    BY <2>3
  <2>5. x \in Int /\ y \in Int /\ u \in Int /\ v \in Int
    BY SeaAssumption DEF Coords
  <2>6. CASE i = j
    <3>1. fleet[i] \in Ships
      BY <1>3
    <3>2. \A k \in 1 .. N : ShipSizes[k] \in Nat
      BY SeaAssumption
    <3>3. fleet[i].x \in Int /\ fleet[i].y \in Int /\ fleet[i].dir \in Dirs /\ fleet[i].size \in Int
      BY <3>1, <3>2, SeaAssumption DEF Coords
    <3>4. a.x = b.x \/ a.y = b.y
      BY <2>6, <3>3, ShipsAreStraight
    <3> QED BY <1>5, <2>2, <2>4, <2>5, <3>4
  <2>7. CASE j < i
    <3>1. j \in 1 .. i - 1
      BY <2>7
    <3>2. ~ Touch(fleet[i], fleet[j])
      BY <1>3, <3>1
    <3>3. a.x - b.x \in -1 .. 1 /\ a.y - b.y \in -1 .. 1
      BY <1>5, <2>2, <2>4, <2>5
    <3> QED BY <3>2, <3>3 DEF Touch
  <2>8. CASE i < j
    <3>1. i \in 1 .. j - 1
      BY <2>8
    <3>2. ~ Touch(fleet[j], fleet[i])
      BY <1>3, <3>1
    <3>3. b.x - a.x \in -1 .. 1 /\ b.y - a.y \in -1 .. 1
      BY <1>5, <2>2, <2>4, <2>5
    <3> QED BY <3>2, <3>3 DEF Touch
  <2> QED BY <2>6, <2>7, <2>8
<1> QED BY <1>2, <1>5 DEF NoCorners

(* A point of the field, and its cell.                                     *)
InSea(m) == InField(m.x, m.y)

LEMMA InSeaCell ==
  ASSUME NEW m, InSea(m)
  PROVE  CellOf(m) \in Cells
BY AtInField DEF InSea, InField, CellOf

(* A ship that the shot m has killed: every walk from m over killed cells  *)
(* ends in the sea.  If the picture g knows only killed cells of the field *)
(* f as killed, MarkKill marks no ship of f.                               *)
LEMMA KillMarksNoShip ==
  ASSUME NEW f, Afloat(f), NoCorners(f), NEW g,
         \A c \in Cells : g[c] = "KILLED" => f[c] = "KILLED",
         NEW m \in Moves, f[CellOf(m)] = "KILLED", IsKilled(f, m),
         NEW d \in Dirs, NEW c \in MarkKillInDirection(g, m, d)
  PROVE  f[c] # "SHIP"
<1> Size \in Nat \ {0}
  BY SeaAssumption
<1>1. m.x \in Int /\ m.y \in Int
  BY DEF Moves, Coords
<1>2. PICK n \in UNION {Near(Step(m, d, i), d) : i \in Walk(g, m, d)} :
        InField(n.x, n.y) /\ c = CellOf(n)
  BY DEF MarkKillInDirection
<1>3. PICK i \in Walk(g, m, d) : n \in Near(Step(m, d, i), d)
  BY <1>2
<1> DEFINE S(e, j) == Step(m, e, j)
<1>4. /\ i \in Coords
      /\ \A j \in 0 .. i : InField(S(d, j).x, S(d, j).y) /\ (j < i => g[CellOf(S(d, j))] = "KILLED")
  BY DEF Walk
<1>5. i \in Nat
  BY <1>4 DEF Coords
<1>6. ASSUME NEW j \in 0 .. i, j < i
      PROVE  f[CellOf(S(d, j))] = "KILLED"
  <2>1. CellOf(S(d, j)) \in Cells
    BY <1>4, InSeaCell DEF InSea
  <2> QED BY <1>4, <1>6, <2>1
<1>7. i \in Walk(f, m, d)
  BY <1>4, <1>6 DEF Walk
<1>8. f[CellOf(S(d, i))] \in {"EMPTY", "KILLED"}
  BY <1>7 DEF IsKilled, IsKilledInDirection
<1>9. CASE n = S(d, i)
  BY <1>2, <1>8, <1>9
<1>10. CASE n # S(d, i)
  <2>1. PICK k \in {1, -1} : n = [x |-> S(d, i).x + k * d[2], y |-> S(d, i).y + k * d[1]]
    BY <1>3, <1>10 DEF Near
  <2>2. CASE i = 0
    <3> DEFINE e == <<k * d[2], k * d[1]>>
    <3>1. e \in Dirs
      BY <2>1 DEF Dirs
    <3>2. S(d, 0) = [x |-> m.x, y |-> m.y]
      BY <1>1 DEF Step, Dirs
    <3>3. S(e, 0) = [x |-> m.x, y |-> m.y] /\ S(e, 1) = n
      BY <1>1, <2>1, <2>2, <3>2 DEF Step, Dirs
    <3>4. InField(m.x, m.y)
      BY <1>4, <2>2, <3>2
    <3>5. f[CellOf([x |-> m.x, y |-> m.y])] = "KILLED"
      BY DEF CellOf
    <3>6. 1 \in Coords
      <4>1. m.x \in Coords /\ m.y \in Coords /\ n.x \in Coords /\ n.y \in Coords
        BY <1>2, <3>4 DEF InField
      <4>2. Size # 1
        BY <1>1, <2>1, <2>2, <3>2, <4>1 DEF Coords, Dirs
      <4> QED BY <4>2 DEF Coords
    <3>7. \A j \in 0 .. 1 : InField(S(e, j).x, S(e, j).y) /\ (j < 1 => f[CellOf(S(e, j))] = "KILLED")
      <4> SUFFICES ASSUME NEW j \in 0 .. 1
                   PROVE  InField(S(e, j).x, S(e, j).y) /\ (j < 1 => f[CellOf(S(e, j))] = "KILLED")
        OBVIOUS
      <4>1. CASE j = 0
        BY <3>3, <3>4, <3>5, <4>1
      <4>2. CASE j = 1
        BY <1>2, <3>3, <4>2
      <4> QED BY <4>1, <4>2
    <3>8. 1 \in Walk(f, m, e)
      BY <3>6, <3>7 DEF Walk
    <3>9. f[CellOf(S(e, 1))] \in {"EMPTY", "KILLED"}
      BY <3>1, <3>8 DEF IsKilled, IsKilledInDirection
    <3> QED BY <1>2, <3>3, <3>9
  <2>3. CASE i # 0
    <3> DEFINE b == S(d, i - 1)
    <3>1. i - 1 \in 0 .. i /\ i - 1 < i
      BY <1>5, <2>3
    <3>2. f[CellOf(b)] = "KILLED" /\ InField(b.x, b.y)
      BY <1>4, <1>6, <3>1
    <3>3. n.x - b.x \in {-1, 1} /\ n.y - b.y \in {-1, 1}
      BY <1>1, <1>5, <2>1 DEF Step, Dirs
    <3>4. b.x \in Coords /\ b.y \in Coords /\ n.x \in Coords /\ n.y \in Coords
      BY <1>2, <3>2 DEF InField
    <3>5. f[At(n.x, n.y)] = "EMPTY"
      BY <3>2, <3>3, <3>4 DEF NoCorners, CellOf
    <3> QED BY <1>2, <3>5 DEF CellOf
  <2> QED BY <2>2, <2>3
<1> QED BY <1>9, <1>10

-----------------------------------------------------------------------------
(***************************************************************************)
(* Types.  The weights stay natural numbers because a player that still    *)
(* plays has ships left, and so has the other one in its picture.          *)
(***************************************************************************)
Pictures == [Cells -> {"UNKNOWN", "EMPTY", "KILLED"}]

StillOn(p) == ~ Gone(p) => weight[p] # 0 /\ left[p] # 0

TypeInv ==
  /\ TypeOK
  /\ \A p \in Players : StillOn(p) /\ NoCorners(own[p])

LEMMA MoveCell == \A m \in Moves : CellOf(m) \in Cells
BY DEF Moves, CellOf

LEMMA OtherPlayer ==
  \A p \in Players : /\ Other(p) \in Players
                     /\ Other(Other(p)) = p
                     /\ Other(p) # p
                     /\ \A q \in Players : q = p \/ q = Other(p)
BY DEF Other, Players

LEMMA ShotField ==
  ASSUME NEW f, Afloat(f), NoCorners(f), NEW m \in Moves
  PROVE  Afloat(Shoot(f, m)) /\ NoCorners(Shoot(f, m))
<1>1. Afloat(Shoot(f, m))
  BY DEF Shoot, Afloat
<1>2. \A x, y \in Coords : Shoot(f, m)[At(x, y)] # "EMPTY" => f[At(x, y)] # "EMPTY"
  BY AtInField DEF Shoot, Afloat
<1> QED BY <1>1, <1>2 DEF NoCorners

(* What a result changes in the picture.                                   *)
LEMMA MarkedField ==
  ASSUME NEW f \in Pictures, NEW m \in Moves, NEW r \in Results, NEW g, g = Marked(f, m, r)
  PROVE  /\ g \in Pictures
         /\ \A c \in Cells : g[c] = "KILLED" <=>
              f[c] = "KILLED" \/ (c = CellOf(m) /\ r # "MISS" /\ f[c] = "UNKNOWN")
         /\ \A c \in Cells : g[c] = "EMPTY" =>
              \/ f[c] = "EMPTY"
              \/ f[c] = "UNKNOWN" /\ r = "MISS" /\ c = CellOf(m)
              \/ /\ f[c] = "UNKNOWN" /\ r = "KILL" /\ c # CellOf(m)
                 /\ \E d \in Dirs : c \in MarkKillInDirection(Mark(f, CellOf(m), "KILLED"), m, d)
<1>1. CellOf(m) \in Cells
  BY MoveCell
<1>2. CASE r = "MISS"
  BY <1>1, <1>2 DEF Marked, Mark, Pictures
<1>3. CASE r = "HIT"
  BY <1>1, <1>3 DEF Marked, Mark, Pictures
<1>4. CASE r = "KILL"
  <2>1. g = MarkKill(f, m)
    BY <1>4 DEF Marked
  <2>2. CASE f[CellOf(m)] # "UNKNOWN"
    <3>1. g = f
      BY <2>1, <2>2 DEF MarkKill
    <3> QED BY <2>2, <3>1, <1>1
  <2>3. CASE f[CellOf(m)] = "UNKNOWN"
    <3> DEFINE h == Mark(f, CellOf(m), "KILLED")
    <3> DEFINE Around(c) == \E d \in Dirs : c \in MarkKillInDirection(h, m, d)
    <3>1. h \in Pictures /\ \A c \in Cells : h[c] = IF c = CellOf(m) THEN "KILLED" ELSE f[c]
      BY <1>1, <2>3 DEF Mark, Pictures
    <3>2. g = [c \in Cells |-> IF h[c] = "UNKNOWN" /\ Around(c) THEN "EMPTY" ELSE h[c]]
      BY <2>1, <2>3, Zenon DEF MarkKill
    <3>3. \A c \in Cells : g[c] = IF h[c] = "UNKNOWN" /\ Around(c) THEN "EMPTY" ELSE h[c]
      BY <3>2
    <3>4. g \in Pictures
      <4> HIDE DEF Around, h
      <4> QED BY <3>1, <3>2 DEF Pictures
    <3>5. ASSUME NEW c \in Cells, g[c] = "EMPTY", f[c] # "EMPTY"
          PROVE  f[c] = "UNKNOWN" /\ c # CellOf(m) /\ Around(c)
      <4> HIDE DEF Around, h
      <4> QED BY <3>1, <3>3, <3>5 DEF Pictures
    <3>6. ASSUME NEW c \in Cells
          PROVE  g[c] = "KILLED" <=> f[c] = "KILLED" \/ c = CellOf(m)
      <4> HIDE DEF Around, h
      <4> QED BY <3>1, <3>3 DEF Pictures
    <3> QED BY <1>4, <2>3, <3>4, <3>5, <3>6
  <2> QED BY <2>2, <2>3
<1> QED BY <1>2, <1>3, <1>4 DEF Results

LEMMA SentLines ==
  ASSUME NEW p \in Players, NEW l \in Lines, NEW w \in [Players -> Seq(Lines)]
  PROVE  Send(p, l, w) \in [Players -> Seq(Lines)]
BY DEF Send

LEMMA TakenLines ==
  ASSUME wire \in [Players -> Seq(Lines)], NEW p \in Players, NEW n \in 1 .. Len(wire[p])
  PROVE  Take(p, n) \in [Players -> Seq(Lines)]
<1>1. wire[p] \in Seq(Lines) /\ Len(wire[p]) \in Nat
  OBVIOUS
<1>2. SubSeq(wire[p], n + 1, Len(wire[p])) \in Seq(Lines)
  BY <1>1
<1> QED BY <1>2 DEF Take

LEMMA TypesInit == Init => TypeInv
<1> SUFFICES ASSUME Init PROVE TypeInv
  OBVIOUS
<1> USE SeaAssumption
<1>1. \A p \in Players : own[p] \in RandomFields
  BY DEF Init
<1>2. \A p \in Players : own[p] \in [Cells -> {"EMPTY", "SHIP"}] /\ NoCorners(own[p])
  BY <1>1, RandomHasNoCorners
<1>3. own \in [Players -> [Cells -> {"EMPTY", "SHIP", "KILLED"}]]
  <2>1. own \in [Players -> UNION {FieldsOf[p] : p \in Players}]
    BY DEF Init
  <2> QED BY <1>2, <2>1
<1>4. wire \in [Players -> Seq(Lines)]
  BY DEF Init
<1>5. picture \in [Players -> Pictures] /\ shot \in [Players -> Moves \cup {Bad}]
  BY DEF Init, Pictures
<1>6. /\ weight \in [Players -> 0 .. Weight] /\ left \in [Players -> 0 .. Weight]
      /\ \A p \in Players : weight[p] # 0 /\ left[p] # 0
  BY DEF Init
<1>7. pc \in [Players -> {"aim", "result", "guard", "over", "dead"}] /\ lost \in BOOLEAN
  BY DEF Init
<1>8. TypeOK
  BY <1>3, <1>4, <1>5, <1>6, <1>7 DEF TypeOK, Pictures
<1> QED BY <1>2, <1>6, <1>8 DEF TypeInv, StillOn

LEMMA MovesTyped == \A p \in Players : MovesOf[p] \subseteq Moves \cup {Bad}
BY SeaAssumption

LEMMA TypesFire ==
  ASSUME TypeInv, NEW p \in Players, NEW m \in MovesOf[p], Fire(p, m)
  PROVE  TypeInv'
<1>1. m \in Moves \cup {Bad}
  BY MovesTyped
<1>2. [shot |-> m] \in Lines
  BY <1>1 DEF Lines
<1>3. wire' \in [Players -> Seq(Lines)]
  BY <1>2, SentLines, OtherPlayer DEF Fire, TypeInv, TypeOK
<1>4. \A q \in Players : StillOn(q)' /\ NoCorners(own[q])'
  BY DEF Fire, TypeInv, TypeOK, StillOn, Gone
<1>5. UNCHANGED <<own, weight, picture, left, lost>>
  BY DEF Fire
<1>6. pc' = [pc EXCEPT ![p] = "result"] /\ shot' = [shot EXCEPT ![p] = m]
  BY DEF Fire
<1> QED BY <1>1, <1>3, <1>4, <1>5, <1>6 DEF TypeInv, TypeOK

LEMMA TypesTakeResult ==
  ASSUME TypeInv, NEW p \in Players, NEW n \in 1 .. Len(wire[p]), TakeResult(p, n),
         Head(wire[p]) \in [result : Results]
  PROVE  TypeInv'
<1> DEFINE r == Head(wire[p]).result
           hit == r # "MISS" /\ picture[p][CellOf(shot[p])] = "UNKNOWN"
<1>1. /\ pc[p] = "result" /\ shot[p] # Bad
      /\ picture' = [picture EXCEPT ![p] = Marked(picture[p], shot[p], r)]
      /\ left' = [left EXCEPT ![p] = IF hit THEN left[p] - 1 ELSE left[p]]
      /\ pc' = [pc EXCEPT ![p] = NextOrEnd(weight[p], left'[p], AfterResult(r))]
      /\ wire' = Take(p, n)
      /\ shot' = [shot EXCEPT ![p] = Bad]
      /\ lost' = (lost \/ n > 1)
      /\ own' = own /\ weight' = weight
  BY DEF TakeResult
<1>2. r \in Results
  OBVIOUS
<1> HIDE DEF r
<1>3. shot[p] \in Moves
  BY <1>1 DEF TypeInv, TypeOK
<1>4. Marked(picture[p], shot[p], r) \in Pictures
  BY <1>2, <1>3, MarkedField DEF TypeInv, TypeOK, Pictures
<1>5. picture' \in [Players -> Pictures]
  BY <1>1, <1>4 DEF TypeInv, TypeOK, Pictures
<1>6. left[p] \in 0 .. Weight /\ left[p] # 0 /\ weight[p] # 0
  BY <1>1 DEF TypeInv, TypeOK, StillOn, Gone
<1>7. left'[p] \in 0 .. Weight /\ left' \in [Players -> 0 .. Weight]
  BY <1>1, <1>6, SeaAssumption DEF TypeInv, TypeOK
<1>8. wire' \in [Players -> Seq(Lines)]
  BY <1>1, TakenLines DEF TypeInv, TypeOK
<1>9. /\ pc' \in [Players -> {"aim", "result", "guard", "over", "dead"}]
      /\ pc'[p] # "over" => left'[p] # 0
      /\ \A q \in Players : q # p => pc'[q] = pc[q] /\ left'[q] = left[q]
  BY <1>1 DEF TypeInv, TypeOK, NextOrEnd, IsGameEnded, AfterResult
<1>10. \A q \in Players : StillOn(q)' /\ NoCorners(own[q])'
  BY <1>1, <1>6, <1>9 DEF TypeInv, StillOn, Gone
<1>11. shot' \in [Players -> Moves \cup {Bad}] /\ lost' \in BOOLEAN
  BY <1>1 DEF TypeInv, TypeOK
<1> QED BY <1>1, <1>5, <1>7, <1>8, <1>9, <1>10, <1>11 DEF TypeInv, TypeOK, Pictures

LEMMA TypesTakeShot ==
  ASSUME TypeInv, NEW p \in Players, NEW n \in 1 .. Len(wire[p]), TakeShot(p, n),
         Head(wire[p]) \in [shot : Moves \cup {Bad}]
  PROVE  TypeInv'
<1> DEFINE m == Head(wire[p]).shot
           r == ShotResult(own[p], m)
<1>1. /\ pc[p] = "guard" /\ m # Bad
      /\ own' = [own EXCEPT ![p] = Shoot(own[p], m)]
      /\ weight' = [weight EXCEPT ![p] = IF r = "MISS" THEN weight[p] ELSE weight[p] - 1]
      /\ wire' = Send(Other(p), [result |-> r], Take(p, n))
      /\ pc' = [pc EXCEPT ![p] = NextOrEnd(weight'[p], left[p], IF r = "MISS" THEN "aim" ELSE "guard")]
      /\ lost' = (lost \/ n > 1)
      /\ picture' = picture /\ left' = left /\ shot' = shot
  BY DEF TakeShot
<1>2. m \in Moves
  BY <1>1
<1>3. r \in Results
  BY DEF ShotResult, Results
<1> HIDE DEF m, r
<1>4. Afloat(own[p]) /\ NoCorners(own[p])
  BY DEF TypeInv, TypeOK, Afloat
<1>5. Afloat(Shoot(own[p], m)) /\ NoCorners(Shoot(own[p], m))
  BY <1>2, <1>4, ShotField
<1>6. own' \in [Players -> [Cells -> {"EMPTY", "SHIP", "KILLED"}]]
  BY <1>1, <1>5 DEF TypeInv, TypeOK, Afloat
<1>7. weight[p] \in 0 .. Weight /\ left[p] # 0 /\ weight[p] # 0
  BY <1>1 DEF TypeInv, TypeOK, StillOn, Gone
<1>8. weight'[p] \in 0 .. Weight /\ weight' \in [Players -> 0 .. Weight]
  BY <1>1, <1>7, SeaAssumption DEF TypeInv, TypeOK
<1>9. /\ pc' \in [Players -> {"aim", "result", "guard", "over", "dead"}]
      /\ pc'[p] # "over" => weight'[p] # 0
      /\ \A q \in Players : q # p => pc'[q] = pc[q] /\ weight'[q] = weight[q]
  BY <1>1 DEF TypeInv, TypeOK, NextOrEnd, IsGameEnded
<1>10. \A q \in Players : StillOn(q)' /\ NoCorners(own[q])'
  BY <1>1, <1>5, <1>7, <1>9 DEF TypeInv, TypeOK, StillOn, Gone
<1>11. wire' \in [Players -> Seq(Lines)]
  <2>1. Take(p, n) \in [Players -> Seq(Lines)]
    BY TakenLines DEF TypeInv, TypeOK
  <2>2. [result |-> r] \in Lines
    BY <1>3 DEF Lines
  <2> QED BY <1>1, <2>1, <2>2, SentLines, OtherPlayer
<1>12. lost' \in BOOLEAN
  BY <1>1 DEF TypeInv, TypeOK
<1> QED BY <1>1, <1>6, <1>8, <1>9, <1>10, <1>11, <1>12 DEF TypeInv, TypeOK

(* The other steps of a player only end its part or let it aim again.      *)
LEMMA TypesEnd ==
  ASSUME TypeInv, NEW p \in Players, ResultFails(p) \/ ShotThrows(p) \/ Quit(p)
  PROVE  TypeInv'
<1>1. /\ UNCHANGED <<own, weight, picture, left, lost>>
      /\ ~ Gone(p)
      /\ pc' = [pc EXCEPT ![p] = "dead"] \/ pc' = [pc EXCEPT ![p] = "aim"]
      /\ wire' = [wire EXCEPT ![p] = <<>>]
      /\ shot' = [shot EXCEPT ![p] = Bad] \/ shot' = shot
  BY DEF ResultFails, ShotThrows, Quit, Gone
<1>2. wire' \in [Players -> Seq(Lines)]
  BY <1>1 DEF TypeInv, TypeOK
<1>3. \A q \in Players : StillOn(q)' /\ NoCorners(own[q])'
  BY <1>1 DEF TypeInv, TypeOK, StillOn, Gone
<1> QED BY <1>1, <1>2, <1>3 DEF TypeInv, TypeOK

-----------------------------------------------------------------------------
(***************************************************************************)
(* Phases: what can be on the connection, seen from the player p that has  *)
(* the initiative, had it last, or is left alone.                          *)
(***************************************************************************)
ShotLine(m)   == [shot |-> m]
ResultLine(r) == [result |-> r]

Aiming(p) ==
  /\ pc[p] = "aim" /\ pc[Other(p)] = "guard"
  /\ wire[p] = <<>> /\ wire[Other(p)] = <<>>
  /\ ~ lost

ShotSent(p) ==
  /\ pc[p] = "result" /\ pc[Other(p)] = "guard"
  /\ wire[p] = <<>> /\ wire[Other(p)] = <<ShotLine(shot[p])>>
  /\ ~ lost

HitSent(p) ==
  /\ pc[p] = "result" /\ pc[Other(p)] \in {"guard", "over"}
  /\ \E r \in {"HIT", "KILL"} : wire[p] = <<ResultLine(r)>>
  /\ wire[Other(p)] = <<>>
  /\ shot[p] \in Moves
  /\ ~ lost

MissSent(p) ==
  /\ pc[p] = "result" /\ pc[Other(p)] = "aim"
  /\ wire[p] = <<ResultLine("MISS")>> /\ wire[Other(p)] = <<>>
  /\ shot[p] \in Moves
  /\ ~ lost

(* The other player has used the initiative before p knows of it.          *)
BothSent(p) ==
  /\ pc[p] = "result" /\ pc[Other(p)] = "result"
  /\ wire[p] = <<ResultLine("MISS"), ShotLine(shot[Other(p)])>> /\ wire[Other(p)] = <<>>
  /\ shot[p] \in Moves
  /\ ~ lost

LostShot(p) ==
  /\ pc[p] = "guard" /\ pc[Other(p)] = "result"
  /\ wire[p] = <<>> /\ wire[Other(p)] = <<>>
  /\ lost

Ended(p) ==
  /\ pc[p] = "over" /\ pc[Other(p)] # "dead"
  /\ wire[p] = <<>> /\ wire[Other(p)] = <<>>
  /\ ~ lost

(* What is on its way to p when the other has quit.                        *)
Leftover(p) ==
  \/ wire[p] = <<>>
  \/ /\ pc[p] = "guard"
     /\ \E m \in Moves \cup {Bad} : wire[p] = <<ShotLine(m)>>
  \/ /\ pc[p] = "result"
     /\ shot[p] \in Moves
     /\ \/ \E r \in Results : wire[p] = <<ResultLine(r)>>
        \/ \E m \in Moves \cup {Bad} : wire[p] = <<ResultLine("MISS"), ShotLine(m)>>

LeftAlone(p) ==
  /\ pc[Other(p)] = "dead"
  /\ wire[Other(p)] = <<>>
  /\ Leftover(p)

Phase(p) ==
  \/ Aiming(p) \/ ShotSent(p) \/ HitSent(p) \/ MissSent(p) \/ BothSent(p)
  \/ LostShot(p) \/ Ended(p) \/ LeftAlone(p)

PhaseInv == \E p \in Players : Phase(p)

LEMMA ShortLines ==
  ASSUME NEW a, NEW b
  PROVE  /\ Len(<<a>>) = 1 /\ Head(<<a>>) = a /\ SubSeq(<<a>>, 2, 1) = <<>>
         /\ Len(<<a, b>>) = 2 /\ Head(<<a, b>>) = a
         /\ SubSeq(<<a, b>>, 2, 2) = <<b>> /\ SubSeq(<<a, b>>, 3, 2) = <<>>
         /\ Append(<<>>, a) = <<a>> /\ Append(<<a>>, b) = <<a, b>>
         /\ <<a>> # <<>> /\ <<a, b>> # <<>> /\ Len(<<>>) = 0
<1> DEFINE T == {a, b}
<1>1. <<a>> \in Seq(T) /\ <<a, b>> \in Seq(T) /\ <<>> \in Seq(T)
  OBVIOUS
<1>2. Len(<<a>>) = 1 /\ Len(<<a, b>>) = 2 /\ Len(<<>>) = 0
  OBVIOUS
<1>3. SubSeq(<<a>>, 2, 1) = <<>> /\ SubSeq(<<a, b>>, 3, 2) = <<>>
  BY <1>1, <1>2
<1>4. /\ SubSeq(<<a, b>>, 2, 2) \in Seq(T)
      /\ Len(SubSeq(<<a, b>>, 2, 2)) = 1
      /\ SubSeq(<<a, b>>, 2, 2)[1] = b
  BY <1>1, <1>2
<1>5. SubSeq(<<a, b>>, 2, 2) = <<b>>
  <2>1. <<b>> \in Seq(T) /\ Len(<<b>>) = 1 /\ <<b>>[1] = b
    OBVIOUS
  <2>2. \A i \in 1 .. 1 : SubSeq(<<a, b>>, 2, 2)[i] = <<b>>[i]
    BY <1>4, <2>1
  <2> HIDE DEF T
  <2> QED BY <1>4, <2>1, <2>2, SeqEqual
<1>6. Append(<<>>, a) = <<a>> /\ Append(<<a>>, b) = <<a, b>>
  <2>1. Append(<<>>, a) \in Seq(T) /\ Len(Append(<<>>, a)) = 1 /\ Append(<<>>, a)[1] = a
    BY <1>1, <1>2
  <2>2. \A i \in 1 .. 1 : Append(<<>>, a)[i] = <<a>>[i]
    BY <2>1
  <2>3. /\ Append(<<a>>, b) \in Seq(T)
        /\ Len(Append(<<a>>, b)) = 2
        /\ Append(<<a>>, b)[1] = a /\ Append(<<a>>, b)[2] = b
    BY <1>1, <1>2
  <2>4. \A i \in 1 .. 2 : Append(<<a>>, b)[i] = <<a, b>>[i]
    BY <2>3
  <2>5. Append(<<>>, a) = <<a>>
    <3> HIDE DEF T
    <3> QED BY <1>1, <1>2, <2>1, <2>2, SeqEqual
  <2>6. Append(<<a>>, b) = <<a, b>>
    <3> HIDE DEF T
    <3> QED BY <1>1, <1>2, <2>3, <2>4, SeqEqual
  <2> QED BY <2>5, <2>6
<1>7. Head(<<a>>) = a /\ Head(<<a, b>>) = a /\ <<a>> # <<>> /\ <<a, b>> # <<>>
  OBVIOUS
<1> QED BY <1>2, <1>3, <1>5, <1>6, <1>7

LEMMA LinesTyped ==
  /\ \A r \in Results : ResultLine(r) \in [result : Results] /\ ResultLine(r).result = r
  /\ \A m \in Moves \cup {Bad} : ShotLine(m) \in [shot : Moves \cup {Bad}] /\ ShotLine(m).shot = m
BY DEF ResultLine, ShotLine

LEMMA LostLine ==
  ASSUME TypeInv, NEW n \in Nat \ {0}, lost' = (lost \/ n > 1)
  PROVE  (n = 1 => lost' = lost) /\ (n # 1 => lost' = TRUE)
<1>1. lost \in BOOLEAN
  BY DEF TypeInv, TypeOK
<1>2. n > 1 <=> n # 1
  OBVIOUS
<1> QED BY <1>1, <1>2, Zenon

(* What each step changes, for the player that takes it and for the other. *)
LEMMA FireEffect ==
  ASSUME TypeInv, NEW p \in Players, NEW m \in MovesOf[p], Fire(p, m), NEW q, q = Other(p)
  PROVE  /\ pc[p] = "aim" /\ pc'[p] = "result" /\ pc'[q] = pc[q]
         /\ shot'[p] = m /\ shot'[q] = shot[q]
         /\ wire'[p] = wire[p]
         /\ wire'[q] = IF Gone(q) THEN wire[q] ELSE Append(wire[q], ShotLine(m))
         /\ lost' = lost
BY OtherPlayer DEF TypeInv, TypeOK, Fire, Send, ShotLine

LEMMA TakeResultEffect ==
  ASSUME TypeInv, NEW p \in Players, NEW n \in 1 .. Len(wire[p]), TakeResult(p, n),
         NEW q, q = Other(p), NEW r, r = Head(wire[p]).result
  PROVE  /\ pc[p] = "result" /\ shot[p] # Bad
         /\ pc'[p] = IF r = "MISS" THEN "guard" ELSE IF left'[p] = 0 THEN "over" ELSE "aim"
         /\ pc'[q] = pc[q]
         /\ shot'[p] = Bad /\ shot'[q] = shot[q]
         /\ wire'[p] = SubSeq(wire[p], n + 1, Len(wire[p])) /\ wire'[q] = wire[q]
         /\ n = 1 => lost' = lost
         /\ n # 1 => lost' = TRUE
<1>1. weight[p] # 0 /\ left[p] # 0 /\ pc[p] = "result"
  BY DEF TypeInv, StillOn, Gone, TakeResult
<1>2. left'[p] = IF r # "MISS" /\ picture[p][CellOf(shot[p])] = "UNKNOWN" THEN left[p] - 1 ELSE left[p]
  BY DEF TakeResult, TypeInv, TypeOK
<1>3. pc' = [pc EXCEPT ![p] = NextOrEnd(weight[p], left'[p], AfterResult(r))]
  BY DEF TakeResult
<1>4. pc'[p] = IF r = "MISS" THEN "guard" ELSE IF left'[p] = 0 THEN "over" ELSE "aim"
  BY <1>1, <1>2, <1>3 DEF TypeInv, TypeOK, NextOrEnd, IsGameEnded, AfterResult
<1>5. lost' = (lost \/ n > 1)
  BY DEF TakeResult
<1>6. (n = 1 => lost' = lost) /\ (n # 1 => lost' = TRUE)
  <2>1. wire[p] \in Seq(Lines)
    BY DEF TypeInv, TypeOK
  <2>2. n \in Nat \ {0}
    BY <2>1
  <2> QED BY <1>5, <2>2, LostLine
<1>7. /\ pc'[q] = pc[q] /\ shot[p] # Bad
      /\ shot'[p] = Bad /\ shot'[q] = shot[q]
      /\ wire'[p] = SubSeq(wire[p], n + 1, Len(wire[p])) /\ wire'[q] = wire[q]
  BY <1>3, OtherPlayer DEF TypeInv, TypeOK, TakeResult, Take
<1> QED BY <1>1, <1>4, <1>6, <1>7

LEMMA TakeShotEffect ==
  ASSUME TypeInv, NEW p \in Players, NEW n \in 1 .. Len(wire[p]), TakeShot(p, n),
         NEW q, q = Other(p), NEW m, m = Head(wire[p]).shot, NEW r, r = ShotResult(own[p], m)
  PROVE  /\ pc[p] = "guard" /\ m # Bad /\ r \in Results
         /\ pc'[p] = IF r = "MISS" THEN "aim" ELSE IF weight'[p] = 0 THEN "over" ELSE "guard"
         /\ pc'[q] = pc[q]
         /\ shot'[p] = shot[p] /\ shot'[q] = shot[q]
         /\ wire'[p] = SubSeq(wire[p], n + 1, Len(wire[p]))
         /\ wire'[q] = IF Gone(q) THEN wire[q] ELSE Append(wire[q], ResultLine(r))
         /\ n = 1 => lost' = lost
         /\ n # 1 => lost' = TRUE
<1>1. weight[p] # 0 /\ left[p] # 0 /\ pc[p] = "guard" /\ m # Bad
  BY DEF TypeInv, StillOn, Gone, TakeShot
<1>2. r \in Results
  BY DEF ShotResult, Results
<1>3. weight'[p] = IF r = "MISS" THEN weight[p] ELSE weight[p] - 1
  BY DEF TakeShot, TypeInv, TypeOK
<1>4. pc' = [pc EXCEPT ![p] = NextOrEnd(weight'[p], left[p], IF r = "MISS" THEN "aim" ELSE "guard")]
  BY DEF TakeShot
<1>5. pc'[p] = IF r = "MISS" THEN "aim" ELSE IF weight'[p] = 0 THEN "over" ELSE "guard"
  BY <1>1, <1>3, <1>4 DEF TypeInv, TypeOK, NextOrEnd, IsGameEnded
<1>6. wire' = Send(q, ResultLine(r), Take(p, n)) /\ shot' = shot /\ lost' = (lost \/ n > 1)
  BY DEF TakeShot, ResultLine
<1>7. /\ Take(p, n)[p] = SubSeq(wire[p], n + 1, Len(wire[p]))
      /\ Take(p, n)[q] = wire[q]
      /\ DOMAIN Take(p, n) = Players
  BY OtherPlayer DEF TypeInv, TypeOK, Take
<1>8. /\ wire'[p] = SubSeq(wire[p], n + 1, Len(wire[p]))
      /\ wire'[q] = IF Gone(q) THEN wire[q] ELSE Append(wire[q], ResultLine(r))
  BY <1>6, <1>7, OtherPlayer DEF Send
<1>9. (n = 1 => lost' = lost) /\ (n # 1 => lost' = TRUE)
  <2>1. wire[p] \in Seq(Lines)
    BY DEF TypeInv, TypeOK
  <2>2. n \in Nat \ {0}
    BY <2>1
  <2> QED BY <1>6, <2>2, LostLine
<1>10. pc'[q] = pc[q]
  BY <1>4, OtherPlayer DEF TypeInv, TypeOK
<1> QED BY <1>1, <1>2, <1>5, <1>6, <1>8, <1>9, <1>10

LEMMA EndEffect ==
  ASSUME TypeInv, NEW p \in Players, NEW q, q = Other(p),
         ResultFails(p) \/ ShotThrows(p) \/ Quit(p)
  PROVE  /\ pc'[q] = pc[q] /\ shot'[q] = shot[q] /\ wire'[q] = wire[q]
         /\ ~ Gone(p) /\ wire'[p] = <<>>
         /\ lost' = lost
         /\ pc'[p] = "dead" \/ (/\ pc[p] = "result" /\ pc'[p] = "aim" /\ Gone(q)
                                /\ wire[p] = <<>> \/ pc[q] = "dead")
<1>1. CASE ResultFails(p)
  BY <1>1, OtherPlayer DEF TypeInv, TypeOK, ResultFails, ReadFails, Gone
<1>2. CASE ShotThrows(p)
  BY <1>2, OtherPlayer DEF TypeInv, TypeOK, ShotThrows, Gone
<1>3. CASE Quit(p)
  BY <1>3, OtherPlayer DEF TypeInv, TypeOK, Quit, Gone
<1> QED BY <1>1, <1>2, <1>3

-----------------------------------------------------------------------------
(* Every step goes from one phase to another.                              *)
LEMMA SeenFrom ==
  ASSUME PhaseInv, NEW p \in Players
  PROVE  Phase(p) \/ Phase(Other(p))
BY OtherPlayer DEF PhaseInv

LEMMA PhaseFire ==
  ASSUME TypeInv, PhaseInv, NEW p \in Players, NEW m \in MovesOf[p], Fire(p, m)
  PROVE  PhaseInv'
<1> DEFINE q == Other(p)
<1>1. /\ pc[p] = "aim" /\ pc'[p] = "result" /\ pc'[q] = pc[q]
      /\ shot'[p] = m /\ shot'[q] = shot[q]
      /\ wire'[p] = wire[p]
      /\ wire'[q] = IF Gone(q) THEN wire[q] ELSE Append(wire[q], ShotLine(m))
      /\ lost' = lost
  BY FireEffect
<1>2. q \in Players /\ Other(q) = p
  BY OtherPlayer
<1> HIDE DEF q
<1>3. Aiming(p) \/ LeftAlone(p) \/ MissSent(q) \/ Ended(q)
  <2>1. Phase(p) \/ Phase(q)
    BY SeenFrom DEF q
  <2> QED BY <1>1, <1>2, <2>1 DEF q, Phase, Aiming, ShotSent, HitSent, MissSent, BothSent,
                                LostShot, Ended, LeftAlone
<1>4. CASE Aiming(p)
  <2>1. ShotSent(p)'
    BY <1>1, <1>4, ShortLines DEF q, Aiming, ShotSent, Gone
  <2> QED BY <2>1 DEF PhaseInv, Phase
<1>5. CASE LeftAlone(p)
  <2>1. LeftAlone(p)'
    BY <1>1, <1>5, ShortLines DEF q, LeftAlone, Leftover, Gone
  <2> QED BY <2>1 DEF PhaseInv, Phase
<1>6. CASE MissSent(q)
  <2>1. BothSent(q)'
    BY <1>1, <1>2, <1>6, ShortLines DEF MissSent, BothSent, Gone
  <2> QED BY <1>2, <2>1 DEF PhaseInv, Phase
<1>7. CASE Ended(q)
  <2>1. Ended(q)'
    BY <1>1, <1>2, <1>7 DEF Ended, Gone
  <2> QED BY <1>2, <2>1 DEF PhaseInv, Phase
<1> QED BY <1>3, <1>4, <1>5, <1>6, <1>7

LEMMA PhaseTakeResult ==
  ASSUME TypeInv, PhaseInv, NEW p \in Players, NEW n \in 1 .. Len(wire[p]), TakeResult(p, n)
  PROVE  PhaseInv' /\ Head(wire[p]) \in [result : Results]
<1> DEFINE q == Other(p)
           r == Head(wire[p]).result
<1>1. /\ pc[p] = "result" /\ shot[p] # Bad
      /\ pc'[p] = IF r = "MISS" THEN "guard" ELSE IF left'[p] = 0 THEN "over" ELSE "aim"
      /\ pc'[q] = pc[q]
      /\ shot'[p] = Bad /\ shot'[q] = shot[q]
      /\ wire'[p] = SubSeq(wire[p], n + 1, Len(wire[p])) /\ wire'[q] = wire[q]
      /\ n = 1 => lost' = lost
      /\ n # 1 => lost' = TRUE
  BY TakeResultEffect
<1>2. q \in Players /\ Other(q) = p
  BY OtherPlayer
<1>3. wire[p] # <<>>
  BY ShortLines
<1> HIDE DEF q, r
<1>4. HitSent(p) \/ MissSent(p) \/ BothSent(p) \/ LeftAlone(p)
  <2>1. Phase(p) \/ Phase(q)
    BY SeenFrom DEF q
  <2> QED BY <1>1, <1>2, <1>3, <2>1 DEF q, Phase, Aiming, ShotSent, HitSent, MissSent, BothSent,
                                LostShot, Ended, LeftAlone
<1>5. CASE HitSent(p)
  <2>1. PICK h \in {"HIT", "KILL"} : wire[p] = <<ResultLine(h)>>
    BY <1>5 DEF HitSent
  <2>2. h \in Results /\ ResultLine(h) \in [result : Results] /\ ResultLine(h).result = h
    BY LinesTyped DEF Results
  <2>3. Head(wire[p]) = ResultLine(h) /\ r = h /\ n = 1 /\ wire'[p] = <<>>
    BY <1>1, <2>1, <2>2, ShortLines DEF r
  <2>4. pc'[p] \in {"over", "aim"}
    BY <1>1, <2>2, <2>3
  <2>5. CASE pc[q] = "over"
    <3>1. Ended(q)'
      BY <1>1, <1>2, <1>5, <2>3, <2>4, <2>5 DEF q, HitSent, Ended
    <3> QED BY <1>2, <2>2, <2>3, <3>1 DEF PhaseInv, Phase
  <2>6. CASE pc[q] = "guard" /\ pc'[p] = "aim"
    <3>1. Aiming(p)'
      BY <1>1, <1>5, <2>3, <2>6 DEF q, HitSent, Aiming
    <3> QED BY <2>2, <2>3, <3>1 DEF PhaseInv, Phase
  <2>7. CASE pc[q] = "guard" /\ pc'[p] = "over"
    <3>1. Ended(p)'
      BY <1>1, <1>5, <2>3, <2>7 DEF q, HitSent, Ended
    <3> QED BY <2>2, <2>3, <3>1 DEF PhaseInv, Phase
  <2> QED BY <1>5, <2>4, <2>5, <2>6, <2>7 DEF q, HitSent
<1>6. CASE MissSent(p)
  <2>1. "MISS" \in Results /\ ResultLine("MISS") \in [result : Results] /\ ResultLine("MISS").result = "MISS"
    BY LinesTyped DEF Results
  <2>2. Head(wire[p]) = ResultLine("MISS") /\ r = "MISS" /\ n = 1 /\ wire'[p] = <<>>
    BY <1>1, <1>6, <2>1, ShortLines DEF r, MissSent
  <2>3. Aiming(q)'
    BY <1>1, <1>2, <1>6, <2>2 DEF q, MissSent, Aiming
  <2> QED BY <1>2, <2>1, <2>2, <2>3 DEF PhaseInv, Phase
<1>7. CASE BothSent(p)
  <2>1. "MISS" \in Results /\ ResultLine("MISS") \in [result : Results] /\ ResultLine("MISS").result = "MISS"
    BY LinesTyped DEF Results
  <2>2. wire[p] = <<ResultLine("MISS"), ShotLine(shot[q])>>
    BY <1>7 DEF q, BothSent
  <2>3. Head(wire[p]) = ResultLine("MISS") /\ r = "MISS" /\ n \in 1 .. 2 /\ Len(wire[p]) = 2
    BY <2>1, <2>2, ShortLines DEF r
  <2>4. CASE n = 1
    <3>1. wire'[p] = <<ShotLine(shot'[q])>>
      <4>1. wire'[p] = SubSeq(wire[p], 2, 2)
        BY <1>1, <2>3, <2>4
      <4>2. SubSeq(<<ResultLine("MISS"), ShotLine(shot[q])>>, 2, 2) = <<ShotLine(shot[q])>>
        BY ShortLines
      <4> QED BY <1>1, <2>2, <4>1, <4>2, Zenon
    <3>2. ShotSent(q)'
      BY <1>1, <1>2, <1>7, <2>3, <2>4, <3>1 DEF q, BothSent, ShotSent
    <3> QED BY <1>2, <2>1, <2>3, <3>2 DEF PhaseInv, Phase
  <2>5. CASE n = 2
    <3>1. wire'[p] = <<>>
      BY <1>1, <2>2, <2>3, <2>5, ShortLines
    <3>2. LostShot(p)'
      BY <1>1, <1>7, <2>3, <2>5, <3>1 DEF q, BothSent, LostShot
    <3> QED BY <2>1, <2>3, <3>2 DEF PhaseInv, Phase
  <2> QED BY <2>3, <2>4, <2>5
<1>8. CASE LeftAlone(p)
  <2>1. pc'[q] = "dead" /\ wire'[q] = <<>>
    BY <1>1, <1>8 DEF q, LeftAlone
  <2>2. CASE \E h \in Results : wire[p] = <<ResultLine(h)>>
    <3>1. PICK h \in Results : wire[p] = <<ResultLine(h)>>
      BY <2>2
    <3>2. Head(wire[p]) = ResultLine(h) /\ ResultLine(h) \in [result : Results] /\ wire'[p] = <<>>
      BY <1>1, <3>1, LinesTyped, ShortLines
    <3>3. LeftAlone(p)'
      BY <2>1, <3>2 DEF q, LeftAlone, Leftover
    <3> QED BY <3>2, <3>3 DEF PhaseInv, Phase
  <2>3. CASE \E m \in Moves \cup {Bad} : wire[p] = <<ResultLine("MISS"), ShotLine(m)>>
    <3>1. PICK m \in Moves \cup {Bad} : wire[p] = <<ResultLine("MISS"), ShotLine(m)>>
      BY <2>3
    <3>2. /\ Head(wire[p]) = ResultLine("MISS") /\ ResultLine("MISS") \in [result : Results]
          /\ r = "MISS" /\ n \in 1 .. 2 /\ Len(wire[p]) = 2
      BY <3>1, LinesTyped, ShortLines DEF r, Results
    <3>3. wire'[p] = <<>> \/ wire'[p] = <<ShotLine(m)>>
      <4>1. wire'[p] = SubSeq(wire[p], 2, 2) \/ wire'[p] = SubSeq(wire[p], 3, 2)
        BY <1>1, <3>2
      <4>2. /\ SubSeq(<<ResultLine("MISS"), ShotLine(m)>>, 2, 2) = <<ShotLine(m)>>
            /\ SubSeq(<<ResultLine("MISS"), ShotLine(m)>>, 3, 2) = <<>>
        BY ShortLines
      <4> QED BY <3>1, <4>1, <4>2, Zenon
    <3>4. pc'[p] = "guard"
      BY <1>1, <3>2
    <3>5. LeftAlone(p)'
      BY <2>1, <3>3, <3>4 DEF q, LeftAlone, Leftover
    <3> QED BY <3>2, <3>5 DEF PhaseInv, Phase
  <2> QED BY <1>1, <1>3, <1>8, <2>2, <2>3 DEF LeftAlone, Leftover
<1> QED BY <1>4, <1>5, <1>6, <1>7, <1>8

LEMMA PhaseTakeShot ==
  ASSUME TypeInv, PhaseInv, NEW p \in Players, NEW n \in 1 .. Len(wire[p]), TakeShot(p, n)
  PROVE  /\ PhaseInv'
         /\ Head(wire[p]) \in [shot : Moves \cup {Bad}]
         /\ wire[p] = <<ShotLine(Head(wire[p]).shot)>>
         /\ (ShotSent(Other(p)) /\ shot[Other(p)] \in Moves) \/ LeftAlone(p)
<1> DEFINE q == Other(p)
           m == Head(wire[p]).shot
           r == ShotResult(own[p], m)
<1>1. /\ pc[p] = "guard" /\ m # Bad /\ r \in Results
      /\ pc'[p] = IF r = "MISS" THEN "aim" ELSE IF weight'[p] = 0 THEN "over" ELSE "guard"
      /\ pc'[q] = pc[q]
      /\ shot'[p] = shot[p] /\ shot'[q] = shot[q]
      /\ wire'[p] = SubSeq(wire[p], n + 1, Len(wire[p]))
      /\ wire'[q] = IF Gone(q) THEN wire[q] ELSE Append(wire[q], ResultLine(r))
      /\ n = 1 => lost' = lost
      /\ n # 1 => lost' = TRUE
  BY TakeShotEffect
<1>2. q \in Players /\ Other(q) = p
  BY OtherPlayer
<1>3. wire[p] # <<>>
  BY ShortLines
<1> HIDE DEF q, r
<1>4. ShotSent(q) \/ LeftAlone(p)
  <2>1. Phase(p) \/ Phase(q)
    BY SeenFrom DEF q
  <2> QED BY <1>1, <1>2, <1>3, <2>1 DEF q, Phase, Aiming, ShotSent, HitSent, MissSent, BothSent,
                                LostShot, Ended, LeftAlone
<1>5. CASE ShotSent(q)
  <2>1. wire[p] = <<ShotLine(shot[q])>> /\ shot[q] \in Moves \cup {Bad}
    BY <1>2, <1>5 DEF ShotSent, TypeInv, TypeOK
  <2>2. /\ Head(wire[p]) = ShotLine(shot[q]) /\ ShotLine(shot[q]) \in [shot : Moves \cup {Bad}]
        /\ m = shot[q] /\ n = 1 /\ wire'[p] = <<>>
    BY <1>1, <2>1, LinesTyped, ShortLines
  <2>3. shot[q] \in Moves
    BY <1>1, <2>1, <2>2
  <2>4. wire'[q] = <<ResultLine(r)>>
    BY <1>1, <1>5, ShortLines DEF ShotSent, Gone
  <2>5. CASE r = "MISS"
    <3>1. wire'[q] = <<ResultLine("MISS")>> /\ pc'[p] = "aim"
      BY <1>1, <2>4, <2>5
    <3>2. /\ pc'[q] = "result" /\ wire'[p] = <<>> /\ shot'[q] \in Moves
          /\ lost' = FALSE
      BY <1>1, <1>5, <2>2, <2>3 DEF ShotSent
    <3>3. MissSent(q)'
      BY <1>2, <3>1, <3>2 DEF MissSent
    <3> QED BY <1>2, <1>5, <2>1, <2>2, <2>3, <3>3 DEF q, PhaseInv, Phase
  <2>6. CASE r # "MISS"
    <3>1. r \in {"HIT", "KILL"}
      BY <1>1, <2>6 DEF Results
    <3>2. /\ pc'[q] = "result" /\ pc'[p] \in {"guard", "over"}
          /\ wire'[p] = <<>> /\ shot'[q] \in Moves /\ lost' = FALSE
      BY <1>1, <1>2, <1>5, <2>2, <2>3, <2>6 DEF ShotSent
    <3>3. \E x \in {"HIT", "KILL"} : wire'[q] = <<ResultLine(x)>>
      BY <2>4, <3>1
    <3>4. HitSent(q)'
      BY <1>2, <3>2, <3>3 DEF HitSent
    <3> QED BY <1>2, <1>5, <2>1, <2>2, <2>3, <3>4 DEF q, PhaseInv, Phase
  <2> QED BY <2>5, <2>6
<1>6. CASE LeftAlone(p)
  <2>1. PICK l \in Moves \cup {Bad} : wire[p] = <<ShotLine(l)>>
    BY <1>1, <1>3, <1>6 DEF LeftAlone, Leftover
  <2>2. /\ Head(wire[p]) = ShotLine(l) /\ ShotLine(l) \in [shot : Moves \cup {Bad}]
        /\ m = l /\ wire'[p] = <<>>
    BY <1>1, <2>1, LinesTyped, ShortLines
  <2>3. LeftAlone(p)'
    BY <1>1, <1>6, <2>2 DEF q, LeftAlone, Leftover, Gone
  <2> QED BY <1>6, <2>1, <2>2, <2>3 DEF PhaseInv, Phase
<1> QED BY <1>4, <1>5, <1>6

LEMMA PhaseEnd ==
  ASSUME TypeInv, PhaseInv, NEW p \in Players, ResultFails(p) \/ ShotThrows(p) \/ Quit(p)
  PROVE  PhaseInv'
<1> DEFINE q == Other(p)
<1>1. /\ pc'[q] = pc[q] /\ shot'[q] = shot[q] /\ wire'[q] = wire[q]
      /\ ~ Gone(p) /\ wire'[p] = <<>>
      /\ lost' = lost
      /\ pc'[p] = "dead" \/ (/\ pc[p] = "result" /\ pc'[p] = "aim" /\ Gone(q)
                             /\ wire[p] = <<>> \/ pc[q] = "dead")
  BY EndEffect
<1>2. q \in Players /\ Other(q) = p
  BY OtherPlayer
<1> HIDE DEF q
<1>3. Phase(p) \/ Phase(q)
  BY SeenFrom DEF q
<1>4. CASE pc'[p] = "dead"
  <2>1. pc[p] \in {"aim", "result", "guard"}
    BY <1>1 DEF Gone, TypeInv, TypeOK
  <2>2. Leftover(q)'
    <3>1. shot[p] \in Moves \cup {Bad} /\ shot[q] \in Moves \cup {Bad}
      BY <1>2 DEF TypeInv, TypeOK
    <3>2. CASE wire[q] = <<>>
      BY <1>1, <3>2 DEF Leftover
    <3>3. CASE wire[q] # <<>>
      <4>1. ShotSent(p) \/ HitSent(q) \/ MissSent(q) \/ BothSent(q)
        BY <1>2, <1>3, <2>1, <3>3 DEF q, Phase, Aiming, ShotSent, HitSent, MissSent, BothSent,
                                    LostShot, Ended, LeftAlone
      <4>2. CASE ShotSent(p)
        BY <1>1, <3>1, <4>2 DEF q, ShotSent, Leftover
      <4>3. CASE HitSent(q)
        BY <1>1, <4>3 DEF HitSent, Leftover, Results
      <4>4. CASE MissSent(q)
        BY <1>1, <4>4 DEF MissSent, Leftover, Results
      <4>5. CASE BothSent(q)
        BY <1>1, <1>2, <3>1, <4>5 DEF BothSent, Leftover
      <4> QED BY <4>1, <4>2, <4>3, <4>4, <4>5
    <3> QED BY <3>2, <3>3
  <2>3. LeftAlone(q)'
    BY <1>1, <1>2, <1>4, <2>2 DEF LeftAlone
  <2> QED BY <1>2, <2>3 DEF PhaseInv, Phase
<1>5. CASE /\ pc[p] = "result" /\ pc'[p] = "aim" /\ Gone(q)
           /\ wire[p] = <<>> \/ pc[q] = "dead"
  <2>1. LeftAlone(p) \/ Ended(q)
    BY <1>2, <1>3, <1>5, ShortLines DEF q, Gone, Phase, Aiming, ShotSent, HitSent, MissSent, BothSent,
                                    LostShot, Ended, LeftAlone
  <2>2. CASE LeftAlone(p)
    <3>1. LeftAlone(p)'
      BY <1>1, <2>2 DEF q, LeftAlone, Leftover
    <3> QED BY <3>1 DEF PhaseInv, Phase
  <2>3. CASE Ended(q)
    <3>1. Ended(q)'
      BY <1>1, <1>2, <1>5, <2>3 DEF Ended
    <3> QED BY <1>2, <3>1 DEF PhaseInv, Phase
  <2> QED BY <2>1, <2>2, <2>3
<1> QED BY <1>1, <1>4, <1>5

-----------------------------------------------------------------------------
LEMMA PhasesInit == Init => PhaseInv
<1> SUFFICES ASSUME Init PROVE PhaseInv
  OBVIOUS
<1>1. "client" \in Players /\ Other("client") = "server" /\ "server" \in Players
  BY DEF Players, Other
<1>2. Aiming("client")
  BY <1>1 DEF Init, Aiming
<1> QED BY <1>1, <1>2 DEF PhaseInv, Phase

LEMMA PhasesStep == TypeInv /\ PhaseInv /\ [Next]_vars => TypeInv' /\ PhaseInv'
<1> SUFFICES ASSUME TypeInv, PhaseInv, [Next]_vars PROVE TypeInv' /\ PhaseInv'
  OBVIOUS
<1>1. ASSUME NEW p \in Players, NEW m \in MovesOf[p], Fire(p, m)
      PROVE  TypeInv' /\ PhaseInv'
  BY <1>1, TypesFire, PhaseFire
<1>2. ASSUME NEW p \in Players, NEW n \in 1 .. Len(wire[p]), TakeResult(p, n)
      PROVE  TypeInv' /\ PhaseInv'
  BY <1>2, TypesTakeResult, PhaseTakeResult
<1>3. ASSUME NEW p \in Players, NEW n \in 1 .. Len(wire[p]), TakeShot(p, n)
      PROVE  TypeInv' /\ PhaseInv'
  BY <1>3, TypesTakeShot, PhaseTakeShot
<1>4. ASSUME NEW p \in Players, ResultFails(p) \/ ShotThrows(p) \/ Quit(p)
      PROVE  TypeInv' /\ PhaseInv'
  BY <1>4, TypesEnd, PhaseEnd
<1>5. CASE UNCHANGED vars
  <2>1. TypeInv'
    BY <1>5 DEF vars, TypeInv, TypeOK, StillOn, Gone
  <2>2. \A p \in Players : Phase(p)' <=> Phase(p)
    BY <1>5 DEF vars, Phase, Aiming, ShotSent, HitSent, MissSent, BothSent, LostShot, Ended,
                LeftAlone, Leftover
  <2> QED BY <2>1, <2>2 DEF PhaseInv
<1> QED BY <1>1, <1>2, <1>3, <1>4, <1>5 DEF Next, Read

(* The inductive invariant of the connection: the game is in one of eight  *)
(* phases, which say where both loops are and what is on the way.          *)
THEOREM GameHasPhases == Spec => [](TypeInv /\ PhaseInv)
<1>1. Init => TypeInv /\ PhaseInv
  BY TypesInit, PhasesInit
<1> QED BY <1>1, PhasesStep, PTL DEF Spec

(* The variables of both agents keep their types; in particular no weight  *)
(* becomes negative.                                                       *)
THEOREM AgentsTyped == Spec => []TypeOK
<1>1. TypeInv => TypeOK
  BY DEF TypeInv
<1> QED BY <1>1, GameHasPhases, PTL

(* The players wait for each other in vain exactly when a line was lost    *)
(* with a read buffer, for every size of the field and every play.         *)
THEOREM OnlyLossIsStuck == Spec => []StuckOnlyByLoss
<1>1. ASSUME TypeInv, PhaseInv PROVE StuckOnlyByLoss
  <2>1. PICK p \in Players : Phase(p)
    BY <1>1 DEF PhaseInv
  <2>2. /\ \A x \in Players : x = p \/ x = Other(p)
        /\ Other(p) \in Players
    BY OtherPlayer
  <2>3. Stuck => LostShot(p)
    BY <2>1, <2>2, ShortLines DEF Stuck, Phase, Aiming, ShotSent, HitSent, MissSent, BothSent,
                                  Ended, LeftAlone
  <2>4. lost => LostShot(p) \/ LeftAlone(p)
    BY <2>1 DEF Phase, Aiming, ShotSent, HitSent, MissSent, BothSent, Ended
  <2>5. LostShot(p) => Stuck /\ lost
    BY <2>2 DEF LostShot, Stuck
  <2>6. LeftAlone(p) => SomebodyQuit
    BY <2>2 DEF LeftAlone, SomebodyQuit
  <2> QED BY <2>3, <2>4, <2>5, <2>6 DEF StuckOnlyByLoss
<1> QED BY <1>1, GameHasPhases, PTL

-----------------------------------------------------------------------------
(***************************************************************************)
(* The picture.  A result on the way is true of the field it comes from,   *)
(* and the picture of its receiver is right but for that one cell.         *)
(***************************************************************************)
ResultIsTrue(p, r) ==
  LET c == CellOf(shot[p]) IN
  /\ r = "MISS" => /\ own[Other(p)][c] # "SHIP"
                   /\ own[Other(p)][c] = "KILLED" => picture[p][c] = "KILLED"
  /\ r # "MISS" => own[Other(p)][c] = "KILLED" /\ picture[p][c] = "UNKNOWN"
  /\ r = "KILL" => IsKilled(own[Other(p)], shot[p])

AnswerIsTrue(p) == Answered(p) => ResultIsTrue(p, Head(wire[p]).result)

(* A result that p will never see.                                         *)
Missed(p) == pc[p] = "dead" \/ (pc[Other(p)] = "dead" /\ wire[p] = <<>>)

Knows(p) ==
  \A c \in Cells :
    /\ picture[p][c] = "EMPTY" => own[Other(p)][c] = "EMPTY"
    /\ picture[p][c] = "KILLED" => own[Other(p)][c] = "KILLED"
    /\ (own[Other(p)][c] = "KILLED" /\ picture[p][c] # "KILLED")
         => (Answered(p) /\ c = CellOf(shot[p])) \/ Missed(p)

KilledCells(g) == {c \in Cells : g[c] = "KILLED"}

Counts(p) ==
  /\ weight[p] = Cardinality(ShipCells(own[p]))
  /\ left[p] = Weight - Cardinality(KilledCells(picture[p]))

PictureInv == \A p \in Players : AnswerIsTrue(p) /\ Knows(p) /\ Counts(p)

LEMMA CellsFinite ==
  /\ IsFiniteSet(Cells)
  /\ \A S \in SUBSET Cells : IsFiniteSet(S) /\ Cardinality(S) \in Nat
<1>1. 0 \in Int /\ Size * Size - 1 \in Int
  BY SeaAssumption
<1>2. IsFiniteSet(Cells)
  BY <1>1, FS_Interval DEF Cells
<1> QED BY <1>2, FS_Subset, FS_CardinalityType

LEMMA PictureInit == Init => PictureInv
<1> SUFFICES ASSUME Init, NEW p \in Players
             PROVE  AnswerIsTrue(p) /\ Knows(p) /\ Counts(p)
  BY DEF PictureInv
<1>1. own[p] \in FieldsOf[p] /\ own[Other(p)] \in FieldsOf[Other(p)]
  BY OtherPlayer DEF Init
<1>2. own[Other(p)] \in [Cells -> {"EMPTY", "SHIP"}]
  BY <1>1, OtherPlayer, SeaAssumption, RandomHasNoCorners
<1>3. picture[p] = [c \in Cells |-> "UNKNOWN"] /\ wire[p] = <<>>
      /\ weight[p] = Weight /\ left[p] = Weight
  BY DEF Init
<1>4. KilledCells(picture[p]) = {}
  BY <1>3 DEF KilledCells
<1>5. Counts(p)
  <2>1. Cardinality(KilledCells(picture[p])) = 0
    BY <1>4, FS_EmptySet
  <2>2. Cardinality(ShipCells(own[p])) = Weight /\ Weight \in Nat
    BY <1>1, SeaAssumption
  <2> QED BY <1>3, <2>1, <2>2 DEF Counts
<1> QED BY <1>2, <1>3, <1>5 DEF AnswerIsTrue, Answered, Knows

(* What a step leaves alone stays right.                                   *)
LEMMA PictureKept ==
  ASSUME PictureInv, NEW p \in Players,
         own'[Other(p)] = own[Other(p)], picture'[p] = picture[p],
         Answered(p)' => /\ Answered(p) /\ shot'[p] = shot[p]
                         /\ Head(wire'[p]) = Head(wire[p]),
         Answered(p) => Answered(p)' \/ Missed(p)',
         Missed(p) => Missed(p)'
  PROVE  AnswerIsTrue(p)' /\ Knows(p)'
<1>1. AnswerIsTrue(p) /\ Knows(p)
  BY DEF PictureInv
<1>2. AnswerIsTrue(p)'
  BY <1>1 DEF AnswerIsTrue, ResultIsTrue
<1>3. Knows(p)'
  BY <1>1 DEF Knows
<1> QED BY <1>2, <1>3

LEMMA CountsKept ==
  ASSUME PictureInv, NEW p \in Players,
         own'[p] = own[p], weight'[p] = weight[p], picture'[p] = picture[p], left'[p] = left[p]
  PROVE  Counts(p)'
BY DEF PictureInv, Counts

LEMMA PictureFire ==
  ASSUME TypeInv, PhaseInv, PictureInv, NEW p \in Players, NEW m \in MovesOf[p], Fire(p, m)
  PROVE  PictureInv'
<1> DEFINE q == Other(p)
<1>1. /\ pc[p] = "aim" /\ pc'[p] = "result" /\ pc'[q] = pc[q]
      /\ shot'[p] = m /\ shot'[q] = shot[q]
      /\ wire'[p] = wire[p]
      /\ wire'[q] = IF Gone(q) THEN wire[q] ELSE Append(wire[q], ShotLine(m))
  BY FireEffect
<1>2. q \in Players /\ Other(q) = p /\ \A x \in Players : x = p \/ x = q
  BY OtherPlayer
<1>3. UNCHANGED <<own, weight, picture, left>>
  BY DEF Fire
<1> HIDE DEF q
<1>4. Aiming(p) \/ LeftAlone(p) \/ MissSent(q) \/ Ended(q)
  <2>1. Phase(p) \/ Phase(q)
    BY SeenFrom DEF q
  <2> QED BY <1>1, <1>2, <2>1 DEF q, Phase, Aiming, ShotSent, HitSent, MissSent, BothSent,
                                LostShot, Ended, LeftAlone
<1>5. wire[p] = <<>>
  BY <1>1, <1>2, <1>4 DEF q, Aiming, LeftAlone, Leftover, MissSent, Ended
<1>6. AnswerIsTrue(p)' /\ Knows(p)' /\ Counts(p)'
  <2>1. ~ Answered(p) /\ ~ Answered(p)'
    BY <1>1, <1>5 DEF Answered
  <2>2. Missed(p) => Missed(p)'
    BY <1>1, <1>5 DEF q, Missed
  <2> QED BY <1>3, <2>1, <2>2, PictureKept, CountsKept
<1>7. Answered(q) <=> MissSent(q)
  BY <1>1, <1>2, <1>4, ShortLines DEF q, Answered, Aiming, LeftAlone, MissSent, Ended
<1>8. Answered(q) => Answered(q)' /\ Head(wire'[q]) = Head(wire[q])
  BY <1>1, <1>2, <1>7, ShortLines DEF Answered, MissSent, Gone
<1>9. Answered(q)' => Answered(q)
  BY <1>1, <1>2, <1>4, <1>7 DEF q, Answered, Aiming, LeftAlone, Ended
<1>10. Missed(q) => Missed(q)'
  BY <1>1, <1>2 DEF Missed, Gone
<1>11. AnswerIsTrue(q)' /\ Knows(q)' /\ Counts(q)'
  BY <1>1, <1>2, <1>3, <1>8, <1>9, <1>10, PictureKept, CountsKept
<1> QED BY <1>2, <1>6, <1>11 DEF PictureInv

LEMMA PictureEnd ==
  ASSUME TypeInv, PhaseInv, PictureInv, NEW p \in Players,
         ResultFails(p) \/ ShotThrows(p) \/ Quit(p)
  PROVE  PictureInv'
<1> DEFINE q == Other(p)
<1>1. /\ pc'[q] = pc[q] /\ shot'[q] = shot[q] /\ wire'[q] = wire[q]
      /\ ~ Gone(p) /\ wire'[p] = <<>>
      /\ pc'[p] = "dead" \/ (/\ pc[p] = "result" /\ pc'[p] = "aim" /\ Gone(q)
                             /\ wire[p] = <<>> \/ pc[q] = "dead")
  BY EndEffect
<1>2. q \in Players /\ Other(q) = p /\ \A x \in Players : x = p \/ x = q
  BY OtherPlayer
<1>3. UNCHANGED <<own, weight, picture, left>>
  BY DEF ResultFails, ShotThrows, Quit
<1>4. AnswerIsTrue(p)' /\ Knows(p)' /\ Counts(p)'
  <2>1. ~ Answered(p)'
    BY <1>1 DEF Answered
  <2>2. Answered(p) => Missed(p)'
    BY <1>1 DEF q, Answered, Missed
  <2>3. Missed(p) => Missed(p)'
    BY <1>1 DEF q, Missed, Gone
  <2> QED BY <1>3, <2>1, <2>2, <2>3, PictureKept, CountsKept
<1>5. AnswerIsTrue(q)' /\ Knows(q)' /\ Counts(q)'
  <2>1. Answered(q)' <=> Answered(q)
    BY <1>1 DEF Answered
  <2>2. Missed(q) => Missed(q)'
    BY <1>1, <1>2 DEF Missed, Gone
  <2> QED BY <1>1, <1>2, <1>3, <2>1, <2>2, PictureKept, CountsKept
<1> QED BY <1>2, <1>4, <1>5 DEF PictureInv

LEMMA PictureTakeResult ==
  ASSUME TypeInv, PhaseInv, PictureInv,
         NEW p \in Players, NEW n \in 1 .. Len(wire[p]), TakeResult(p, n)
  PROVE  PictureInv'
<1> DEFINE q == Other(p)
           r == Head(wire[p]).result
           c0 == CellOf(shot[p])
           f == picture[p]
           g == Marked(picture[p], shot[p], r)
<1>1. /\ pc[p] = "result" /\ shot[p] # Bad
      /\ pc'[p] \in {"guard", "over", "aim"}
      /\ pc'[q] = pc[q] /\ shot'[q] = shot[q] /\ wire'[q] = wire[q]
  BY TakeResultEffect
<1>2. q \in Players /\ Other(q) = p /\ \A x \in Players : x = p \/ x = q
  BY OtherPlayer
<1>3. wire[p] # <<>>
  BY ShortLines
<1>4. Answered(p) /\ ~ Missed(p) /\ ~ Answered(p)'
  BY <1>1, <1>3 DEF Answered, Missed
<1>5. AnswerIsTrue(p) /\ Knows(p) /\ Counts(p)
  BY DEF PictureInv
<1>6. ResultIsTrue(p, r)
  BY <1>4, <1>5 DEF AnswerIsTrue
<1>7. r \in Results
  BY PhaseTakeResult
<1>8. shot[p] \in Moves /\ c0 \in Cells /\ f \in Pictures /\ Afloat(own[q]) /\ NoCorners(own[q])
  BY <1>1, <1>2, MoveCell DEF TypeInv, TypeOK, Pictures, Afloat
<1>9. /\ g \in Pictures
      /\ \A c \in Cells : g[c] = "KILLED" <=>
           f[c] = "KILLED" \/ (c = c0 /\ r # "MISS" /\ f[c] = "UNKNOWN")
      /\ \A c \in Cells : g[c] = "EMPTY" =>
           \/ f[c] = "EMPTY"
           \/ f[c] = "UNKNOWN" /\ r = "MISS" /\ c = c0
           \/ /\ f[c] = "UNKNOWN" /\ r = "KILL" /\ c # c0
              /\ \E d \in Dirs : c \in MarkKillInDirection(Mark(f, c0, "KILLED"), shot[p], d)
  <2> HIDE DEF r
  <2> QED BY <1>7, <1>8, MarkedField
<1>10. /\ picture'[p] = g /\ picture'[q] = picture[q]
       /\ left'[p] = IF r # "MISS" /\ f[c0] = "UNKNOWN" THEN left[p] - 1 ELSE left[p]
       /\ left'[q] = left[q] /\ own' = own /\ weight' = weight
  <2>1. /\ picture' = [picture EXCEPT ![p] = g]
        /\ left' = [left EXCEPT ![p] = IF r # "MISS" /\ f[c0] = "UNKNOWN" THEN left[p] - 1 ELSE left[p]]
        /\ own' = own /\ weight' = weight
    BY DEF TakeResult
  <2>2. DOMAIN picture = Players /\ DOMAIN left = Players /\ p # q
    BY OtherPlayer DEF TypeInv, TypeOK
  <2> HIDE DEF q, r, c0, f, g
  <2> QED BY <1>2, <2>1, <2>2
<1> HIDE DEF q, r, c0, f, g
<1>11. ASSUME NEW c \in Cells
       PROVE  /\ f[c] = "EMPTY" => own[q][c] = "EMPTY"
              /\ f[c] = "KILLED" => own[q][c] = "KILLED"
              /\ own[q][c] = "KILLED" /\ f[c] # "KILLED" => c = c0
              /\ own[q][c] \in {"EMPTY", "SHIP", "KILLED"}
  BY <1>4, <1>5, <1>8 DEF Knows, Afloat, q, f, c0
<1>12. /\ r = "MISS" => own[q][c0] # "SHIP" /\ (own[q][c0] = "KILLED" => f[c0] = "KILLED")
       /\ r # "MISS" => own[q][c0] = "KILLED" /\ f[c0] = "UNKNOWN"
       /\ r = "KILL" => IsKilled(own[q], shot[p])
  BY <1>6, Zenon DEF ResultIsTrue, q, f, c0
<1>13. ASSUME NEW c \in Cells, r = "KILL", f[c] = "UNKNOWN", c # c0, NEW d \in Dirs,
              c \in MarkKillInDirection(Mark(f, c0, "KILLED"), shot[p], d)
       PROVE  own[q][c] = "EMPTY"
  <2> DEFINE h == Mark(f, c0, "KILLED")
  <2>1. \A x \in Cells : h[x] = "KILLED" => own[q][x] = "KILLED"
    BY <1>8, <1>11, <1>12, <1>13 DEF Mark, Pictures
  <2>2. own[q][CellOf(shot[p])] = "KILLED" /\ IsKilled(own[q], shot[p])
    BY <1>12, <1>13 DEF c0
  <2>3. own[q][c] # "SHIP"
    <3> HIDE DEF h
    <3>1. c \in MarkKillInDirection(h, shot[p], d)
      BY <1>13 DEF h
    <3> QED BY <1>8, <2>1, <2>2, <3>1, KillMarksNoShip
  <2> QED BY <1>11, <1>13, <2>3
<1>14. Knows(p)'
  <2>1. ASSUME NEW c \in Cells
        PROVE  /\ g[c] = "EMPTY" => own[q][c] = "EMPTY"
               /\ g[c] = "KILLED" => own[q][c] = "KILLED"
               /\ own[q][c] = "KILLED" => g[c] = "KILLED"
    <3>1. g[c] = "EMPTY" => own[q][c] = "EMPTY"
      BY <1>9, <1>11, <1>12, <1>13
    <3>2. g[c] = "KILLED" => own[q][c] = "KILLED"
      BY <1>9, <1>11, <1>12
    <3>3. own[q][c] = "KILLED" => g[c] = "KILLED"
      BY <1>9, <1>11, <1>12
    <3> QED BY <3>1, <3>2, <3>3
  <2> QED BY <1>10, <2>1 DEF Knows, q
<1>15. AnswerIsTrue(p)'
  BY <1>4 DEF AnswerIsTrue
<1>16. Counts(p)'
  <2>1. /\ KilledCells(f) \subseteq Cells /\ IsFiniteSet(KilledCells(f))
        /\ Cardinality(KilledCells(f)) \in Nat
    BY CellsFinite DEF KilledCells
  <2>2. left[p] = Weight - Cardinality(KilledCells(f)) /\ Weight \in Nat
    BY <1>5, SeaAssumption DEF Counts, f
  <2>3. CASE r # "MISS" /\ f[c0] = "UNKNOWN"
    <3>1. KilledCells(g) = KilledCells(f) \cup {c0} /\ c0 \notin KilledCells(f)
      BY <1>8, <1>9, <2>3 DEF KilledCells
    <3>2. Cardinality(KilledCells(g)) = Cardinality(KilledCells(f)) + 1
      BY <2>1, <3>1, FS_AddElement
    <3>3. left'[p] = Weight - Cardinality(KilledCells(g))
      BY <1>10, <2>1, <2>2, <2>3, <3>2
    <3> QED BY <1>5, <1>10, <3>3 DEF Counts
  <2>4. CASE ~ (r # "MISS" /\ f[c0] = "UNKNOWN")
    <3>1. KilledCells(g) = KilledCells(f)
      BY <1>9, <2>4 DEF KilledCells
    <3> QED BY <1>5, <1>10, <2>2, <2>4, <3>1 DEF Counts
  <2> QED BY <2>3, <2>4
<1>17. AnswerIsTrue(q)' /\ Knows(q)'
  <2>1. Answered(q)' <=> Answered(q)
    BY <1>1 DEF Answered
  <2>2. Missed(q) => Missed(q)'
    BY <1>1, <1>2 DEF Missed
  <2> QED BY <1>1, <1>2, <1>10, <2>1, <2>2, PictureKept
<1>18. Counts(q)'
  BY <1>2, <1>10, CountsKept
<1> QED BY <1>2, <1>14, <1>15, <1>16, <1>17, <1>18 DEF PictureInv

LEMMA PictureTakeShot ==
  ASSUME TypeInv, PhaseInv, PictureInv,
         NEW p \in Players, NEW n \in 1 .. Len(wire[p]), TakeShot(p, n)
  PROVE  PictureInv'
<1> DEFINE q == Other(p)
           m == Head(wire[p]).shot
           c0 == CellOf(m)
           r == ShotResult(own[p], m)
           f == own[p]
           g == Shoot(own[p], m)
<1>1. /\ pc[p] = "guard" /\ m # Bad /\ r \in Results
      /\ pc'[p] \in {"aim", "over", "guard"}
      /\ pc'[q] = pc[q] /\ shot'[p] = shot[p] /\ shot'[q] = shot[q]
      /\ wire'[q] = IF Gone(q) THEN wire[q] ELSE Append(wire[q], ResultLine(r))
  <2>1. /\ pc[p] = "guard" /\ m # Bad /\ r \in Results
        /\ pc'[p] = IF r = "MISS" THEN "aim" ELSE IF weight'[p] = 0 THEN "over" ELSE "guard"
        /\ pc'[q] = pc[q]
        /\ shot'[p] = shot[p] /\ shot'[q] = shot[q]
        /\ wire'[p] = SubSeq(wire[p], n + 1, Len(wire[p]))
        /\ wire'[q] = IF Gone(q) THEN wire[q] ELSE Append(wire[q], ResultLine(r))
        /\ n = 1 => lost' = lost
        /\ n # 1 => lost' = TRUE
    BY TakeShotEffect
  <2> HIDE DEF q, m, r
  <2> QED BY <2>1
<1>2. q \in Players /\ Other(q) = p /\ \A x \in Players : x = p \/ x = q
  BY OtherPlayer
<1>3. wire[p] # <<>>
  BY ShortLines
<1>4. /\ wire[p] = <<ShotLine(m)>>
      /\ (ShotSent(q) /\ shot[q] \in Moves) \/ LeftAlone(p)
      /\ Head(wire[p]) \in [shot : Moves \cup {Bad}]
  BY PhaseTakeShot
<1>5. m \in Moves /\ c0 \in Cells
  BY <1>1, <1>4, MoveCell
<1>6. /\ own'[p] = g /\ own'[q] = own[q]
      /\ weight'[p] = IF r = "MISS" THEN weight[p] ELSE weight[p] - 1
      /\ weight'[q] = weight[q] /\ picture' = picture /\ left' = left
  <2>1. /\ own' = [own EXCEPT ![p] = g]
        /\ weight' = [weight EXCEPT ![p] = IF r = "MISS" THEN weight[p] ELSE weight[p] - 1]
        /\ picture' = picture /\ left' = left
    BY DEF TakeShot
  <2>2. DOMAIN own = Players /\ DOMAIN weight = Players /\ p # q
    BY OtherPlayer DEF TypeInv, TypeOK
  <2> HIDE DEF q, m, c0, r, f, g
  <2> QED BY <1>2, <2>1, <2>2
<1>7. /\ Afloat(f)
      /\ f[c0] = "SHIP" => g = [f EXCEPT ![c0] = "KILLED"]
      /\ f[c0] # "SHIP" => g = f
      /\ r = "MISS" <=> f[c0] # "SHIP"
      /\ r = "KILL" => IsKilled(g, m)
  BY DEF Shoot, ShotResult, TypeInv, TypeOK, Afloat
<1> HIDE DEF q, m, c0, r, f, g
<1>8. ASSUME NEW c \in Cells
      PROVE  /\ f[c] = "EMPTY" => g[c] = "EMPTY"
             /\ f[c] = "KILLED" => g[c] = "KILLED"
             /\ g[c] = "KILLED" => f[c] = "KILLED" \/ (c = c0 /\ f[c0] = "SHIP")
             /\ f[c0] = "SHIP" => g[c0] = "KILLED"
             /\ f[c] \in {"EMPTY", "SHIP", "KILLED"}
  BY <1>5, <1>7 DEF Afloat
<1>9. AnswerIsTrue(p)' /\ Knows(p)'
  <2>1. ~ Answered(p) /\ ~ Answered(p)'
    BY <1>1 DEF Answered
  <2>2. ~ Missed(p)
    BY <1>1, <1>3 DEF Missed
  <2> QED BY <1>6, <2>1, <2>2, PictureKept DEF q
<1>10. Counts(p)'
  <2>1. weight[p] = Cardinality(ShipCells(f)) /\ weight[p] \in Nat
    BY SeaAssumption DEF PictureInv, Counts, f, TypeInv, TypeOK
  <2>2. IsFiniteSet(ShipCells(f))
    BY CellsFinite DEF ShipCells
  <2>3. CASE r = "MISS"
    <3>1. g = f /\ weight'[p] = weight[p]
      BY <1>6, <1>7, <2>3
    <3> QED BY <1>6, <2>1, <3>1 DEF PictureInv, Counts
  <2>4. CASE r # "MISS"
    <3>1. f[c0] = "SHIP" /\ g = [f EXCEPT ![c0] = "KILLED"] /\ weight'[p] = weight[p] - 1
      BY <1>6, <1>7, <2>4
    <3>2. c0 \in ShipCells(f) /\ ShipCells(g) = ShipCells(f) \ {c0}
      BY <1>5, <1>7, <3>1 DEF ShipCells, Afloat
    <3>3. Cardinality(ShipCells(g)) = Cardinality(ShipCells(f)) - 1
      BY <2>2, <3>2, FS_RemoveElement
    <3>4. weight'[p] = Cardinality(ShipCells(own'[p]))
      BY <1>6, <2>1, <3>1, <3>3
    <3> QED BY <1>6, <3>4 DEF PictureInv, Counts
  <2> QED BY <2>3, <2>4
<1>11. AnswerIsTrue(q) /\ Knows(q)
  BY <1>2 DEF PictureInv
<1>12. ASSUME NEW c \in Cells
       PROVE  /\ picture[q][c] = "EMPTY" => f[c] = "EMPTY"
              /\ picture[q][c] = "KILLED" => f[c] = "KILLED"
              /\ f[c] = "KILLED" /\ picture[q][c] # "KILLED"
                   => (Answered(q) /\ c = CellOf(shot[q])) \/ Missed(q)
  BY <1>2, <1>11 DEF Knows, f
<1>13. ASSUME NEW c \in Cells
       PROVE  /\ picture[q][c] = "EMPTY" => g[c] = "EMPTY"
              /\ picture[q][c] = "KILLED" => g[c] = "KILLED"
  BY <1>8, <1>12
<1>14. ASSUME LeftAlone(p) PROVE AnswerIsTrue(q)' /\ Knows(q)'
  <2>1. pc'[q] = "dead"
    BY <1>1, <1>14 DEF LeftAlone, q
  <2>2. AnswerIsTrue(q)'
    BY <2>1 DEF AnswerIsTrue, Answered
  <2>3. Knows(q)'
    BY <1>2, <1>6, <1>13, <2>1 DEF Knows, Missed
  <2> QED BY <2>2, <2>3
<1>15. ASSUME ShotSent(q), shot[q] \in Moves PROVE AnswerIsTrue(q)' /\ Knows(q)'
  <2>1. /\ m = shot[q] /\ wire[q] = <<>> /\ pc[q] = "result"
    <3>1. /\ wire[q] = <<>> /\ pc[q] = "result"
          /\ wire[p] = <<ShotLine(shot[q])>> /\ wire[p] = <<ShotLine(m)>>
      BY <1>2, <1>4, <1>15 DEF ShotSent
    <3>2. ShotLine(m) = ShotLine(shot[q])
      BY <3>1, ShortLines
    <3> QED BY <1>5, <1>15, <3>1, <3>2, LinesTyped
  <2>2. wire'[q] = <<ResultLine(r)>> /\ Head(wire'[q]).result = r
    BY <1>1, <2>1, LinesTyped, ShortLines DEF Gone
  <2>3. ~ Answered(q) /\ ~ Missed(q) /\ Answered(q)'
    BY <1>1, <1>2, <2>1, <2>2, ShortLines DEF Answered, Missed
  <2>4. \A c \in Cells : f[c] = "KILLED" => picture[q][c] = "KILLED"
    BY <1>12, <2>3
  <2>5. picture[q][c0] \in {"UNKNOWN", "EMPTY", "KILLED"}
    BY <1>2, <1>5 DEF TypeInv, TypeOK
  <2>6. /\ r = "MISS" => /\ g[c0] # "SHIP"
                         /\ g[c0] = "KILLED" => picture[q][c0] = "KILLED"
        /\ r # "MISS" => g[c0] = "KILLED" /\ picture[q][c0] = "UNKNOWN"
    BY <1>5, <1>7, <1>8, <1>12, <2>4, <2>5
  <2>7. CellOf(shot'[q]) = c0 /\ shot'[q] = m
    BY <1>1, <2>1 DEF c0
  <2>8. AnswerIsTrue(q)'
    BY <1>2, <1>6, <1>7, <2>2, <2>6, <2>7 DEF AnswerIsTrue, ResultIsTrue
  <2>9. \A c \in Cells : g[c] = "KILLED" /\ picture[q][c] # "KILLED" => c = CellOf(shot'[q])
    BY <1>1, <1>8, <2>1, <2>4 DEF c0
  <2>10. Knows(q)'
    BY <1>2, <1>6, <1>13, <2>3, <2>9 DEF Knows
  <2> QED BY <2>8, <2>10
<1>16. Counts(q)'
  BY <1>2, <1>6, CountsKept
<1> QED BY <1>2, <1>4, <1>9, <1>10, <1>14, <1>15, <1>16 DEF PictureInv

LEMMA PictureStep == TypeInv /\ PhaseInv /\ PictureInv /\ [Next]_vars => PictureInv'
<1> SUFFICES ASSUME TypeInv, PhaseInv, PictureInv, [Next]_vars PROVE PictureInv'
  OBVIOUS
<1>1. ASSUME NEW p \in Players, NEW m \in MovesOf[p], Fire(p, m)
      PROVE  PictureInv'
  BY <1>1, PictureFire
<1>2. ASSUME NEW p \in Players, NEW n \in 1 .. Len(wire[p]), TakeResult(p, n)
      PROVE  PictureInv'
  BY <1>2, PictureTakeResult
<1>3. ASSUME NEW p \in Players, NEW n \in 1 .. Len(wire[p]), TakeShot(p, n)
      PROVE  PictureInv'
  BY <1>3, PictureTakeShot
<1>4. ASSUME NEW p \in Players, ResultFails(p) \/ ShotThrows(p) \/ Quit(p)
      PROVE  PictureInv'
  BY <1>4, PictureEnd
<1>5. CASE UNCHANGED vars
  BY <1>5 DEF vars, PictureInv, AnswerIsTrue, ResultIsTrue, Answered, Knows, Missed, Counts
<1> QED BY <1>1, <1>2, <1>3, <1>4, <1>5 DEF Next, Read

(* Neither player ever sees a sunk ship where there is none, or water      *)
(* where a ship lies, although a KILL marks cells that nobody shot at      *)
(* (StartGame, MarkKill); what a picture lacks is on the way to it or went *)
(* with a player that quit.                                                *)
THEOREM PicturesAreTrue == Spec => []PictureIsTrue
<1>1. TypeInv /\ PictureInv => PictureIsTrue
  <2> SUFFICES ASSUME TypeInv, PictureInv, NEW p \in Players, NEW q, q = Other(p)
               PROVE  /\ \A c \in Cells :
                           /\ picture[p][c] = "EMPTY" => own[q][c] = "EMPTY"
                           /\ picture[p][c] = "KILLED" => own[q][c] = "KILLED"
                           /\ (own[q][c] = "KILLED" /\ picture[p][c] # "KILLED")
                                => (Answered(p) /\ c = CellOf(shot[p])) \/ SomebodyQuit
                      /\ weight[q] = Cardinality(ShipCells(own[q]))
                      /\ left[p] = Weight - Cardinality({c \in Cells : picture[p][c] = "KILLED"})
    BY DEF PictureIsTrue
  <2>1. q \in Players
    BY OtherPlayer
  <2>2. Knows(p) /\ Counts(p) /\ Counts(q)
    BY <2>1 DEF PictureInv
  <2>3. Missed(p) => SomebodyQuit
    BY <2>1 DEF Missed, SomebodyQuit
  <2> QED BY <2>2, <2>3 DEF Knows, Counts, KilledCells
<1>2. Init => TypeInv /\ PhaseInv /\ PictureInv
  BY TypesInit, PhasesInit, PictureInit
<1>3. TypeInv /\ PhaseInv /\ PictureInv /\ [Next]_vars => TypeInv' /\ PhaseInv' /\ PictureInv'
  BY PhasesStep, PictureStep
<1> QED BY <1>1, <1>2, <1>3, PTL DEF Spec
-----------------------------------------------------------------------------
(***************************************************************************)
(* The end.  Each side finds out for itself that the game has ended, from  *)
(* its own field or from its picture.                                      *)
(***************************************************************************)
Fleet(f) == {c \in Cells : f[c] # "EMPTY"}

(* A loop goes on as long as both weights it knows of are positive.        *)
Outcome(p) ==
  /\ pc[p] # "over" => weight[p] # 0 /\ left[p] # 0
  /\ pc[p] = "over" => weight[p] = 0 \/ left[p] = 0

EndInv ==
  /\ \A p \in Players : Outcome(p) /\ Cardinality(Fleet(own[p])) = Weight
  /\ \E p \in Players : weight[p] # 0

(* Who ends as the winner has sunk the last ship of the other; who has     *)
(* lost all ships has ended as the loser; and both are never the case.     *)
OneWinner ==
  \A p \in Players :
    LET q == Other(p)
    IN  /\ left[p] = 0 => weight[q] = 0
        /\ weight[p] = 0 => pc[p] = "over" /\ weight[q] # 0 /\ left[p] # 0
        /\ pc[p] = "over" => weight[p] = 0 \/ left[p] = 0

LEMMA ShotKeepsFleet ==
  ASSUME NEW f, Afloat(f), NEW m
  PROVE  Fleet(Shoot(f, m)) = Fleet(f)
BY DEF Fleet, Shoot, Afloat

LEMMA EndInit == Init => EndInv
<1> SUFFICES ASSUME Init PROVE EndInv
  OBVIOUS
<1>1. \A p \in Players : weight[p] # 0 /\ left[p] # 0 /\ pc[p] # "over"
  BY SeaAssumption DEF Init
<1>2. ASSUME NEW p \in Players
      PROVE  Cardinality(Fleet(own[p])) = Weight
  <2>1. own[p] \in FieldsOf[p] /\ Cardinality(ShipCells(own[p])) = Weight /\ own[p] \in RandomFields
    BY SeaAssumption DEF Init
  <2>2. own[p] \in [Cells -> {"EMPTY", "SHIP"}]
    BY <2>1, RandomHasNoCorners
  <2>3. Fleet(own[p]) = ShipCells(own[p])
    BY <2>2 DEF Fleet, ShipCells
  <2> QED BY <2>1, <2>3
<1>3. "client" \in Players
  BY DEF Players
<1> QED BY <1>1, <1>2, <1>3 DEF EndInv, Outcome

LEMMA EndTakeResult ==
  ASSUME TypeInv, EndInv, NEW p \in Players, NEW n \in 1 .. Len(wire[p]), TakeResult(p, n)
  PROVE  EndInv'
<1>1. weight[p] # 0 /\ left[p] # 0 /\ pc[p] = "result"
  BY DEF TypeInv, StillOn, Gone, TakeResult
<1>2. PICK s : s \in {"guard", "aim"} /\ pc' = [pc EXCEPT ![p] = NextOrEnd(weight[p], left'[p], s)]
  BY DEF TakeResult, AfterResult
<1>3. pc'[p] = IF left'[p] = 0 THEN "over" ELSE s
  BY <1>1, <1>2 DEF NextOrEnd, IsGameEnded, TypeInv, TypeOK
<1>4. /\ UNCHANGED <<own, weight>>
      /\ \A q \in Players : q # p => pc'[q] = pc[q] /\ left'[q] = left[q]
  BY <1>2 DEF TakeResult, TypeInv, TypeOK
<1>5. Outcome(p)'
  BY <1>1, <1>2, <1>3, <1>4 DEF Outcome
<1>6. \A q \in Players : q # p => Outcome(q)'
  BY <1>4 DEF Outcome, EndInv
<1> QED BY <1>4, <1>5, <1>6 DEF EndInv

LEMMA EndTakeShot ==
  ASSUME TypeInv, PhaseInv, EndInv, NEW p \in Players, NEW n \in 1 .. Len(wire[p]), TakeShot(p, n)
  PROVE  EndInv'
<1>1. weight[p] # 0 /\ left[p] # 0 /\ pc[p] = "guard"
  BY DEF TypeInv, StillOn, Gone, TakeShot
<1>2. PICK s : /\ s \in {"guard", "aim"}
               /\ pc' = [pc EXCEPT ![p] = NextOrEnd(weight'[p], left[p], s)]
  BY DEF TakeShot
<1>3. pc'[p] = IF weight'[p] = 0 THEN "over" ELSE s
  BY <1>1, <1>2 DEF NextOrEnd, IsGameEnded, TypeInv, TypeOK
<1>4. /\ left' = left
      /\ \A q \in Players : q # p => pc'[q] = pc[q] /\ weight'[q] = weight[q]
      /\ \A q \in Players : own'[q] = own[q] \/ \E m : own'[q] = Shoot(own[q], m)
  BY <1>2 DEF TakeShot, TypeInv, TypeOK
<1>5. Outcome(p)'
  BY <1>1, <1>2, <1>3, <1>4 DEF Outcome
<1>6. \A q \in Players : q # p => Outcome(q)'
  BY <1>4 DEF Outcome, EndInv
<1>7. \A q \in Players : Fleet(own'[q]) = Fleet(own[q])
  BY <1>4, ShotKeepsFleet DEF TypeInv, TypeOK, Afloat
<1>8. weight'[Other(p)] # 0
  <2>1. PICK q : q = Other(p) /\ q \in Players /\ q # p /\ Other(q) = p
    BY OtherPlayer
  <2>2. wire[p] # <<>>
    BY DEF TypeInv, TypeOK
  <2>3. Phase(p) \/ Phase(q)
    BY <2>1, SeenFrom
  <2>4. pc[q] # "over"
    BY <1>1, <2>1, <2>2, <2>3 DEF Phase, Aiming, ShotSent, HitSent, MissSent, BothSent, LostShot,
                                  Ended, LeftAlone
  <2>5. weight[q] # 0
    BY <2>1, <2>4 DEF EndInv, Outcome
  <2> QED BY <1>4, <2>1, <2>5
<1> QED BY <1>5, <1>6, <1>7, <1>8, OtherPlayer DEF EndInv

LEMMA EndRest ==
  ASSUME TypeInv, EndInv, NEW p \in Players,
         (\E m \in MovesOf[p] : Fire(p, m)) \/ ResultFails(p) \/ ShotThrows(p) \/ Quit(p)
  PROVE  EndInv'
<1>1. UNCHANGED <<own, weight, left>> /\ weight[p] # 0 /\ left[p] # 0
  BY DEF Fire, ResultFails, ShotThrows, Quit, TypeInv, StillOn, Gone
<1>2. pc'[p] # "over" /\ \A q \in Players : q # p => pc'[q] = pc[q]
  BY DEF Fire, ResultFails, ShotThrows, Quit, TypeInv, TypeOK
<1>3. \A q \in Players : Outcome(q)'
  BY <1>1, <1>2 DEF Outcome, EndInv
<1> QED BY <1>1, <1>3 DEF EndInv

LEMMA EndStep == TypeInv /\ PhaseInv /\ EndInv /\ [Next]_vars => EndInv'
<1> SUFFICES ASSUME TypeInv, PhaseInv, EndInv, [Next]_vars PROVE EndInv'
  OBVIOUS
<1>1. CASE UNCHANGED vars
  BY <1>1 DEF vars, EndInv, Outcome, Fleet
<1>2. ASSUME NEW p \in Players, NEW n \in 1 .. Len(wire[p]), TakeResult(p, n) \/ TakeShot(p, n)
      PROVE  EndInv'
  BY <1>2, EndTakeResult, EndTakeShot
<1> QED BY <1>1, <1>2, EndRest DEF Next, Read

(* A picture that shows as many killed cells as the ships have shows all   *)
(* of them.                                                                *)
LEMMA WinnersAreRight ==
  ASSUME TypeInv, PictureInv, EndInv, NEW p \in Players, left[p] = 0
  PROVE  weight[Other(p)] = 0
<1>1. PICK q : q = Other(p) /\ q \in Players
  BY OtherPlayer
<1>2. PICK K : K = KilledCells(picture[p])
  OBVIOUS
<1>3. /\ left[p] = Weight - Cardinality(K)
      /\ weight[q] = Cardinality(ShipCells(own[q]))
      /\ \A c \in K : c \in Cells /\ own[q][c] = "KILLED"
  BY <1>1, <1>2 DEF PictureInv, Counts, Knows, KilledCells
<1>4. K \subseteq Fleet(own[q])
  BY <1>3 DEF Fleet
<1>5. Fleet(own[q]) \subseteq Cells /\ IsFiniteSet(Fleet(own[q])) /\ Cardinality(K) \in Nat
  BY <1>2, CellsFinite DEF Fleet, KilledCells
<1>6. Cardinality(K) = Weight /\ Cardinality(Fleet(own[q])) = Weight
  BY <1>1, <1>3, <1>5, SeaAssumption DEF EndInv
<1>7. K = Fleet(own[q])
  BY <1>4, <1>5, <1>6, FS_Subset
<1>8. ShipCells(own[q]) = {}
  BY <1>3, <1>7 DEF ShipCells, Fleet
<1> QED BY <1>1, <1>3, <1>8, FS_EmptySet

(* For every size of the field and all ships, the two processes agree on   *)
(* the end: a winner has won, and they neither both win nor both lose.     *)
THEOREM WinnerIsAgreed == Spec => []OneWinner
<1>1. ASSUME TypeInv, PictureInv, EndInv PROVE OneWinner
  <2>1. \A p \in Players : left[p] = 0 => weight[Other(p)] = 0
    BY <1>1, WinnersAreRight
  <2>2. \A p \in Players : weight[p] = 0 => weight[Other(p)] # 0
    BY <1>1, OtherPlayer DEF EndInv
  <2>3. \A p \in Players : Outcome(p)
    BY <1>1 DEF EndInv
  <2> QED BY <2>1, <2>2, <2>3 DEF Outcome, OneWinner
<1>2. Init => TypeInv /\ PhaseInv /\ PictureInv /\ EndInv
  BY TypesInit, PhasesInit, PictureInit, EndInit
<1>3. TypeInv /\ PhaseInv /\ PictureInv /\ EndInv /\ [Next]_vars
        => TypeInv' /\ PhaseInv' /\ PictureInv' /\ EndInv'
  BY PhasesStep, PictureStep, EndStep
<1> QED BY <1>1, <1>2, <1>3, PTL DEF Spec
=============================================================================
