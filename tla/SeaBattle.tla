----------------------------- MODULE SeaBattle -----------------------------
(***************************************************************************)
(* Two SeabattleAgents play over a TCP connection (main.cpp, seabattle.h). *)
(* Each keeps its own field and a picture of the other's.  The one with    *)
(* the initiative sends a shot and waits for its result; the other waits   *)
(* for the shot, applies it and sends the result; a miss passes the        *)
(* initiative on.                                                          *)
(*                                                                         *)
(* The connection is a sequence of lines for each direction.  ReadMessage  *)
(* reads into a buffer of its own: lines that arrive together with the one *)
(* it returns are gone with the buffer.                                    *)
(***************************************************************************)
EXTENDS Integers, Sequences, FiniteSets

CONSTANTS Size,       \* field_size
          ShipSizes,  \* ship_sizes of TryGetRandomField
          Weight,     \* weight_ of a new field
          FieldsOf,   \* FieldsOf[p]: the fields that the seeds of p give
          MovesOf     \* MovesOf[p]: what p types

Players  == {"client", "server"}
Other(p) == IF p = "client" THEN "server" ELSE "client"

Coords == 0 .. Size - 1
Cells  == 0 .. Size * Size - 1
Dirs   == {<<1, 0>>, <<-1, 0>>, <<0, 1>>, <<0, -1>>}

(* Get: the field is one array, row after row.                             *)
At(x, y) == x + y * Size

InField(x, y) == x \in Coords /\ y \in Coords

(* The lines that ParseMove understands: it lets a coordinate be Size.  In *)
(* the column Size the cell is the first one of the next row; the row Size *)
(* is outside of the array and is not typed here.  Bad stands for all      *)
(* lines it refuses.                                                       *)
Moves == {m \in [x : 0 .. Size, y : Coords] : At(m.x, m.y) \in Cells}
Bad   == [x |-> -1, y |-> -1]

CellOf(m) == At(m.x, m.y)

(* What a field looks like: one ship of every size, none touching another, *)
(* not even at a corner.                                                   *)
ShipOf(s) == {[x |-> s.x + i * s.dir[1], y |-> s.y + i * s.dir[2]] : i \in 0 .. s.size - 1}

Touch(s, t) ==
  \E c \in ShipOf(s), d \in ShipOf(t) : c.x - d.x \in -1 .. 1 /\ c.y - d.y \in -1 .. 1

Fleets ==
  {fleet \in [1 .. Len(ShipSizes) -> [x : Coords, y : Coords, dir : Dirs,
                                      size : {ShipSizes[i] : i \in 1 .. Len(ShipSizes)}]] :
     \A i \in 1 .. Len(ShipSizes) :
       /\ fleet[i].size = ShipSizes[i]
       /\ \A c \in ShipOf(fleet[i]) : InField(c.x, c.y)
       /\ \A j \in 1 .. i - 1 : ~ Touch(fleet[i], fleet[j])}

RandomFields ==
  {[c \in Cells |-> IF \E i \in DOMAIN fleet : \E s \in ShipOf(fleet[i]) : CellOf(s) = c
                      THEN "SHIP" ELSE "EMPTY"] : fleet \in Fleets}

ShipCells(f) == {c \in Cells : f[c] = "SHIP"}

ASSUME SeaAssumption ==
  /\ Size \in Nat \ {0}
  /\ Weight \in Nat \ {0}
  /\ ShipSizes \in Seq(Nat)
  /\ FieldsOf \in [Players -> SUBSET RandomFields]
  /\ \A p \in Players : \A f \in FieldsOf[p] : Cardinality(ShipCells(f)) = Weight
  /\ MovesOf \in [Players -> SUBSET (Moves \cup {Bad})]

VARIABLES
  own,      \* my_field_ of each player
  weight,   \* weight_ of my_field_
  picture,  \* other_field_
  left,     \* weight_ of other_field_
  pc,       \* where the loop of StartGame is
  shot,     \* the move just typed; Bad when there is none
  wire,     \* wire[p]: the lines on their way to p
  lost      \* a line was thrown away with a buffer

vars == <<own, weight, picture, left, pc, shot, wire, lost>>

Results == {"MISS", "HIT", "KILL"}
Lines   == [shot : Moves \cup {Bad}] \cup [result : Results]

TypeOK ==
  /\ own \in [Players -> [Cells -> {"EMPTY", "SHIP", "KILLED"}]]
  /\ weight \in [Players -> 0 .. Weight]
  /\ picture \in [Players -> [Cells -> {"UNKNOWN", "EMPTY", "KILLED"}]]
  /\ left \in [Players -> 0 .. Weight]
  /\ pc \in [Players -> {"aim", "result", "guard", "over", "dead"}]
  /\ shot \in [Players -> Moves \cup {Bad}]
  /\ wire \in [Players -> Seq(Lines)]
  /\ lost \in BOOLEAN

(* The client begins.                                                      *)
Init ==
  /\ own \in {f \in [Players -> UNION {FieldsOf[p] : p \in Players}] :
                \A p \in Players : f[p] \in FieldsOf[p]}
  /\ weight = [p \in Players |-> Weight]
  /\ picture = [p \in Players |-> [c \in Cells |-> "UNKNOWN"]]
  /\ left = [p \in Players |-> Weight]
  /\ pc = [p \in Players |-> IF p = "client" THEN "aim" ELSE "guard"]
  /\ shot = [p \in Players |-> Bad]
  /\ wire = [p \in Players |-> <<>>]
  /\ lost = FALSE

-----------------------------------------------------------------------------
(***************************************************************************)
(* SeabattleField.  From a cell the field is walked in a direction, up to  *)
(* its edge or the first cell that is not killed.                          *)
(***************************************************************************)
Step(m, d, i) == [x |-> m.x + i * d[1], y |-> m.y + i * d[2]]

Walk(f, m, d) ==
  {i \in Coords : \A j \in 0 .. i :
     /\ InField(Step(m, d, j).x, Step(m, d, j).y)
     /\ j < i => f[CellOf(Step(m, d, j))] = "KILLED"}

IsKilledInDirection(f, m, d) ==
  \A i \in Walk(f, m, d) : f[CellOf(Step(m, d, i))] \in {"EMPTY", "KILLED"}

IsKilled(f, m) == \A d \in Dirs : IsKilledInDirection(f, m, d)

Shoot(f, m) ==
  IF f[CellOf(m)] = "SHIP" THEN [f EXCEPT ![CellOf(m)] = "KILLED"] ELSE f

ShotResult(f, m) ==
  IF f[CellOf(m)] # "SHIP" THEN "MISS"
  ELSE IF IsKilled(Shoot(f, m), m) THEN "KILL" ELSE "HIT"

(* Fault: the neighbours on both sides are two cells away.                 *)
NearWide(s, d) ==
  {s} \cup {[x |-> s.x + 2 * k * d[2], y |-> s.y + 2 * k * d[1]] : k \in {1, -1}}

(* The cells that MarkKillInDirection marks at one step: the one it is at  *)
(* and those beside it.                                                    *)
Near(s, d) == {s} \cup {[x |-> s.x + k * d[2], y |-> s.y + k * d[1]] : k \in {1, -1}}

MarkKillInDirection(f, m, d) ==
  {CellOf(s) : s \in {n \in UNION {Near(Step(m, d, i), d) : i \in Walk(f, m, d)} :
                        InField(n.x, n.y)}}

Mark(f, c, state) == IF f[c] = "UNKNOWN" THEN [f EXCEPT ![c] = state] ELSE f

MarkKill(f, m) ==
  LET g == Mark(f, CellOf(m), "KILLED")
  IN  IF f[CellOf(m)] # "UNKNOWN" THEN f
      ELSE [c \in Cells |-> IF g[c] = "UNKNOWN" /\ \E d \in Dirs : c \in MarkKillInDirection(g, m, d)
                              THEN "EMPTY" ELSE g[c]]

Marked(f, m, result) ==
  IF result = "MISS" THEN Mark(f, CellOf(m), "EMPTY")
  ELSE IF result = "HIT" THEN Mark(f, CellOf(m), "KILLED") ELSE MarkKill(f, m)

-----------------------------------------------------------------------------
Gone(p) == pc[p] \in {"over", "dead"}

(* Lines sent to a player that is gone are lost.                           *)
Send(p, line, lines) == IF Gone(p) THEN lines ELSE [lines EXCEPT ![p] = Append(@, line)]

(* ReadMessage returns the first line and discards up to n lines in all.   *)
Take(p, n) == [wire EXCEPT ![p] = SubSeq(@, n + 1, Len(@))]

(* It fails when the other side has closed the connection; a side that was *)
(* killed may take lines that it had sent with it.                         *)
ReadFails(p) ==
  /\ Gone(Other(p))
  /\ wire[p] = <<>> \/ pc[Other(p)] = "dead"

IsGameEnded(w, l) == w = 0 \/ l = 0

(* Fault: the loop only looks at the player's own field.                   *)
NextForLoser(w, l, next) == IF w = 0 THEN "over" ELSE next

(* Both loops end when one of the fields has no ships left.                *)
NextOrEnd(w, l, next) == IF IsGameEnded(w, l) THEN "over" ELSE next

(* PrintFields and SendMessage.                                            *)
Fire(p, m) ==
  /\ pc[p] = "aim"
  /\ shot' = [shot EXCEPT ![p] = m]
  /\ pc' = [pc EXCEPT ![p] = "result"]
  /\ wire' = Send(Other(p), [shot |-> m], wire)
  /\ UNCHANGED <<own, weight, picture, left, lost>>

(* Fault: the initiative stays with the attacker after a miss.             *)
KeepsInitiative(result) == "aim"

AfterResult(result) == IF result = "MISS" THEN "guard" ELSE "aim"

(* The result comes back.  The move is parsed only now, and value() throws *)
(* for one that the other side could not parse either.                     *)
TakeResult(p, n) ==
  /\ pc[p] = "result"
  /\ n \in 1 .. Len(wire[p])
  /\ shot[p] # Bad
  /\ LET result == Head(wire[p]).result
         hit == result # "MISS" /\ picture[p][CellOf(shot[p])] = "UNKNOWN"
     IN  /\ picture' = [picture EXCEPT ![p] = Marked(picture[p], shot[p], result)]
         /\ left' = [left EXCEPT ![p] = IF hit THEN left[p] - 1 ELSE left[p]]
         /\ pc' = [pc EXCEPT ![p] = NextOrEnd(weight[p], left'[p], AfterResult(result))]
  /\ wire' = Take(p, n)
  /\ shot' = [shot EXCEPT ![p] = Bad]
  /\ lost' = (lost \/ n > 1)
  /\ UNCHANGED <<own, weight>>

(* The string "error" instead of a result is no result at all: the         *)
(* attacker aims again.                                                    *)
ResultFails(p) ==
  /\ pc[p] = "result"
  /\ ReadFails(p)
  /\ pc' = [pc EXCEPT ![p] = IF shot[p] = Bad THEN "dead" ELSE "aim"]
  /\ wire' = [wire EXCEPT ![p] = <<>>]
  /\ shot' = [shot EXCEPT ![p] = Bad]
  /\ UNCHANGED <<own, weight, picture, left, lost>>

TakeShot(p, n) ==
  /\ pc[p] = "guard"
  /\ n \in 1 .. Len(wire[p])
  /\ LET m == Head(wire[p]).shot
         result == ShotResult(own[p], m)
     IN  /\ m # Bad
         /\ own' = [own EXCEPT ![p] = Shoot(own[p], m)]
         /\ weight' = [weight EXCEPT ![p] = IF result = "MISS" THEN weight[p] ELSE weight[p] - 1]
         /\ wire' = Send(Other(p), [result |-> result], Take(p, n))
         /\ pc' = [pc EXCEPT ![p] = NextOrEnd(weight'[p], left[p],
                                              IF result = "MISS" THEN "aim" ELSE "guard")]
  /\ lost' = (lost \/ n > 1)
  /\ UNCHANGED <<picture, left, shot>>

(* The shot cannot be parsed, or "error" was read instead of one: value()  *)
(* throws and the program ends.                                            *)
ShotThrows(p) ==
  /\ pc[p] = "guard"
  /\ \/ wire[p] # <<>> /\ Head(wire[p]).shot = Bad
     \/ ReadFails(p)
  /\ pc' = [pc EXCEPT ![p] = "dead"]
  /\ wire' = [wire EXCEPT ![p] = <<>>]
  /\ UNCHANGED <<own, weight, picture, left, shot, lost>>

(* A player's program is killed, or its connection breaks.                 *)
Quit(p) ==
  /\ ~ Gone(p)
  /\ pc' = [pc EXCEPT ![p] = "dead"]
  /\ wire' = [wire EXCEPT ![p] = <<>>]
  /\ shot' = [shot EXCEPT ![p] = Bad]
  /\ UNCHANGED <<own, weight, picture, left, lost>>

Read(p) ==
  \/ \E n \in 1 .. Len(wire[p]) : TakeResult(p, n) \/ TakeShot(p, n)
  \/ ResultFails(p)
  \/ ShotThrows(p)

Next ==
  \E p \in Players :
    \/ \E m \in MovesOf[p] : Fire(p, m)
    \/ Read(p)
    \/ Quit(p)

(* A program that can read does so; what its player does is up to them.    *)
Spec == Init /\ [][Next]_vars /\ \A p \in Players : WF_vars(Read(p))

-----------------------------------------------------------------------------
(* The other side has applied the player's shot, and its result is still   *)
(* on the way.                                                             *)
Answered(p) == pc[p] = "result" /\ wire[p] # <<>>

SomebodyQuit == \E p \in Players : pc[p] = "dead"

(* What a player sees of the other's field is true, although it is put     *)
(* together from results alone and a KILL marks cells nobody shot at: a    *)
(* cell marked empty has no ship, and the killed cells and the weight are  *)
(* those of the other side, except for one result that is on the way (or  *)
(* went with a side that quit).                                            *)
PictureIsTrue ==
  \A p \in Players :
    LET q == Other(p)
    IN  /\ \A c \in Cells :
             /\ picture[p][c] = "EMPTY" => own[q][c] = "EMPTY"
             /\ picture[p][c] = "KILLED" => own[q][c] = "KILLED"
             /\ (own[q][c] = "KILLED" /\ picture[p][c] # "KILLED")
                  => (Answered(p) /\ c = CellOf(shot[p])) \/ SomebodyQuit
        /\ weight[q] = Cardinality(ShipCells(own[q]))
        /\ left[p] = Weight - Cardinality({c \in Cells : picture[p][c] = "KILLED"})

(* Both players wait to read and nothing is on the way.                    *)
Stuck == \A p \in Players : pc[p] \in {"result", "guard"} /\ wire[p] = <<>>

(* The initiative is passed on without a message of its own.  Nobody waits *)
(* in vain for that reason: the players are stuck only after a line was    *)
(* lost with a read buffer.  That can happen only to the first shot after  *)
(* a MISS that is read together with it, and then the game is stuck until  *)
(* somebody quits.                                                         *)
StuckOnlyByLoss ==
  /\ Stuck => lost
  /\ lost => Stuck \/ SomebodyQuit

(* Two processes find out separately that the game has ended.  When the    *)
(* last ship of one is sunk, it ends as the loser and the other, unless it *)
(* quits, as the winner.                                                   *)
EndsForBoth ==
  \A p \in Players :
    weight[p] = 0 ~>
      /\ pc[p] = "over" /\ weight[Other(p)] > 0
      /\ pc[Other(p)] = "dead" \/ (pc[Other(p)] = "over" /\ left[Other(p)] = 0)
=============================================================================
