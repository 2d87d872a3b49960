---------------------------- MODULE MCSeaBattle ----------------------------
(* A field of nine cells with ships of two and of one.  The server's ships *)
(* can be shot at through the column that does not exist, which reports a  *)
(* KILL too early.  The client's ship of two lies along or across.         *)
EXTENDS SeaBattle

MCShipSizes == <<2, 1>>

FieldWith(ships) == [c \in Cells |-> IF c \in ships THEN "SHIP" ELSE "EMPTY"]

MCFieldsOf ==
  [p \in Players |-> IF p = "server" THEN {FieldWith({3, 6, 2})}
                     ELSE {FieldWith({0, 1, 8}), FieldWith({0, 3, 8})}]

Typed(cells) == {m \in Moves : m.x < Size /\ CellOf(m) \in cells}

MCMovesOf ==
  [p \in Players |-> IF p = "client"
                       THEN Typed({0, 2, 3, 4, 6}) \cup {[x |-> 3, y |-> 0], Bad}
                       ELSE Typed({0, 1, 3, 8})]
=============================================================================
