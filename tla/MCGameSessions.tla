--------------------------- MODULE MCGameSessions ---------------------------
(* Joining, tokens and sessions: three tokens, two maps with one short     *)
(* road, a map without roads, and no ticker, so that the dogs stand still. *)
EXTENDS GameWorld, TLC

MCRoadsOf == [m \in MapIds |->
                IF m = "void" THEN <<>> ELSE <<[x0 |-> 1, y0 |-> 0, x1 |-> 0, y1 |-> 0]>>]

MCMapSpeed == [m \in MapIds |-> 3]

Symmetry == Permutations(Tokens)
=============================================================================
