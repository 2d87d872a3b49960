----------------------------- MODULE BurnerPool -----------------------------
(***************************************************************************)
(* What GasCooker promises (the comment at the head of gascooker.h): it    *)
(* has several burners that can be asked for and given back; when none is  *)
(* free the request waits in a queue.  Requests are served in the order in *)
(* which they were made.                                                   *)
(***************************************************************************)
EXTENDS Naturals, FiniteSets

CONSTANTS Users,    \* whoever asks for a burner
          Burners   \* number of burners

VARIABLES ahead,  \* ahead[u]: who has asked before u, for each u in line
          using   \* the users that have a burner

poolVars == <<ahead, using>>

Line == DOMAIN ahead

PoolInit == ahead = [u \in {} |-> {}] /\ using = {}

(* Whoever asks goes to the end of the line.                               *)
Request(u) ==
  /\ u \notin using \cup Line
  /\ ahead' = [v \in Line \cup {u} |-> IF v = u THEN Line ELSE ahead[v]]
  /\ UNCHANGED using

(* The first in line gets a burner.                                        *)
Grant(u) ==
  /\ u \in Line /\ ahead[u] = {}
  /\ Cardinality(using) < Burners
  /\ using' = using \cup {u}
  /\ ahead' = [v \in Line \ {u} |-> ahead[v] \ {u}]

Return(u) ==
  /\ u \in using
  /\ using' = using \ {u}
  /\ UNCHANGED ahead

PoolNext == \E u \in Users : Request(u) \/ Grant(u) \/ Return(u)

PoolSafety == PoolInit /\ [][PoolNext]_poolVars

(* A free burner does not stay free while somebody waits.                  *)
PoolSpec == PoolSafety /\ WF_poolVars(\E u \in Users : Grant(u))
=============================================================================
