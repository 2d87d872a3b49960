-------------------------- MODULE CafeteriaProofs --------------------------
(***************************************************************************)
(* The gas cooker, and the cafeteria around it.                            *)
(* The cafeteria for every number of orders, threads and burners.  What    *)
(* the gas cooker guarantees it guarantees here too, because every step of *)
(* the cafeteria is a step of the cooker or leaves it alone.  The orders   *)
(* are right because the two timer handlers of an order share a strand:    *)
(* while the order is checked, one of them is in it, and whoever leaves it *)
(* last has found both ingredients cooked (OrderInv).                      *)
(***************************************************************************)
EXTENDS Cafeteria, QueueLemmas, FiniteSetTheorems, TLAPS

-----------------------------------------------------------------------------
(***************************************************************************)
(* The gas cooker for every number of burners and every finite set of      *)
(* ingredients.  The inductive invariant says who is counted in            *)
(* burners_in_use_: the ingredients whose handler was posted and those     *)
(* that cook, and those whose ReleaseBurner is still in the strand.        *)
(***************************************************************************)
Holders == {u \in Users : stage[u] \in {"posted", "cooking", "releasing"}}

(* An ingredient has one call in the strand, or none; it is pending once.  *)
CallsMatch ==
  /\ Distinct(calls)
  /\ \A u \in Users : u \in Elements(calls) <=> stage[u] \in {"asked", "releasing"}

PendingMatch ==
  /\ Distinct(pending)
  /\ \A u \in Users : u \in Elements(pending) <=> stage[u] = "pending"

CountIsRight == burners = Cardinality(Holders) /\ burners <= Burners

CookerInv ==
  /\ CookerTypeOK
  /\ CallsMatch
  /\ PendingMatch
  /\ CountIsRight
  /\ NobodyWaitsForFreeBurner

LEMMA HoldersFinite == IsFiniteSet(Holders) /\ Cardinality(Holders) \in Nat
<1>1. IsFiniteSet(Holders)
  BY CookerAssumption, FS_Subset DEF Holders
<1> QED BY <1>1, FS_CardinalityType

LEMMA InitCookerInv == CookerInit => CookerInv
<1> SUFFICES ASSUME CookerInit PROVE CookerInv
  OBVIOUS
<1>1. Holders = {} /\ Elements(calls) = {} /\ Elements(pending) = {}
  BY DEF CookerInit, Holders, Elements
<1>2. Cardinality(Holders) = 0
  BY <1>1, FS_EmptySet
<1> QED BY <1>1, <1>2, CookerAssumption
        DEF CookerInit, CookerInv, CookerTypeOK, Stages, CallsMatch, PendingMatch, CountIsRight,
            NobodyWaitsForFreeBurner, Distinct

-----------------------------------------------------------------------------
(* UseBurner and ReleaseBurner are called: one more call is in the strand. *)
LEMMA CallKeepsInv ==
  ASSUME CookerInv, NEW u \in Users, UseBurner(u) \/ ReleaseBurner(u)
  PROVE  CookerInv'
<1>1. /\ stage[u] \in {"raw", "cooking"}
      /\ stage' = [stage EXCEPT ![u] = IF stage[u] = "raw" THEN "asked" ELSE "releasing"]
      /\ calls' = Append(calls, u)
      /\ UNCHANGED <<burners, pending>>
  BY DEF UseBurner, ReleaseBurner
<1>2. stage \in [Users -> Stages] /\ calls \in Seq(Users)
  BY DEF CookerInv, CookerTypeOK
<1>3. PICK q, p : q = calls /\ p = calls'
  OBVIOUS
<1>4. /\ p \in Seq(Users) /\ Distinct(p)
      /\ \A v : v \in Elements(p) <=> v \in Elements(q) \/ v = u
  <2>1. q \in Seq(Users) /\ Distinct(q) /\ u \notin Elements(q) /\ p = Append(q, u)
    BY <1>1, <1>2, <1>3 DEF CookerInv, CallsMatch
  <2> QED BY <2>1, AppendedQueue
<1>5. CallsMatch'
  BY <1>1, <1>2, <1>3, <1>4 DEF CookerInv, CallsMatch
<1>6. PendingMatch'
  BY <1>1, <1>2 DEF CookerInv, PendingMatch
<1>7. Holders' = Holders
  BY <1>1, <1>2 DEF Holders
<1> QED BY <1>1, <1>2, <1>3, <1>4, <1>5, <1>6, <1>7
        DEF CookerInv, CookerTypeOK, Stages, CountIsRight, NobodyWaitsForFreeBurner

(* The posted handler runs: only the stage changes.                        *)
LEMMA HandlerKeepsInv ==
  ASSUME CookerInv, NEW u \in Users, RunHandler(u)
  PROVE  CookerInv'
<1>1. /\ stage[u] = "posted" /\ stage' = [stage EXCEPT ![u] = "cooking"]
      /\ UNCHANGED <<calls, burners, pending>>
  BY DEF RunHandler
<1>2. stage \in [Users -> Stages]
  BY DEF CookerInv, CookerTypeOK
<1>3. Holders' = Holders
  BY <1>1, <1>2 DEF Holders
<1> QED BY <1>1, <1>2, <1>3
        DEF CookerInv, CookerTypeOK, Stages, CallsMatch, PendingMatch, CountIsRight,
            NobodyWaitsForFreeBurner

-----------------------------------------------------------------------------
(* The strand takes the first call.                                        *)
LEMMA FirstCall ==
  ASSUME CookerInv, calls # <<>>, calls' = Tail(calls)
  PROVE  /\ Head(calls) \in Users
         /\ stage[Head(calls)] \in {"asked", "releasing"}
         /\ calls' \in Seq(Users)
         /\ Distinct(calls)'
         /\ \A v : v \in Elements(calls)' <=> v \in Elements(calls) /\ v # Head(calls)
<1>1. PICK q, p : q = calls /\ p = calls'
  OBVIOUS
<1>2. q \in Seq(Users) /\ q # <<>> /\ Distinct(q) /\ p = Tail(q)
  BY <1>1 DEF CookerInv, CookerTypeOK, CallsMatch
<1>3. /\ p \in Seq(Users)
      /\ Head(q) \in Users
      /\ Elements(q) = Elements(p) \cup {Head(q)}
      /\ Head(q) \notin Elements(p)
      /\ Distinct(p)
  BY <1>2, TakenQueue, Zenon
<1>4. Head(q) \in Elements(q) /\ \A v : v \in Elements(p) <=> v \in Elements(q) /\ v # Head(q)
  BY <1>3
<1>5. stage[Head(q)] \in {"asked", "releasing"}
  BY <1>1, <1>3, <1>4 DEF CookerInv, CallsMatch
<1> QED BY <1>1, <1>3, <1>4, <1>5

LEMMA TakeKeepsInv ==
  ASSUME CookerInv, OnUseBurner, TakeBurner(Head(calls))
  PROVE  CookerInv'
<1> DEFINE u == Head(calls)
<1>1. /\ u \in Users /\ stage[u] = "asked"
      /\ calls' \in Seq(Users) /\ Distinct(calls)'
      /\ \A v : v \in Elements(calls)' <=> v \in Elements(calls) /\ v # u
  BY FirstCall DEF OnUseBurner
<1>2. /\ burners < Burners /\ burners' = burners + 1
      /\ stage' = [stage EXCEPT ![u] = "posted"]
      /\ pending' = pending
  BY DEF TakeBurner, BurnerFree
<1> HIDE DEF u
<1>3. stage \in [Users -> Stages] /\ burners \in Nat
  BY DEF CookerInv, CookerTypeOK
<1>4. Holders' = Holders \cup {u} /\ u \notin Holders
  BY <1>1, <1>2, <1>3 DEF Holders
<1>5. Cardinality(Holders') = Cardinality(Holders) + 1
  BY <1>4, HoldersFinite, FS_AddElement
<1>6. CountIsRight'
  BY <1>2, <1>3, <1>5, CookerAssumption DEF CookerInv, CountIsRight
<1>7. CallsMatch' /\ PendingMatch'
  BY <1>1, <1>2, <1>3 DEF CookerInv, CallsMatch, PendingMatch
<1>8. NobodyWaitsForFreeBurner'
  BY <1>2, <1>3, CookerAssumption DEF CookerInv, NobodyWaitsForFreeBurner
<1> QED BY <1>1, <1>2, <1>3, <1>6, <1>7, <1>8
        DEF CookerInv, CookerTypeOK, Stages

LEMMA WaitKeepsInv ==
  ASSUME CookerInv, OnUseBurner, Wait(Head(calls))
  PROVE  CookerInv'
<1> DEFINE u == Head(calls)
<1>1. /\ u \in Users /\ stage[u] = "asked"
      /\ calls' \in Seq(Users) /\ Distinct(calls)'
      /\ \A v : v \in Elements(calls)' <=> v \in Elements(calls) /\ v # u
  BY FirstCall DEF OnUseBurner
<1>2. /\ ~ (burners < Burners) /\ burners' = burners
      /\ stage' = [stage EXCEPT ![u] = "pending"]
      /\ pending' = Append(pending, u)
  BY DEF Wait, BurnerFree
<1> HIDE DEF u
<1>3. stage \in [Users -> Stages] /\ burners \in Nat
  BY DEF CookerInv, CookerTypeOK
<1>4. PICK q, p : q = pending /\ p = pending'
  OBVIOUS
<1>5. /\ p \in Seq(Users) /\ Distinct(p)
      /\ \A v : v \in Elements(p) <=> v \in Elements(q) \/ v = u
  <2>1. /\ q \in Seq(Users) /\ u \in Users /\ Distinct(q) /\ u \notin Elements(q)
        /\ p = Append(q, u)
    BY <1>1, <1>2, <1>4 DEF CookerInv, CookerTypeOK, PendingMatch
  <2> QED BY <2>1, AppendedQueue
<1>6. CallsMatch' /\ PendingMatch'
  BY <1>1, <1>2, <1>3, <1>4, <1>5 DEF CookerInv, CallsMatch, PendingMatch
<1>7. Holders' = Holders
  BY <1>1, <1>2, <1>3 DEF Holders
<1>8. NobodyWaitsForFreeBurner'
  BY <1>2, <1>3, CookerAssumption DEF CookerInv, CountIsRight, NobodyWaitsForFreeBurner
<1> QED BY <1>1, <1>2, <1>3, <1>4, <1>5, <1>6, <1>7, <1>8
        DEF CookerInv, CookerTypeOK, Stages, CountIsRight

LEMMA HandOverKeepsInv ==
  ASSUME CookerInv, OnReleaseBurner, HandOver(Head(calls))
  PROVE  CookerInv'
<1> DEFINE u == Head(calls)
           w == Head(pending)
<1>1. /\ u \in Users /\ stage[u] = "releasing"
      /\ calls' \in Seq(Users) /\ Distinct(calls)'
      /\ \A v : v \in Elements(calls)' <=> v \in Elements(calls) /\ v # u
  BY FirstCall DEF OnReleaseBurner
<1>2. /\ pending # <<>> /\ burners' = burners
      /\ stage' = [stage EXCEPT ![u] = "done", ![w] = "posted"]
      /\ pending' = Tail(pending)
  BY DEF HandOver
<1>3. stage \in [Users -> Stages] /\ burners \in Nat
  BY DEF CookerInv, CookerTypeOK
<1>4. PICK q, p : q = pending /\ p = pending'
  OBVIOUS
<1>5. q \in Seq(Users) /\ q # <<>> /\ Distinct(q) /\ p = Tail(q) /\ w = Head(q)
  BY <1>2, <1>4 DEF CookerInv, CookerTypeOK, PendingMatch
<1>6. /\ p \in Seq(Users)
      /\ Head(q) \in Users
      /\ Elements(q) = Elements(p) \cup {Head(q)}
      /\ Head(q) \notin Elements(p)
      /\ Distinct(p)
  BY <1>5, TakenQueue, Zenon
<1>7. w \in Users /\ w \in Elements(q) /\ \A v : v \in Elements(p) <=> v \in Elements(q) /\ v # w
  BY <1>5, <1>6
<1> HIDE DEF u, w
<1>8. stage[w] = "pending" /\ w # u
  BY <1>1, <1>4, <1>7 DEF CookerInv, PendingMatch
<1>9. Holders' = (Holders \ {u}) \cup {w} /\ u \in Holders /\ w \notin Holders \ {u}
  BY <1>1, <1>2, <1>3, <1>7, <1>8 DEF Holders
<1>10. Cardinality(Holders') = Cardinality(Holders)
  <2>1. IsFiniteSet(Holders \ {u}) /\ Cardinality(Holders \ {u}) = Cardinality(Holders) - 1
    BY <1>9, HoldersFinite, FS_RemoveElement
  <2>2. Cardinality(Holders') = Cardinality(Holders \ {u}) + 1
    BY <1>9, <2>1, FS_AddElement
  <2> QED BY <2>1, <2>2, HoldersFinite
<1>11. CallsMatch'
  BY <1>1, <1>2, <1>3, <1>7, <1>8 DEF CookerInv, CallsMatch
<1>12. PendingMatch'
  BY <1>1, <1>2, <1>3, <1>4, <1>6, <1>7, <1>8 DEF CookerInv, PendingMatch
<1>13. CountIsRight' /\ NobodyWaitsForFreeBurner'
  BY <1>2, <1>10 DEF CookerInv, CountIsRight, NobodyWaitsForFreeBurner
<1>14. CookerTypeOK'
  BY <1>1, <1>2, <1>3, <1>4, <1>6, <1>7 DEF CookerInv, CookerTypeOK, Stages
<1> QED BY <1>11, <1>12, <1>13, <1>14 DEF CookerInv

LEMMA FreeKeepsInv ==
  ASSUME CookerInv, OnReleaseBurner, FreeBurner(Head(calls))
  PROVE  CookerInv'
<1> DEFINE u == Head(calls)
<1>1. /\ u \in Users /\ stage[u] = "releasing"
      /\ calls' \in Seq(Users) /\ Distinct(calls)'
      /\ \A v : v \in Elements(calls)' <=> v \in Elements(calls) /\ v # u
  BY FirstCall DEF OnReleaseBurner
<1>2. /\ pending = <<>> /\ burners' = burners - 1
      /\ stage' = [stage EXCEPT ![u] = "done"]
      /\ pending' = pending
  BY DEF FreeBurner
<1> HIDE DEF u
<1>3. stage \in [Users -> Stages] /\ burners \in Nat
  BY DEF CookerInv, CookerTypeOK
<1>4. Holders' = Holders \ {u} /\ u \in Holders
  BY <1>1, <1>2, <1>3 DEF Holders
<1>5. Cardinality(Holders') = Cardinality(Holders) - 1 /\ Cardinality(Holders') \in Nat
  BY <1>4, HoldersFinite, FS_RemoveElement, FS_CardinalityType
<1>6. CountIsRight' /\ burners' \in Nat
  BY <1>2, <1>3, <1>5, CookerAssumption DEF CookerInv, CountIsRight
<1>7. CallsMatch' /\ PendingMatch'
  BY <1>1, <1>2, <1>3 DEF CookerInv, CallsMatch, PendingMatch
<1>8. NobodyWaitsForFreeBurner'
  BY <1>2 DEF NobodyWaitsForFreeBurner
<1> QED BY <1>1, <1>2, <1>3, <1>6, <1>7, <1>8
        DEF CookerInv, CookerTypeOK, Stages

-----------------------------------------------------------------------------
LEMMA NextCookerInv ==
  ASSUME CookerInv, [CookerNext]_cookerVars
  PROVE  CookerInv'
<1>1. CASE UNCHANGED cookerVars
  BY <1>1 DEF cookerVars, CookerInv, CookerTypeOK, CallsMatch, PendingMatch, CountIsRight,
              Holders, NobodyWaitsForFreeBurner
<1>2. CASE OnUseBurner
  BY <1>2, TakeKeepsInv, WaitKeepsInv DEF OnUseBurner
<1>3. CASE OnReleaseBurner
  BY <1>3, HandOverKeepsInv, FreeKeepsInv DEF OnReleaseBurner
<1>4. CASE \E u \in Users : UseBurner(u) \/ RunHandler(u) \/ ReleaseBurner(u)
  BY <1>4, CallKeepsInv, HandlerKeepsInv
<1> QED BY <1>1, <1>2, <1>3, <1>4 DEF CookerNext

(* The inductive invariant, for every number of burners and ingredients.   *)
THEOREM CookerInvariant == CookerSpec => []CookerInv
<1>1. CookerInv /\ [CookerNext]_cookerVars => CookerInv'
  BY NextCookerInv
<1> QED BY InitCookerInv, <1>1, PTL DEF CookerSpec

(* The variables of the cooker keep their types: burners_in_use_ never     *)
(* becomes negative.                                                       *)
THEOREM CookerTypes == CookerSpec => []CookerTypeOK
<1>1. CookerInv => CookerTypeOK
  BY DEF CookerInv
<1> QED BY <1>1, CookerInvariant, PTL

(* No assert of UseBurner or ReleaseBurner fires.                          *)
THEOREM AssertsNeverFire == CookerSpec => []AssertsHold
<1>1. CookerInv => AssertsHold
  <2> SUFFICES ASSUME CookerInv, calls # <<>>, stage[Head(calls)] = "releasing"
               PROVE  burners > 0
    BY DEF CookerInv, CountIsRight, AssertsHold
  <2>1. Head(calls) \in Users
    BY DEF CookerInv, CookerTypeOK
  <2>2. Holders # {}
    BY <2>1 DEF Holders
  <2>3. Cardinality(Holders) # 0
    BY <2>2, HoldersFinite, FS_EmptySet
  <2> QED BY <2>3, HoldersFinite DEF CookerInv, CountIsRight
<1> QED BY <1>1, CookerInvariant, PTL

(* A burner is never given to two ingredients.                             *)
THEOREM BurnersAreNotShared == CookerSpec => []NoBurnerIsShared
<1>1. CookerInv => NoBurnerIsShared
  <2> SUFFICES ASSUME CookerInv PROVE NoBurnerIsShared
    OBVIOUS
  <2> DEFINE S == {u \in Users : stage[u] \in {"posted", "cooking"}}
  <2>1. S \in SUBSET Holders
    BY DEF Holders
  <2>2. IsFiniteSet(S) /\ Cardinality(S) <= Cardinality(Holders)
    BY <2>1, HoldersFinite, FS_Subset
  <2>3. Cardinality(S) \in Nat
    BY <2>2, FS_CardinalityType
  <2> HIDE DEF S
  <2>4. Cardinality(S) <= Burners
    BY <2>2, <2>3, HoldersFinite, CookerAssumption DEF CookerInv, CountIsRight
  <2> QED BY <2>4 DEF S, NoBurnerIsShared
<1> QED BY <1>1, CookerInvariant, PTL

(* A handler waits only while all burners are in use.                      *)
THEOREM NoBurnerIdles == CookerSpec => []NobodyWaitsForFreeBurner
<1>1. CookerInv => NobodyWaitsForFreeBurner
  BY DEF CookerInv
<1> QED BY <1>1, CookerInvariant, PTL

(* The assert of the destructor does not fire.                             *)
THEOREM NoBurnerLeaks == CookerSpec => []DestructorAssert
<1>1. CookerInv => DestructorAssert
  <2> SUFFICES ASSUME CookerInv, \A u \in Users : stage[u] \in {"raw", "done"}
               PROVE  burners = 0
    BY DEF DestructorAssert
  <2>1. Holders = {}
    BY DEF Holders
  <2> QED BY <2>1, FS_EmptySet DEF CookerInv, CountIsRight
<1> QED BY <1>1, CookerInvariant, PTL

-----------------------------------------------------------------------------
(***************************************************************************)
(* The cooker implements the pool.  A call of UseBurner is a request, the  *)
(* strand's step that posts a handler gives the burner to the first in     *)
(* line, and a call of ReleaseBurner returns it; every other step leaves   *)
(* the pool as it is.                                                      *)
(***************************************************************************)
LineUp   == {u \in Users : InLine(u)}
AheadOf  == [u \in LineUp |-> Ahead(u)]
Cooks    == {u \in Users : stage[u] \in {"posted", "cooking"}}

LEMMA BeforeInAppended ==
  ASSUME NEW T, NEW q \in Seq(T), NEW x \in T, NEW p, p = Append(q, x),
         NEW v, NEW u
  PROVE  Before(p, v, u) <=> Before(q, v, u) \/ (u = x /\ v \in Elements(q))
<1>1. /\ Len(q) \in Nat
      /\ Len(p) = Len(q) + 1
      /\ \A i \in 1 .. Len(q) : p[i] = q[i]
      /\ p[Len(q) + 1] = x
  OBVIOUS
<1>2. Before(q, v, u) => Before(p, v, u)
  BY <1>1 DEF Before
<1>3. u = x /\ v \in Elements(q) => Before(p, v, u)
  BY <1>1 DEF Before, Elements
<1>4. ASSUME Before(p, v, u) PROVE Before(q, v, u) \/ (u = x /\ v \in Elements(q))
  <2>1. PICK i, j \in 1 .. Len(p) : i < j /\ p[i] = v /\ p[j] = u
    BY <1>4 DEF Before
  <2>2. i \in 1 .. Len(q) /\ q[i] = v
    BY <1>1, <2>1
  <2>3. CASE j \in 1 .. Len(q)
    BY <1>1, <2>1, <2>2, <2>3 DEF Before
  <2>4. CASE j = Len(q) + 1
    BY <1>1, <2>1, <2>2, <2>4 DEF Elements
  <2> QED BY <1>1, <2>3, <2>4
<1> QED BY <1>2, <1>3, <1>4

LEMMA BeforeInTaken ==
  ASSUME NEW T, NEW q \in Seq(T), q # <<>>, Distinct(q), NEW p, p = Tail(q), NEW v, NEW u
  PROVE  Before(p, v, u) <=> Before(q, v, u) /\ v # Head(q)
<1>1. /\ Len(q) \in Nat \ {0}
      /\ Len(p) = Len(q) - 1
      /\ \A i \in 1 .. Len(p) : p[i] = q[i + 1]
      /\ Head(q) = q[1]
  OBVIOUS
<1>2. ASSUME Before(p, v, u) PROVE Before(q, v, u) /\ v # Head(q)
  <2>1. PICK i, j \in 1 .. Len(p) : i < j /\ p[i] = v /\ p[j] = u
    BY <1>2 DEF Before
  <2>2. /\ i + 1 \in 1 .. Len(q) /\ j + 1 \in 1 .. Len(q) /\ i + 1 < j + 1
        /\ q[i + 1] = v /\ q[j + 1] = u /\ i + 1 # 1
    BY <1>1, <2>1
  <2> QED BY <1>1, <2>2 DEF Before, Distinct
<1>3. ASSUME Before(q, v, u), v # Head(q) PROVE Before(p, v, u)
  <2>1. PICK i, j \in 1 .. Len(q) : i < j /\ q[i] = v /\ q[j] = u
    BY <1>3 DEF Before
  <2>2. /\ i - 1 \in 1 .. Len(p) /\ j - 1 \in 1 .. Len(p) /\ i - 1 < j - 1
        /\ p[i - 1] = v /\ p[j - 1] = u
    BY <1>1, <1>3, <2>1
  <2> QED BY <2>2 DEF Before
<1> QED BY <1>2, <1>3

(* Nothing is before the first element, and what is before or after        *)
(* something is in the queue.                                              *)
LEMMA BeforeInQueue ==
  ASSUME NEW T, NEW q \in Seq(T), Distinct(q), NEW v, NEW u, Before(q, v, u)
  PROVE  q # <<>> /\ v \in Elements(q) /\ u \in Elements(q) /\ u # Head(q)
<1>1. PICK i, j \in 1 .. Len(q) : i < j /\ q[i] = v /\ q[j] = u
  BY DEF Before
<1>2. q # <<>> /\ Head(q) = q[1] /\ 1 \in 1 .. Len(q) /\ j # 1
  BY <1>1
<1> QED BY <1>1, <1>2 DEF Elements, Distinct

(* The queues of a state.                                                  *)
LEMMA Queues ==
  ASSUME CookerInv
  PROVE  /\ stage \in [Users -> Stages]
         /\ calls \in Seq(Users) /\ Distinct(calls)
         /\ pending \in Seq(Users) /\ Distinct(pending)
         /\ \A u \in Users : u \in Elements(calls) <=> stage[u] \in {"asked", "releasing"}
         /\ \A u \in Users : u \in Elements(pending) <=> stage[u] = "pending"
         /\ \A v, u : Before(calls, v, u) => v \in Elements(calls) /\ u \in Elements(calls)
         /\ \A v, u : Before(pending, v, u) => v \in Elements(pending) /\ u \in Elements(pending)
<1>1. /\ stage \in [Users -> Stages]
      /\ calls \in Seq(Users) /\ Distinct(calls)
      /\ pending \in Seq(Users) /\ Distinct(pending)
  BY DEF CookerInv, CookerTypeOK, CallsMatch, PendingMatch
<1>2. \A v, u : Before(calls, v, u) => v \in Elements(calls) /\ u \in Elements(calls)
  BY <1>1, BeforeInQueue
<1>3. \A v, u : Before(pending, v, u) => v \in Elements(pending) /\ u \in Elements(pending)
  BY <1>1, BeforeInQueue
<1> QED BY <1>1, <1>2, <1>3 DEF CookerInv, CallsMatch, PendingMatch

LEMMA AskIsRequest ==
  ASSUME CookerInv, NEW u \in Users, UseBurner(u)
  PROVE  /\ u \notin Cooks \cup LineUp
         /\ Cooks' = Cooks
         /\ AheadOf' = [v \in LineUp \cup {u} |-> IF v = u THEN LineUp ELSE AheadOf[v]]
<1>1. /\ stage[u] = "raw" /\ stage' = [stage EXCEPT ![u] = "asked"]
      /\ calls' = Append(calls, u) /\ pending' = pending
  BY DEF UseBurner
<1>2. u \notin Elements(calls) /\ u \notin Elements(pending)
  BY <1>1, Queues
<1>3. \A v, w : Before(calls', v, w) <=> Before(calls, v, w) \/ (w = u /\ v \in Elements(calls))
  <2>1. calls \in Seq(Users)
    BY Queues
  <2> QED BY <1>1, <2>1, BeforeInAppended, Zenon
<1>4. u \notin Cooks \cup LineUp /\ Cooks' = Cooks /\ LineUp' = LineUp \cup {u}
  BY <1>1, Queues DEF Cooks, LineUp, InLine
<1>5. ASSUME NEW v \in LineUp PROVE Ahead(v)' = Ahead(v)
  <2>1. ASSUME NEW w \in Users PROVE (InLine(w)' /\ Precedes(w, v)') <=> (InLine(w) /\ Precedes(w, v))
    BY <1>1, <1>2, <1>3, <1>4, <1>5, Queues DEF Precedes, InLine, LineUp
  <2> QED BY <2>1 DEF Ahead
<1>6. Ahead(u)' = LineUp
  <2>1. ASSUME NEW w \in Users PROVE (InLine(w)' /\ Precedes(w, u)') <=> InLine(w)
    BY <1>1, <1>2, <1>3, Queues DEF Precedes, InLine
  <2> QED BY <2>1 DEF Ahead, LineUp
<1>7. AheadOf' = [v \in LineUp \cup {u} |-> IF v = u THEN LineUp ELSE AheadOf[v]]
  BY <1>4, <1>5, <1>6 DEF AheadOf
<1> QED BY <1>4, <1>7

(* The burners in use, without those being returned.                       *)
LEMMA FewCook ==
  ASSUME CookerInv
  PROVE  /\ burners < Burners => Cardinality(Cooks) < Burners
         /\ \A u \in Users : stage[u] = "releasing" => Cardinality(Cooks) < Burners
<1>1. /\ IsFiniteSet(Holders) /\ Cardinality(Holders) \in Nat
      /\ burners = Cardinality(Holders) /\ burners <= Burners /\ Burners \in Nat
  BY HoldersFinite, CookerAssumption DEF CookerInv, CountIsRight
<1>2. Cooks \subseteq Holders
  BY DEF Cooks, Holders
<1>3. Cardinality(Cooks) <= Cardinality(Holders) /\ Cardinality(Cooks) \in Nat
  BY <1>1, <1>2, FS_Subset, FS_CardinalityType
<1>4. ASSUME NEW u \in Users, stage[u] = "releasing"
      PROVE  Cardinality(Cooks) < Burners
  <2>1. u \in Holders /\ Cooks \subseteq Holders \ {u}
    BY <1>4 DEF Cooks, Holders
  <2>2. /\ IsFiniteSet(Holders \ {u})
        /\ Cardinality(Holders \ {u}) = Cardinality(Holders) - 1
    BY <1>1, <2>1, FS_RemoveElement
  <2>3. Cardinality(Cooks) <= Cardinality(Holders \ {u})
    BY <2>1, <2>2, FS_Subset
  <2> QED BY <1>1, <1>3, <2>2, <2>3
<1> QED BY <1>1, <1>3, <1>4

(* The pool is left as it is.                                              *)
SamePool == AheadOf' = AheadOf /\ Cooks' = Cooks

(* Somebody in line gets a burner.                                         *)
Granted(u) ==
  /\ u \in LineUp /\ AheadOf[u] = {}
  /\ Cardinality(Cooks) < Burners
  /\ Cooks' = Cooks \cup {u}
  /\ AheadOf' = [v \in LineUp \ {u} |-> AheadOf[v] \ {u}]

LEMMA TakeIsGrant ==
  ASSUME CookerInv, OnUseBurner, TakeBurner(Head(calls))
  PROVE  Head(calls) \in Users /\ Granted(Head(calls))
<1> DEFINE u == Head(calls)
<1>1. /\ u \in Users /\ stage[u] = "asked" /\ calls # <<>>
      /\ burners < Burners
      /\ stage' = [stage EXCEPT ![u] = "posted"]
      /\ calls' = Tail(calls) /\ pending' = pending
  BY FirstCall DEF OnUseBurner, TakeBurner, BurnerFree
<1>2. pending = <<>>
  BY <1>1, CookerAssumption DEF CookerInv, NobodyWaitsForFreeBurner, CookerTypeOK
<1>3. \A v, w : ~ Before(pending, v, w)
  BY <1>2 DEF Before
<1>4. \A v, w : Before(calls', v, w) <=> Before(calls, v, w) /\ v # u
  BY <1>1, Queues, BeforeInTaken
<1>5. \A v : ~ Before(calls, v, u)
  BY Queues, BeforeInQueue
<1>6. \A v \in Users : stage[v] # "pending"
  BY <1>2, Queues DEF Elements
<1> HIDE DEF u
<1>7. LineUp' = LineUp \ {u} /\ u \in LineUp /\ Cooks' = Cooks \cup {u}
  BY <1>1, Queues DEF LineUp, InLine, Cooks
<1>8. Ahead(u) = {}
  BY <1>3, <1>5, <1>6 DEF Ahead, Precedes
<1>9. ASSUME NEW v \in LineUp \ {u} PROVE Ahead(v)' = Ahead(v) \ {u}
  <2>1. ASSUME NEW w \in Users
        PROVE  (InLine(w)' /\ Precedes(w, v)') <=> (InLine(w) /\ Precedes(w, v) /\ w # u)
    BY <1>1, <1>3, <1>4, <1>6, Queues DEF Precedes, InLine
  <2> QED BY <2>1 DEF Ahead
<1>10. AheadOf' = [v \in LineUp \ {u} |-> AheadOf[v] \ {u}]
  BY <1>7, <1>9 DEF AheadOf
<1>11. Granted(u)
  BY <1>1, <1>7, <1>8, <1>10, FewCook DEF Granted, AheadOf
<1> QED BY <1>1, <1>11 DEF u

LEMMA HandOverIsGrant ==
  ASSUME CookerInv, OnReleaseBurner, HandOver(Head(calls))
  PROVE  Head(pending) \in Users /\ Granted(Head(pending))
<1> DEFINE u == Head(calls)
           x == Head(pending)
<1>1. /\ u \in Users /\ stage[u] = "releasing" /\ calls # <<>> /\ pending # <<>>
      /\ stage' = [stage EXCEPT ![u] = "done", ![x] = "posted"]
      /\ calls' = Tail(calls) /\ pending' = Tail(pending)
  BY FirstCall DEF OnReleaseBurner, HandOver
<1>2. x \in Users /\ stage[x] = "pending"
  <2>1. x \in Users /\ x \in Elements(pending)
    BY <1>1, Queues DEF Elements
  <2> QED BY <2>1, Queues
<1>3. \A v, w : Before(calls', v, w) <=> Before(calls, v, w) /\ v # u
  BY <1>1, Queues, BeforeInTaken
<1>4. \A v, w : Before(pending', v, w) <=> Before(pending, v, w) /\ v # x
  BY <1>1, Queues, BeforeInTaken
<1>5. \A v : ~ Before(pending, v, x)
  BY Queues, BeforeInQueue
<1> HIDE DEF u, x
<1>6. LineUp' = LineUp \ {x} /\ x \in LineUp /\ Cooks' = Cooks \cup {x}
  BY <1>1, <1>2, Queues DEF LineUp, InLine, Cooks
<1>7. Ahead(x) = {}
  BY <1>2, <1>5, Queues DEF Ahead, Precedes, InLine
<1>8. ASSUME NEW v \in LineUp \ {x} PROVE Ahead(v)' = Ahead(v) \ {x}
  <2>1. ASSUME NEW w \in Users
        PROVE  (InLine(w)' /\ Precedes(w, v)') <=> (InLine(w) /\ Precedes(w, v) /\ w # x)
    BY <1>1, <1>2, <1>3, <1>4, <1>8, Queues DEF Precedes, InLine, LineUp
  <2> QED BY <2>1 DEF Ahead
<1>9. AheadOf' = [v \in LineUp \ {x} |-> AheadOf[v] \ {x}]
  BY <1>6, <1>8 DEF AheadOf
<1>10. Granted(x)
  BY <1>1, <1>6, <1>7, <1>9, FewCook DEF Granted, AheadOf
<1> QED BY <1>2, <1>10 DEF x

LEMMA WaitKeepsPool ==
  ASSUME CookerInv, OnUseBurner, Wait(Head(calls))
  PROVE  SamePool
<1> DEFINE u == Head(calls)
<1>1. /\ u \in Users /\ stage[u] = "asked" /\ calls # <<>>
      /\ stage' = [stage EXCEPT ![u] = "pending"]
      /\ calls' = Tail(calls) /\ pending' = Append(pending, u)
  BY FirstCall DEF OnUseBurner, Wait
<1>2. \A v, w : Before(calls', v, w) <=> Before(calls, v, w) /\ v # u
  BY <1>1, Queues, BeforeInTaken
<1>3. \A v : ~ Before(calls, v, u)
  BY Queues, BeforeInQueue
<1>4. u \notin Elements(pending)
  BY <1>1, Queues
<1>5. \A v, w : Before(pending', v, w) <=> Before(pending, v, w) \/ (w = u /\ v \in Elements(pending))
  <2>1. pending \in Seq(Users)
    BY Queues
  <2> QED BY <1>1, <2>1, BeforeInAppended, Zenon
<1>6. \A v \in Users : stage[v] = "asked" /\ v # u => Before(calls, u, v)
  <2> SUFFICES ASSUME NEW v \in Users, stage[v] = "asked", v # u PROVE Before(calls, u, v)
    OBVIOUS
  <2>1. v \in Elements(calls)
    BY Queues
  <2>2. PICK j \in 1 .. Len(calls) : calls[j] = v
    BY <2>1 DEF Elements
  <2>3. calls[1] = u /\ 1 \in 1 .. Len(calls) /\ 1 < j
    BY <1>1, <2>2, Queues
  <2> QED BY <2>2, <2>3 DEF Before
<1> HIDE DEF u
<1>7. LineUp' = LineUp /\ Cooks' = Cooks
  BY <1>1, Queues DEF LineUp, InLine, Cooks
<1>8. ASSUME NEW v \in LineUp PROVE Ahead(v)' = Ahead(v)
  <2>1. ASSUME NEW w \in Users
        PROVE  (InLine(w)' /\ Precedes(w, v)') <=> (InLine(w) /\ Precedes(w, v))
    <3>1. InLine(w)' <=> InLine(w)
      BY <1>1, Queues DEF InLine
    <3>2. CASE v = u
      BY <1>1, <1>2, <1>3, <1>4, <1>5, <3>1, <3>2, Queues DEF Precedes, InLine
    <3>3. CASE v # u /\ w = u
      BY <1>1, <1>2, <1>4, <1>5, <1>6, <1>8, <3>1, <3>3, Queues DEF Precedes, InLine, LineUp
    <3>4. CASE v # u /\ w # u
      BY <1>1, <1>2, <1>5, <3>1, <3>4, Queues DEF Precedes, InLine
    <3> QED BY <3>2, <3>3, <3>4
  <2> QED BY <2>1 DEF Ahead
<1> QED BY <1>7, <1>8 DEF SamePool, AheadOf

LEMMA FreeKeepsPool ==
  ASSUME CookerInv, OnReleaseBurner, FreeBurner(Head(calls))
  PROVE  SamePool
<1> DEFINE u == Head(calls)
<1>1. /\ u \in Users /\ stage[u] = "releasing" /\ calls # <<>>
      /\ stage' = [stage EXCEPT ![u] = "done"]
      /\ calls' = Tail(calls) /\ pending' = pending
  BY FirstCall DEF OnReleaseBurner, FreeBurner
<1>2. \A v, w : Before(calls', v, w) <=> Before(calls, v, w) /\ v # u
  BY <1>1, Queues, BeforeInTaken
<1> HIDE DEF u
<1>3. LineUp' = LineUp /\ Cooks' = Cooks
  BY <1>1, Queues DEF LineUp, InLine, Cooks
<1>4. ASSUME NEW v \in LineUp PROVE Ahead(v)' = Ahead(v)
  <2>1. ASSUME NEW w \in Users
        PROVE  (InLine(w)' /\ Precedes(w, v)') <=> (InLine(w) /\ Precedes(w, v))
    BY <1>1, <1>2, <1>4, Queues DEF Precedes, InLine, LineUp
  <2> QED BY <2>1 DEF Ahead
<1> QED BY <1>3, <1>4 DEF SamePool, AheadOf

LEMMA HandlerKeepsPool ==
  ASSUME CookerInv, NEW u \in Users, RunHandler(u)
  PROVE  SamePool
<1>1. /\ stage[u] = "posted" /\ stage' = [stage EXCEPT ![u] = "cooking"]
      /\ calls' = calls /\ pending' = pending
  BY DEF RunHandler
<1>2. LineUp' = LineUp /\ Cooks' = Cooks
  BY <1>1, Queues DEF LineUp, InLine, Cooks
<1>3. ASSUME NEW v \in LineUp PROVE Ahead(v)' = Ahead(v)
  <2>1. ASSUME NEW w \in Users
        PROVE  (InLine(w)' /\ Precedes(w, v)') <=> (InLine(w) /\ Precedes(w, v))
    BY <1>1, <1>3, Queues DEF Precedes, InLine, LineUp
  <2> QED BY <2>1 DEF Ahead
<1> QED BY <1>2, <1>3 DEF SamePool, AheadOf

LEMMA ReleaseIsReturn ==
  ASSUME CookerInv, NEW u \in Users, ReleaseBurner(u)
  PROVE  u \in Cooks /\ Cooks' = Cooks \ {u} /\ AheadOf' = AheadOf
<1>1. /\ stage[u] = "cooking" /\ stage' = [stage EXCEPT ![u] = "releasing"]
      /\ calls' = Append(calls, u) /\ pending' = pending
  BY DEF ReleaseBurner
<1>2. u \notin Elements(calls)
  BY <1>1, Queues
<1>3. \A v, w : Before(calls', v, w) <=> Before(calls, v, w) \/ (w = u /\ v \in Elements(calls))
  <2>1. calls \in Seq(Users)
    BY Queues
  <2> QED BY <1>1, <2>1, BeforeInAppended, Zenon
<1>4. LineUp' = LineUp /\ u \notin LineUp /\ u \in Cooks /\ Cooks' = Cooks \ {u}
  BY <1>1, Queues DEF LineUp, InLine, Cooks
<1>5. ASSUME NEW v \in LineUp PROVE Ahead(v)' = Ahead(v)
  <2>1. ASSUME NEW w \in Users
        PROVE  (InLine(w)' /\ Precedes(w, v)') <=> (InLine(w) /\ Precedes(w, v))
    BY <1>1, <1>3, <1>4, <1>5, Queues DEF Precedes, InLine, LineUp
  <2> QED BY <2>1 DEF Ahead
<1> QED BY <1>4, <1>5 DEF AheadOf

(* The burners are given out in the order of the calls, never more than    *)
(* there are, for every number of burners and ingredients: each step of    *)
(* the cooker is a step of the pool or changes nothing in it.              *)
THEOREM CookerImplementsPool == CookerSpec => Pool!PoolSafety
<1>1. AheadOf = [u \in {v \in Users : InLine(v)} |-> Ahead(u)]
  BY DEF AheadOf, LineUp
<1>2. CookerInit => Pool!PoolInit
  <2> SUFFICES ASSUME CookerInit PROVE Pool!PoolInit
    OBVIOUS
  <2>1. \A u \in Users : stage[u] = "raw"
    BY DEF CookerInit
  <2>2. {v \in Users : InLine(v)} = {} /\ {u \in Users : stage[u] \in {"posted", "cooking"}} = {}
    BY <2>1 DEF InLine
  <2> QED BY <2>2 DEF Pool!PoolInit
<1>3. CookerInv /\ [CookerNext]_cookerVars => [Pool!PoolNext]_Pool!poolVars
  <2> SUFFICES ASSUME CookerInv, [CookerNext]_cookerVars PROVE [Pool!PoolNext]_Pool!poolVars
    OBVIOUS
  <2>1. SamePool => UNCHANGED Pool!poolVars
    BY DEF SamePool, AheadOf, LineUp, Cooks, Pool!poolVars
  <2>2. ASSUME NEW u \in Users, Granted(u) PROVE Pool!PoolNext
    <3>1. /\ u \in LineUp /\ AheadOf[u] = {} /\ Cardinality(Cooks) < Burners
          /\ Cooks' = Cooks \cup {u}
          /\ AheadOf' = [v \in LineUp \ {u} |-> AheadOf[v] \ {u}]
      BY <2>2 DEF Granted
    <3>2. DOMAIN AheadOf = LineUp
      BY DEF AheadOf
    <3>3. Pool!Cardinality(Cooks) = Cardinality(Cooks)
      BY Zenon DEF Pool!Cardinality, Cardinality
    <3>4. Pool!Grant(u)
      BY <3>1, <3>2, <3>3, Zenon DEF AheadOf, LineUp, Cooks, Pool!Grant, Pool!Line
    <3> QED BY <3>4 DEF Pool!PoolNext
  <2>3. ASSUME NEW u \in Users, UseBurner(u) PROVE Pool!PoolNext
    <3>1. Pool!Request(u)
      BY <2>3, AskIsRequest DEF AheadOf, LineUp, Cooks, Pool!Request, Pool!Line
    <3> QED BY <3>1 DEF Pool!PoolNext
  <2>4. ASSUME NEW u \in Users, ReleaseBurner(u) PROVE Pool!PoolNext
    <3>1. Pool!Return(u)
      BY <2>4, ReleaseIsReturn DEF AheadOf, LineUp, Cooks, Pool!Return
    <3> QED BY <3>1 DEF Pool!PoolNext
  <2>5. CASE OnUseBurner
    BY <2>1, <2>2, <2>5, TakeIsGrant, WaitKeepsPool DEF OnUseBurner
  <2>6. CASE OnReleaseBurner
    BY <2>1, <2>2, <2>6, HandOverIsGrant, FreeKeepsPool DEF OnReleaseBurner
  <2>7. CASE \E u \in Users : RunHandler(u)
    BY <2>1, <2>7, HandlerKeepsPool
  <2>8. CASE UNCHANGED cookerVars
    BY <2>8 DEF cookerVars, Pool!poolVars, Ahead, Precedes, Before, InLine
  <2> QED BY <2>3, <2>4, <2>5, <2>6, <2>7, <2>8 DEF CookerNext
<1> QED BY <1>2, <1>3, CookerInvariant, PTL DEF CookerSpec, Pool!PoolSafety

-----------------------------------------------------------------------------
(***************************************************************************)
(* The orders of the cafeteria.                                            *)
(***************************************************************************)
HasTypes ==
  /\ stage \in [Users -> Stages]
  /\ cooked \in [Users -> {"no", "right", "late"}]
  /\ checking \in [Orders -> SUBSET Kinds]
  /\ delivered \in [Orders -> Nat]
  /\ alive \in BOOLEAN

(* An ingredient is cooked when it has given its burner back.              *)
CookedOnce == \A u \in Users : cooked[u] # "no" <=> stage[u] \in {"releasing", "done"}

OneHandler ==
  \A o \in Orders : \A k \in checking[o] :
    /\ cooked[<<o, k>>] # "no"
    /\ \A l \in checking[o] : k = l

Fulfilled(o) == IngredientsReady(o) /\ checking[o] = {}

CountedOnce ==
  \A o \in Orders :
    /\ delivered[o] \in {0, 1}
    /\ alive => (delivered[o] = 1 <=> Fulfilled(o))
    /\ delivered[o] = 1 => IngredientsReady(o)

OrderInv == HasTypes /\ CookedOnce /\ OneHandler /\ CountedOnce

LEMMA Ingredient ==
  ASSUME NEW o \in Orders, NEW k \in Kinds
  PROVE  <<o, k>> \in Users
BY CafeteriaAssumption

LEMMA InitOrderInv == Init => OrderInv
BY Ingredient DEF Init, CookerInit, OrderInv, HasTypes, CookedOnce, OneHandler, CountedOnce,
                  Fulfilled, IngredientsReady, Stages, Kinds

(* The steps that only move calls and handlers of the cooker change no     *)
(* stage of an ingredient that is cooked, and cook none.                   *)
LEMMA QuietStep ==
  ASSUME OrderInv, UNCHANGED <<cooked, checking, delivered, alive>>,
         stage' \in [Users -> Stages],
         \A u \in Users : stage'[u] \in {"releasing", "done"} <=> stage[u] \in {"releasing", "done"}
  PROVE  OrderInv'
BY DEF OrderInv, HasTypes, CookedOnce, OneHandler, CountedOnce, Fulfilled, IngredientsReady

LEMMA CookerStageKept ==
  ASSUME OrderInv, CookerInv,
         \/ OnUseBurner \/ OnReleaseBurner
         \/ \E u \in Users : RunHandler(u) \/ UseBurner(u)
  PROVE  /\ stage' \in [Users -> Stages]
         /\ \A u \in Users : stage'[u] \in {"releasing", "done"} <=> stage[u] \in {"releasing", "done"}
<1>1. stage \in [Users -> Stages]
  BY DEF OrderInv, HasTypes
<1>2. CASE OnUseBurner
  <2>1. Head(calls) \in Users
    BY <1>2 DEF OnUseBurner, CookerInv, CookerTypeOK
  <2> QED BY <1>1, <1>2, <2>1 DEF OnUseBurner, TakeBurner, Wait, Stages
<1>3. CASE OnReleaseBurner
  <2>1. Head(calls) \in Users /\ stage[Head(calls)] = "releasing"
    BY <1>3 DEF OnReleaseBurner, CookerInv, CookerTypeOK
  <2>2. CASE FreeBurner(Head(calls))
    BY <1>1, <2>1, <2>2 DEF FreeBurner, Stages
  <2>3. CASE HandOver(Head(calls))
    <3>1. Head(pending) = pending[1] /\ 1 \in 1 .. Len(pending) /\ Head(pending) \in Users
      BY <2>3 DEF HandOver, CookerInv, CookerTypeOK
    <3>2. stage[Head(pending)] = "pending"
      BY <3>1 DEF CookerInv, PendingMatch, Elements
    <3> QED BY <1>1, <2>1, <2>3, <3>2 DEF HandOver, Stages
  <2> QED BY <1>3, <2>2, <2>3 DEF OnReleaseBurner
<1>4. CASE \E u \in Users : RunHandler(u) \/ UseBurner(u)
  BY <1>1, <1>4 DEF RunHandler, UseBurner, Stages
<1> QED BY <1>2, <1>3, <1>4

LEMMA StopKeepsInv ==
  ASSUME OrderInv, NEW o \in Orders, NEW k \in Kinds, StopCooking(o, k)
  PROVE  OrderInv'
<1>1. /\ checking[o] = {} /\ stage[<<o, k>>] = "cooking"
      /\ stage' = [stage EXCEPT ![<<o, k>>] = "releasing"]
      /\ checking' = [checking EXCEPT ![o] = {k}]
      /\ UNCHANGED <<delivered, alive>>
  BY DEF StopCooking, ReleaseBurner, OrderStrandIdle
<1>2. PICK c \in {"right", "late"} : cooked' = [cooked EXCEPT ![<<o, k>>] = c]
  BY DEF StopCooking
<1>3. <<o, k>> \in Users /\ HasTypes
  BY Ingredient DEF OrderInv
<1>4. HasTypes'
  BY <1>1, <1>2, <1>3 DEF HasTypes, Stages
<1>5. CookedOnce'
  BY <1>1, <1>2, <1>3 DEF OrderInv, CookedOnce, HasTypes
<1>6. cooked[<<o, k>>] = "no"
  BY <1>1, <1>3 DEF OrderInv, CookedOnce
<1>7. OneHandler'
  BY <1>1, <1>2, <1>3, Ingredient DEF OrderInv, OneHandler, HasTypes
<1>8. ASSUME NEW p \in Orders
      PROVE  /\ delivered'[p] \in {0, 1}
             /\ alive' => (delivered'[p] = 1 <=> Fulfilled(p)')
             /\ delivered'[p] = 1 => IngredientsReady(p)'
  <2>1. CASE p = o
    <3>1. ~ IngredientsReady(o)
      BY <1>6 DEF IngredientsReady
    <3>2. delivered[o] # 1 /\ checking'[o] # {}
      BY <1>1, <1>3, <3>1 DEF OrderInv, CountedOnce, HasTypes
    <3> QED BY <1>1, <2>1, <3>2 DEF OrderInv, CountedOnce, Fulfilled
  <2>2. CASE p # o
    <3>1. \A l \in Kinds : cooked'[<<p, l>>] = cooked[<<p, l>>]
      BY <1>2, <1>3, <2>2, Ingredient DEF HasTypes
    <3>2. checking'[p] = checking[p]
      BY <1>1, <1>3, <2>2 DEF HasTypes
    <3> QED BY <1>1, <3>1, <3>2 DEF OrderInv, CountedOnce, Fulfilled, IngredientsReady
  <2> QED BY <2>1, <2>2
<1>9. CountedOnce'
  BY <1>8 DEF CountedOnce
<1> QED BY <1>4, <1>5, <1>7, <1>9 DEF OrderInv

LEMMA CheckKeepsInv ==
  ASSUME OrderInv, alive, NEW o \in Orders, NEW k \in Kinds, CheckReadiness(o, k)
  PROVE  OrderInv'
<1>1. /\ k \in checking[o]
      /\ checking' = [checking EXCEPT ![o] = checking[o] \ {k}]
      /\ UNCHANGED <<stage, cooked>>
  BY DEF CheckReadiness, cookerVars
<1>2. HasTypes /\ \A l \in checking[o] : k = l
  BY <1>1 DEF OrderInv, OneHandler
<1>3. checking[o] \ {k} = {} /\ checking[o] # {}
  BY <1>1, <1>2
<1>4. checking' = [checking EXCEPT ![o] = {}]
  BY <1>1, <1>3
<1>5. delivered[o] = 0
  BY <1>3 DEF OrderInv, CountedOnce, Fulfilled
<1>6. CookedOnce' /\ OneHandler' /\ \A p \in Orders : IngredientsReady(p)' <=> IngredientsReady(p)
  BY <1>1, <1>2, <1>4 DEF OrderInv, HasTypes, CookedOnce, OneHandler, IngredientsReady
<1>7. \A p \in Orders : Fulfilled(p)' <=> IngredientsReady(p) /\ (p = o \/ checking[p] = {})
  BY <1>2, <1>4, <1>6 DEF Fulfilled, HasTypes
<1>8. CASE UNCHANGED <<delivered, alive>> /\ ~ IngredientsReady(o)
  <2>1. HasTypes' /\ CountedOnce'
    BY <1>1, <1>2, <1>4, <1>5, <1>6, <1>7, <1>8 DEF OrderInv, HasTypes, CountedOnce, Fulfilled
  <2> QED BY <1>6, <2>1 DEF OrderInv
<1>9. CASE UNCHANGED delivered /\ alive' = FALSE
  <2>1. HasTypes' /\ CountedOnce'
    BY <1>1, <1>2, <1>4, <1>6, <1>9 DEF OrderInv, HasTypes, CountedOnce
  <2> QED BY <1>6, <2>1 DEF OrderInv
<1>10. CASE /\ UNCHANGED alive /\ IngredientsReady(o)
            /\ delivered' = [delivered EXCEPT ![o] = 1]
  <2>1. HasTypes' /\ CountedOnce'
    BY <1>1, <1>2, <1>4, <1>6, <1>7, <1>10 DEF OrderInv, HasTypes, CountedOnce, Fulfilled
  <2> QED BY <1>6, <2>1 DEF OrderInv
<1>11. \/ UNCHANGED <<delivered, alive>> /\ ~ IngredientsReady(o)
       \/ UNCHANGED delivered /\ alive' = FALSE
       \/ /\ UNCHANGED alive /\ IngredientsReady(o)
          /\ delivered' = [delivered EXCEPT ![o] = delivered[o] + 1]
  BY DEF CheckReadiness
<1>12. delivered[o] + 1 = 1
  BY <1>5
<1> QED BY <1>8, <1>9, <1>10, <1>11, <1>12

-----------------------------------------------------------------------------
LEMMA NextOrderInv ==
  ASSUME OrderInv, CookerInv, alive, [Next]_vars
  PROVE  OrderInv'
<1>1. CASE UNCHANGED vars
  BY <1>1 DEF vars, cookerVars, OrderInv, HasTypes, CookedOnce, OneHandler, CountedOnce,
              Fulfilled, IngredientsReady
<1>2. CASE CookerStep
  BY <1>2, CookerStageKept, QuietStep DEF CookerStep
<1>3. ASSUME NEW o \in Orders, StartTask(o) \/ PassLatch(o)
      PROVE  OrderInv'
  BY <1>3 DEF StartTask, PassLatch, cookerVars, OrderInv, HasTypes, CookedOnce, OneHandler,
              CountedOnce, Fulfilled, IngredientsReady
<1>4. ASSUME NEW o \in Orders, FrySausage(o) \/ BakeBread(o)
      PROVE  OrderInv'
  <2>1. \E u \in Users : UseBurner(u)
    BY <1>4, Ingredient DEF FrySausage, BakeBread, Kinds
  <2>2. UNCHANGED <<cooked, checking, delivered, alive>>
    BY <1>4 DEF FrySausage, BakeBread
  <2> QED BY <2>1, <2>2, CookerStageKept, QuietStep
<1>5. ASSUME NEW o \in Orders, NEW k \in Kinds, StopCooking(o, k) \/ CheckReadiness(o, k)
      PROVE  OrderInv'
  BY <1>5, StopKeepsInv, CheckKeepsInv
<1> QED BY <1>1, <1>2, <1>3, <1>4, <1>5 DEF Next

(* The cafeteria uses the cooker as GasCooker says: all that is proved of  *)
(* the cooker holds of the cafeteria's.                                    *)
THEOREM CafeteriaUsesCooker == Spec => CookerSpec
<1>1. Init => CookerInit
  BY DEF Init
<1>2. [Next]_vars => [CookerNext]_cookerVars
  <2> SUFFICES ASSUME [Next]_vars PROVE [CookerNext]_cookerVars
    OBVIOUS
  <2>1. CASE UNCHANGED vars
    BY <2>1 DEF vars
  <2>2. CASE CookerStep
    BY <2>2 DEF CookerStep, CookerNext
  <2>3. ASSUME NEW o \in Orders, StartTask(o) \/ PassLatch(o)
        PROVE  UNCHANGED cookerVars
    BY <2>3 DEF StartTask, PassLatch
  <2>4. ASSUME NEW o \in Orders, FrySausage(o) \/ BakeBread(o)
        PROVE  CookerNext
    BY <2>4, Ingredient DEF FrySausage, BakeBread, CookerNext, Kinds
  <2>5. ASSUME NEW o \in Orders, NEW k \in Kinds, StopCooking(o, k)
        PROVE  CookerNext
    BY <2>5, Ingredient DEF StopCooking, CookerNext
  <2>6. ASSUME NEW o \in Orders, NEW k \in Kinds, CheckReadiness(o, k)
        PROVE  UNCHANGED cookerVars
    BY <2>6 DEF CheckReadiness
  <2> QED BY <2>1, <2>2, <2>3, <2>4, <2>5, <2>6 DEF Next
<1> QED BY <1>1, <1>2, PTL DEF Spec, CookerSpec

LEMMA OrderInvariant == Spec => []OrderInv
<1>1. OrderInv /\ CookerInv /\ [Next]_vars => OrderInv'
  <2> SUFFICES ASSUME OrderInv, CookerInv, [Next]_vars PROVE OrderInv'
    OBVIOUS
  <2>1. alive \/ UNCHANGED vars
    BY DEF Next
  <2>2. CASE UNCHANGED vars
    BY <2>2 DEF vars, cookerVars, OrderInv, HasTypes, CookedOnce, OneHandler, CountedOnce,
                Fulfilled, IngredientsReady
  <2> QED BY <2>1, <2>2, NextOrderInv
<1>2. Spec => []CookerInv
  BY CafeteriaUsesCooker, CookerInvariant, PTL
<1> QED BY InitOrderInv, <1>1, <1>2, PTL DEF Spec

(* However the timers of an order expire, its hot dog is delivered once.   *)
THEOREM HotDogsAreSingle == Spec => []NoHotDogTwice
<1>1. OrderInv => NoHotDogTwice
  BY DEF OrderInv, CountedOnce, NoHotDogTwice
<1> QED BY <1>1, OrderInvariant, PTL

(* When the io_context has nothing more to do, no order is left over.      *)
THEOREM NoOrderIsForgotten == Spec => []AllOrdersFulfilled
<1>1. OrderInv => AllOrdersFulfilled
  BY Ingredient DEF OrderInv, CookedOnce, CountedOnce, Fulfilled, IngredientsReady,
                    NothingLeftToDo, AllOrdersFulfilled
<1> QED BY <1>1, OrderInvariant, PTL

(* The burners of a delivered hot dog are free for others.                 *)
THEOREM BurnersComeBack == Spec => []OwnBurnersGivenBack
<1>1. OrderInv => OwnBurnersGivenBack
  BY Ingredient DEF OrderInv, CookedOnce, CountedOnce, IngredientsReady, OwnBurnersGivenBack
<1> QED BY <1>1, OrderInvariant, PTL

-----------------------------------------------------------------------------
(* The tasks start in the order of the loop of main, so that the latch     *)
(* counts exactly the first ones.                                          *)
Started(n) ==
  /\ \A o \in Orders : task[o] = "scheduled" <=> o >= n
  /\ latch = IF n < NumWaiting THEN NumWaiting - n ELSE 0

TaskInv ==
  /\ task \in [Orders -> {"scheduled", "latched", "ordering", "frying", "executed"}]
  /\ \E n \in 0 .. NumOrders : Started(n)

LEMMA NumWaitingBound == NumWaiting \in Nat /\ NumOrders \in Nat /\ NumWaiting <= NumOrders
BY CafeteriaAssumption DEF NumWaiting

LEMMA StartKeepsTasks ==
  ASSUME TaskInv, NEW o \in Orders, StartTask(o)
  PROVE  TaskInv'
<1>1. PICK n \in 0 .. NumOrders : Started(n)
  BY DEF TaskInv
<1>2. /\ task[o] = "scheduled"
      /\ \A p \in Orders : p < o => task[p] # "scheduled"
      /\ task' = [task EXCEPT ![o] = IF o < NumWaiting THEN "latched" ELSE "ordering"]
      /\ latch' = IF o < NumWaiting THEN latch - 1 ELSE latch
  BY DEF StartTask, CountDown
<1>3. o \in 0 .. NumOrders - 1 /\ n \in Nat
  BY NumWaitingBound DEF Orders
<1>4. o = n
  <2>1. o >= n
    BY <1>1, <1>2 DEF Started
  <2>2. o > n => n \in Orders
    BY <1>3, NumWaitingBound DEF Orders
  <2>3. n \in Orders => task[n] = "scheduled"
    BY <1>1, <1>3 DEF Started
  <2> QED BY <1>2, <1>3, <2>1, <2>2, <2>3
<1>5. \A p \in Orders : task'[p] = "scheduled" <=> p >= n + 1
  <2> SUFFICES ASSUME NEW p \in Orders PROVE task'[p] = "scheduled" <=> p >= n + 1
    OBVIOUS
  <2>1. p \in Int
    BY NumWaitingBound DEF Orders
  <2>2. CASE p = n
    BY <1>2, <1>3, <1>4, <2>2 DEF TaskInv
  <2>3. CASE p # n
    <3>1. task'[p] = task[p]
      BY <1>2, <1>4, <2>3 DEF TaskInv
    <3> QED BY <1>1, <1>3, <2>1, <2>3, <3>1 DEF Started
  <2> QED BY <2>2, <2>3
<1>6. latch' = IF n + 1 < NumWaiting THEN NumWaiting - (n + 1) ELSE 0
  BY <1>1, <1>2, <1>3, <1>4, NumWaitingBound DEF Started
<1>7. Started(n + 1)'
  BY <1>5, <1>6 DEF Started, NumWaiting
<1>8. n + 1 \in 0 .. NumOrders
  BY <1>3, <1>4, NumWaitingBound
<1> QED BY <1>2, <1>7, <1>8 DEF TaskInv

LEMMA OthersKeepTasks ==
  ASSUME TaskInv, NEW o \in Orders, PassLatch(o) \/ FrySausage(o) \/ BakeBread(o)
  PROVE  TaskInv'
<1>1. PICK n \in 0 .. NumOrders : Started(n)
  BY DEF TaskInv
<1>2. PICK s \in {"ordering", "frying", "executed"} :
        task' = [task EXCEPT ![o] = s] /\ task[o] # "scheduled" /\ latch' = latch
  BY DEF PassLatch, FrySausage, BakeBread
<1>3. \A p \in Orders : task'[p] = "scheduled" <=> task[p] = "scheduled"
  BY <1>2 DEF TaskInv
<1>4. Started(n)'
  BY <1>1, <1>2, <1>3 DEF Started, NumWaiting
<1> QED BY <1>2, <1>4 DEF TaskInv

LEMMA TaskInvariant == Spec => []TaskInv
<1>1. Init => TaskInv
  <2> SUFFICES ASSUME Init PROVE TaskInv
    OBVIOUS
  <2>1. Started(0)
    BY NumWaitingBound DEF Init, Started, Orders
  <2>2. 0 \in 0 .. NumOrders
    BY NumWaitingBound
  <2> QED BY <2>1, <2>2 DEF Init, TaskInv
<1>2. TaskInv /\ [Next]_vars => TaskInv'
  <2> SUFFICES ASSUME TaskInv, [Next]_vars PROVE TaskInv'
    OBVIOUS
  <2>1. CASE UNCHANGED <<task, latch>>
    BY <2>1 DEF TaskInv, Started, NumWaiting
  <2>2. CASE \E o \in Orders : StartTask(o)
    BY <2>2, StartKeepsTasks
  <2>3. CASE \E o \in Orders : PassLatch(o) \/ FrySausage(o) \/ BakeBread(o)
    BY <2>3, OthersKeepTasks
  <2>4. CASE UNCHANGED vars \/ CookerStep
    BY <2>1, <2>4 DEF vars, CookerStep
  <2>5. CASE \E o \in Orders, k \in Kinds : StopCooking(o, k) \/ CheckReadiness(o, k)
    BY <2>1, <2>5 DEF StopCooking, CheckReadiness
  <2> QED BY <2>2, <2>3, <2>4, <2>5 DEF Next
<1> QED BY <1>1, <1>2, PTL DEF Spec

(* The variables of the cafeteria keep their types: the latch, which is    *)
(* counted down without a look at it, never goes below zero.               *)
THEOREM CafeteriaTypes == Spec => []TypeOK
<1>1. TaskInv => latch \in Nat
  BY NumWaitingBound DEF TaskInv, Started
<1>2. TaskInv /\ OrderInv /\ CookerTypeOK => TypeOK
  BY <1>1 DEF TaskInv, OrderInv, HasTypes, TypeOK
<1>3. Spec => []CookerTypeOK
  BY CafeteriaUsesCooker, CookerTypes, PTL
<1> QED BY <1>2, <1>3, TaskInvariant, OrderInvariant, PTL

-----------------------------------------------------------------------------
(***************************************************************************)
(* Nobody is stuck.  The safety behind EverybodyEats: until the last order *)
(* is done some step can be taken (GoesOn), and every step takes an order, *)
(* an ingredient or a check further on its way and none back (Advances),   *)
(* so that there are finitely many.                                        *)
(***************************************************************************)
RawMatch ==
  \A o \in Orders :
    /\ stage[<<o, "sausage">>] = "raw" <=> task[o] \in {"scheduled", "latched", "ordering"}
    /\ stage[<<o, "bread">>] = "raw" <=> task[o] # "executed"

CanStart(o) ==
  /\ task[o] = "scheduled"
  /\ \A p \in Orders : p < o => task[p] # "scheduled"
  /\ Cardinality({p \in Orders : InThread(p)}) < Threads

(* What the threads, the strands and the timers have to do.                *)
TaskGoesOn(o) ==
  \/ CanStart(o)
  \/ task[o] = "latched" /\ latch = 0
  \/ task[o] = "ordering" /\ stage[<<o, "sausage">>] = "raw"
  \/ task[o] = "frying" /\ stage[<<o, "bread">>] = "raw"

IngredientGoesOn(o, k) ==
  \/ stage[<<o, k>>] = "posted"
  \/ stage[<<o, k>>] = "cooking" /\ OrderStrandIdle(o)
  \/ k \in checking[o]

GoesOn ==
  \/ calls # <<>>
  \/ \E o \in Orders : TaskGoesOn(o) \/ \E k \in Kinds : IngredientGoesOn(o, k)

LEMMA StillCooker ==
  ASSUME CookerInv, OrderInv, ~ GoesOn
  PROVE  /\ \A u \in Users : stage[u] \in {"raw", "done"}
         /\ \A o \in Orders : checking[o] = {}
<1>1. /\ calls = <<>>
      /\ \A o \in Orders, k \in Kinds : ~ IngredientGoesOn(o, k)
  BY DEF GoesOn
<1>2. \A o \in Orders : checking[o] = {}
  BY <1>1 DEF IngredientGoesOn, OrderInv, HasTypes
<1>3. \A u \in Users : stage[u] \notin {"asked", "releasing"}
  BY <1>1 DEF CookerInv, CallsMatch, Elements
<1>4. \A u \in Users : stage[u] \notin {"posted", "cooking"}
  BY <1>1, <1>2, CafeteriaAssumption DEF IngredientGoesOn, OrderStrandIdle
<1>5. burners = 0
  <2>1. Holders = {}
    BY <1>3, <1>4 DEF Holders
  <2> QED BY <2>1, FS_EmptySet DEF CookerInv, CountIsRight
<1>6. pending = <<>>
  BY <1>5, CookerAssumption DEF CookerInv, NobodyWaitsForFreeBurner
<1>7. \A u \in Users : stage[u] # "pending"
  BY <1>6 DEF CookerInv, PendingMatch, Elements
<1>8. \A u \in Users : stage[u] \in Stages
  BY DEF OrderInv, HasTypes
<1> QED BY <1>2, <1>3, <1>4, <1>7, <1>8 DEF Stages

(* Fewer orders than there are threads wait at the latch before it opens.  *)
LEMMA RoomBeforeLatch ==
  ASSUME TaskInv, NEW n \in 0 .. NumOrders - 1, Started(n),
         \A o \in Orders : InThread(o) => task[o] = "latched" /\ latch # 0
  PROVE  Cardinality({p \in Orders : InThread(p)}) < Threads
<1> DEFINE S == {p \in Orders : InThread(p)}
<1>1. n \in Nat /\ NumOrders \in Nat /\ Threads \in Nat \ {0}
  BY CafeteriaAssumption
<1>2. CASE n < NumWaiting
  <2>1. S \subseteq 0 .. n - 1
    BY <1>1 DEF Started, InThread, Orders
  <2>2. IsFiniteSet(0 .. n - 1) /\ Cardinality(0 .. n - 1) = n
    BY <1>1, FS_Interval
  <2>3. Cardinality(S) \in Nat /\ Cardinality(S) <= n
    BY <2>1, <2>2, FS_Subset, FS_CardinalityType
  <2> HIDE DEF S
  <2>4. Cardinality(S) < Threads
    BY <1>1, <1>2, <2>3 DEF NumWaiting
  <2> QED BY <2>4 DEF S
<1>3. CASE ~ (n < NumWaiting)
  <2>1. latch = 0
    BY <1>3 DEF Started
  <2>2. S = {}
    BY <2>1
  <2>3. Cardinality(S) = 0
    BY <2>2, FS_EmptySet
  <2> QED BY <1>1, <2>3
<1> QED BY <1>2, <1>3

LEMMA StuckIsDone ==
  ASSUME CookerInv, OrderInv, TaskInv, RawMatch, ~ GoesOn
  PROVE  NothingLeftToDo
<1>1. /\ \A u \in Users : stage[u] \in {"raw", "done"}
      /\ \A o \in Orders : checking[o] = {}
  BY StillCooker
<1>2. \A o \in Orders : ~ TaskGoesOn(o)
  BY DEF GoesOn
<1>3. \A o \in Orders : task[o] \in {"scheduled", "latched", "executed"}
  BY <1>2 DEF TaskGoesOn, RawMatch, TaskInv
<1>4. \A o \in Orders : InThread(o) => task[o] = "latched" /\ latch # 0
  BY <1>2, <1>3 DEF TaskGoesOn, InThread
<1>5. PICK n \in 0 .. NumOrders : Started(n)
  BY DEF TaskInv
<1>6. n = NumOrders
  <2> SUFFICES ASSUME n \in 0 .. NumOrders - 1 PROVE FALSE
    BY <1>5, NumWaitingBound
  <2>1. Cardinality({p \in Orders : InThread(p)}) < Threads
    BY <1>4, <1>5, RoomBeforeLatch
  <2>2. n \in Orders /\ task[n] = "scheduled" /\ \A p \in Orders : p < n => task[p] # "scheduled"
    BY <1>5, NumWaitingBound DEF Started, Orders
  <2>3. CanStart(n)
    BY <2>1, <2>2 DEF CanStart
  <2> QED BY <1>2, <2>2, <2>3 DEF TaskGoesOn
<1>7. latch = 0 /\ \A o \in Orders : task[o] # "scheduled"
  BY <1>5, <1>6, NumWaitingBound DEF Started, Orders
<1>8. \A o \in Orders : task[o] = "executed"
  BY <1>3, <1>4, <1>7 DEF InThread
<1>9. \A o \in Orders, k \in Kinds : stage[<<o, k>>] # "raw"
  BY <1>8 DEF RawMatch, Kinds
<1> QED BY <1>1, <1>8, <1>9, CafeteriaAssumption DEF NothingLeftToDo

-----------------------------------------------------------------------------
(* How far an ingredient and a task have come.                             *)
StageRank ==
  [raw |-> 0, asked |-> 1, pending |-> 2, posted |-> 3, cooking |-> 4,
   releasing |-> 5, done |-> 6]

TaskRank ==
  [scheduled |-> 0, latched |-> 1, ordering |-> 2, frying |-> 3, executed |-> 4]

LEMMA RankTypes ==
  /\ \A s \in Stages : StageRank[s] \in 0 .. 6
  /\ \A t \in {"scheduled", "latched", "ordering", "frying", "executed"} : TaskRank[t] \in 0 .. 4
BY DEF Stages, StageRank, TaskRank

Later(u) == StageRank[stage[u]] < StageRank[stage'[u]]

(* Nothing goes back on its way over the cooker.                           *)
OnlyForward ==
  /\ stage' \in [Users -> Stages]
  /\ \A u \in Users : stage'[u] = stage[u] \/ Later(u)

RawKept == \A u \in Users : stage'[u] = "raw" <=> stage[u] = "raw"

LEMMA StrandGoesForward ==
  ASSUME CookerInv, OnUseBurner \/ OnReleaseBurner
  PROVE  OnlyForward /\ RawKept /\ \E u \in Users : Later(u)
<1> DEFINE u == Head(calls)
<1>1. stage \in [Users -> Stages] /\ u \in Users
  BY FirstCall DEF CookerInv, CookerTypeOK, OnUseBurner, OnReleaseBurner
<1> HIDE DEF u
<1>2. CASE OnUseBurner
  <2>1. /\ stage[u] = "asked"
        /\ \/ stage' = [stage EXCEPT ![u] = "posted"]
           \/ stage' = [stage EXCEPT ![u] = "pending"]
    BY <1>2 DEF OnUseBurner, TakeBurner, Wait, u
  <2> QED BY <1>1, <2>1 DEF OnlyForward, RawKept, Later, StageRank, Stages
<1>3. CASE OnReleaseBurner
  <2>1. stage[u] = "releasing"
    BY <1>3 DEF OnReleaseBurner, u
  <2>2. CASE FreeBurner(u)
    BY <1>1, <2>1, <2>2 DEF FreeBurner, OnlyForward, RawKept, Later, StageRank, Stages
  <2>3. CASE HandOver(u)
    <3>1. PICK w \in Users : stage[w] = "pending" /\ stage' = [stage EXCEPT ![u] = "done", ![w] = "posted"]
      <4>1. Head(pending) = pending[1] /\ 1 \in 1 .. Len(pending) /\ Head(pending) \in Users
        BY <2>3 DEF HandOver, CookerInv, CookerTypeOK
      <4> QED BY <2>3, <4>1 DEF HandOver, CookerInv, PendingMatch, Elements
    <3> QED BY <1>1, <2>1, <3>1 DEF OnlyForward, RawKept, Later, StageRank, Stages
  <2> QED BY <1>3, <2>2, <2>3 DEF OnReleaseBurner, u
<1> QED BY <1>2, <1>3

LEMMA UserGoesForward ==
  ASSUME CookerInv, NEW u \in Users, UseBurner(u) \/ RunHandler(u) \/ ReleaseBurner(u)
  PROVE  /\ OnlyForward /\ Later(u)
         /\ ~ UseBurner(u) => RawKept
         /\ UseBurner(u) => \A v \in Users : stage'[v] = "raw" <=> stage[v] = "raw" /\ v # u
<1>1. stage \in [Users -> Stages]
  BY DEF CookerInv, CookerTypeOK
<1>2. \/ stage[u] = "raw" /\ stage' = [stage EXCEPT ![u] = "asked"]
      \/ ~ UseBurner(u) /\ stage[u] = "posted" /\ stage' = [stage EXCEPT ![u] = "cooking"]
      \/ ~ UseBurner(u) /\ stage[u] = "cooking" /\ stage' = [stage EXCEPT ![u] = "releasing"]
  BY DEF UseBurner, RunHandler, ReleaseBurner
<1>3. ~ UseBurner(u) => stage[u] # "raw"
  BY DEF UseBurner, RunHandler, ReleaseBurner
<1> QED BY <1>1, <1>2, <1>3 DEF OnlyForward, RawKept, Later, StageRank, Stages

(* An order asks for each burner in its turn, so that an ingredient is raw *)
(* exactly until the thread of its order comes to it.                      *)
LEMMA RawInvariant == Spec => []RawMatch
<1>1. Init => RawMatch
  BY Ingredient DEF Init, CookerInit, RawMatch, Kinds
<1>2. RawMatch /\ TaskInv /\ CookerInv /\ [Next]_vars => RawMatch'
  <2> SUFFICES ASSUME RawMatch, TaskInv, CookerInv, [Next]_vars PROVE RawMatch'
    OBVIOUS
  <2>1. ASSUME task' = task, RawKept PROVE RawMatch'
    BY <2>1, Ingredient DEF RawMatch, RawKept, Kinds
  <2>2. CASE UNCHANGED vars
    BY <2>2 DEF vars, cookerVars, RawMatch
  <2>3. CASE CookerStep
    BY <2>1, <2>3, StrandGoesForward, UserGoesForward DEF CookerStep, UseBurner, RunHandler
  <2>4. ASSUME NEW o \in Orders, StartTask(o) \/ PassLatch(o) PROVE RawMatch'
    BY <2>4 DEF StartTask, PassLatch, cookerVars, RawMatch, TaskInv
  <2>5. ASSUME NEW o \in Orders, FrySausage(o) PROVE RawMatch'
    <3>1. /\ task[o] = "ordering" /\ task' = [task EXCEPT ![o] = "frying"]
          /\ UseBurner(<<o, "sausage">>) /\ <<o, "sausage">> \in Users
      BY <2>5, Ingredient DEF FrySausage, Kinds
    <3>2. \A v \in Users : stage'[v] = "raw" <=> stage[v] = "raw" /\ v # <<o, "sausage">>
      BY <3>1, UserGoesForward
    <3> QED BY <3>1, <3>2, Ingredient DEF RawMatch, TaskInv, Kinds
  <2>6. ASSUME NEW o \in Orders, BakeBread(o) PROVE RawMatch'
    <3>1. /\ task[o] = "frying" /\ task' = [task EXCEPT ![o] = "executed"]
          /\ UseBurner(<<o, "bread">>) /\ <<o, "bread">> \in Users
      BY <2>6, Ingredient DEF BakeBread, Kinds
    <3>2. \A v \in Users : stage'[v] = "raw" <=> stage[v] = "raw" /\ v # <<o, "bread">>
      BY <3>1, UserGoesForward
    <3> QED BY <3>1, <3>2, Ingredient DEF RawMatch, TaskInv, Kinds
  <2>7. ASSUME NEW o \in Orders, NEW k \in Kinds, StopCooking(o, k) PROVE RawMatch'
    <3>1. ReleaseBurner(<<o, k>>) /\ <<o, k>> \in Users /\ task' = task /\ ~ UseBurner(<<o, k>>)
      BY <2>7, Ingredient DEF StopCooking, ReleaseBurner, UseBurner
    <3> QED BY <2>1, <3>1, UserGoesForward
  <2>8. ASSUME NEW o \in Orders, NEW k \in Kinds, CheckReadiness(o, k) PROVE RawMatch'
    BY <2>8 DEF CheckReadiness, cookerVars, RawMatch
  <2> QED BY <2>2, <2>3, <2>4, <2>5, <2>6, <2>7, <2>8 DEF Next
<1>3. Spec => []CookerInv
  BY CafeteriaUsesCooker, CookerInvariant, PTL
<1> QED BY <1>1, <1>2, <1>3, TaskInvariant, PTL DEF Spec

(* Nobody waits for ever at the latch or for a burner while everybody else *)
(* waits too: until the last order is done a thread, the strand of the     *)
(* cooker or the strand of an order can go on, or a timer can expire.      *)
THEOREM NobodyIsStuck == Spec => [](alive => NothingLeftToDo \/ GoesOn)
<1>1. CookerInv /\ OrderInv /\ TaskInv /\ RawMatch => (alive => NothingLeftToDo \/ GoesOn)
  BY StuckIsDone
<1>2. Spec => []CookerInv
  BY CafeteriaUsesCooker, CookerInvariant, PTL
<1> QED BY <1>1, <1>2, OrderInvariant, TaskInvariant, RawInvariant, PTL

-----------------------------------------------------------------------------
(* What is done: the stages the ingredients have passed, those of the      *)
(* tasks, and the checks after cooking.                                    *)
StagesPassed == {p \in Users \X (1 .. 6) : p[2] <= StageRank[stage[p[1]]]}
TasksPassed  == {p \in Orders \X (1 .. 4) : p[2] <= TaskRank[task[p[1]]]}
Checked      == {p \in Users : cooked[p] # "no" /\ p[2] \notin checking[p[1]]}

StepsDone == Cardinality(StagesPassed) + Cardinality(TasksPassed) + Cardinality(Checked)

LEMMA CarrierSizes ==
  /\ IsFiniteSet(Users \X (1 .. 6)) /\ Cardinality(Users \X (1 .. 6)) = 12 * NumOrders
  /\ IsFiniteSet(Orders \X (1 .. 4)) /\ Cardinality(Orders \X (1 .. 4)) = 4 * NumOrders
  /\ IsFiniteSet(Users) /\ Cardinality(Users) = 2 * NumOrders
<1>1. IsFiniteSet(Orders) /\ Cardinality(Orders) = NumOrders /\ NumOrders \in Nat
  BY CafeteriaAssumption, FS_Interval DEF Orders
<1>2. IsFiniteSet(Kinds) /\ Cardinality(Kinds) = 2
  <2>1. IsFiniteSet({"bread"}) /\ Cardinality({"bread"}) = 1
    BY FS_Singleton
  <2>2. Kinds = {"bread"} \cup {"sausage"} /\ "sausage" \notin {"bread"}
    BY DEF Kinds
  <2> QED BY <2>1, <2>2, FS_AddElement
<1>3. IsFiniteSet(Users) /\ Cardinality(Users) = 2 * NumOrders
  <2>1. Cardinality(Users) = Cardinality(Orders) * Cardinality(Kinds) /\ IsFiniteSet(Users)
    BY <1>1, <1>2, CafeteriaAssumption, FS_Product
  <2> QED BY <1>1, <1>2, <2>1
<1>4. IsFiniteSet(1 .. 6) /\ Cardinality(1 .. 6) = 6
  BY FirstNaturals
<1>5. IsFiniteSet(1 .. 4) /\ Cardinality(1 .. 4) = 4
  BY FirstNaturals
<1>6. /\ IsFiniteSet(Users \X (1 .. 6))
      /\ Cardinality(Users \X (1 .. 6)) = Cardinality(Users) * Cardinality(1 .. 6)
  BY <1>3, <1>4, FS_Product
<1>7. /\ IsFiniteSet(Orders \X (1 .. 4))
      /\ Cardinality(Orders \X (1 .. 4)) = Cardinality(Orders) * Cardinality(1 .. 4)
  BY <1>1, <1>5, FS_Product
<1> QED BY <1>1, <1>3, <1>4, <1>5, <1>6, <1>7

(* What is done is a part of what there is to do, now and after a step.    *)
LEMMA PartOfCarrier ==
  /\ StagesPassed \in SUBSET (Users \X (1 .. 6)) /\ StagesPassed' \in SUBSET (Users \X (1 .. 6))
  /\ TasksPassed \in SUBSET (Orders \X (1 .. 4)) /\ TasksPassed' \in SUBSET (Orders \X (1 .. 4))
  /\ Checked \in SUBSET Users /\ Checked' \in SUBSET Users
BY DEF StagesPassed, TasksPassed, Checked

LEMMA StepsBound == StepsDone \in 0 .. 18 * NumOrders
<1>1. NumOrders \in Nat
  BY CafeteriaAssumption
<1>2. Cardinality(StagesPassed) \in Nat /\ Cardinality(StagesPassed) <= 12 * NumOrders
  BY CarrierSizes, PartOfCarrier, FS_Subset, FS_CardinalityType
<1>3. Cardinality(TasksPassed) \in Nat /\ Cardinality(TasksPassed) <= 4 * NumOrders
  BY CarrierSizes, PartOfCarrier, FS_Subset, FS_CardinalityType
<1>4. Cardinality(Checked) \in Nat /\ Cardinality(Checked) <= 2 * NumOrders
  BY CarrierSizes, PartOfCarrier, FS_Subset, FS_CardinalityType
<1> QED BY <1>1, <1>2, <1>3, <1>4 DEF StepsDone

(* Three sets that only grow, one of which does, count a step.             *)
LEMMA GrowthCounts ==
  ASSUME StagesPassed \subseteq StagesPassed',
         TasksPassed \subseteq TasksPassed',
         Checked \subseteq Checked',
         \/ StagesPassed # StagesPassed'
         \/ TasksPassed # TasksPassed'
         \/ Checked # Checked'
  PROVE  StepsDone' > StepsDone
<1>1. /\ IsFiniteSet(StagesPassed) /\ IsFiniteSet(StagesPassed')
      /\ IsFiniteSet(TasksPassed) /\ IsFiniteSet(TasksPassed')
      /\ IsFiniteSet(Checked) /\ IsFiniteSet(Checked')
  BY CarrierSizes, PartOfCarrier, FS_Subset
<1>2. /\ Cardinality(StagesPassed) \in Nat /\ Cardinality(StagesPassed') \in Nat
      /\ Cardinality(StagesPassed) <= Cardinality(StagesPassed')
      /\ StagesPassed' # StagesPassed => Cardinality(StagesPassed) < Cardinality(StagesPassed')
  BY <1>1, GrowingSet
<1>3. /\ Cardinality(TasksPassed) \in Nat /\ Cardinality(TasksPassed') \in Nat
      /\ Cardinality(TasksPassed) <= Cardinality(TasksPassed')
      /\ TasksPassed' # TasksPassed => Cardinality(TasksPassed) < Cardinality(TasksPassed')
  BY <1>1, GrowingSet
<1>4. /\ Cardinality(Checked) \in Nat /\ Cardinality(Checked') \in Nat
      /\ Cardinality(Checked) <= Cardinality(Checked')
      /\ Checked' # Checked => Cardinality(Checked) < Cardinality(Checked')
  BY <1>1, GrowingSet
<1> QED BY <1>2, <1>3, <1>4 DEF StepsDone

LEMMA StageGrowth ==
  ASSUME CookerInv, OnlyForward
  PROVE  /\ StagesPassed \subseteq StagesPassed'
         /\ (\E u \in Users : Later(u)) => StagesPassed # StagesPassed'
<1>1. \A u \in Users :
        /\ StageRank[stage[u]] \in 0 .. 6 /\ StageRank[stage'[u]] \in 0 .. 6
        /\ StageRank[stage[u]] <= StageRank[stage'[u]]
  BY RankTypes DEF CookerInv, CookerTypeOK, OnlyForward, Later
<1>2. StagesPassed \subseteq StagesPassed'
  BY <1>1 DEF StagesPassed
<1>3. ASSUME NEW u \in Users, Later(u) PROVE StagesPassed # StagesPassed'
  <2> DEFINE p == <<u, StageRank[stage'[u]]>>
  <2>1. StageRank[stage'[u]] \in 1 .. 6 /\ ~ (StageRank[stage'[u]] <= StageRank[stage[u]])
    BY <1>1, <1>3 DEF Later
  <2>2. p \in StagesPassed' /\ p \notin StagesPassed
    BY <2>1 DEF StagesPassed
  <2> QED BY <2>2
<1> QED BY <1>2, <1>3

LEMMA TaskGrowth ==
  ASSUME TaskInv, TaskInv', NEW o \in Orders, NEW t, task' = [task EXCEPT ![o] = t],
         TaskRank[task[o]] < TaskRank[t]
  PROVE  TasksPassed \subseteq TasksPassed' /\ TasksPassed # TasksPassed'
<1>1. /\ \A q \in Orders : TaskRank[task[q]] \in 0 .. 4 /\ TaskRank[task'[q]] \in 0 .. 4
      /\ \A q \in Orders : q # o => task'[q] = task[q]
      /\ task'[o] = t
  BY RankTypes DEF TaskInv
<1>2. \A q \in Orders : TaskRank[task[q]] <= TaskRank[task'[q]]
  <2>1. \A q \in Orders : q = o => TaskRank[task[q]] <= TaskRank[task'[q]]
    BY <1>1
  <2> QED BY <1>1, <2>1
<1>3. TasksPassed \subseteq TasksPassed'
  BY <1>1, <1>2 DEF TasksPassed
<1> DEFINE p == <<o, TaskRank[t]>>
<1>4. TaskRank[t] \in 1 .. 4 /\ ~ (TaskRank[t] <= TaskRank[task[o]])
  BY <1>1
<1>5. p \in TasksPassed' /\ p \notin TasksPassed
  BY <1>1, <1>4 DEF TasksPassed
<1> QED BY <1>3, <1>5

LEMMA CheckGrowth ==
  ASSUME OrderInv, NEW o \in Orders, NEW k \in Kinds, CheckReadiness(o, k)
  PROVE  Checked \subseteq Checked' /\ Checked # Checked'
<1>1. /\ k \in checking[o] /\ checking' = [checking EXCEPT ![o] = @ \ {k}] /\ cooked' = cooked
      /\ checking \in [Orders -> SUBSET Kinds]
  BY DEF CheckReadiness, OrderInv, HasTypes
<1>2. \A p \in Orders : checking'[p] \subseteq checking[p]
  BY <1>1
<1>3. cooked[<<o, k>>] # "no" /\ k \notin checking'[o]
  BY <1>1 DEF OrderInv, OneHandler
<1>4. <<o, k>> \in Users /\ <<o, k>> \in Checked' /\ <<o, k>> \notin Checked
  BY <1>1, <1>3, Ingredient DEF Checked
<1>5. Checked \subseteq Checked'
  BY <1>1, <1>2, CafeteriaAssumption DEF Checked
<1> QED BY <1>4, <1>5

LEMMA StopKeepsChecks ==
  ASSUME OrderInv, NEW o \in Orders, NEW k \in Kinds, StopCooking(o, k)
  PROVE  Checked \subseteq Checked'
<1>1. /\ stage[<<o, k>>] = "cooking"
      /\ checking' = [checking EXCEPT ![o] = @ \cup {k}]
      /\ checking \in [Orders -> SUBSET Kinds]
      /\ \E c \in {"right", "late"} : cooked' = [cooked EXCEPT ![<<o, k>>] = c]
      /\ cooked \in [Users -> {"no", "right", "late"}]
      /\ <<o, k>> \in Users
  BY Ingredient DEF StopCooking, ReleaseBurner, OrderInv, HasTypes
<1>2. <<o, k>> \notin Checked
  BY <1>1 DEF Checked, OrderInv, CookedOnce
<1>3. ASSUME NEW u \in Checked PROVE u \in Checked'
  <2>1. PICK p \in Orders, l \in Kinds : u = <<p, l>>
    BY CafeteriaAssumption DEF Checked
  <2>2. u \in Users /\ cooked[u] # "no" /\ l \notin checking[p] /\ u # <<o, k>>
    BY <1>2, <1>3, <2>1 DEF Checked
  <2>3. cooked'[u] # "no" /\ l \notin checking'[p]
    BY <1>1, <2>1, <2>2
  <2> QED BY <2>1, <2>2, <2>3 DEF Checked
<1> QED BY <1>3

LEMMA StepCounts ==
  ASSUME CookerInv, OrderInv, TaskInv, TaskInv', Next
  PROVE  StepsDone' > StepsDone
<1>1. task' = task => TasksPassed' = TasksPassed
  BY DEF TasksPassed
<1>2. stage' = stage => StagesPassed' = StagesPassed
  BY DEF StagesPassed
<1>3. cooked' = cooked /\ checking' = checking => Checked' = Checked
  BY DEF Checked
<1>4. CASE CookerStep
  <2>1. OnlyForward /\ \E u \in Users : Later(u)
    BY <1>4, StrandGoesForward, UserGoesForward DEF CookerStep
  <2>2. task' = task /\ cooked' = cooked /\ checking' = checking
    BY <1>4 DEF CookerStep
  <2> QED BY <1>1, <1>3, <2>1, <2>2, StageGrowth, GrowthCounts
<1>5. ASSUME NEW o \in Orders, StartTask(o) \/ PassLatch(o)
      PROVE  StepsDone' > StepsDone
  <2>1. stage' = stage /\ cooked' = cooked /\ checking' = checking
    BY <1>5 DEF StartTask, PassLatch, cookerVars
  <2>2. PICK t \in {"latched", "ordering"} :
          task' = [task EXCEPT ![o] = t] /\ TaskRank[task[o]] < TaskRank[t]
    BY <1>5 DEF StartTask, PassLatch, TaskRank
  <2>3. TasksPassed \subseteq TasksPassed' /\ TasksPassed # TasksPassed'
    BY <2>2, TaskGrowth
  <2> QED BY <1>2, <1>3, <2>1, <2>3, GrowthCounts
<1>6. ASSUME NEW o \in Orders, FrySausage(o) \/ BakeBread(o)
      PROVE  StepsDone' > StepsDone
  <2>1. cooked' = cooked /\ checking' = checking
    BY <1>6 DEF FrySausage, BakeBread
  <2>2. PICK t \in {"frying", "executed"} :
          task' = [task EXCEPT ![o] = t] /\ TaskRank[task[o]] < TaskRank[t]
    BY <1>6 DEF FrySausage, BakeBread, TaskRank
  <2>3. TasksPassed \subseteq TasksPassed' /\ TasksPassed # TasksPassed'
    BY <2>2, TaskGrowth
  <2>4. \E u \in Users : UseBurner(u)
    BY <1>6, Ingredient DEF FrySausage, BakeBread, Kinds
  <2>5. StagesPassed \subseteq StagesPassed'
    BY <2>4, UserGoesForward, StageGrowth
  <2> QED BY <1>3, <2>1, <2>3, <2>5, GrowthCounts
<1>7. ASSUME NEW o \in Orders, NEW k \in Kinds, StopCooking(o, k)
      PROVE  StepsDone' > StepsDone
  <2>1. task' = task /\ ReleaseBurner(<<o, k>>) /\ <<o, k>> \in Users
    BY <1>7, Ingredient DEF StopCooking
  <2>2. StagesPassed \subseteq StagesPassed' /\ StagesPassed # StagesPassed'
    BY <2>1, UserGoesForward, StageGrowth
  <2> QED BY <1>1, <1>7, <2>1, <2>2, StopKeepsChecks, GrowthCounts
<1>8. ASSUME NEW o \in Orders, NEW k \in Kinds, CheckReadiness(o, k)
      PROVE  StepsDone' > StepsDone
  <2>1. task' = task /\ stage' = stage
    BY <1>8 DEF CheckReadiness, cookerVars
  <2> QED BY <1>1, <1>2, <1>8, <2>1, CheckGrowth, GrowthCounts
<1> QED BY <1>4, <1>5, <1>6, <1>7, <1>8 DEF Next

(* Nothing is done twice: every step counts, so that the cafeteria takes   *)
(* at most 18 steps for an order, however its threads and timers           *)
(* interleave.  With NobodyIsStuck: it ends, and with all orders fulfilled *)
(* when no ingredient came too late.                                       *)
THEOREM EveryStepCounts ==
  Spec => [](StepsDone \in 0 .. 18 * NumOrders) /\ [][StepsDone' > StepsDone]_vars
<1>1. StepsDone \in 0 .. 18 * NumOrders
  BY StepsBound
<1>2. CookerInv /\ OrderInv /\ TaskInv /\ TaskInv' /\ [Next]_vars => [StepsDone' > StepsDone]_vars
  BY StepCounts
<1>3. Spec => []CookerInv
  BY CafeteriaUsesCooker, CookerInvariant, PTL
<1> QED BY <1>1, <1>2, <1>3, OrderInvariant, TaskInvariant, PTL DEF Spec
=============================================================================
