----------------------------- MODULE GasCooker -----------------------------
(***************************************************************************)
(* The gas cooker of the cafeteria (gascooker.h) and the ingredients that  *)
(* use it through a GasCookerLock (ingredients.h).  UseBurner and          *)
(* ReleaseBurner may be called from any thread: each dispatches a lambda   *)
(* to the strand of the cooker, which runs the lambdas one at a time in    *)
(* the order of the calls.  The handler of a request is posted to the      *)
(* io_context, whose threads run posted handlers in any order.             *)
(*                                                                         *)
(* An ingredient uses a burner once, so that its stage tells which of its  *)
(* calls is in the strand: UseBurner while it is "asked", ReleaseBurner    *)
(* while it is "releasing".                                                *)
(***************************************************************************)
EXTENDS Naturals, Sequences, FiniteSets

CONSTANTS Users,    \* the ingredients
          Burners   \* number_of_burners_

ASSUME CookerAssumption ==
  /\ IsFiniteSet(Users)
  /\ Burners \in Nat \ {0}

VARIABLES
  stage,    \* where an ingredient is on its way over the cooker
  calls,    \* ingredients whose call waits in strand_
  burners,  \* burners_in_use_
  pending   \* pending_handlers_, by the ingredient they belong to

cookerVars == <<stage, calls, burners, pending>>

Stages == {"raw", "asked", "pending", "posted", "cooking", "releasing", "done"}

CookerTypeOK ==
  /\ stage \in [Users -> Stages]
  /\ calls \in Seq(Users)
  /\ burners \in Nat
  /\ pending \in Seq(Users)

CookerInit ==
  /\ stage = [u \in Users |-> "raw"]
  /\ calls = <<>>
  /\ burners = 0
  /\ pending = <<>>

-----------------------------------------------------------------------------
(* StartFry, StartBake: a second start throws.  From here until Unlock the *)
(* ingredient has the lock.                                                *)
UseBurner(u) ==
  /\ stage[u] = "raw"
  /\ stage' = [stage EXCEPT ![u] = "asked"]
  /\ calls' = Append(calls, u)
  /\ UNCHANGED <<burners, pending>>

(* StopFry, StopBaking: unlocking the GasCookerLock calls ReleaseBurner;   *)
(* its destructor finds nothing to release any more.                       *)
ReleaseBurner(u) ==
  /\ stage[u] = "cooking"
  /\ stage' = [stage EXCEPT ![u] = "releasing"]
  /\ calls' = Append(calls, u)
  /\ UNCHANGED <<burners, pending>>

BurnerFree == burners < Burners

(* The lambda of UseBurner in the strand.                                  *)
TakeBurner(u) ==
  /\ BurnerFree
  /\ burners' = burners + 1
  /\ stage' = [stage EXCEPT ![u] = "posted"]
  /\ UNCHANGED pending

Wait(u) ==
  /\ ~ BurnerFree
  /\ pending' = Append(pending, u)
  /\ stage' = [stage EXCEPT ![u] = "pending"]
  /\ UNCHANGED burners

OnUseBurner ==
  /\ calls # <<>>
  /\ stage[Head(calls)] = "asked"
  /\ TakeBurner(Head(calls)) \/ Wait(Head(calls))
  /\ calls' = Tail(calls)

(* Faults: the burner is freed and handed over too; the handler that came  *)
(* last is taken; nobody is told that a burner is free.                    *)
HandOverAndFree(u) ==
  /\ pending # <<>>
  /\ stage' = [stage EXCEPT ![u] = "done", ![Head(pending)] = "posted"]
  /\ pending' = Tail(pending)
  /\ burners' = burners - 1

HandOverToLast(u) ==
  /\ pending # <<>>
  /\ stage' = [stage EXCEPT ![u] = "done", ![pending[Len(pending)]] = "posted"]
  /\ pending' = SubSeq(pending, 1, Len(pending) - 1)
  /\ UNCHANGED burners

HandOverToNobody(u) ==
  /\ pending # <<>>
  /\ stage' = [stage EXCEPT ![u] = "done"]
  /\ burners' = burners - 1
  /\ UNCHANGED pending

(* The lambda of ReleaseBurner in the strand: the burner goes to the first *)
(* pending handler, or becomes free.                                       *)
HandOver(u) ==
  /\ pending # <<>>
  /\ stage' = [stage EXCEPT ![u] = "done", ![Head(pending)] = "posted"]
  /\ pending' = Tail(pending)
  /\ UNCHANGED burners

(* Fault: the burner is never freed.                                       *)
KeepBurner(u) ==
  /\ pending = <<>>
  /\ stage' = [stage EXCEPT ![u] = "done"]
  /\ UNCHANGED <<burners, pending>>

FreeBurner(u) ==
  /\ pending = <<>>
  /\ burners' = burners - 1
  /\ stage' = [stage EXCEPT ![u] = "done"]
  /\ UNCHANGED pending

OnReleaseBurner ==
  /\ calls # <<>>
  /\ stage[Head(calls)] = "releasing"
  /\ HandOver(Head(calls)) \/ FreeBurner(Head(calls))
  /\ calls' = Tail(calls)

(* The posted handler notes the start of cooking and starts the timer.     *)
RunHandler(u) ==
  /\ stage[u] = "posted"
  /\ stage' = [stage EXCEPT ![u] = "cooking"]
  /\ UNCHANGED <<calls, burners, pending>>

CookerNext ==
  \/ OnUseBurner
  \/ OnReleaseBurner
  \/ \E u \in Users : UseBurner(u) \/ RunHandler(u) \/ ReleaseBurner(u)

CookerSpec == CookerInit /\ [][CookerNext]_cookerVars

(* The io_context runs what is posted, the strand what is dispatched; an   *)
(* ingredient that cooks has a timer, and releases its burner.             *)
CookerFairSpec ==
  /\ CookerSpec
  /\ WF_cookerVars(OnUseBurner)
  /\ WF_cookerVars(OnReleaseBurner)
  /\ \A u \in Users : WF_cookerVars(RunHandler(u)) /\ WF_cookerVars(ReleaseBurner(u))

-----------------------------------------------------------------------------
(***************************************************************************)
(* Properties.                                                             *)
(***************************************************************************)

(* The asserts of the two lambdas: the count is within its bounds, and a   *)
(* ReleaseBurner finds a burner in use, whatever calls came in between.    *)
AssertsHold ==
  /\ burners <= Burners
  /\ (calls # <<>> /\ stage[Head(calls)] = "releasing") => burners > 0

(* Never do more ingredients have a burner than there are, those counted   *)
(* whose handler is only posted.                                           *)
NoBurnerIsShared ==
  Cardinality({u \in Users : stage[u] \in {"posted", "cooking"}}) <= Burners

(* No handler waits while a burner is free.                                *)
NobodyWaitsForFreeBurner == pending # <<>> => burners = Burners

(* The assert of the destructor, which runs when no ingredient has a lock  *)
(* and no lambda that holds the cooker is left.                            *)
DestructorAssert ==
  (\A u \in Users : stage[u] \in {"raw", "done"}) => burners = 0

(* The cooker is a pool that serves requests in the order of the calls: in *)
(* line are the pending handlers and behind them the calls of UseBurner    *)
(* that the strand has not run.                                            *)
InLine(u) == stage[u] \in {"asked", "pending"}

Before(q, v, u) == \E i, j \in 1 .. Len(q) : i < j /\ q[i] = v /\ q[j] = u

Precedes(v, u) ==
  \/ stage[v] = "pending" /\ stage[u] = "asked"
  \/ Before(pending, v, u)
  \/ Before(calls, v, u)

Ahead(u) == {v \in Users : InLine(v) /\ Precedes(v, u)}

Pool == INSTANCE BurnerPool
          WITH ahead <- [u \in {v \in Users : InLine(v)} |-> Ahead(u)],
               using <- {u \in Users : stage[u] \in {"posted", "cooking"}}

ImplementsPool == Pool!PoolSpec

(* Whoever asks for a burner gets to cook.                                 *)
EverybodyCooks == \A u \in Users : stage[u] = "asked" ~> stage[u] = "cooking"
=============================================================================
