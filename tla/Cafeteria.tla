----------------------------- MODULE Cafeteria -----------------------------
(***************************************************************************)
(* The cafeteria (cafeteria.h, hotdog.h, main.cpp of cafeteria2): orders   *)
(* are scheduled on the threads of an io_context, each asks the gas cooker *)
(* for a burner for its sausage and for its bread, and packs a hot dog     *)
(* when both are cooked.                                                   *)
(*                                                                         *)
(* Threads matter where they block: in the latch that holds the first      *)
(* orders back until every thread has one.  Time matters where HotDog      *)
(* looks at it: an ingredient whose timer handler runs half a second late  *)
(* is "late".  The store hands out its ingredients under a mutex and is    *)
(* part of the step that orders.                                           *)
(***************************************************************************)
EXTENDS GasCooker

CONSTANTS NumOrders,  \* num_orders
          Threads     \* num_threads

Orders == 0 .. NumOrders - 1
Kinds  == {"sausage", "bread"}

ASSUME CafeteriaAssumption ==
  /\ NumOrders \in Nat \ {0}
  /\ Threads \in Nat \ {0}
  /\ Users = Orders \X Kinds

VARIABLES
  task,       \* where the dispatched lambda of an order is
  latch,      \* the count of start
  cooked,     \* end of cooking of an ingredient: none, in time or late
  checking,   \* the handlers that run in the strand of an order
  delivered,  \* how often the handler of an order was called with a hot dog
  alive       \* FALSE when an exception has left io_context::run

vars == <<cookerVars, task, latch, cooked, checking, delivered, alive>>

TypeOK ==
  /\ CookerTypeOK
  /\ task \in [Orders -> {"scheduled", "latched", "ordering", "frying", "executed"}]
  /\ latch \in Nat
  /\ cooked \in [Users -> {"no", "right", "late"}]
  /\ checking \in [Orders -> SUBSET Kinds]
  /\ delivered \in [Orders -> Nat]
  /\ alive \in BOOLEAN

(* Fault: every order waits at the latch.                                  *)
NumWaitingAll == NumOrders

(* num_waiting_threads                                                     *)
NumWaiting == IF Threads < NumOrders THEN Threads ELSE NumOrders

Init ==
  /\ CookerInit
  /\ task = [o \in Orders |-> "scheduled"]
  /\ latch = NumWaiting
  /\ cooked = [u \in Users |-> "no"]
  /\ checking = [o \in Orders |-> {}]
  /\ delivered = [o \in Orders |-> 0]
  /\ alive = TRUE

-----------------------------------------------------------------------------
(* The orders were dispatched from outside of the io_context: its threads  *)
(* take them in turn.                                                      *)
InThread(o) == task[o] \in {"latched", "ordering", "frying"}

CountDown(o) == latch' = IF o < NumWaiting THEN latch - 1 ELSE latch

StartTask(o) ==
  /\ task[o] = "scheduled"
  /\ \A p \in Orders : p < o => task[p] # "scheduled"
  /\ Cardinality({p \in Orders : InThread(p)}) < Threads
  /\ task' = [task EXCEPT ![o] = IF o < NumWaiting THEN "latched" ELSE "ordering"]
  /\ CountDown(o)
  /\ UNCHANGED <<cookerVars, cooked, checking, delivered, alive>>

PassLatch(o) ==
  /\ task[o] = "latched"
  /\ latch = 0
  /\ task' = [task EXCEPT ![o] = "ordering"]
  /\ UNCHANGED <<cookerVars, latch, cooked, checking, delivered, alive>>

(* OrderHotDog, and the two halves of Execute.                             *)
FrySausage(o) ==
  /\ task[o] = "ordering"
  /\ UseBurner(<<o, "sausage">>)
  /\ task' = [task EXCEPT ![o] = "frying"]
  /\ UNCHANGED <<latch, cooked, checking, delivered, alive>>

BakeBread(o) ==
  /\ task[o] = "frying"
  /\ UseBurner(<<o, "bread">>)
  /\ task' = [task EXCEPT ![o] = "executed"]
  /\ UNCHANGED <<latch, cooked, checking, delivered, alive>>

CookerStep ==
  /\ OnUseBurner \/ OnReleaseBurner \/ \E u \in Users : RunHandler(u)
  /\ UNCHANGED <<task, latch, cooked, checking, delivered, alive>>

-----------------------------------------------------------------------------
(* Fault: the timers are not bound to the strand of the order.             *)
AnyTime(o) == TRUE

OrderStrandIdle(o) == checking[o] = {}

(* The timer has expired: StopFry or StopBaking, in the order's strand.    *)
StopCooking(o, k) ==
  /\ OrderStrandIdle(o)
  /\ ReleaseBurner(<<o, k>>)
  /\ \E c \in {"right", "late"} : cooked' = [cooked EXCEPT ![<<o, k>>] = c]
  /\ checking' = [checking EXCEPT ![o] = @ \cup {k}]
  /\ UNCHANGED <<task, latch, delivered, alive>>

(* Fault: the sausage is not asked for.                                    *)
BreadIsReady(o) == cooked[<<o, "bread">>] # "no"

IngredientsReady(o) == \A k \in Kinds : cooked[<<o, k>>] # "no"

(* HotDog throws on an ingredient that was cooked for too long; nothing in *)
(* the handler of the timer catches it.                                    *)
Rejected(o) == \E k \in Kinds : cooked[<<o, k>>] = "late"

CheckReadiness(o, k) ==
  /\ k \in checking[o]
  /\ checking' = [checking EXCEPT ![o] = @ \ {k}]
  /\ IF IngredientsReady(o)
       THEN IF Rejected(o)
              THEN alive' = FALSE /\ UNCHANGED delivered
              ELSE delivered' = [delivered EXCEPT ![o] = @ + 1] /\ UNCHANGED alive
       ELSE UNCHANGED <<delivered, alive>>
  /\ UNCHANGED <<cookerVars, task, latch, cooked>>

Next ==
  /\ alive
  /\ \/ CookerStep
     \/ \E o \in Orders : \/ StartTask(o)
                          \/ PassLatch(o)
                          \/ FrySausage(o)
                          \/ BakeBread(o)
                          \/ \E k \in Kinds : StopCooking(o, k) \/ CheckReadiness(o, k)

Spec == Init /\ [][Next]_vars

(* Threads go on with the task they have, the io_context runs what is      *)
(* posted, and timers expire.                                              *)
FairSpec == Spec /\ WF_vars(Next)

-----------------------------------------------------------------------------
(***************************************************************************)
(* Properties.                                                             *)
(***************************************************************************)

(* The two timer handlers of an order race to be the one that finds both   *)
(* ingredients cooked: VerifyHotDogs asserts that no hot dog comes twice.  *)
NoHotDogTwice == \A o \in Orders : delivered[o] <= 1

(* main asserts that every order was fulfilled once io_context::run has    *)
(* nothing more to do.                                                     *)
NothingLeftToDo ==
  /\ \A o \in Orders : task[o] = "executed" /\ checking[o] = {}
  /\ \A u \in Users : stage[u] = "done"

AllOrdersFulfilled ==
  (alive /\ NothingLeftToDo) => \A o \in Orders : delivered[o] = 1

(* Nobody waits for ever at the latch or for a burner: the orders are      *)
(* fulfilled, unless an ingredient comes too late.                         *)
EverybodyEats == <>(~ alive \/ \A o \in Orders : delivered[o] = 1)

(* A hot dog is delivered while other ingredients still wait for burners,  *)
(* never while one of its own has a burner or waits for one.               *)
OwnBurnersGivenBack ==
  \A o \in Orders : delivered[o] > 0 =>
    \A k \in Kinds : stage[<<o, k>>] \in {"releasing", "done"}
=============================================================================
