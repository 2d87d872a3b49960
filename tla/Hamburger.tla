----------------------------- MODULE Hamburger -----------------------------
(***************************************************************************)
(* The restaurant of async_operations: main orders hamburgers, every       *)
(* second one with onion, and then runs an io_context on several workers.  *)
(* An order roasts its cutlet and marinades its onion on two timers whose  *)
(* handlers run in the strand of the order; the one that finds everything  *)
(* ready packs for half a second and delivers.  The results are collected  *)
(* in a strand of their own.                                               *)
(*                                                                         *)
(* A timer's wait may end with an error, which the handlers treat.         *)
(***************************************************************************)
EXTENDS Naturals, Sequences, FiniteSets

CONSTANTS NumOrders,   \* num_orders
          NumWorkers,  \* num_workers
          Failing      \* whether a wait can end with an error

ASSUME RestaurantAssumption ==
  /\ NumOrders \in Nat \ {0}
  /\ NumWorkers \in Nat \ {0}
  /\ Failing \in BOOLEAN

Orders == 1 .. NumOrders
Tasks  == {"roast", "marinade"}
Timers == Orders \X Tasks

VARIABLES
  made,       \* next_order_id: the orders that were made
  stage,      \* stage[<<o, k>>]: where the timer handler k of order o is
  expected,   \* expected_counter_ of the ThreadChecker in that handler
  failed,     \* the handlers that were given an error
  counter,    \* counter_ of each order
  roasted, marinaded, onion, packed, delivered,  \* the orders with that flag
  toStore,    \* lambdas in the strand of handle_result
  results,    \* the map orders of main
  alive       \* FALSE when an assert failed or an exception left a handler

vars == <<made, stage, expected, failed, counter, roasted, marinaded, onion,
          packed, delivered, toStore, results, alive>>

(* An order with an even i in the loop of main has an odd id.              *)
WithOnion(o) == o % 2 # 0

OrderResult == [id : Orders, ec : BOOLEAN, roasted : BOOLEAN, onion : BOOLEAN,
                packed : BOOLEAN]

TypeOK ==
  /\ made \in 0 .. NumOrders
  /\ stage \in [Timers -> {"unset", "waiting", "entered", "packing", "left"}]
  /\ expected \in [Timers -> Nat]
  /\ failed \subseteq Timers
  /\ counter \in [Orders -> Nat]
  /\ roasted \subseteq Orders
  /\ marinaded \subseteq Orders
  /\ onion \subseteq Orders
  /\ packed \subseteq Orders
  /\ delivered \subseteq Orders
  /\ toStore \in Seq(OrderResult)
  /\ results \subseteq OrderResult
  /\ alive \in BOOLEAN

Init ==
  /\ made = 0
  /\ stage = [t \in Timers |-> "unset"]
  /\ expected = [t \in Timers |-> 0]
  /\ failed = {}
  /\ counter = [o \in Orders |-> 0]
  /\ roasted = {} /\ marinaded = {} /\ onion = {} /\ packed = {} /\ delivered = {}
  /\ toStore = <<>>
  /\ results = {}
  /\ alive = TRUE

-----------------------------------------------------------------------------
(* Fault: the marinade of an order with onion is not started.              *)
ExecuteRoastOnly(o) == {<<o, "roast">>}

(* Execute: the timers an order sets.                                      *)
Execute(o) == {<<o, k>> : k \in IF WithOnion(o) THEN Tasks ELSE {"roast"}}

MakeHamburger ==
  /\ made < NumOrders
  /\ made' = made + 1
  /\ stage' = [t \in Timers |-> IF t \in Execute(made + 1) THEN "waiting" ELSE stage[t]]
  /\ UNCHANGED <<expected, failed, counter, roasted, marinaded, onion, packed,
                 delivered, toStore, results, alive>>

InHandler(t) == stage[t] \in {"entered", "packing"}

(* Fault: the handlers are not bound to the strand.                        *)
StrandAlwaysFree(o) == TRUE

StrandFree(o) == \A k \in Tasks : ~ InHandler(<<o, k>>)

(* OnRoasted and OnMarinaded up to CheckReadiness.  SetCutletRoasted       *)
(* throws when the cutlet is roasted already.                              *)
EnterHandler(o, k, error) ==
  /\ made = NumOrders
  /\ stage[<<o, k>>] = "waiting"
  /\ StrandFree(o)
  /\ Cardinality({t \in Timers : InHandler(t)}) < NumWorkers
  /\ stage' = [stage EXCEPT ![<<o, k>>] = "entered"]
  /\ counter' = [counter EXCEPT ![o] = counter[o] + 1]
  /\ expected' = [expected EXCEPT ![<<o, k>>] = counter[o] + 1]
  /\ failed' = IF error THEN failed \cup {<<o, k>>} ELSE failed
  /\ roasted' = IF k = "roast" /\ ~ error THEN roasted \cup {o} ELSE roasted
  /\ marinaded' = IF k = "marinade" /\ ~ error THEN marinaded \cup {o} ELSE marinaded
  /\ alive' = ~ (k = "roast" /\ ~ error /\ o \in roasted)
  /\ UNCHANGED <<made, onion, packed, delivered, toStore, results>>

(* The handler returns: the destructor of ThreadChecker asserts that no    *)
(* other handler of the order began in the meantime.                       *)
ThreadChecked(o, k) == expected[<<o, k>>] = counter[o]

Leave(o, k) == stage' = [stage EXCEPT ![<<o, k>>] = "left"]

(* handle_result copies the hamburger, if there is one, into the lambda it *)
(* dispatches.                                                             *)
Result(o, error) ==
  [id |-> o, ec |-> error,
   roasted |-> ~ error /\ o \in roasted,
   onion |-> ~ error /\ o \in onion,
   packed |-> ~ error /\ o \in packed']

Deliver(o, error) ==
  /\ delivered' = delivered \cup {o}
  /\ toStore' = Append(toStore, Result(o, error))

CanAddOnion(o) == o \in roasted /\ o \in marinaded /\ o \notin onion

IsReadyToPack(o) == o \in roasted /\ (WithOnion(o) => o \in onion')

(* Fault: the check does not look at delivered_.                           *)
NeverDelivered(o) == FALSE

IsDelivered(o) == o \in delivered

(* CheckReadiness, up to the busy loop of Pack.  AddOnion throws when the  *)
(* hamburger is packed or its cutlet is raw.                               *)
CheckReadiness(o, k) ==
  /\ stage[<<o, k>>] = "entered"
  /\ packed' = packed
  /\ \/ /\ IsDelivered(o)
        /\ Leave(o, k)
        /\ alive' = ThreadChecked(o, k)
        /\ UNCHANGED <<onion, delivered, toStore>>
     \/ /\ ~ IsDelivered(o) /\ <<o, k>> \in failed
        /\ Deliver(o, TRUE)
        /\ Leave(o, k)
        /\ alive' = ThreadChecked(o, k)
        /\ UNCHANGED onion
     \/ /\ ~ IsDelivered(o) /\ <<o, k>> \notin failed
        /\ onion' = IF CanAddOnion(o) THEN onion \cup {o} ELSE onion
        /\ IF IsReadyToPack(o)
             THEN /\ stage' = [stage EXCEPT ![<<o, k>>] = "packing"]
                  /\ alive' = ~ (CanAddOnion(o) /\ o \in packed)
             ELSE /\ Leave(o, k)
                  /\ alive' = (ThreadChecked(o, k) /\ ~ (CanAddOnion(o) /\ o \in packed))
        /\ UNCHANGED <<delivered, toStore>>
  /\ UNCHANGED <<made, expected, failed, counter, roasted, marinaded, results>>

(* Hamburger::Pack throws when the cutlet is raw.                          *)
Pack(o, k) ==
  /\ stage[<<o, k>>] = "packing"
  /\ packed' = packed \cup {o}
  /\ Deliver(o, FALSE)
  /\ Leave(o, k)
  /\ alive' = (ThreadChecked(o, k) /\ o \in roasted)
  /\ UNCHANGED <<made, expected, failed, counter, roasted, marinaded, onion, results>>

(* A lambda in the strand of the results: emplace keeps what is there.     *)
StoreResult ==
  /\ toStore # <<>>
  /\ toStore' = Tail(toStore)
  /\ results' = IF \E r \in results : r.id = Head(toStore).id
                  THEN results ELSE results \cup {Head(toStore)}
  /\ UNCHANGED <<made, stage, expected, failed, counter, roasted, marinaded, onion,
                 packed, delivered, alive>>

Next ==
  /\ alive
  /\ \/ MakeHamburger
     \/ \E o \in Orders, k \in Tasks :
          \/ \E error \in {FALSE} \cup {Failing} : EnterHandler(o, k, error)
          \/ CheckReadiness(o, k)
          \/ Pack(o, k)
     \/ StoreResult

(* Timers expire and the workers run what is ready until nothing is left.  *)
(* Every behaviour ends, so that fairness of the whole is enough.          *)
Spec == Init /\ [][Next]_vars /\ WF_vars(Next)

-----------------------------------------------------------------------------
(* io.run has returned in every worker: nothing is waiting or running.     *)
Finished ==
  /\ made = NumOrders
  /\ \A t \in Timers : stage[t] \in {"unset", "left"}
  /\ toStore = <<>>

Whole(r) == r.roasted /\ r.packed /\ (r.onion <=> WithOnion(r.id))

(* The assert of ThreadChecker and the exceptions of Hamburger never       *)
(* happen, although two timer handlers of an order look at each other's    *)
(* work; and after the run the asserts of main hold for every order of     *)
(* which no timer failed: it was delivered, without an error, packed, and  *)
(* with onion exactly when that was ordered.  A failed order has either an *)
(* error or a whole hamburger.                                             *)
AssertsHold ==
  /\ alive
  /\ Finished =>
       \A o \in Orders : \E r \in results :
         /\ r.id = o
         /\ (\A k \in Tasks : <<o, k>> \notin failed) => ~ r.ec
         /\ ~ r.ec => Whole(r)

(* The handler of an order is called once, whatever the order in which its *)
(* timers end and fail: emplace would hide a second result.                *)
DeliveredOnce ==
  \A i \in 1 .. Len(toStore) :
    /\ \A j \in 1 .. Len(toStore) : toStore[i].id = toStore[j].id => i = j
    /\ \A r \in results : r.id # toStore[i].id

(* Every order gets its result: the handler that runs second, whichever it *)
(* is, finds the work of the first and packs.                              *)
EveryOrderIsDelivered ==
  \A o \in Orders : <>(\E r \in results : r.id = o)
=============================================================================
