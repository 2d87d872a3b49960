---------------------------- MODULE CookingTime ----------------------------
(***************************************************************************)
(* How long the cafeteria takes for its orders when nothing but cooking    *)
(* takes time (cafeteria.h, main.cpp of cafeteria2).  All requests for     *)
(* burners are then made at the start, in an order that depends on how     *)
(* the threads interleave, and are served in that order: each gets the     *)
(* burner that is free first.  Time is counted in half seconds.            *)
(***************************************************************************)
EXTENDS Naturals

CONSTANTS NumOrders,  \* num_orders
          Threads,    \* num_threads
          Burners     \* number_of_burners_

VARIABLES
  fried,  \* orders that have called StartFry
  baked,  \* orders that have called StartBake after it
  free    \* free[b]: when burner b has done all that is asked of it so far

timeVars == <<fried, baked, free>>

(* The timers of OnStartFrySausage (1500ms) and OnStartBake (1s).          *)
FryTime  == 3
BakeTime == 2

TimeInit ==
  /\ fried = 0
  /\ baked = 0
  /\ free = [b \in 1 .. Burners |-> 0]

FirstFree == CHOOSE b \in 1 .. Burners : \A c \in 1 .. Burners : free[b] <= free[c]

CookFor(time) == free' = [free EXCEPT ![FirstFree] = @ + time]

(* A thread calls StartFry and StartBake of an order, then takes another   *)
(* order: as many orders are between the calls as there are threads.       *)
StartFry ==
  /\ fried < NumOrders
  /\ fried - baked < Threads
  /\ fried' = fried + 1
  /\ CookFor(FryTime)
  /\ UNCHANGED baked

StartBake ==
  /\ baked < fried
  /\ baked' = baked + 1
  /\ CookFor(BakeTime)
  /\ UNCHANGED fried

TimeNext == StartFry \/ StartBake

TimeSpec == TimeInit /\ [][TimeNext]_timeVars

CookDuration == CHOOSE t \in {free[b] : b \in 1 .. Burners} : \A b \in 1 .. Burners : free[b] <= t

(* The cooking of 20 hot dogs takes from 7 to 7.5 seconds: the assertion   *)
(* of main.cpp.                                                            *)
CookDurationAsAsserted ==
  fried = NumOrders /\ baked = NumOrders => CookDuration \in 14 .. 15
=============================================================================
