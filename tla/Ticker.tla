------------------------------- MODULE Ticker -------------------------------
(***************************************************************************)
(* The clock of the game (ticker.h): a steady_timer on the API strand that *)
(* is armed again after every tick, and the milliseconds that each tick    *)
(* hands to GameServer::Tick.                                              *)
(*                                                                         *)
(* Time is counted in units of which PerMs make a millisecond.  It passes  *)
(* between any two statements: before an expired timer gets its turn in    *)
(* the strand, while the game is updated, and before the timer is armed.   *)
(***************************************************************************)
EXTENDS Integers

CONSTANTS PerMs,    \* units in a millisecond
          Period,   \* period_, in milliseconds
          MaxTime   \* bound on the time

ASSUME TickerAssumption ==
  /\ PerMs \in Nat \ {0}
  /\ Period \in Nat \ {0}
  /\ MaxTime \in Nat

VARIABLES
  now,      \* Clock::now()
  phase,    \* what the ticker does
  last,     \* last_tick_
  expiry,   \* the expiry time of timer_
  start,    \* the time of Start
  game,     \* milliseconds that the handler was called with, all together
  ticks     \* number of calls of the handler

tickerVars == <<now, phase, last, expiry, start, game, ticks>>

Phases == {"new", "arming", "waiting", "handling"}

TickerTypeOK ==
  /\ phase \in Phases
  /\ now \in Nat /\ last \in Nat /\ expiry \in Nat /\ start \in Nat
  /\ game \in Nat /\ ticks \in Nat

TickerInit ==
  /\ phase = "new"
  /\ now = 0 /\ last = 0 /\ expiry = 0 /\ start = 0
  /\ game = 0 /\ ticks = 0

Elapse ==
  /\ now < MaxTime
  /\ now' = now + 1
  /\ UNCHANGED <<phase, last, expiry, start, game, ticks>>

(* The lambda of Start, in the strand.                                     *)
Start ==
  /\ phase = "new"
  /\ last' = now
  /\ start' = now
  /\ phase' = "arming"
  /\ UNCHANGED <<now, expiry, game, ticks>>

(* Fault: the timer is set one period after the last expiry.               *)
NextExpiry == expiry + Period * PerMs

(* expires_after                                                           *)
ExpiresAfter == now + Period * PerMs

ScheduleTick ==
  /\ phase = "arming"
  /\ expiry' = ExpiresAfter
  /\ phase' = "waiting"
  /\ UNCHANGED <<now, last, start, game, ticks>>

(* Faults: rounding up; rounding down to whole periods.                    *)
DurationCastUp(d) == (d + PerMs - 1) \div PerMs

DurationCastPeriods(d) == Period * (d \div (Period * PerMs))

(* duration_cast<milliseconds> truncates.                                  *)
DurationCast(d) == d \div PerMs

(* Nobody cancels the timer: the error branch of OnTick is not taken.      *)
OnTimer ==
  /\ phase = "waiting"
  /\ now >= expiry
  /\ last' = now
  /\ game' = game + DurationCast(now - last)
  /\ ticks' = ticks + 1
  /\ phase' = "handling"
  /\ UNCHANGED <<now, expiry, start>>

(* The handler is over; what it throws is swallowed.                       *)
HandlerEnds ==
  /\ phase = "handling"
  /\ phase' = "arming"
  /\ UNCHANGED <<now, last, expiry, start, game, ticks>>

TickerNext == Elapse \/ Start \/ ScheduleTick \/ OnTimer \/ HandlerEnds

TickerSpec == TickerInit /\ [][TickerNext]_tickerVars

-----------------------------------------------------------------------------
(***************************************************************************)
(* Properties.                                                             *)
(***************************************************************************)

(* The game is never ahead of the clock: no stretch of time is given to it *)
(* twice.                                                                  *)
GameNotAhead == game * PerMs <= last - start

(* Nor does it fall behind by more than the fraction of a millisecond that *)
(* duration_cast drops from each tick: the time that a slow handler takes  *)
(* is part of the next tick.                                               *)
LosesLessThanOneMsPerTick == last - start <= game * PerMs + ticks * (PerMs - 1)

(* A tick never gives the game less than the period, even after ticks that *)
(* came late: the ticker does not catch up with a burst of short ones.     *)
NoShortTick == [][ticks' # ticks => game' >= game + Period]_tickerVars
=============================================================================
