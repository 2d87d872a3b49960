----------------------------- MODULE TimeProofs -----------------------------
(***************************************************************************)
(* The two programs whose correctness is a matter of time: the ticker of   *)
(* the game server, and how long the cafeteria takes for its orders.       *)
(***************************************************************************)
EXTENDS Ticker, CookingTime, FiniteSetTheorems, TLAPS

-----------------------------------------------------------------------------
(***************************************************************************)
(* The ticker for every period and every resolution of the clock.  What is *)
(* needed besides the bounds on the game's time is that an armed timer     *)
(* expires a full period after the last tick.                              *)
(***************************************************************************)

(* What truncation does to a stretch of time.                              *)
LEMMA Truncation ==
  ASSUME NEW d \in Nat
  PROVE  /\ DurationCast(d) \in Nat
         /\ DurationCast(d) * PerMs <= d
         /\ d <= DurationCast(d) * PerMs + (PerMs - 1)
<1>1. PerMs \in Nat \ {0}
  BY TickerAssumption
<1>2. d = (PerMs * (d \div PerMs)) + (d % PerMs) /\ d % PerMs \in 0 .. PerMs - 1 /\ d \div PerMs \in Int
  BY <1>1
<1>3. d \div PerMs >= 0
  BY <1>1
<1>4. PerMs * (d \div PerMs) = (d \div PerMs) * PerMs
  BY <1>1, <1>2
<1> QED BY <1>1, <1>2, <1>3, <1>4 DEF DurationCast

LEMMA TruncationKeepsPeriods ==
  ASSUME NEW d \in Nat, Period * PerMs <= d
  PROVE  DurationCast(d) >= Period
<1>1. PerMs \in Nat \ {0} /\ Period \in Nat \ {0} /\ DurationCast(d) \in Nat
  BY TickerAssumption, Truncation
<1>2. d < (DurationCast(d) + 1) * PerMs
  BY <1>1, Truncation
<1>3. Period * PerMs < (DurationCast(d) + 1) * PerMs
  <2>1. Period * PerMs \in Int /\ (DurationCast(d) + 1) * PerMs \in Int
    BY <1>1
  <2> QED BY <1>2, <2>1
<1>4. ASSUME DurationCast(d) + 1 <= Period
      PROVE  FALSE
  <2>1. \A a, b, c \in Nat : a <= b => a * c <= b * c
    OBVIOUS
  <2>2. (DurationCast(d) + 1) * PerMs <= Period * PerMs
    BY <1>1, <1>4, <2>1
  <2>3. Period * PerMs \in Int /\ (DurationCast(d) + 1) * PerMs \in Int
    BY <1>1
  <2> QED BY <1>3, <2>2, <2>3
<1> QED BY <1>1, <1>4

TickerInv ==
  /\ TickerTypeOK
  /\ start <= last /\ last <= now
  /\ phase = "new" => game = 0 /\ ticks = 0
  /\ phase = "waiting" => last + Period * PerMs <= expiry
  /\ GameNotAhead
  /\ LosesLessThanOneMsPerTick

LEMMA InitTickerInv == TickerInit => TickerInv
BY TickerAssumption DEF TickerInit, TickerInv, TickerTypeOK, Phases, GameNotAhead,
                        LosesLessThanOneMsPerTick

(* The tick adds the stretch since the last one, whose fraction is lost.   *)
LEMMA OnTimerKeepsInv ==
  ASSUME TickerInv, OnTimer
  PROVE  TickerInv' /\ game' >= game + Period
<1> DEFINE d == now - last
           c == DurationCast(d)
<1>1. /\ phase = "waiting" /\ now >= expiry /\ last' = now /\ game' = game + c
      /\ ticks' = ticks + 1 /\ phase' = "handling" /\ UNCHANGED <<now, expiry, start>>
  BY DEF OnTimer
<1>2. /\ now \in Nat /\ last \in Nat /\ expiry \in Nat /\ start \in Nat
      /\ game \in Nat /\ ticks \in Nat /\ PerMs \in Nat \ {0} /\ Period \in Nat \ {0}
      /\ start <= last /\ last <= now
  BY TickerAssumption DEF TickerInv, TickerTypeOK
<1>3. d \in Nat /\ c \in Nat /\ c * PerMs <= d /\ d <= c * PerMs + (PerMs - 1)
  BY <1>2, Truncation
<1>4. Period * PerMs <= d
  <2>1. Period * PerMs \in Int
    BY <1>2
  <2> QED BY <1>1, <1>2, <2>1 DEF TickerInv
<1>5. c >= Period
  BY <1>3, <1>4, TruncationKeepsPeriods
<1> HIDE DEF c
<1>6. /\ game * PerMs \in Int /\ c * PerMs \in Int
      /\ (game + c) * PerMs = game * PerMs + c * PerMs
  BY <1>2, <1>3
<1>7. /\ ticks * (PerMs - 1) \in Int
      /\ (ticks + 1) * (PerMs - 1) = ticks * (PerMs - 1) + (PerMs - 1)
  BY <1>2
<1>8. /\ game * PerMs <= last - start
      /\ last - start <= game * PerMs + ticks * (PerMs - 1)
  BY DEF TickerInv, GameNotAhead, LosesLessThanOneMsPerTick
<1>9. /\ (game + c) * PerMs <= now - start
      /\ now - start <= (game + c) * PerMs + (ticks + 1) * (PerMs - 1)
  BY <1>2, <1>3, <1>6, <1>7, <1>8
<1>10. GameNotAhead' /\ LosesLessThanOneMsPerTick'
  BY <1>1, <1>9 DEF GameNotAhead, LosesLessThanOneMsPerTick
<1> QED BY <1>1, <1>2, <1>3, <1>5, <1>10 DEF TickerInv, TickerTypeOK, Phases

LEMMA TickerStep ==
  ASSUME TickerInv, [TickerNext]_tickerVars
  PROVE  TickerInv' /\ (ticks' # ticks => game' >= game + Period)
<1>1. CASE UNCHANGED tickerVars
  BY <1>1 DEF tickerVars, TickerInv, TickerTypeOK, GameNotAhead, LosesLessThanOneMsPerTick
<1>2. CASE Elapse
  BY <1>2 DEF Elapse, TickerInv, TickerTypeOK, GameNotAhead, LosesLessThanOneMsPerTick
<1>3. CASE Start
  <2>1. game = 0 /\ ticks = 0
    BY <1>3 DEF Start, TickerInv
  <2> QED BY <1>3, <2>1, TickerAssumption
          DEF Start, TickerInv, TickerTypeOK, Phases, GameNotAhead, LosesLessThanOneMsPerTick
<1>4. CASE ScheduleTick
  <2>1. Period * PerMs \in Nat
    BY TickerAssumption
  <2> QED BY <1>4, <2>1
          DEF ScheduleTick, ExpiresAfter, TickerInv, TickerTypeOK, Phases, GameNotAhead,
              LosesLessThanOneMsPerTick
<1>5. CASE OnTimer
  BY <1>5, OnTimerKeepsInv
<1>6. CASE HandlerEnds
  BY <1>6 DEF HandlerEnds, TickerInv, TickerTypeOK, Phases, GameNotAhead,
              LosesLessThanOneMsPerTick
<1> QED BY <1>1, <1>2, <1>3, <1>4, <1>5, <1>6 DEF TickerNext

LEMMA TickerInvariant == TickerSpec => []TickerInv
<1>1. TickerInv /\ [TickerNext]_tickerVars => TickerInv'
  BY TickerStep
<1> QED BY InitTickerInv, <1>1, PTL DEF TickerSpec

(* The time given to the game is never more than has passed.               *)
THEOREM GameFollowsClock == TickerSpec => []GameNotAhead
<1>1. TickerInv => GameNotAhead
  BY DEF TickerInv
<1> QED BY <1>1, TickerInvariant, PTL

(* It is less by a fraction of a millisecond per tick at most.             *)
THEOREM LossIsBounded == TickerSpec => []LosesLessThanOneMsPerTick
<1>1. TickerInv => LosesLessThanOneMsPerTick
  BY DEF TickerInv
<1> QED BY <1>1, TickerInvariant, PTL

(* Every tick gives the game a full period or more.                        *)
THEOREM TicksAreNotShort == TickerSpec => NoShortTick
<1>1. TickerInv /\ [TickerNext]_tickerVars => [ticks' # ticks => game' >= game + Period]_tickerVars
  BY TickerStep
<1> QED BY <1>1, TickerInvariant, PTL DEF TickerSpec, NoShortTick

-----------------------------------------------------------------------------
(***************************************************************************)
(* The cafeteria.  The burners are never further apart than one sausage:   *)
(* each request gets the burner that is free first.  What they cook all    *)
(* together is known, and so the last of them ends neither much before nor *)
(* much after the average.                                                 *)
(***************************************************************************)

(* Every set of natural numbers has a least one.                           *)
LEMMA LeastNatural ==
  ASSUME NEW T, T \subseteq Nat, T # {}
  PROVE  \E m \in T : \A k \in T : m <= k
<1> DEFINE Below == {0 .. k : k \in T}
<1>1. Below # {} /\ Below \subseteq FiniteSubsetsOf(Nat)
  <2> SUFFICES ASSUME NEW k \in T PROVE 0 .. k \in FiniteSubsetsOf(Nat)
    OBVIOUS
  <2>1. k \in Nat /\ 0 .. k \in SUBSET Nat
    OBVIOUS
  <2>2. IsFiniteSet(0 .. k)
    BY <2>1, FS_Interval
  <2> QED BY <2>1, <2>2 DEF FiniteSubsetsOf
<1>2. PICK U \in Below : \A V \in Below : ~ (<<V, U>> \in StrictSubsetOrdering(Nat))
  <2> HIDE DEF Below
  <2> QED BY <1>1, FS_StrictSubsetOrderingWellFounded, WFMin
<1>3. PICK m \in T : U = 0 .. m
  OBVIOUS
<1>4. ASSUME NEW k \in T, k < m PROVE FALSE
  <2>1. k \in Nat /\ m \in Nat
    OBVIOUS
  <2>2. m \in U /\ m \notin 0 .. k /\ 0 .. k \subseteq U
    BY <1>3, <1>4, <2>1
  <2>3. <<0 .. k, U>> \in StrictSubsetOrdering(Nat)
    BY <1>3, <2>1, <2>2 DEF StrictSubsetOrdering
  <2> QED BY <1>2, <2>3
<1> QED BY <1>4

(* A function that begins at zero or above and never falls does not end    *)
(* below: the least place at which it were negative has one before it.     *)
LEMMA NeverFalls ==
  ASSUME NEW n \in Nat, NEW g \in [0 .. n -> Int],
         g[0] >= 0, \A b \in 1 .. n : g[b] >= g[b - 1]
  PROVE  g[n] >= 0
<1> DEFINE Low == {b \in 0 .. n : g[b] < 0}
<1> SUFFICES ASSUME Low # {} PROVE FALSE
  OBVIOUS
<1>1. Low \subseteq Nat
  OBVIOUS
<1>2. PICK m \in Low : \A k \in Low : m <= k
  <2> HIDE DEF Low
  <2> QED BY <1>1, LeastNatural
<1>3. m \in 1 .. n /\ m - 1 \in 0 .. n /\ m - 1 \notin Low
  BY <1>2
<1> QED BY <1>2, <1>3

(* A set of burners that are not empty has one that is free first.         *)
LEMMA FirstFreeIsFirst ==
  ASSUME Burners \in Nat \ {0}, free \in [1 .. Burners -> Nat]
  PROVE  /\ FirstFree \in 1 .. Burners
         /\ \A c \in 1 .. Burners : free[FirstFree] <= free[c]
<1> DEFINE T == {free[b] : b \in 1 .. Burners}
<1>1. T \subseteq Nat /\ T # {}
  <2>1. 1 \in 1 .. Burners
    OBVIOUS
  <2> QED BY <2>1
<1>2. PICK m \in T : \A k \in T : m <= k
  <2> HIDE DEF T
  <2> QED BY <1>1, LeastNatural
<1>3. \E b \in 1 .. Burners : \A c \in 1 .. Burners : free[b] <= free[c]
  BY <1>2
<1> QED BY <1>3 DEF FirstFree

(* The time that burners 1 to b cook, for each b.                          *)
SumsOf(f, s) ==
  /\ s \in [0 .. Burners -> Nat]
  /\ s[0] = 0
  /\ \A b \in 1 .. Burners : s[b] = s[b - 1] + f[b]

Balanced(f) == \A b, c \in 1 .. Burners : f[b] <= f[c] + FryTime

TimeInv ==
  /\ fried \in Nat /\ baked \in Nat /\ fried <= NumOrders
  /\ free \in [1 .. Burners -> Nat]
  /\ Balanced(free)
  /\ \E s : SumsOf(free, s) /\ s[Burners] = fried * FryTime + baked * BakeTime

LEMMA InitTimeInv ==
  ASSUME Burners \in Nat \ {0}, NumOrders \in Nat, TimeInit
  PROVE  TimeInv
<1> DEFINE s == [b \in 0 .. Burners |-> 0]
<1>1. SumsOf(free, s)
  BY DEF TimeInit, SumsOf
<1>2. s[Burners] = fried * FryTime + baked * BakeTime
  BY DEF TimeInit, FryTime, BakeTime
<1> HIDE DEF s
<1> QED BY <1>1, <1>2 DEF TimeInit, TimeInv, Balanced, FryTime

(* One more request: the sums from the burner that takes it on grow.       *)
LEMMA CookingAdds ==
  ASSUME Burners \in Nat \ {0}, free \in [1 .. Burners -> Nat], Balanced(free),
         NEW time \in {FryTime, BakeTime}, CookFor(time),
         NEW s, SumsOf(free, s)
  PROVE  /\ free' \in [1 .. Burners -> Nat]
         /\ Balanced(free)'
         /\ \E r : SumsOf(free, r)' /\ r[Burners] = s[Burners] + time
<1>1. PICK k : /\ k \in 1 .. Burners /\ \A c \in 1 .. Burners : free[k] <= free[c]
               /\ free' = [free EXCEPT ![k] = @ + time]
  BY FirstFreeIsFirst DEF CookFor
<1>2. time \in Nat /\ time <= FryTime /\ FryTime \in Nat
  BY DEF FryTime, BakeTime
<1>3. /\ free' \in [1 .. Burners -> Nat]
      /\ \A b \in 1 .. Burners : free'[b] = IF b = k THEN free[b] + time ELSE free[b]
  BY <1>1, <1>2
<1>4. ASSUME NEW b \in 1 .. Burners, NEW c \in 1 .. Burners
      PROVE  free'[b] <= free'[c] + FryTime
  <2>1. free[b] <= free[c] + FryTime /\ free[k] <= free[c]
    BY <1>1 DEF Balanced
  <2>2. free[b] \in Nat /\ free[c] \in Nat /\ free[k] \in Nat
    BY <1>1
  <2>3. free[c] <= free'[c] /\ free'[c] \in Nat
    <3>1. CASE c = k
      BY <1>2, <1>3, <2>2, <3>1
    <3>2. CASE c # k
      BY <1>2, <1>3, <2>2, <3>2
    <3> QED BY <3>1, <3>2
  <2>4. CASE b = k
    BY <1>2, <1>3, <2>1, <2>2, <2>3, <2>4
  <2>5. CASE b # k
    BY <1>2, <1>3, <2>1, <2>2, <2>3, <2>5
  <2> QED BY <2>4, <2>5
<1> DEFINE r == [b \in 0 .. Burners |-> s[b] + (IF b >= k THEN time ELSE 0)]
<1>5. /\ r \in [0 .. Burners -> Nat] /\ r[0] = 0 /\ r[Burners] = s[Burners] + time
  BY <1>1, <1>2 DEF SumsOf
<1>6. ASSUME NEW b \in 1 .. Burners
      PROVE  r[b] = r[b - 1] + free'[b]
  <2>1. b \in 0 .. Burners /\ b - 1 \in 0 .. Burners /\ b \in Nat /\ k \in Nat
    BY <1>1
  <2>2. s[b] = s[b - 1] + free[b] /\ s[b] \in Nat /\ s[b - 1] \in Nat /\ free[b] \in Nat
    BY <2>1 DEF SumsOf
  <2>3. CASE b > k
    BY <1>2, <1>3, <2>1, <2>2, <2>3
  <2>4. CASE b = k
    <3>1. r[b] = s[b] + time /\ r[b - 1] = s[b - 1] /\ free'[b] = free[b] + time
      BY <1>2, <1>3, <2>1, <2>2, <2>4
    <3> QED BY <1>2, <2>2, <3>1
  <2>5. CASE b < k
    BY <1>2, <1>3, <2>1, <2>2, <2>5
  <2> QED BY <2>1, <2>3, <2>4, <2>5
<1>7. SumsOf(free', r) /\ Balanced(free')
  <2> HIDE DEF r
  <2> QED BY <1>4, <1>5, <1>6 DEF SumsOf, Balanced
<1> HIDE DEF r
<1> QED BY <1>3, <1>5, <1>7 DEF SumsOf, Balanced

LEMMA TimeInvStep ==
  ASSUME Burners \in Nat \ {0}, NumOrders \in Nat, TimeInv, [TimeNext]_timeVars
  PROVE  TimeInv'
<1>1. PICK s : SumsOf(free, s) /\ s[Burners] = fried * FryTime + baked * BakeTime
  BY DEF TimeInv
<1>2. fried \in Nat /\ baked \in Nat /\ FryTime \in Nat /\ BakeTime \in Nat
  BY DEF TimeInv, FryTime, BakeTime
<1>3. CASE StartFry
  <2>1. CookFor(FryTime) /\ fried' = fried + 1 /\ baked' = baked /\ fried < NumOrders
    BY <1>3 DEF StartFry
  <2>2. PICK r : SumsOf(free, r)' /\ r[Burners] = s[Burners] + FryTime
    BY <1>1, <2>1, CookingAdds DEF TimeInv
  <2>3. free' \in [1 .. Burners -> Nat] /\ Balanced(free)'
    BY <1>1, <2>1, CookingAdds DEF TimeInv
  <2>4. r[Burners] = fried' * FryTime + baked' * BakeTime
    BY <1>1, <1>2, <2>1, <2>2 DEF FryTime, BakeTime
  <2> QED BY <1>2, <2>1, <2>2, <2>3, <2>4 DEF TimeInv
<1>4. CASE StartBake
  <2>1. CookFor(BakeTime) /\ baked' = baked + 1 /\ fried' = fried
    BY <1>4 DEF StartBake
  <2>2. PICK r : SumsOf(free, r)' /\ r[Burners] = s[Burners] + BakeTime
    BY <1>1, <2>1, CookingAdds DEF TimeInv
  <2>3. free' \in [1 .. Burners -> Nat] /\ Balanced(free)'
    BY <1>1, <2>1, CookingAdds DEF TimeInv
  <2>4. r[Burners] = fried' * FryTime + baked' * BakeTime
    BY <1>1, <1>2, <2>1, <2>2 DEF FryTime, BakeTime
  <2> QED BY <1>2, <2>1, <2>2, <2>3, <2>4 DEF TimeInv
<1>5. CASE UNCHANGED timeVars
  BY <1>5 DEF timeVars, TimeInv, SumsOf, Balanced
<1> QED BY <1>3, <1>4, <1>5 DEF TimeNext

(* Some burner is free last, at the time that CookDuration chooses.        *)
LEMMA CookDurationIsLast ==
  ASSUME Burners \in Nat \ {0}, TimeInv
  PROVE  /\ CookDuration \in {free[b] : b \in 1 .. Burners}
         /\ \A b \in 1 .. Burners : free[b] <= CookDuration
<1> DEFINE Above == {u \in Nat : \A b \in 1 .. Burners : free[b] <= u}
<1>1. free \in [1 .. Burners -> Nat] /\ 1 \in 1 .. Burners /\ FryTime \in Nat
  BY DEF TimeInv, FryTime
<1>2. free[1] + FryTime \in Above
  BY <1>1 DEF TimeInv, Balanced
<1>3. PICK t \in Above : \A u \in Above : t <= u
  <2>1. Above \subseteq Nat /\ Above # {}
    BY <1>2
  <2> HIDE DEF Above
  <2> QED BY <2>1, LeastNatural
<1>4. \E b \in 1 .. Burners : free[b] = t
  <2> SUFFICES ASSUME \A b \in 1 .. Burners : free[b] # t PROVE FALSE
    OBVIOUS
  <2>1. \A b \in 1 .. Burners : free[b] < t
    BY <1>1, <1>3
  <2>2. t > 0
    BY <1>1, <2>1
  <2>3. t - 1 \in Above
    BY <1>1, <2>1, <2>2
  <2> QED BY <1>3, <2>3
<1>5. \E u \in {free[b] : b \in 1 .. Burners} : \A b \in 1 .. Burners : free[b] <= u
  BY <1>3, <1>4
<1> QED BY <1>5 DEF CookDuration

(* What is cooked takes all burners until the last is done, up to a        *)
(* sausage on each of the others.                                          *)
CookDurationIsAverage ==
  LET cooked == fried * FryTime + baked * BakeTime
  IN  /\ cooked <= Burners * CookDuration
      /\ Burners * CookDuration <= cooked + (Burners - 1) * FryTime

LEMMA AverageFromInv ==
  ASSUME Burners \in Nat \ {0}, TimeInv
  PROVE  CookDurationIsAverage
<1>1. PICK s : SumsOf(free, s) /\ s[Burners] = fried * FryTime + baked * BakeTime
  BY DEF TimeInv
<1>2. PICK k \in 1 .. Burners : CookDuration = free[k] /\ \A b \in 1 .. Burners : free[b] <= free[k]
  BY CookDurationIsLast
<1>3. PICK t : t = free[k]
  OBVIOUS
<1>4. /\ t \in Nat /\ Burners \in Nat /\ k \in Nat /\ FryTime = 3
      /\ s \in [0 .. Burners -> Nat] /\ s[0] = 0
      /\ \A b \in 1 .. Burners : /\ s[b] = s[b - 1] + free[b]
                                 /\ free[b] \in Nat /\ free[b] <= t /\ t <= free[b] + 3
  <2>1. free \in [1 .. Burners -> Nat] /\ \A b \in 1 .. Burners : free[k] <= free[b] + 3
    BY <1>2 DEF TimeInv, Balanced, FryTime
  <2>2. /\ s \in [0 .. Burners -> Nat] /\ s[0] = 0
        /\ \A b \in 1 .. Burners : s[b] = s[b - 1] + free[b]
    BY <1>1 DEF SumsOf
  <2> QED BY <1>2, <1>3, <2>1, <2>2 DEF FryTime
<1>5. s[Burners] <= Burners * t
  <2> DEFINE g == [b \in 0 .. Burners |-> b * t - s[b]]
  <2>1. ASSUME NEW b \in 0 .. Burners PROVE b * t \in Int /\ s[b] \in Nat
    BY <1>4
  <2>2. g \in [0 .. Burners -> Int] /\ g[0] >= 0
    BY <1>4, <2>1
  <2>3. ASSUME NEW b \in 1 .. Burners PROVE g[b] >= g[b - 1]
    <3>1. b \in Int /\ b \in 0 .. Burners /\ b - 1 \in 0 .. Burners
      OBVIOUS
    <3>2. (b - 1) * t = b * t - t /\ b * t \in Int
      BY <1>4, <3>1
    <3>3. PICK p \in Int : p = b * t
      BY <3>2
    <3>4. g[b] = p - s[b] /\ g[b - 1] = p - t - s[b - 1]
      BY <3>1, <3>2, <3>3
    <3>5. s[b] = s[b - 1] + free[b] /\ free[b] <= t /\ s[b - 1] \in Nat /\ free[b] \in Nat
      BY <1>4, <2>1, <3>1
    <3> HIDE DEF g
    <3> QED BY <1>4, <3>4, <3>5
  <2>4. g[Burners] = Burners * t - s[Burners]
    BY <1>4
  <2> HIDE DEF g
  <2>5. g[Burners] >= 0
    BY <1>4, <2>2, <2>3, NeverFalls
  <2> QED BY <1>4, <2>1, <2>4, <2>5
<1>6. Burners * t <= s[Burners] + (Burners - 1) * 3
  <2> DEFINE lo == t - 3
             g == [b \in 0 .. Burners |-> s[b] - b * lo - (IF b >= k THEN 3 ELSE 0)]
  <2>1. lo \in Int
    BY <1>4
  <2>2. ASSUME NEW b \in 0 .. Burners PROVE b * lo \in Int /\ s[b] \in Nat
    BY <1>4, <2>1
  <2>3. g \in [0 .. Burners -> Int] /\ g[0] >= 0
    BY <1>2, <1>4, <2>2
  <2>4. ASSUME NEW b \in 1 .. Burners PROVE g[b] >= g[b - 1]
    <3>1. b \in Int /\ b \in 0 .. Burners /\ b - 1 \in 0 .. Burners
      OBVIOUS
    <3>2. (b - 1) * lo = b * lo - lo /\ b * lo \in Int
      BY <2>1, <3>1
    <3>3. PICK p \in Int : p = b * lo
      BY <3>2
    <3>4. /\ g[b] = s[b] - p - (IF b >= k THEN 3 ELSE 0)
          /\ g[b - 1] = s[b - 1] - (p - lo) - (IF b - 1 >= k THEN 3 ELSE 0)
      BY <3>1, <3>2, <3>3
    <3>5. s[b] = s[b - 1] + free[b] /\ free[b] >= lo /\ s[b - 1] \in Nat /\ free[b] \in Nat
      BY <1>4, <2>2, <3>1
    <3> HIDE DEF g
    <3>6. CASE b = k
      <4>1. free[b] = lo + 3
        BY <1>3, <1>4, <3>6
      <4>2. g[b] = s[b] - p - 3 /\ g[b - 1] = s[b - 1] - (p - lo) - 0
        BY <1>4, <3>1, <3>4, <3>6
      <4> HIDE DEF lo
      <4> QED BY <2>1, <3>5, <4>1, <4>2
    <3>7. CASE b < k
      <4>1. g[b] = s[b] - p - 0 /\ g[b - 1] = s[b - 1] - (p - lo) - 0
        BY <1>4, <3>1, <3>4, <3>7
      <4> HIDE DEF lo
      <4> QED BY <2>1, <3>5, <4>1
    <3>8. CASE b > k
      <4>1. g[b] = s[b] - p - 3 /\ g[b - 1] = s[b - 1] - (p - lo) - 3
        BY <1>4, <3>1, <3>4, <3>8
      <4> HIDE DEF lo
      <4> QED BY <2>1, <3>5, <4>1
    <3> QED BY <1>4, <3>1, <3>6, <3>7, <3>8
  <2>5. g[Burners] = s[Burners] - Burners * lo - 3
    BY <1>2, <1>4
  <2>6. Burners * lo = Burners * t - Burners * 3 /\ Burners * lo \in Int /\ Burners * t \in Int
    BY <1>4
  <2> HIDE DEF g, lo
  <2>7. g[Burners] >= 0
    BY <1>4, <2>3, <2>4, NeverFalls
  <2> QED BY <1>4, <2>5, <2>6, <2>7
<1> QED BY <1>1, <1>2, <1>3, <1>4, <1>5, <1>6 DEF CookDurationIsAverage

(* For any numbers of orders, threads and burners, in whatever order the   *)
(* threads ask for them, the burners are used evenly.                      *)
THEOREM BurnersAreUsedEvenly ==
  ASSUME Burners \in Nat \ {0}, NumOrders \in Nat
  PROVE  TimeSpec => []CookDurationIsAverage
<1>1. TimeInit => TimeInv
  BY InitTimeInv
<1>2. TimeInv /\ [TimeNext]_timeVars => TimeInv'
  BY TimeInvStep
<1>3. TimeInv => CookDurationIsAverage
  BY AverageFromInv
<1> QED BY <1>1, <1>2, <1>3, PTL DEF TimeSpec

(* With the 20 orders and 8 burners of main the cooking takes from 6.5 to  *)
(* 7.5 seconds, with any number of threads: of the two halves of the       *)
(* assertion of main.cpp the upper one holds.                              *)
THEOREM UpperHalfHolds ==
  ASSUME NumOrders = 20, Burners = 8
  PROVE  TimeSpec => [](fried = NumOrders /\ baked = NumOrders => CookDuration \in 13 .. 15)
<1>1. ASSUME TimeInv, CookDurationIsAverage, fried = NumOrders, baked = NumOrders
      PROVE  CookDuration \in 13 .. 15
  <2>1. CookDuration \in Nat
    BY <1>1, CookDurationIsLast DEF TimeInv
  <2> QED BY <1>1, <2>1 DEF CookDurationIsAverage, FryTime, BakeTime
<1>2. TimeInit => TimeInv
  BY InitTimeInv
<1>3. TimeInv /\ [TimeNext]_timeVars => TimeInv'
  BY TimeInvStep
<1>4. TimeInv => CookDurationIsAverage
  BY AverageFromInv
<1> QED BY <1>1, <1>2, <1>3, <1>4, PTL DEF TimeSpec
=============================================================================
