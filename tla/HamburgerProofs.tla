-------------------------- MODULE HamburgerProofs --------------------------
(***************************************************************************)
(* The restaurant for every number of orders and workers.  The strand of   *)
(* an order lets one of its handlers run at a time (TimersInv); so the one *)
(* that checks last sees what the other has done, packs or delivers the    *)
(* error (DeliveryInv), and nobody delivers what is delivered (StoreInv).  *)
(***************************************************************************)
EXTENDS Hamburger, QueueLemmas, FiniteSetTheorems, TLAPS

Began(o, k) == stage[<<o, k>>] \in {"entered", "packing", "left"}

(* A handler runs alone in the strand of its order, and no other has begun *)
(* since it did.                                                           *)
TimersInv ==
  \A o \in Orders : \A k \in Tasks :
    /\ stage[<<o, k>>] = "unset" <=> (o > made \/ (k = "marinade" /\ ~ WithOnion(o)))
    /\ <<o, k>> \in failed => Began(o, k)
    /\ InHandler(<<o, k>>) => expected[<<o, k>>] = counter[o]
    /\ \A l \in Tasks : InHandler(<<o, k>>) /\ InHandler(<<o, l>>) => k = l

CookingInv ==
  \A o \in Orders :
    /\ o \in roasted <=> Began(o, "roast") /\ <<o, "roast">> \notin failed
    /\ o \in marinaded <=> Began(o, "marinade") /\ <<o, "marinade">> \notin failed
    /\ o \in onion => o \in roasted /\ o \in marinaded
    /\ o \in packed => o \in delivered
    /\ \A k \in Tasks : stage[<<o, k>>] = "packing" =>
         o \in roasted /\ o \notin delivered /\ (WithOnion(o) => o \in onion)

(* Who has left without delivering was not given an error, and has left    *)
(* something to do for the other.                                          *)
DeliveryInv ==
  \A o \in Orders :
    /\ \A k \in Tasks : stage[<<o, k>>] = "left" /\ <<o, k>> \in failed => o \in delivered
    /\ (o <= made /\ \A k \in Tasks : stage[<<o, k>>] \in {"left", "unset"}) => o \in delivered

Right(r) ==
  /\ r.ec => \E k \in Tasks : <<r.id, k>> \in failed
  /\ ~ r.ec => Whole(r)

StoreInv ==
  /\ DeliveredOnce
  /\ \A o \in Orders : o \in delivered =>
       (\E i \in 1 .. Len(toStore) : toStore[i].id = o) \/ (\E r \in results : r.id = o)
  /\ \A i \in 1 .. Len(toStore) : toStore[i].id \in delivered /\ Right(toStore[i])
  /\ \A r \in results : r.id \in delivered /\ Right(r)

RestaurantInv ==
  TypeOK /\ TimersInv /\ CookingInv /\ DeliveryInv /\ StoreInv /\ alive

-----------------------------------------------------------------------------
LEMMA TimerOf ==
  ASSUME NEW o \in Orders, NEW k \in Tasks
  PROVE  <<o, k>> \in Timers
BY DEF Timers

LEMMA OrderNumbers == Orders \subseteq Nat /\ NumOrders \in Nat /\ NumOrders > 0
BY RestaurantAssumption DEF Orders

LEMMA InitRestaurantInv == Init => RestaurantInv
<1> SUFFICES ASSUME Init PROVE RestaurantInv
  OBVIOUS
<1>1. TypeOK
  BY OrderNumbers DEF Init, TypeOK
<1>2. \A o \in Orders : \A k \in Tasks : stage[<<o, k>>] = "unset" /\ o > made
  <2>1. \A o \in Orders : o > made
    BY OrderNumbers DEF Init, Orders
  <2>2. \A o \in Orders : \A k \in Tasks : stage[<<o, k>>] = "unset"
    BY TimerOf DEF Init
  <2> QED BY <2>1, <2>2
<1>3. TimersInv /\ CookingInv /\ DeliveryInv
  <2>1. \A o \in Orders : ~ o <= made
    BY OrderNumbers DEF Init, Orders
  <2> QED BY <1>2, <2>1 DEF Init, TimersInv, CookingInv, DeliveryInv, Began, InHandler, Tasks
<1>4. StoreInv /\ alive
  BY DEF Init, StoreInv, DeliveredOnce
<1> QED BY <1>1, <1>3, <1>4 DEF RestaurantInv

(* A new order has its timers waiting.                                     *)
LEMMA MakeKeepsInv ==
  ASSUME RestaurantInv, MakeHamburger
  PROVE  RestaurantInv'
<1>1. /\ made \in 0 .. NumOrders /\ made < NumOrders /\ made' = made + 1
      /\ stage \in [Timers -> {"unset", "waiting", "entered", "packing", "left"}]
      /\ stage' = [t \in Timers |-> IF t \in Execute(made + 1) THEN "waiting" ELSE stage[t]]
      /\ UNCHANGED <<expected, failed, counter, roasted, marinaded, onion, packed,
                     delivered, toStore, results, alive>>
  BY DEF MakeHamburger, RestaurantInv, TypeOK
<1>2. TypeOK'
  <2>1. made' \in 0 .. NumOrders
    BY <1>1, OrderNumbers
  <2>2. stage' \in [Timers -> {"unset", "waiting", "entered", "packing", "left"}]
    BY <1>1
  <2> QED BY <1>1, <2>1, <2>2 DEF RestaurantInv, TypeOK
<1>3. \A o \in Orders : \A k \in Tasks :
        /\ o # made + 1 => stage'[<<o, k>>] = stage[<<o, k>>]
        /\ o = made + 1 => stage'[<<o, k>>] = IF k = "marinade" /\ ~ WithOnion(o) THEN "unset" ELSE "waiting"
  <2> SUFFICES ASSUME NEW o \in Orders, NEW k \in Tasks
               PROVE  /\ o # made + 1 => stage'[<<o, k>>] = stage[<<o, k>>]
                      /\ o = made + 1 => stage'[<<o, k>>] = IF k = "marinade" /\ ~ WithOnion(o) THEN "unset" ELSE "waiting"
    OBVIOUS
  <2>1. stage'[<<o, k>>] = IF <<o, k>> \in Execute(made + 1) THEN "waiting" ELSE stage[<<o, k>>]
    BY <1>1, TimerOf
  <2>2. <<o, k>> \in Execute(made + 1) <=> o = made + 1 /\ (k = "roast" \/ WithOnion(made + 1))
    BY DEF Execute, Tasks
  <2>3. o = made + 1 => stage[<<o, k>>] = "unset"
    BY <1>1, OrderNumbers DEF RestaurantInv, TimersInv
  <2> QED BY <2>1, <2>2, <2>3 DEF Tasks
<1>4. \A o \in Orders : /\ o > made' <=> (o > made /\ o # made + 1)
                        /\ o <= made' => o <= made \/ o = made + 1
  BY <1>1, OrderNumbers
<1>5. \A o \in Orders : o = made + 1 => ~ (o <= made) /\ ~ (o > made')
  BY <1>1, OrderNumbers
<1>6. \A k \in Tasks : made + 1 \in Orders => stage[<<made + 1, k>>] = "unset"
  BY <1>1, OrderNumbers DEF RestaurantInv, TimersInv
<1>7. ASSUME NEW o \in Orders, NEW k \in Tasks
      PROVE  /\ InHandler(<<o, k>>)' <=> InHandler(<<o, k>>)
             /\ Began(o, k)' <=> Began(o, k)
             /\ stage'[<<o, k>>] = "packing" <=> stage[<<o, k>>] = "packing"
             /\ stage'[<<o, k>>] = "left" <=> stage[<<o, k>>] = "left"
  <2>1. CASE o # made + 1
    BY <1>3, <2>1 DEF InHandler, Began
  <2>2. CASE o = made + 1
    <3>1. stage[<<o, k>>] = "unset" /\ stage'[<<o, k>>] \in {"unset", "waiting"}
      BY <1>3, <1>6, <2>2
    <3> QED BY <3>1 DEF InHandler, Began
  <2> QED BY <2>1, <2>2
<1>8. TimersInv'
  <2>1. ASSUME NEW o \in Orders, NEW k \in Tasks
        PROVE  stage'[<<o, k>>] = "unset" <=> (o > made' \/ (k = "marinade" /\ ~ WithOnion(o)))
    <3>1. CASE o # made + 1
      BY <1>3, <1>4, <3>1 DEF RestaurantInv, TimersInv
    <3>2. CASE o = made + 1
      BY <1>3, <1>5, <3>2
    <3> QED BY <3>1, <3>2
  <2>2. ASSUME NEW o \in Orders, NEW k \in Tasks
        PROVE  /\ <<o, k>> \in failed' => Began(o, k)'
               /\ InHandler(<<o, k>>)' => expected'[<<o, k>>] = counter'[o]
               /\ \A l \in Tasks : InHandler(<<o, k>>)' /\ InHandler(<<o, l>>)' => k = l
    BY <1>1, <1>7 DEF RestaurantInv, TimersInv
  <2> QED BY <2>1, <2>2 DEF TimersInv
<1>9. CookingInv'
  BY <1>1, <1>7 DEF RestaurantInv, CookingInv, Tasks
<1>10. DeliveryInv'
  <2>1. ASSUME NEW o \in Orders, o <= made', \A k \in Tasks : stage'[<<o, k>>] \in {"left", "unset"}
        PROVE  o \in delivered
    <3>1. o # made + 1
      BY <1>3, <2>1 DEF Tasks
    <3>2. o <= made /\ \A k \in Tasks : stage[<<o, k>>] \in {"left", "unset"}
      BY <1>3, <1>4, <2>1, <3>1
    <3> QED BY <3>2 DEF RestaurantInv, DeliveryInv
  <2>2. \A o \in Orders : \A k \in Tasks : stage'[<<o, k>>] = "left" /\ <<o, k>> \in failed' => o \in delivered'
    BY <1>1, <1>7 DEF RestaurantInv, DeliveryInv
  <2> QED BY <1>1, <2>1, <2>2 DEF DeliveryInv
<1>11. StoreInv' /\ alive'
  BY <1>1 DEF RestaurantInv, StoreInv, DeliveredOnce, Right
<1> QED BY <1>2, <1>8, <1>9, <1>10, <1>11 DEF RestaurantInv

(* A handler begins: nobody else of its order is in one, so that its       *)
(* counter is right, and it finds its own flag unset.                      *)
LEMMA EnterKeepsInv ==
  ASSUME RestaurantInv, NEW o \in Orders, NEW k \in Tasks, NEW error \in BOOLEAN,
         EnterHandler(o, k, error)
  PROVE  RestaurantInv'
<1> USE TimerOf
<1>1. /\ stage \in [Timers -> {"unset", "waiting", "entered", "packing", "left"}]
      /\ expected \in [Timers -> Nat] /\ counter \in [Orders -> Nat]
      /\ stage[<<o, k>>] = "waiting" /\ StrandFree(o)
      /\ stage' = [stage EXCEPT ![<<o, k>>] = "entered"]
      /\ counter' = [counter EXCEPT ![o] = counter[o] + 1]
      /\ expected' = [expected EXCEPT ![<<o, k>>] = counter[o] + 1]
      /\ failed' = IF error THEN failed \cup {<<o, k>>} ELSE failed
      /\ roasted' = IF k = "roast" /\ ~ error THEN roasted \cup {o} ELSE roasted
      /\ marinaded' = IF k = "marinade" /\ ~ error THEN marinaded \cup {o} ELSE marinaded
      /\ alive' = ~ (k = "roast" /\ ~ error /\ o \in roasted)
      /\ UNCHANGED <<made, onion, packed, delivered, toStore, results>>
  BY DEF EnterHandler, RestaurantInv, TypeOK
<1>2. /\ \A p \in Orders : \A l \in Tasks : <<p, l>> # <<o, k>> =>
           stage'[<<p, l>>] = stage[<<p, l>>] /\ expected'[<<p, l>>] = expected[<<p, l>>]
      /\ stage'[<<o, k>>] = "entered"
      /\ expected'[<<o, k>>] = counter'[o]
      /\ \A p \in Orders : p # o => counter'[p] = counter[p]
  BY <1>1
<1>3. TypeOK'
  BY <1>1 DEF RestaurantInv, TypeOK
<1>4. \A l \in Tasks : stage[<<o, l>>] \notin {"entered", "packing"}
  BY <1>1 DEF StrandFree, InHandler
<1>5. TimersInv'
  <2> SUFFICES ASSUME NEW p \in Orders, NEW l \in Tasks
               PROVE  /\ stage'[<<p, l>>] = "unset" <=> (p > made' \/ (l = "marinade" /\ ~ WithOnion(p)))
                      /\ <<p, l>> \in failed' => Began(p, l)'
                      /\ InHandler(<<p, l>>)' => expected'[<<p, l>>] = counter'[p]
                      /\ \A m \in Tasks : InHandler(<<p, l>>)' /\ InHandler(<<p, m>>)' => l = m
    BY DEF TimersInv
  <2>1. CASE p = o /\ l = k
    <3>1. \A m \in Tasks : InHandler(<<o, m>>)' => m = k
      BY <1>2, <1>4 DEF InHandler
    <3>2. ~ (o > made \/ (k = "marinade" /\ ~ WithOnion(o)))
      BY <1>1 DEF RestaurantInv, TimersInv
    <3> QED BY <1>1, <1>2, <2>1, <3>1, <3>2 DEF Began
  <2>2. CASE p = o /\ l # k
    <3>1. stage'[<<p, l>>] = stage[<<p, l>>] /\ ~ InHandler(<<p, l>>)'
      BY <1>2, <1>4, <2>2 DEF InHandler
    <3> QED BY <1>1, <2>2, <3>1 DEF RestaurantInv, TimersInv, Began
  <2>3. CASE p # o
    <3>1. /\ \A m \in Tasks : stage'[<<p, m>>] = stage[<<p, m>>] /\ expected'[<<p, m>>] = expected[<<p, m>>]
          /\ counter'[p] = counter[p]
      BY <1>2, <2>3
    <3> QED BY <1>1, <2>3, <3>1 DEF RestaurantInv, TimersInv, Began, InHandler
  <2> QED BY <2>1, <2>2, <2>3
<1>6. <<o, k>> \notin failed /\ (k = "roast" => o \notin roasted) /\ (k = "marinade" => o \notin marinaded)
  BY <1>1 DEF RestaurantInv, TimersInv, CookingInv, Began
<1>7. CookingInv'
  <2> SUFFICES ASSUME NEW p \in Orders
               PROVE  /\ p \in roasted' <=> Began(p, "roast")' /\ <<p, "roast">> \notin failed'
                      /\ p \in marinaded' <=> Began(p, "marinade")' /\ <<p, "marinade">> \notin failed'
                      /\ p \in onion' => p \in roasted' /\ p \in marinaded'
                      /\ p \in packed' => p \in delivered'
                      /\ \A l \in Tasks : stage'[<<p, l>>] = "packing" =>
                           p \in roasted' /\ p \notin delivered' /\ (WithOnion(p) => p \in onion')
    BY DEF CookingInv
  <2>1. /\ p \in roasted <=> Began(p, "roast") /\ <<p, "roast">> \notin failed
        /\ p \in marinaded <=> Began(p, "marinade") /\ <<p, "marinade">> \notin failed
        /\ p \in onion => p \in roasted /\ p \in marinaded
        /\ p \in packed => p \in delivered
    BY DEF RestaurantInv, CookingInv
  <2>2. \A l \in Tasks : stage'[<<p, l>>] = "packing" => stage[<<p, l>>] = "packing"
    BY <1>2
  <2>3. \A l \in Tasks : stage[<<p, l>>] = "packing" =>
          p \in roasted /\ p \notin delivered /\ (WithOnion(p) => p \in onion)
    BY DEF RestaurantInv, CookingInv
  <2>4. \A l \in Tasks : <<p, l>> # <<o, k>> =>
           /\ Began(p, l)' <=> Began(p, l)
           /\ <<p, l>> \in failed' <=> <<p, l>> \in failed
    BY <1>1, <1>2 DEF Began
  <2>5. /\ p \in roasted' <=> Began(p, "roast")' /\ <<p, "roast">> \notin failed'
        /\ p \in marinaded' <=> Began(p, "marinade")' /\ <<p, "marinade">> \notin failed'
    <3>1. CASE p # o
      BY <1>1, <2>1, <2>4, <3>1 DEF Tasks
    <3>2. CASE p = o /\ k = "roast"
      <4>1. /\ Began(o, "roast")'
            /\ <<o, "roast">> \in failed' <=> error
            /\ o \in roasted' <=> ~ error
            /\ marinaded' = marinaded
        BY <1>1, <1>2, <1>6, <3>2 DEF Began
      <4> QED BY <2>1, <2>4, <3>2, <4>1 DEF Tasks
    <3>3. CASE p = o /\ k = "marinade"
      <4>1. /\ Began(o, "marinade")'
            /\ <<o, "marinade">> \in failed' <=> error
            /\ o \in marinaded' <=> ~ error
            /\ roasted' = roasted
        BY <1>1, <1>2, <1>6, <3>3 DEF Began
      <4> QED BY <2>1, <2>4, <3>3, <4>1 DEF Tasks
    <3> QED BY <3>1, <3>2, <3>3 DEF Tasks
  <2>6. roasted \subseteq roasted' /\ marinaded \subseteq marinaded'
    BY <1>1
  <2> QED BY <1>1, <2>1, <2>2, <2>3, <2>5, <2>6
<1>8. DeliveryInv'
  <2>1. \A p \in Orders : \A l \in Tasks : stage'[<<p, l>>] = "left" =>
           stage[<<p, l>>] = "left" /\ (<<p, l>> \in failed' <=> <<p, l>> \in failed)
    BY <1>1, <1>2
  <2>2. ASSUME NEW p \in Orders, p <= made', \A l \in Tasks : stage'[<<p, l>>] \in {"left", "unset"}
        PROVE  p \in delivered
    <3>1. p # o /\ \A l \in Tasks : stage'[<<p, l>>] = stage[<<p, l>>]
      BY <1>2, <2>2
    <3> QED BY <1>1, <2>2, <3>1 DEF RestaurantInv, DeliveryInv
  <2>3. \A p \in Orders : \A l \in Tasks : stage'[<<p, l>>] = "left" /\ <<p, l>> \in failed' => p \in delivered'
    BY <1>1, <2>1 DEF RestaurantInv, DeliveryInv
  <2> QED BY <1>1, <2>2, <2>3 DEF DeliveryInv
<1>9. StoreInv'
  <2>1. failed \subseteq failed'
    BY <1>1
  <2>2. \A r : Right(r) => Right(r)'
    BY <2>1 DEF Right, Whole
  <2> QED BY <1>1, <2>2 DEF RestaurantInv, StoreInv, DeliveredOnce
<1> QED BY <1>1, <1>3, <1>5, <1>6, <1>7, <1>8, <1>9 DEF RestaurantInv

(* A handler that starts to pack or returns.                               *)
LEMMA HandlerMoves ==
  ASSUME RestaurantInv, NEW o \in Orders, NEW k \in Tasks, InHandler(<<o, k>>),
         NEW s \in {"packing", "left"}, stage' = [stage EXCEPT ![<<o, k>>] = s],
         UNCHANGED <<made, expected, counter, failed>>
  PROVE  /\ TimersInv'
         /\ stage' \in [Timers -> {"unset", "waiting", "entered", "packing", "left"}]
         /\ stage'[<<o, k>>] = s
         /\ \A p \in Orders : \A l \in Tasks :
              /\ p # o \/ l # k => stage'[<<p, l>>] = stage[<<p, l>>]
              /\ Began(p, l)' <=> Began(p, l)
         /\ \A l \in Tasks : l # k => stage[<<o, l>>] \notin {"entered", "packing"}
         /\ ThreadChecked(o, k)
<1>1. /\ stage \in [Timers -> {"unset", "waiting", "entered", "packing", "left"}]
      /\ stage[<<o, k>>] \in {"entered", "packing"}
  BY DEF RestaurantInv, TypeOK, InHandler
<1>2. /\ stage'[<<o, k>>] = s
      /\ stage' \in [Timers -> {"unset", "waiting", "entered", "packing", "left"}]
      /\ \A p \in Orders : \A l \in Tasks : p # o \/ l # k => stage'[<<p, l>>] = stage[<<p, l>>]
  BY <1>1, TimerOf
<1>3. ASSUME NEW p \in Orders, NEW l \in Tasks
      PROVE  /\ Began(p, l)' <=> Began(p, l)
             /\ InHandler(<<p, l>>)' => InHandler(<<p, l>>)
             /\ stage'[<<p, l>>] = "unset" <=> stage[<<p, l>>] = "unset"
  <2>1. CASE p = o /\ l = k
    BY <1>1, <1>2, <2>1 DEF Began, InHandler
  <2>2. CASE p # o \/ l # k
    BY <1>2, <2>2 DEF Began, InHandler
  <2> QED BY <2>1, <2>2
<1>4. TimersInv'
  <2> SUFFICES ASSUME NEW p \in Orders, NEW l \in Tasks
               PROVE  /\ stage'[<<p, l>>] = "unset" <=> (p > made' \/ (l = "marinade" /\ ~ WithOnion(p)))
                      /\ <<p, l>> \in failed' => Began(p, l)'
                      /\ InHandler(<<p, l>>)' => expected'[<<p, l>>] = counter'[p]
                      /\ \A m \in Tasks : InHandler(<<p, l>>)' /\ InHandler(<<p, m>>)' => l = m
    BY DEF TimersInv
  <2> QED BY <1>3 DEF RestaurantInv, TimersInv
<1>5. ThreadChecked(o, k)
  BY DEF RestaurantInv, TimersInv, ThreadChecked
<1>6. ASSUME NEW l \in Tasks, l # k
      PROVE  stage[<<o, l>>] \notin {"entered", "packing"}
  <2>1. ~ InHandler(<<o, l>>)
    BY <1>6 DEF RestaurantInv, TimersInv
  <2> QED BY <2>1 DEF InHandler
<1> QED BY <1>2, <1>3, <1>4, <1>5, <1>6

(* The result of an order that has none yet.                               *)
LEMMA DeliverKeepsStore ==
  ASSUME RestaurantInv, NEW o \in Orders, o \notin delivered, NEW x \in OrderResult,
         x.id = o, Right(x),
         delivered' = delivered \cup {o}, toStore' = Append(toStore, x),
         UNCHANGED <<results, failed>>
  PROVE  StoreInv' /\ toStore' \in Seq(OrderResult)
<1>1. /\ toStore \in Seq(OrderResult) /\ StoreInv
  BY DEF RestaurantInv, TypeOK
<1>2. /\ toStore' \in Seq(OrderResult)
      /\ Len(toStore') = Len(toStore) + 1 /\ Len(toStore) \in Nat
      /\ \A i \in 1 .. Len(toStore) : toStore'[i] = toStore[i]
      /\ toStore'[Len(toStore) + 1] = x
  BY <1>1
<1>3. \A i \in 1 .. Len(toStore') : i \in 1 .. Len(toStore) \/ i = Len(toStore) + 1
  BY <1>2
<1>4. /\ \A i \in 1 .. Len(toStore) : i \in 1 .. Len(toStore')
      /\ Len(toStore) + 1 \in 1 .. Len(toStore')
  BY <1>2
<1>5. \A r : Right(r)' <=> Right(r)
  BY DEF Right, Whole
<1>6. /\ \A i \in 1 .. Len(toStore) : toStore[i].id # o
      /\ \A r \in results : r.id # o
  BY <1>1 DEF StoreInv
<1>7. DeliveredOnce'
  <2>1. \A i, j \in 1 .. Len(toStore') : toStore'[i].id = toStore'[j].id => i = j
    BY <1>1, <1>2, <1>3, <1>6 DEF StoreInv, DeliveredOnce
  <2>2. \A i \in 1 .. Len(toStore') : \A r \in results' : r.id # toStore'[i].id
    BY <1>1, <1>2, <1>3, <1>6 DEF StoreInv, DeliveredOnce
  <2> QED BY <2>1, <2>2 DEF DeliveredOnce
<1>8. \A p \in Orders : p \in delivered' =>
        (\E i \in 1 .. Len(toStore') : toStore'[i].id = p) \/ (\E r \in results' : r.id = p)
  BY <1>1, <1>2, <1>4 DEF StoreInv
<1>9. \A i \in 1 .. Len(toStore') : toStore'[i].id \in delivered' /\ Right(toStore'[i])
  BY <1>1, <1>2, <1>3 DEF StoreInv
<1>10. (\A i \in 1 .. Len(toStore) : Right(toStore[i]))'
  BY <1>9 DEF Right, Whole
<1>11. \A r \in results' : r.id \in delivered' /\ Right(r)'
  BY <1>1, <1>5 DEF StoreInv
<1> QED BY <1>2, <1>7, <1>8, <1>9, <1>10, <1>11 DEF StoreInv

(* The check of a handler: of an order that is delivered it changes        *)
(* nothing, an error is delivered, and otherwise it packs unless the other *)
(* handler has still to come.                                              *)
LEMMA CheckKeepsInv ==
  ASSUME RestaurantInv, NEW o \in Orders, NEW k \in Tasks, CheckReadiness(o, k)
  PROVE  RestaurantInv'
<1>1. /\ stage[<<o, k>>] = "entered" /\ InHandler(<<o, k>>)
      /\ packed' = packed
      /\ UNCHANGED <<made, expected, failed, counter, roasted, marinaded, results>>
  BY DEF CheckReadiness, InHandler
<1>2. TypeOK /\ CookingInv /\ DeliveryInv /\ StoreInv /\ alive
  BY DEF RestaurantInv
<1>3. o \in packed => o \in delivered
  BY <1>2 DEF CookingInv
<1>4. CASE IsDelivered(o) /\ Leave(o, k) /\ alive' = ThreadChecked(o, k)
           /\ UNCHANGED <<onion, delivered, toStore>>
  <2>1. o \in delivered /\ stage' = [stage EXCEPT ![<<o, k>>] = "left"]
    BY <1>4 DEF IsDelivered, Leave
  <2>2. /\ TimersInv' /\ ThreadChecked(o, k)
        /\ stage' \in [Timers -> {"unset", "waiting", "entered", "packing", "left"}]
        /\ stage'[<<o, k>>] = "left"
        /\ \A p \in Orders : \A l \in Tasks :
             /\ p # o \/ l # k => stage'[<<p, l>>] = stage[<<p, l>>]
             /\ Began(p, l)' <=> Began(p, l)
    BY <1>1, <2>1, HandlerMoves
  <2>3. TypeOK'
    BY <1>1, <1>2, <1>4, <2>2 DEF TypeOK, ThreadChecked
  <2>4. CookingInv'
    BY <1>1, <1>2, <1>4, <2>2 DEF CookingInv, Tasks
  <2>5. DeliveryInv'
    BY <1>1, <1>2, <1>4, <2>1, <2>2 DEF DeliveryInv
  <2>6. StoreInv'
    BY <1>1, <1>2, <1>4 DEF StoreInv, DeliveredOnce, Right
  <2> QED BY <1>4, <2>2, <2>3, <2>4, <2>5, <2>6 DEF RestaurantInv
<1>5. CASE ~ IsDelivered(o) /\ <<o, k>> \in failed /\ Deliver(o, TRUE) /\ Leave(o, k)
           /\ alive' = ThreadChecked(o, k) /\ UNCHANGED onion
  <2>1. o \notin delivered /\ stage' = [stage EXCEPT ![<<o, k>>] = "left"]
    BY <1>5 DEF IsDelivered, Leave
  <2>2. /\ TimersInv' /\ ThreadChecked(o, k)
        /\ stage' \in [Timers -> {"unset", "waiting", "entered", "packing", "left"}]
        /\ stage'[<<o, k>>] = "left"
        /\ \A p \in Orders : \A l \in Tasks :
             /\ p # o \/ l # k => stage'[<<p, l>>] = stage[<<p, l>>]
             /\ Began(p, l)' <=> Began(p, l)
        /\ \A l \in Tasks : l # k => stage[<<o, l>>] \notin {"entered", "packing"}
    BY <1>1, <2>1, HandlerMoves
  <2>3. /\ delivered' = delivered \cup {o}
        /\ toStore' = Append(toStore, Result(o, TRUE))
    BY <1>5 DEF Deliver
  <2>4. /\ Result(o, TRUE) \in OrderResult
        /\ Result(o, TRUE).id = o
        /\ Right(Result(o, TRUE))
    BY <1>5 DEF Result, OrderResult, Right
  <2>5. StoreInv' /\ toStore' \in Seq(OrderResult)
    BY <1>1, <2>1, <2>3, <2>4, DeliverKeepsStore
  <2>6. TypeOK'
    BY <1>1, <1>2, <1>5, <2>2, <2>3, <2>5 DEF TypeOK, ThreadChecked
  <2>7. \A l \in Tasks : stage'[<<o, l>>] # "packing"
    BY <2>2
  <2>8. CookingInv'
    BY <1>1, <1>2, <1>5, <2>2, <2>3, <2>7 DEF CookingInv, Tasks
  <2>9. DeliveryInv'
    BY <1>1, <1>2, <2>2, <2>3 DEF DeliveryInv
  <2> QED BY <1>5, <2>2, <2>5, <2>6, <2>8, <2>9 DEF RestaurantInv
<1>6. CASE /\ ~ IsDelivered(o) /\ <<o, k>> \notin failed
           /\ onion' = IF CanAddOnion(o) THEN onion \cup {o} ELSE onion
           /\ UNCHANGED <<delivered, toStore>>
           /\ \/ IsReadyToPack(o) /\ stage' = [stage EXCEPT ![<<o, k>>] = "packing"]
                 /\ alive' = ~ (CanAddOnion(o) /\ o \in packed)
              \/ ~ IsReadyToPack(o) /\ Leave(o, k)
                 /\ alive' = (ThreadChecked(o, k) /\ ~ (CanAddOnion(o) /\ o \in packed))
  <2>1. /\ o \notin delivered /\ o \notin packed
        /\ onion \subseteq onion' /\ onion' \subseteq onion \cup {o}
        /\ o \in onion' <=> o \in roasted /\ o \in marinaded
    <3>1. o \in onion => o \in roasted /\ o \in marinaded
      BY <1>2 DEF CookingInv
    <3> QED BY <1>3, <1>6, <3>1 DEF IsDelivered, CanAddOnion
  <2>2. PICK s \in {"packing", "left"} :
          /\ stage' = [stage EXCEPT ![<<o, k>>] = s]
          /\ s = "packing" <=> IsReadyToPack(o)
    BY <1>6 DEF Leave
  <2>3. /\ TimersInv' /\ ThreadChecked(o, k)
        /\ stage' \in [Timers -> {"unset", "waiting", "entered", "packing", "left"}]
        /\ stage'[<<o, k>>] = s
        /\ \A p \in Orders : \A l \in Tasks :
             /\ p # o \/ l # k => stage'[<<p, l>>] = stage[<<p, l>>]
             /\ Began(p, l)' <=> Began(p, l)
        /\ \A l \in Tasks : l # k => stage[<<o, l>>] \notin {"entered", "packing"}
    BY <1>1, <2>2, HandlerMoves
  <2>4. alive'
    BY <1>6, <2>1, <2>3
  <2>5. onion' \subseteq Orders
    BY <1>2, <2>1 DEF TypeOK
  <2>6. TypeOK'
    BY <1>1, <1>2, <1>6, <2>3, <2>4, <2>5 DEF TypeOK
  <2>7. \A l \in Tasks : stage'[<<o, l>>] = "packing" =>
          o \in roasted /\ o \notin delivered /\ (WithOnion(o) => o \in onion')
    <3>1. IsReadyToPack(o) <=> o \in roasted /\ (WithOnion(o) => o \in onion')
      BY DEF IsReadyToPack
    <3>2. ASSUME NEW l \in Tasks, stage'[<<o, l>>] = "packing"
          PROVE  l = k
      BY <2>3, <3>2
    <3> QED BY <2>1, <2>2, <2>3, <3>1, <3>2
  <2>8. CookingInv'
    <3> SUFFICES ASSUME NEW p \in Orders
                 PROVE  /\ p \in roasted' <=> Began(p, "roast")' /\ <<p, "roast">> \notin failed'
                        /\ p \in marinaded' <=> Began(p, "marinade")' /\ <<p, "marinade">> \notin failed'
                        /\ p \in onion' => p \in roasted' /\ p \in marinaded'
                        /\ p \in packed' => p \in delivered'
                        /\ \A l \in Tasks : stage'[<<p, l>>] = "packing" =>
                             p \in roasted' /\ p \notin delivered' /\ (WithOnion(p) => p \in onion')
      BY DEF CookingInv
    <3>1. CASE p = o
      BY <1>1, <1>2, <1>6, <2>1, <2>3, <2>7, <3>1 DEF CookingInv, Tasks
    <3>2. CASE p # o
      <4>1. p \in onion' <=> p \in onion
        BY <2>1, <3>2
      <4> QED BY <1>1, <1>2, <1>6, <2>3, <3>2, <4>1 DEF CookingInv, Tasks
    <3> QED BY <3>1, <3>2
  <2>9. DeliveryInv'
    <3>1. \A p \in Orders : \A l \in Tasks : stage'[<<p, l>>] = "left" /\ <<p, l>> \in failed' => p \in delivered'
      BY <1>1, <1>2, <1>6, <2>3 DEF DeliveryInv
    <3>2. ASSUME NEW p \in Orders, p <= made', \A l \in Tasks : stage'[<<p, l>>] \in {"left", "unset"},
                 p # o
          PROVE  p \in delivered'
      BY <1>1, <1>2, <1>6, <2>3, <3>2 DEF DeliveryInv
    <3>3. ASSUME o <= made', \A l \in Tasks : stage'[<<o, l>>] \in {"left", "unset"}
          PROVE  FALSE
      <4>1. \A l \in Tasks : stage'[<<o, l>>] = "left" => <<o, l>> \notin failed
        BY <1>1, <1>6, <2>1, <3>1
      <4>2. \A l \in Tasks : stage'[<<o, l>>] = "left" => Began(o, l)
        BY <2>3 DEF Began
      <4>3. ~ (o > made')
        BY <1>1, <1>2, <3>3, OrderNumbers DEF TypeOK
      <4>4. stage'[<<o, "roast">>] = "left" /\ (WithOnion(o) => stage'[<<o, "marinade">>] = "left")
        BY <2>3, <3>3, <4>3 DEF TimersInv, Tasks
      <4>5. o \in roasted /\ (WithOnion(o) => o \in marinaded)
        BY <1>2, <4>1, <4>2, <4>4 DEF CookingInv, Tasks
      <4>6. IsReadyToPack(o)
        BY <2>1, <4>5 DEF IsReadyToPack
      <4>7. s = "packing"
        BY <2>2, <4>6
      <4> QED BY <2>3, <3>3, <4>7
    <3> QED BY <3>1, <3>2, <3>3 DEF DeliveryInv
  <2>10. StoreInv'
    BY <1>1, <1>2, <1>6 DEF StoreInv, DeliveredOnce, Right
  <2> QED BY <2>3, <2>4, <2>6, <2>8, <2>9, <2>10 DEF RestaurantInv
<1> QED BY <1>4, <1>5, <1>6 DEF CheckReadiness

LEMMA PackKeepsInv ==
  ASSUME RestaurantInv, NEW o \in Orders, NEW k \in Tasks, Pack(o, k)
  PROVE  RestaurantInv'
<1>1. /\ stage[<<o, k>>] = "packing" /\ InHandler(<<o, k>>)
      /\ packed' = packed \cup {o}
      /\ delivered' = delivered \cup {o}
      /\ toStore' = Append(toStore, Result(o, FALSE))
      /\ stage' = [stage EXCEPT ![<<o, k>>] = "left"]
      /\ alive' = (ThreadChecked(o, k) /\ o \in roasted)
      /\ UNCHANGED <<made, expected, failed, counter, roasted, marinaded, onion, results>>
  BY DEF Pack, Deliver, Leave, InHandler
<1>2. TypeOK /\ TimersInv /\ CookingInv /\ DeliveryInv /\ StoreInv
  BY DEF RestaurantInv
<1>3. o \in roasted /\ o \notin delivered /\ (WithOnion(o) => o \in onion)
  BY <1>1, <1>2 DEF CookingInv
<1>4. /\ TimersInv' /\ ThreadChecked(o, k)
      /\ stage' \in [Timers -> {"unset", "waiting", "entered", "packing", "left"}]
      /\ stage'[<<o, k>>] = "left"
      /\ \A p \in Orders : \A l \in Tasks :
           /\ p # o \/ l # k => stage'[<<p, l>>] = stage[<<p, l>>]
           /\ Began(p, l)' <=> Began(p, l)
      /\ \A l \in Tasks : l # k => stage[<<o, l>>] \notin {"entered", "packing"}
  BY <1>1, HandlerMoves
(* An onion that was not ordered is not marinaded.                         *)
<1>5. o \in onion => WithOnion(o)
  <2>1. o \in onion => Began(o, "marinade")
    BY <1>2 DEF CookingInv
  <2>2. Began(o, "marinade") => stage[<<o, "marinade">>] # "unset"
    BY DEF Began
  <2> QED BY <1>2, <2>1, <2>2 DEF TimersInv, Tasks
<1>6. /\ Result(o, FALSE) \in OrderResult
      /\ Result(o, FALSE).id = o
      /\ Right(Result(o, FALSE))
  BY <1>1, <1>3, <1>5 DEF Result, OrderResult, Right, Whole
<1>7. StoreInv' /\ toStore' \in Seq(OrderResult)
  BY <1>1, <1>3, <1>6, DeliverKeepsStore
<1>8. TypeOK' /\ alive'
  BY <1>1, <1>2, <1>3, <1>4, <1>7 DEF TypeOK
<1>9. CookingInv'
  <2>1. \A l \in Tasks : stage'[<<o, l>>] # "packing"
    BY <1>4
  <2> QED BY <1>1, <1>2, <1>4, <2>1 DEF CookingInv, Tasks
<1>10. DeliveryInv'
  BY <1>1, <1>2, <1>4 DEF DeliveryInv
<1> QED BY <1>4, <1>7, <1>8, <1>9, <1>10 DEF RestaurantInv

LEMMA StoreKeepsInv ==
  ASSUME RestaurantInv, StoreResult
  PROVE  RestaurantInv'
<1>1. /\ toStore \in Seq(OrderResult) /\ toStore # <<>>
      /\ toStore' = Tail(toStore)
      /\ UNCHANGED <<made, stage, expected, failed, counter, roasted, marinaded, onion,
                     packed, delivered, alive>>
  BY DEF StoreResult, RestaurantInv, TypeOK
<1>2. /\ toStore' \in Seq(OrderResult)
      /\ Len(toStore) \in Nat \ {0} /\ Len(toStore') = Len(toStore) - 1
      /\ \A i \in 1 .. Len(toStore') : toStore'[i] = toStore[i + 1]
      /\ Head(toStore) = toStore[1] /\ toStore[1] \in OrderResult
  BY <1>1
<1>3. /\ 1 \in 1 .. Len(toStore)
      /\ \A i \in 1 .. Len(toStore') : i + 1 \in 1 .. Len(toStore) /\ i + 1 # 1
      /\ \A i \in 1 .. Len(toStore) : i = 1 \/ (i - 1 \in 1 .. Len(toStore') /\ toStore'[i - 1] = toStore[i])
  BY <1>2
<1>4. StoreInv /\ TypeOK
  BY DEF RestaurantInv
<1>5. results' = results \cup {toStore[1]}
  <2>1. \A r \in results : r.id # Head(toStore).id
    BY <1>2, <1>3, <1>4 DEF StoreInv, DeliveredOnce
  <2>2. ~ \E r \in results : r.id = Head(toStore).id
    BY <2>1
  <2> QED BY <1>2, <2>2 DEF StoreResult
<1>6. TypeOK'
  BY <1>1, <1>2, <1>4, <1>5 DEF TypeOK
<1>7. TimersInv' /\ CookingInv' /\ DeliveryInv' /\ alive'
  BY <1>1 DEF RestaurantInv, TimersInv, CookingInv, DeliveryInv, Began, InHandler
<1>8. DeliveredOnce'
  <2>1. ASSUME NEW i \in 1 .. Len(toStore'), NEW j \in 1 .. Len(toStore'),
               toStore'[i].id = toStore'[j].id
        PROVE  i = j
    <3>1. toStore[i + 1].id = toStore[j + 1].id
      BY <1>2, <2>1
    <3>2. i + 1 = j + 1
      BY <1>3, <1>4, <3>1 DEF StoreInv, DeliveredOnce
    <3> QED BY <1>2, <3>2
  <2>2. ASSUME NEW i \in 1 .. Len(toStore'), NEW r \in results'
        PROVE  r.id # toStore'[i].id
    <3>1. toStore'[i] = toStore[i + 1] /\ i + 1 \in 1 .. Len(toStore) /\ i + 1 # 1
      BY <1>2, <1>3
    <3>2. CASE r \in results
      BY <1>4, <3>1, <3>2 DEF StoreInv, DeliveredOnce
    <3>3. CASE r = toStore[1]
      BY <1>3, <1>4, <3>1, <3>3 DEF StoreInv, DeliveredOnce
    <3> QED BY <1>5, <3>2, <3>3
  <2> QED BY <2>1, <2>2 DEF DeliveredOnce
<1>9. \A o \in Orders : o \in delivered' =>
        (\E i \in 1 .. Len(toStore') : toStore'[i].id = o) \/ (\E r \in results' : r.id = o)
  <2> SUFFICES ASSUME NEW o \in Orders, o \in delivered
               PROVE  (\E i \in 1 .. Len(toStore') : toStore'[i].id = o) \/ (\E r \in results' : r.id = o)
    BY <1>1
  <2>1. CASE \E r \in results : r.id = o
    BY <1>5, <2>1
  <2>2. CASE \E i \in 1 .. Len(toStore) : toStore[i].id = o
    <3>1. PICK i \in 1 .. Len(toStore) : toStore[i].id = o
      BY <2>2
    <3>2. CASE i = 1
      BY <1>5, <3>1, <3>2
    <3>3. CASE i # 1
      BY <1>3, <3>1, <3>3
    <3> QED BY <3>2, <3>3
  <2> QED BY <1>4, <2>1, <2>2 DEF StoreInv
<1>10. (\A i \in 1 .. Len(toStore) : toStore[i].id \in delivered /\ Right(toStore[i]))'
  <2>1. \A i \in 1 .. Len(toStore') : toStore'[i].id \in delivered /\ Right(toStore'[i])
    BY <1>2, <1>3, <1>4 DEF StoreInv
  <2> QED BY <1>1, <2>1 DEF Right, Whole
<1>11. (\A r \in results : r.id \in delivered /\ Right(r))'
  BY <1>1, <1>3, <1>4, <1>5 DEF StoreInv, Right, Whole
<1> QED BY <1>6, <1>7, <1>8, <1>9, <1>10, <1>11 DEF RestaurantInv, StoreInv

-----------------------------------------------------------------------------
(* The inductive invariant of the restaurant.                              *)
THEOREM RestaurantInvariant == Spec => []RestaurantInv
<1>1. ASSUME RestaurantInv, [Next]_vars
      PROVE  RestaurantInv'
  <2>1. CASE MakeHamburger
    BY <1>1, <2>1, MakeKeepsInv
  <2>2. ASSUME NEW o \in Orders, NEW k \in Tasks,
               \E error \in {FALSE} \cup {Failing} : EnterHandler(o, k, error)
        PROVE  RestaurantInv'
    BY <1>1, <2>2, EnterKeepsInv, RestaurantAssumption
  <2>3. ASSUME NEW o \in Orders, NEW k \in Tasks, CheckReadiness(o, k)
        PROVE  RestaurantInv'
    BY <1>1, <2>3, CheckKeepsInv
  <2>4. ASSUME NEW o \in Orders, NEW k \in Tasks, Pack(o, k)
        PROVE  RestaurantInv'
    BY <1>1, <2>4, PackKeepsInv
  <2>5. CASE StoreResult
    BY <1>1, <2>5, StoreKeepsInv
  <2>6. CASE UNCHANGED vars
    <3>1. TypeOK' /\ TimersInv' /\ CookingInv' /\ DeliveryInv' /\ alive'
      BY <1>1, <2>6 DEF vars, RestaurantInv, TypeOK, TimersInv, CookingInv, DeliveryInv, Began, InHandler
    <3>2. StoreInv'
      BY <1>1, <2>6 DEF vars, RestaurantInv, StoreInv, DeliveredOnce, Right, Whole
    <3> QED BY <3>1, <3>2 DEF RestaurantInv
  <2> QED BY <1>1, <2>1, <2>2, <2>3, <2>4, <2>5, <2>6 DEF Next
<1> QED BY <1>1, InitRestaurantInv, PTL DEF Spec

(* The variables of the restaurant keep their types.                       *)
THEOREM RestaurantTypes == Spec => []TypeOK
<1>1. RestaurantInv => TypeOK
  BY DEF RestaurantInv
<1> QED BY <1>1, RestaurantInvariant, PTL

(* For every number of orders and workers no assert of the program fails   *)
(* and no exception of Hamburger is thrown, and when no timer fails main   *)
(* finds every order whole.                                                *)
THEOREM AssertsNeverFail == Spec => []AssertsHold
<1>1. ASSUME RestaurantInv, Finished, NEW o \in Orders
      PROVE  \E r \in results :
               /\ r.id = o
               /\ (\A k \in Tasks : <<o, k>> \notin failed) => ~ r.ec
               /\ ~ r.ec => Whole(r)
  <2>1. o <= made /\ \A k \in Tasks : stage[<<o, k>>] \in {"left", "unset"}
    BY <1>1, OrderNumbers, TimerOf DEF Finished, Orders
  <2>2. o \in delivered
    BY <1>1, <2>1 DEF RestaurantInv, DeliveryInv
  <2>3. ~ \E i \in 1 .. Len(toStore) : toStore[i].id = o
    BY <1>1 DEF Finished
  <2>4. PICK r \in results : r.id = o
    BY <1>1, <2>2, <2>3 DEF RestaurantInv, StoreInv
  <2>5. Right(r)
    BY <1>1 DEF RestaurantInv, StoreInv
  <2> QED BY <2>4, <2>5 DEF Right
<1>2. RestaurantInv => AssertsHold
  BY <1>1 DEF AssertsHold, RestaurantInv
<1> QED BY <1>2, RestaurantInvariant, PTL

(* No order is delivered twice.                                            *)
THEOREM HamburgersAreSingle == Spec => []DeliveredOnce
<1>1. RestaurantInv => DeliveredOnce
  BY DEF RestaurantInv, StoreInv
<1> QED BY <1>1, RestaurantInvariant, PTL

-----------------------------------------------------------------------------
(***************************************************************************)
(* Nobody is stuck.  The safety behind EveryOrderIsDelivered: until every  *)
(* worker may return from io.run some step can be taken, and every step    *)
(* takes a timer or a result further on its way.                           *)
(***************************************************************************)
CanEnter(o, k) ==
  /\ made = NumOrders
  /\ stage[<<o, k>>] = "waiting"
  /\ StrandFree(o)
  /\ Cardinality({t \in Timers : InHandler(t)}) < NumWorkers

GoesOn ==
  \/ made < NumOrders
  \/ toStore # <<>>
  \/ \E o \in Orders, k \in Tasks : CanEnter(o, k) \/ InHandler(<<o, k>>)

(* However few workers there are: who waits for a worker or for the strand *)
(* of its order waits for a handler that runs.                             *)
THEOREM NobodyIsStuck == Spec => [](Finished \/ GoesOn)
<1>1. ASSUME RestaurantInv, ~ GoesOn PROVE Finished
  <2>1. made = NumOrders /\ toStore = <<>>
    BY <1>1, RestaurantAssumption DEF GoesOn, RestaurantInv, TypeOK
  <2>2. \A t \in Timers : ~ InHandler(t)
    BY <1>1 DEF GoesOn, Timers
  <2>3. Cardinality({t \in Timers : InHandler(t)}) = 0
    <3>1. {t \in Timers : InHandler(t)} = {}
      BY <2>2
    <3> QED BY <3>1, FS_EmptySet
  <2>4. \A o \in Orders, k \in Tasks : stage[<<o, k>>] # "waiting"
    <3>1. \A o \in Orders : StrandFree(o)
      BY <2>2, TimerOf DEF StrandFree
    <3>2. Cardinality({t \in Timers : InHandler(t)}) < NumWorkers
      BY <2>3, RestaurantAssumption
    <3> QED BY <1>1, <2>1, <3>1, <3>2 DEF GoesOn, CanEnter
  <2>5. \A t \in Timers : stage[t] \in {"unset", "left"}
    BY <1>1, <2>2, <2>4 DEF RestaurantInv, TypeOK, InHandler, Timers
  <2> QED BY <2>1, <2>5 DEF Finished
<1> QED BY <1>1, RestaurantInvariant, PTL

-----------------------------------------------------------------------------
(* What is done: the stages the timers have passed, and the results stored.*)
StageRank == [unset |-> 0, waiting |-> 1, entered |-> 2, packing |-> 3, left |-> 4]

StagesPassed == {p \in Timers \X (1 .. 4) : p[2] <= StageRank[stage[p[1]]]}
Stored       == {r.id : r \in results}

StepsDone == Cardinality(StagesPassed) + Cardinality(Stored)

LEMMA RankTypes ==
  \A s \in {"unset", "waiting", "entered", "packing", "left"} : StageRank[s] \in 0 .. 4
BY DEF StageRank

LEMMA CarrierSizes ==
  /\ IsFiniteSet(Timers \X (1 .. 4)) /\ Cardinality(Timers \X (1 .. 4)) = 8 * NumOrders
  /\ IsFiniteSet(Orders) /\ Cardinality(Orders) = NumOrders
<1>1. IsFiniteSet(Orders) /\ Cardinality(Orders) = NumOrders /\ NumOrders \in Nat
  BY RestaurantAssumption, FirstNaturals DEF Orders
<1>2. IsFiniteSet(Tasks) /\ Cardinality(Tasks) = 2
  <2>1. IsFiniteSet({"roast"}) /\ Cardinality({"roast"}) = 1
    BY FS_Singleton
  <2>2. Tasks = {"roast"} \cup {"marinade"} /\ "marinade" \notin {"roast"}
    BY DEF Tasks
  <2> QED BY <2>1, <2>2, FS_AddElement
<1>3. IsFiniteSet(Timers) /\ Cardinality(Timers) = Cardinality(Orders) * Cardinality(Tasks)
  BY <1>1, <1>2, FS_Product DEF Timers
<1>4. IsFiniteSet(1 .. 4) /\ Cardinality(1 .. 4) = 4
  BY FirstNaturals
<1>5. /\ IsFiniteSet(Timers \X (1 .. 4))
      /\ Cardinality(Timers \X (1 .. 4)) = Cardinality(Timers) * Cardinality(1 .. 4)
  BY <1>3, <1>4, FS_Product
<1> QED BY <1>1, <1>2, <1>3, <1>4, <1>5

LEMMA StepsBound ==
  ASSUME TypeOK
  PROVE  /\ StagesPassed \in SUBSET (Timers \X (1 .. 4)) /\ Stored \in SUBSET Orders
         /\ StepsDone \in 0 .. 9 * NumOrders
<1>1. StagesPassed \in SUBSET (Timers \X (1 .. 4)) /\ Stored \in SUBSET Orders
  BY DEF StagesPassed, Stored, TypeOK, OrderResult
<1>2. Cardinality(StagesPassed) \in Nat /\ Cardinality(StagesPassed) <= 8 * NumOrders
  BY <1>1, CarrierSizes, FS_Subset, FS_CardinalityType
<1>3. Cardinality(Stored) \in Nat /\ Cardinality(Stored) <= NumOrders
  BY <1>1, CarrierSizes, FS_Subset, FS_CardinalityType
<1> QED BY <1>1, <1>2, <1>3, OrderNumbers DEF StepsDone

Later(t) == StageRank[stage[t]] < StageRank[stage'[t]]

LEMMA StageGrowth ==
  ASSUME TypeOK, TypeOK', \A t \in Timers : stage'[t] = stage[t] \/ Later(t)
  PROVE  /\ StagesPassed \subseteq StagesPassed'
         /\ (\E t \in Timers : Later(t)) => StagesPassed # StagesPassed'
<1>1. \A t \in Timers :
        /\ StageRank[stage[t]] \in 0 .. 4 /\ StageRank[stage'[t]] \in 0 .. 4
        /\ StageRank[stage[t]] <= StageRank[stage'[t]]
  <2>1. /\ stage \in [Timers -> {"unset", "waiting", "entered", "packing", "left"}]
        /\ stage' \in [Timers -> {"unset", "waiting", "entered", "packing", "left"}]
    BY DEF TypeOK
  <2>2. \A t \in Timers : StageRank[stage[t]] \in 0 .. 4 /\ StageRank[stage'[t]] \in 0 .. 4
    BY <2>1, RankTypes
  <2> QED BY <2>2 DEF Later
<1>2. StagesPassed \subseteq StagesPassed'
  BY <1>1 DEF StagesPassed
<1>3. ASSUME NEW t \in Timers, Later(t) PROVE StagesPassed # StagesPassed'
  <2> DEFINE p == <<t, StageRank[stage'[t]]>>
  <2>1. StageRank[stage'[t]] \in 1 .. 4 /\ ~ (StageRank[stage'[t]] <= StageRank[stage[t]])
    BY <1>1, <1>3 DEF Later
  <2>2. p \in StagesPassed' /\ p \notin StagesPassed
    BY <2>1 DEF StagesPassed
  <2> QED BY <2>2
<1> QED BY <1>2, <1>3

LEMMA GrowthCounts ==
  ASSUME TypeOK, TypeOK', StagesPassed \subseteq StagesPassed', Stored \subseteq Stored',
         StagesPassed # StagesPassed' \/ Stored # Stored'
  PROVE  StepsDone' > StepsDone
<1>1. /\ StagesPassed' \in SUBSET (Timers \X (1 .. 4)) /\ Stored' \in SUBSET Orders
      /\ StagesPassed \in SUBSET (Timers \X (1 .. 4)) /\ Stored \in SUBSET Orders
  BY DEF StagesPassed, Stored, TypeOK, OrderResult
<1>2. /\ IsFiniteSet(StagesPassed) /\ IsFiniteSet(StagesPassed')
      /\ IsFiniteSet(Stored) /\ IsFiniteSet(Stored')
  BY <1>1, CarrierSizes, FS_Subset
<1>3. /\ Cardinality(StagesPassed) \in Nat /\ Cardinality(StagesPassed') \in Nat
      /\ Cardinality(StagesPassed) <= Cardinality(StagesPassed')
      /\ StagesPassed' # StagesPassed => Cardinality(StagesPassed) < Cardinality(StagesPassed')
  BY <1>2, GrowingSet
<1>4. /\ Cardinality(Stored) \in Nat /\ Cardinality(Stored') \in Nat
      /\ Cardinality(Stored) <= Cardinality(Stored')
      /\ Stored' # Stored => Cardinality(Stored) < Cardinality(Stored')
  BY <1>2, GrowingSet
<1> QED BY <1>3, <1>4 DEF StepsDone

LEMMA TimersGoForward ==
  ASSUME RestaurantInv,
         \/ MakeHamburger
         \/ \E o \in Orders, k \in Tasks :
              \/ \E error \in {FALSE} \cup {Failing} : EnterHandler(o, k, error)
              \/ CheckReadiness(o, k) \/ Pack(o, k)
  PROVE  /\ \A t \in Timers : stage'[t] = stage[t] \/ Later(t)
         /\ \E t \in Timers : Later(t)
         /\ results' = results
<1>1. stage \in [Timers -> {"unset", "waiting", "entered", "packing", "left"}]
  BY DEF RestaurantInv, TypeOK
<1>2. ASSUME NEW o \in Orders, NEW k \in Tasks,
             \/ \E error \in {FALSE} \cup {Failing} : EnterHandler(o, k, error)
             \/ CheckReadiness(o, k) \/ Pack(o, k)
      PROVE  /\ \A t \in Timers : stage'[t] = stage[t] \/ Later(t)
             /\ \E t \in Timers : Later(t)
             /\ results' = results
  <2>1. /\ results' = results
        /\ \/ stage[<<o, k>>] = "waiting" /\ stage' = [stage EXCEPT ![<<o, k>>] = "entered"]
           \/ stage[<<o, k>>] = "entered" /\ stage' = [stage EXCEPT ![<<o, k>>] = "packing"]
           \/ stage[<<o, k>>] = "entered" /\ stage' = [stage EXCEPT ![<<o, k>>] = "left"]
           \/ stage[<<o, k>>] = "packing" /\ stage' = [stage EXCEPT ![<<o, k>>] = "left"]
    BY <1>2, Zenon DEF EnterHandler, CheckReadiness, Pack, Leave
  <2> QED BY <1>1, <2>1, TimerOf DEF Later, StageRank
<1>3. CASE MakeHamburger
  <2>1. /\ made \in 0 .. NumOrders /\ made < NumOrders /\ results' = results
        /\ stage' = [t \in Timers |-> IF t \in Execute(made + 1) THEN "waiting" ELSE stage[t]]
    BY <1>3 DEF MakeHamburger, RestaurantInv, TypeOK
  <2>2. made + 1 \in Orders /\ made + 1 > made
    BY <2>1, OrderNumbers DEF Orders
  <2>3. \A k \in Tasks : stage[<<made + 1, k>>] = "unset"
    BY <2>2 DEF RestaurantInv, TimersInv
  <2>4. \A t \in Execute(made + 1) : stage[t] = "unset"
    BY <2>3 DEF Execute, Tasks
  <2>5. <<made + 1, "roast">> \in Execute(made + 1) /\ <<made + 1, "roast">> \in Timers
    BY <2>2, TimerOf DEF Execute, Tasks
  <2> QED BY <1>1, <2>1, <2>4, <2>5 DEF Later, StageRank
<1> QED BY <1>2, <1>3

LEMMA StoreCounts ==
  ASSUME RestaurantInv, StoreResult
  PROVE  stage' = stage /\ Stored \subseteq Stored' /\ Stored # Stored'
<1>1. /\ toStore \in Seq(OrderResult) /\ toStore # <<>> /\ stage' = stage
      /\ DeliveredOnce
  BY DEF StoreResult, RestaurantInv, TypeOK, StoreInv
<1>2. Head(toStore) = toStore[1] /\ 1 \in 1 .. Len(toStore)
  BY <1>1
<1>3. \A r \in results : r.id # Head(toStore).id
  BY <1>1, <1>2 DEF DeliveredOnce
<1>4. results' = results \cup {Head(toStore)}
  BY <1>3 DEF StoreResult
<1>5. Head(toStore).id \in Stored' /\ Head(toStore).id \notin Stored
  BY <1>3, <1>4 DEF Stored
<1> QED BY <1>1, <1>4, <1>5 DEF Stored

(* Every step counts, so that the restaurant takes at most nine steps for  *)
(* an order, however its timers, its workers and its errors interleave.    *)
(* With NobodyIsStuck: it ends, and every order has its result.            *)
THEOREM EveryStepCounts ==
  Spec => [](StepsDone \in 0 .. 9 * NumOrders) /\ [][StepsDone' > StepsDone]_vars
<1>1. RestaurantInv => StepsDone \in 0 .. 9 * NumOrders
  BY StepsBound DEF RestaurantInv
<1>2. RestaurantInv /\ RestaurantInv' /\ [Next]_vars => [StepsDone' > StepsDone]_vars
  <2> SUFFICES ASSUME RestaurantInv, RestaurantInv', Next PROVE StepsDone' > StepsDone
    OBVIOUS
  <2>1. TypeOK /\ TypeOK'
    BY DEF RestaurantInv
  <2>2. CASE StoreResult
    <3>1. StagesPassed' = StagesPassed
      BY <2>2, StoreCounts DEF StagesPassed
    <3> QED BY <2>1, <2>2, <3>1, StoreCounts, GrowthCounts
  <2>3. CASE ~ StoreResult
    <3>1. /\ \A t \in Timers : stage'[t] = stage[t] \/ Later(t)
          /\ \E t \in Timers : Later(t)
          /\ results' = results
      BY <2>3, TimersGoForward DEF Next
    <3>2. Stored' = Stored
      BY <3>1 DEF Stored
    <3> QED BY <2>1, <3>1, <3>2, StageGrowth, GrowthCounts
  <2> QED BY <2>2, <2>3
<1> QED BY <1>1, <1>2, RestaurantInvariant, PTL DEF Spec
=============================================================================
