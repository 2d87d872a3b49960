------------------------- MODULE BrowserPageProofs -------------------------
(***************************************************************************)
(* The browser client for any number of players, maps, tabs and requests   *)
(* on their way: what the page and the network around it do to the server  *)
(* are steps of the game world, and the page and its cookies belong to     *)
(* players who joined in this browser. A request keeps what was true when  *)
(* it was sent or answered (Fine), because the server never changes a      *)
(* player or the map of a session (WorldGrows). What each cookie is by     *)
(* itself holds whatever the tabs do (CookiesInv); together they are of    *)
(* one player while no two callbacks overlap (TornInv) or no other tab     *)
(* sets one (MineInv). The newest action on its way is what the last key   *)
(* says, or the dog goes that way already (CourseInv). The answers are in  *)
(* the order in which they were made, so that a list that is not late      *)
(* names every actor (ListsInv).                                           *)
(*                                                                         *)
(* At the end, the tiles of the map are compared with the roads on the     *)
(* server.                                                                 *)
(***************************************************************************)
EXTENDS BrowserPage, MapTiles, GameWorldProofs

(* A player that was told its token, and its map.                          *)
Joined(t) ==
  t \in known /\ t \in registered /\ player[t].session \in 1 .. Len(sessions)

HomeOf(t) == sessions[player[t].session].map

Owned(c) == Joined(c.token) /\ c.id = player[c.token].id /\ c.map = HomeOf(c.token)

Fine(k, r) ==
  /\ r.token \subseteq told
  /\ k \in {"join", "map"} => r.arg \in MapIds
  /\ k = "join" => /\ \A c \in r.answer : Owned(c)
                   /\ \A c, d \in r.answer : c = d
  /\ k = "map" => \E t \in told : r.arg = HomeOf(t)
  /\ k = "action" => r.arg \in Directions /\ r.token # {}
  /\ k = "state" => /\ r.token # {}
                    /\ r.served => \A t \in r.token : \E s \in r.answer : s.id = player[t].id
  /\ (k = "map" /\ foreign # "meanwhile") => r.arg \in cookies.map
  /\ (k = "state" /\ foreign # "meanwhile") => r.token = cookies.token

FineQueue(k, q) ==
  /\ q \in Seq(Request(Answers[k]))
  /\ \A i \in 1 .. Len(q) : Fine(k, q[i])

NetInv == DOMAIN net = Kinds /\ \A k \in Kinds : FineQueue(k, net[k])

KeysInv == bound \in Bounds /\ keys \in Seq(bound.keys) /\ IsInjective(keys) /\ drops \in 0 .. bound.drops

(* The page has sent nothing before it came to the place that sends.       *)
InForm(st) == st \in {"form", "setting"}

StagesInv ==
  /\ stage \in {"form", "setting", "opening", "loading", "loaded", "asking", "playing"}
  /\ stage = "form" => chosen \in MapIds
  /\ InForm(stage) => net["map"] = <<>>
  /\ ~ InForm(stage) => net["join"] = <<>>
  /\ InForm(stage) \/ stage \in {"opening", "loading"} =>
       got = {} /\ \A k \in {"state", "players", "action"} : net[k] = <<>>

(* What each cookie is by itself, and what each callback has in its hands. *)
CookiesInv ==
  /\ cookies \in [token : SUBSET Tokens, id : SUBSET Nat, map : SUBSET MapIds]
  /\ \A t, u \in cookies.token : t = u
  /\ \A n, o \in cookies.id : n = o
  /\ \A m, l \in cookies.map : m = l
  /\ foreign \in {"never", "earlier", "meanwhile"} /\ torn \in BOOLEAN
  /\ told \subseteq Tokens /\ \A t \in told : Joined(t)
  /\ cookies.token \subseteq told /\ (told # {} => cookies.token # {})
  /\ \A n \in cookies.id : \E t \in told : n = player[t].id
  /\ \A m \in cookies.map : \E t \in told : m = HomeOf(t)

TabsInv ==
  /\ callback \in [Tabs -> SUBSET Cookie]
  /\ toSet \in [Tabs -> {"token", "id", "map"}]
  /\ \A w \in Tabs : /\ callback[w] = {} <=> toSet[w] = "token"
                     /\ \A c, d \in callback[w] : c = d
                     /\ \A c \in callback[w] : Owned(c) /\ c.token \in told

(* The cookies that a tab has set already are still those.                 *)
SetSoFar(w) ==
  \A c \in callback[w] : /\ cookies.token = {c.token}
                         /\ toSet[w] = "map" => cookies.id = {c.id}

AllSet == \E t \in told : CookiesOf(t)

(* Callbacks that do not overlap: one after the other sets all three.      *)
TornInv ==
  ~ torn => /\ \A v, w \in Tabs : callback[v] # {} /\ callback[w] # {} => v = w
            /\ \A w \in Tabs : SetSoFar(w)
            /\ (told # {} /\ \A w \in Tabs : callback[w] = {}) => AllSet

(* Cookies that no other tab has set since this one began.                 *)
MineInv ==
  /\ stage = "setting" <=> callback[ThisTab] # {}
  /\ toSet[ThisTab] = "map" => cookies.id # {}
  /\ ~ InForm(stage) => cookies.token # {} /\ cookies.id # {} /\ cookies.map # {}
  /\ foreign # "meanwhile" => /\ SetSoFar(ThisTab)
                              /\ ~ InForm(stage) => AllSet

JarInv == CookiesInv /\ TabsInv /\ TornInv /\ MineInv

ScreenInv ==
  /\ chosen \in MapIds \cup {NoMap}
  /\ pageMap \in MapIds \cup {NoMap}
  /\ me \in Nat
  /\ got \subseteq {"state", "players"}
  /\ state \subseteq Shown
  /\ actors \subseteq Nat
  /\ astray \in BOOLEAN
  /\ stage \in {"loaded", "asking", "playing"} =>
       /\ \E t \in told : me = player[t].id
       /\ \E t \in told : pageMap = HomeOf(t)
       /\ foreign # "meanwhile" => me \in cookies.id /\ pageMap \in cookies.map
  /\ "state" \in got =>
       /\ \E s \in state : \E t \in told : s.id = player[t].id
       /\ foreign # "meanwhile" => \E s \in state : s.id = me

PageInv == NetInv /\ KeysInv /\ StagesInv /\ JarInv /\ ScreenInv

-----------------------------------------------------------------------------
LEMMA BoundFacts ==
  ASSUME bound \in Bounds
  PROVE  bound.drops \in Nat /\ bound.others \subseteq Directions
<1>1. bound.drops \in Nat
  BY PageAssumption, Zenon
<1>2. bound.others \subseteq Directions
  BY PageAssumption, Zenon
<1> QED BY <1>1, <1>2

(* RemoveAt keeps the order of the others.                                 *)
LEMMA RemoveAtFacts ==
  ASSUME NEW S, NEW q \in Seq(S), NEW i \in 1 .. Len(q)
  PROVE  /\ RemoveAt(q, i) \in Seq(S)
         /\ Len(RemoveAt(q, i)) = Len(q) - 1
         /\ \A j \in 1 .. Len(q) - 1 : RemoveAt(q, i)[j] = IF j < i THEN q[j] ELSE q[j + 1]
<1> DEFINE a == SubSeq(q, 1, i - 1)
           b == SubSeq(q, i + 1, Len(q))
<1>1. /\ Len(q) \in Nat /\ i \in Int /\ 1 <= i /\ i <= Len(q)
      /\ \A m \in 1 .. Len(q) : q[m] \in S
  OBVIOUS
<1>2. a \in Seq(S) /\ Len(a) = i - 1 /\ \A j \in 1 .. i - 1 : a[j] = q[j]
  BY <1>1
<1>3. b \in Seq(S) /\ Len(b) = Len(q) - i /\ \A j \in 1 .. Len(q) - i : b[j] = q[i + j]
  BY <1>1
<1> HIDE DEF a, b
<1>4. /\ a \o b \in Seq(S) /\ Len(a \o b) = Len(a) + Len(b)
      /\ \A j \in 1 .. Len(a) + Len(b) : (a \o b)[j] = IF j <= Len(a) THEN a[j] ELSE b[j - Len(a)]
  BY <1>2, <1>3, ConcatProperties
<1>5. Len(a \o b) = Len(q) - 1 /\ Len(a) + Len(b) = Len(q) - 1
  BY <1>1, <1>2, <1>3, <1>4
<1>6. ASSUME NEW j \in 1 .. Len(q) - 1
      PROVE  (a \o b)[j] = IF j < i THEN q[j] ELSE q[j + 1]
  <2>1. (a \o b)[j] = IF j <= i - 1 THEN a[j] ELSE b[j - (i - 1)]
    BY <1>2, <1>4, <1>5
  <2>2. CASE j < i
    BY <1>1, <1>2, <2>1, <2>2
  <2>3. CASE ~ (j < i)
    <3>1. j - (i - 1) \in 1 .. Len(q) - i /\ i + (j - (i - 1)) = j + 1 /\ ~ (j <= i - 1)
      BY <1>1, <2>3
    <3> QED BY <1>3, <2>1, <2>3, <3>1
  <2> QED BY <2>2, <2>3
<1> QED BY <1>4, <1>5, <1>6 DEF RemoveAt, a, b

LEMMA RemovedAreThere ==
  ASSUME NEW S, NEW q \in Seq(S), NEW i \in 1 .. Len(q)
  PROVE  \A j \in 1 .. Len(RemoveAt(q, i)) : \E m \in 1 .. Len(q) : RemoveAt(q, i)[j] = q[m]
<1>1. /\ Len(RemoveAt(q, i)) = Len(q) - 1 /\ Len(q) \in Nat
      /\ \A j \in 1 .. Len(q) - 1 : RemoveAt(q, i)[j] = IF j < i THEN q[j] ELSE q[j + 1]
  BY RemoveAtFacts
<1>2. \A j \in 1 .. Len(q) - 1 : j \in 1 .. Len(q) /\ j + 1 \in 1 .. Len(q)
  BY <1>1
<1> QED BY <1>1, <1>2

-----------------------------------------------------------------------------
(***************************************************************************)
(* What the network does to a queue of requests.                           *)
(***************************************************************************)
LEMMA LaggingFacts ==
  ASSUME NEW A, NEW r \in Request(A), NEW b \in BOOLEAN
  PROVE  /\ Lagging(r, b) \in Request(A)
         /\ Lagging(r, b).arg = r.arg /\ Lagging(r, b).token = r.token
         /\ Lagging(r, b).served = r.served /\ Lagging(r, b).answer = r.answer
BY DEF Request, Lagging

LEMMA SentIsFine ==
  ASSUME NEW k \in Kinds, NetInv, CookiesInv, NEW arg \in Args,
         k \in {"join", "map"} => arg \in MapIds,
         k = "action" => arg \in Directions,
         k \in {"action", "state"} => cookies.token # {},
         k = "map" => arg \in cookies.map
  PROVE  FineQueue(k, Sending(k, arg))
<1> DEFINE r == NewRequest(arg)
           q == net[k]
<1>1. FineQueue(k, q)
  BY DEF NetInv
<1>2. r \in Request(Answers[k])
  BY DEF NewRequest, Request, CookiesInv
<1>3. Fine(k, r)
  <2>1. /\ r.arg = arg /\ r.token = cookies.token /\ r.served = FALSE /\ r.answer = {}
    BY DEF NewRequest
  <2> HIDE DEF r
  <2> QED BY <2>1 DEF Fine, CookiesInv
<1> HIDE DEF r, q
<1>4. /\ Append(q, r) \in Seq(Request(Answers[k]))
      /\ Len(Append(q, r)) = Len(q) + 1 /\ Len(q) \in Nat
      /\ \A i \in 1 .. Len(q) : Append(q, r)[i] = q[i]
      /\ Append(q, r)[Len(q) + 1] = r
  BY <1>1, <1>2 DEF FineQueue
<1>5. \A i \in 1 .. Len(q) + 1 : i \in 1 .. Len(q) \/ i = Len(q) + 1
  BY <1>4
<1> QED BY <1>1, <1>3, <1>4, <1>5 DEF FineQueue, Sending, r, q

LEMMA RemovedIsFine ==
  ASSUME NEW k \in Kinds, NEW q, FineQueue(k, q), NEW i \in 1 .. Len(q)
  PROVE  FineQueue(k, RemoveAt(q, i))
<1>1. q \in Seq(Request(Answers[k]))
  BY DEF FineQueue
<1>2. RemoveAt(q, i) \in Seq(Request(Answers[k]))
  BY <1>1, RemoveAtFacts
<1>3. \A j \in 1 .. Len(RemoveAt(q, i)) : \E m \in 1 .. Len(q) : RemoveAt(q, i)[j] = q[m]
  BY <1>1, RemovedAreThere
<1> QED BY <1>2, <1>3 DEF FineQueue

(* The queue in which some requests became late.                           *)
LEMMA LaggingIsFine ==
  ASSUME NEW k \in Kinds, NEW q, FineQueue(k, q), NEW p,
         NEW b \in [1 .. Len(q) -> BOOLEAN],
         p = [j \in 1 .. Len(q) |-> Lagging(q[j], b[j])]
  PROVE  FineQueue(k, p) /\ Len(p) = Len(q)
<1>1. q \in Seq(Request(Answers[k])) /\ Len(q) \in Nat
  BY DEF FineQueue
<1>2. \A j \in 1 .. Len(q) : /\ p[j] = Lagging(q[j], b[j]) /\ p[j] \in Request(Answers[k])
                             /\ p[j].arg = q[j].arg /\ p[j].token = q[j].token
                             /\ p[j].served = q[j].served /\ p[j].answer = q[j].answer
  BY <1>1, LaggingFacts
<1>3. p \in Seq(Request(Answers[k])) /\ Len(p) = Len(q)
  <2>1. p \in [1 .. Len(q) -> Request(Answers[k])]
    BY <1>2
  <2> QED BY <1>1, <2>1
<1>4. \A j \in 1 .. Len(q) : Fine(k, q[j]) => Fine(k, p[j])
  BY <1>2 DEF Fine
<1> QED BY <1>3, <1>4 DEF FineQueue

-----------------------------------------------------------------------------
(***************************************************************************)
(* What the server does to what was said.                                  *)
(***************************************************************************)
WorldGrows ==
  /\ known \subseteq known' /\ registered \subseteq registered'
  /\ \A t \in registered : player'[t] = player[t]
  /\ \A j \in 1 .. Len(sessions) : j \in 1 .. Len(sessions') /\ sessions'[j].map = sessions[j].map

JoinedStay ==
  \A t : Joined(t) => Joined(t)' /\ player'[t] = player[t] /\ HomeOf(t)' = HomeOf(t)

LEMMA GrowingKeepsJoined ==
  ASSUME WorldGrows
  PROVE  JoinedStay /\ \A c : Owned(c) => Owned(c)'
BY DEF WorldGrows, JoinedStay, Joined, HomeOf, Owned

(* A join adds one player and changes no other.                            *)
LEMMA JoinGrows ==
  ASSUME WorldInv, NEW id \in MapIds, NEW t \in Tokens, NEW code, JoinGame(id, t, code)
  PROVE  /\ WorldGrows
         /\ \A u, w \in known' \ known : u = w
         /\ \A u \in known' \ known :
              /\ u \in Tokens /\ u \in registered' /\ player'[u].id \in Nat
              /\ player'[u].session \in 1 .. Len(sessions')
              /\ sessions'[player'[u].session].map = id
<1> USE DEF WorldInv
<1>1. player \in [Tokens -> Player] /\ registered \subseteq Tokens /\ counter \in Nat
  BY DEF TypeOK
<1>2. CASE sessions' = GetGameSession(id) /\ known' = known
           /\ ((player' = player /\ registered' = registered) \/ AddPlayer(id, t))
  <2>1. /\ Len(sessions) \in Nat /\ Len(sessions') \in Nat /\ Len(sessions) <= Len(sessions')
        /\ \A j \in 1 .. Len(sessions) : sessions'[j] = sessions[j]
    BY <1>2, GrownSessions
  <2>2. /\ registered \subseteq registered'
        /\ \A u \in registered : player'[u] = player[u]
    BY <1>1, <1>2 DEF AddPlayer
  <2> QED BY <1>2, <2>1, <2>2 DEF WorldGrows
<1>3. CASE AddPlayer(id, t) /\ AddDog(id, t, code)
  <2>1. PICK k : k = SessionIndex(id)
    OBVIOUS
  <2>2. sessions' = DogAppended(id, t) /\ known' = known \cup {t}
    BY <1>3 DEF AddDog
  <2>3. /\ Len(sessions) \in Nat /\ Len(sessions') \in Nat /\ Len(sessions) <= Len(sessions')
        /\ k \in 1 .. Len(sessions') /\ sessions'[k].map = id
        /\ \A j \in 1 .. Len(sessions) : sessions'[j].map = sessions[j].map
    BY <2>1, <2>2, SessionsWithNewDog
  <2>4. /\ t \notin registered /\ registered' = registered \cup {t}
        /\ player' = [player EXCEPT ![t] = [id |-> counter + 1, session |-> k]]
    BY <1>3, <2>1 DEF AddPlayer
  <2>5. player'[t].id \in Nat /\ player'[t].session = k
    BY <1>1, <2>4
  <2>6. \A u \in registered : player'[u] = player[u]
    BY <1>1, <2>4
  <2> QED BY <2>2, <2>3, <2>4, <2>5, <2>6 DEF WorldGrows
<1> QED BY <1>2, <1>3 DEF JoinGame, TokenCollides, AddDogThrows

LEMMA IdleGrows ==
  ASSUME UNCHANGED <<sessions, registered, player, known>>
  PROVE  WorldGrows
BY DEF WorldGrows

(* A request stays fine when the server goes on, and also when another tab *)
(* sets a cookie meanwhile.                                                *)
Kept == \A k \in Kinds : \A r : Fine(k, r) => Fine(k, r)'

LEMMA GrowingKeepsRequests ==
  ASSUME WorldGrows, CookiesInv, told \subseteq told',
         foreign' = "meanwhile" \/ UNCHANGED <<cookies, foreign>>
  PROVE  Kept
<1> SUFFICES ASSUME NEW k \in Kinds, NEW r, Fine(k, r) PROVE Fine(k, r)'
  BY DEF Kept
<1>1. JoinedStay /\ \A c : Owned(c) => Owned(c)'
  BY GrowingKeepsJoined
<1>2. \A t \in told : t \in told' /\ player'[t] = player[t] /\ HomeOf(t)' = HomeOf(t)
  BY <1>1 DEF CookiesInv, JoinedStay
<1>3. r.token \subseteq told
  BY DEF Fine
<1>4. k = "state" => /\ r.token # {}
                     /\ r.served => \A t \in r.token : \E s \in r.answer : s.id = player'[t].id
  BY <1>2, <1>3 DEF Fine
<1>5. k = "map" => \E t \in told' : r.arg = HomeOf(t)'
  BY <1>2 DEF Fine
<1> QED BY <1>1, <1>2, <1>3, <1>4, <1>5 DEF Fine

(* Until the page has left the form, only joins are on their way.          *)
LEMMA GrowingKeepsJoins ==
  ASSUME WorldGrows, told \subseteq told', NEW r, Fine("join", r)
  PROVE  Fine("join", r)'
<1>1. \A c : Owned(c) => Owned(c)'
  BY GrowingKeepsJoined
<1> QED BY <1>1 DEF Fine

LEMMA NetStep ==
  ASSUME NetInv, Kept, NEW k \in Kinds, NEW q, FineQueue(k, q), net' = [net EXCEPT ![k] = q]
  PROVE  NetInv'
<1>1. DOMAIN net' = Kinds /\ net'[k] = q /\ \A l \in Kinds : l # k => net'[l] = net[l]
  BY DEF NetInv
<1>2. ASSUME NEW l \in Kinds
      PROVE  FineQueue(l, net[l])'
  <2>1. PICK p : p = net'[l]
    OBVIOUS
  <2>2. FineQueue(l, p)
    BY <1>1, <2>1 DEF NetInv
  <2>3. p \in Seq(Request(Answers[l])) /\ \A i \in 1 .. Len(p) : Fine(l, p[i])'
    BY <2>2 DEF FineQueue, Kept
  <2> QED BY <2>1, <2>3 DEF FineQueue
<1> QED BY <1>1, <1>2 DEF NetInv

LEMMA NetRests ==
  ASSUME NetInv, Kept, net' = net
  PROVE  NetInv'
<1>1. ASSUME NEW l \in Kinds
      PROVE  FineQueue(l, net[l])'
  <2>1. PICK p : p = net'[l]
    OBVIOUS
  <2>2. FineQueue(l, p)
    BY <2>1 DEF NetInv
  <2>3. p \in Seq(Request(Answers[l])) /\ \A i \in 1 .. Len(p) : Fine(l, p[i])'
    BY <2>2 DEF FineQueue, Kept
  <2> QED BY <2>1, <2>3 DEF FineQueue
<1> QED BY <1>1 DEF NetInv

LEMMA StagesRest ==
  ASSUME NetInv, StagesInv, NEW k \in Kinds, NEW q, net' = [net EXCEPT ![k] = q],
         net[k] = <<>> => q = <<>>, UNCHANGED <<stage, chosen, got>>
  PROVE  StagesInv'
<1>1. \A l \in Kinds : net[l] = <<>> => net'[l] = <<>>
  BY DEF NetInv
<1>2. {"map", "join", "state", "players", "action"} \subseteq Kinds
  BY DEF Kinds
<1> QED BY <1>1, <1>2 DEF StagesInv

(* The cookies are left alone, and the page does not leave the form.       *)
LEMMA JarRests ==
  ASSUME JarInv, WorldGrows, UNCHANGED jar,
         stage' = stage \/ (~ InForm(stage) /\ ~ InForm(stage'))
  PROVE  JarInv'
<1>1. JoinedStay /\ \A c : Owned(c) => Owned(c)'
  BY GrowingKeepsJoined
<1>2. UNCHANGED <<cookies, callback, toSet, foreign, told, torn>>
  BY DEF jar
<1>3. \A t \in told : Joined(t) /\ Joined(t)' /\ player'[t] = player[t] /\ HomeOf(t)' = HomeOf(t)
  BY <1>1 DEF JarInv, CookiesInv, JoinedStay
<1>4. CookiesInv'
  BY <1>2, <1>3 DEF JarInv, CookiesInv
<1>5. TabsInv'
  BY <1>1, <1>2 DEF JarInv, TabsInv
<1>6. AllSet => AllSet'
  <2>1. \A t \in told : CookiesOf(t) => CookiesOf(t)'
    BY <1>2, <1>3 DEF CookiesOf, HomeOf
  <2> QED BY <1>2, <2>1 DEF AllSet
<1>7. \A w \in Tabs : SetSoFar(w) => SetSoFar(w)'
  BY <1>2 DEF SetSoFar
<1>8. ThisTab \in Tabs
  BY DEF Tabs
<1>9. TornInv'
  BY <1>2, <1>6, <1>7 DEF JarInv, TornInv
<1>10. MineInv'
  BY <1>2, <1>6, <1>7, <1>8 DEF JarInv, MineInv, InForm
<1> QED BY <1>4, <1>5, <1>9, <1>10 DEF JarInv

LEMMA ScreenRests ==
  ASSUME ScreenInv, CookiesInv, WorldGrows, astray' \in BOOLEAN, told \subseteq told',
         foreign' = "meanwhile" \/ UNCHANGED <<cookies, foreign>>,
         stage' = stage \/ stage' \notin {"loaded", "asking", "playing"}
           \/ stage \in {"loaded", "asking", "playing"},
         chosen' \in MapIds \cup {NoMap}, UNCHANGED <<pageMap, me, got, state, actors>>
  PROVE  ScreenInv'
<1>1. \A t \in told : t \in told' /\ player'[t] = player[t] /\ HomeOf(t)' = HomeOf(t)
  BY GrowingKeepsJoined DEF CookiesInv, JoinedStay
<1> QED BY <1>1 DEF ScreenInv

(* Only the network, and perhaps the keys, change.                         *)
LEMMA RequestsMove ==
  ASSUME PageInv, WorldGrows, NEW k \in Kinds, NEW q, FineQueue(k, q),
         net' = [net EXCEPT ![k] = q], net[k] = <<>> => q = <<>>,
         KeysInv', astray' \in BOOLEAN,
         UNCHANGED <<stage, chosen, jar, pageMap, me, got, state, actors>>
  PROVE  PageInv'
<1>1. Kept
  BY GrowingKeepsRequests DEF PageInv, JarInv, jar
<1>2. NetInv'
  BY <1>1, NetStep DEF PageInv
<1>3. chosen' \in MapIds \cup {NoMap}
  BY DEF PageInv, ScreenInv
<1>4. StagesInv' /\ JarInv' /\ ScreenInv'
  BY <1>1, <1>3, StagesRest, JarRests, ScreenRests DEF PageInv, JarInv, jar
<1> QED BY <1>2, <1>4 DEF PageInv

LEMMA KeysRest ==
  ASSUME KeysInv, UNCHANGED <<keys, drops, bound>>
  PROVE  KeysInv'
BY DEF KeysInv

-----------------------------------------------------------------------------
(***************************************************************************)
(* The steps of the page.                                                  *)
(***************************************************************************)
LEMMA PageSends ==
  ASSUME PageInv, UNCHANGED <<vars, jar, pageMap, me, got, state, actors>>,
         chosen' \in MapIds \cup {NoMap}, astray' = astray,
         stage' = stage \/ (~ InForm(stage) /\ ~ InForm(stage')),
         stage' = stage \/ stage' \notin {"loaded", "asking", "playing"}
           \/ stage \in {"loaded", "asking", "playing"}
  PROVE  Kept /\ JarInv' /\ ScreenInv'
<1>1. WorldGrows
  BY IdleGrows DEF vars
<1>2. Kept
  BY <1>1, GrowingKeepsRequests DEF PageInv, JarInv, jar
<1>3. JarInv'
  BY <1>1, JarRests DEF PageInv
<1>4. ScreenInv'
  BY <1>1, ScreenRests DEF PageInv, JarInv, jar, ScreenInv
<1> QED BY <1>2, <1>3, <1>4

LEMMA ChooseKeeps ==
  ASSUME PageInv, NEW m \in MapIds, Choose(m)
  PROVE  PageInv'
<1>1. Kept /\ JarInv' /\ ScreenInv'
  BY PageSends DEF Choose
<1>2. NetInv'
  BY <1>1, NetRests DEF PageInv, Choose
<1>3. KeysInv'
  BY KeysRest DEF PageInv, Choose
<1>4. StagesInv'
  BY DEF PageInv, Choose, StagesInv
<1> QED BY <1>1, <1>2, <1>3, <1>4 DEF PageInv

LEMMA SubmitKeeps ==
  ASSUME PageInv, Submit
  PROVE  PageInv'
<1>1. Kept /\ JarInv' /\ ScreenInv'
  BY PageSends DEF Submit, PageInv, ScreenInv
<1>2. chosen \in MapIds /\ "join" \in Kinds /\ chosen \in Args
  BY DEF PageInv, StagesInv, Submit, Kinds, Args
<1>3. FineQueue("join", Sending("join", chosen))
  BY <1>2, SentIsFine DEF PageInv, JarInv
<1>4. net' = [net EXCEPT !["join"] = Sending("join", chosen)]
  BY DEF Submit
<1>5. NetInv'
  BY <1>1, <1>2, <1>3, <1>4, NetStep DEF PageInv
<1>6. KeysInv'
  BY KeysRest DEF PageInv, Submit
<1>7. StagesInv'
  <2>1. \A l \in Kinds : l # "join" => net'[l] = net[l]
    BY <1>4 DEF PageInv, NetInv
  <2> QED BY <2>1 DEF PageInv, Submit, StagesInv, Kinds, InForm
<1> QED BY <1>1, <1>5, <1>6, <1>7 DEF PageInv

LEMMA OpenGameKeeps ==
  ASSUME PageInv, OpenGame
  PROVE  PageInv'
<1>1. Kept /\ JarInv' /\ ScreenInv'
  BY PageSends DEF OpenGame, PageInv, ScreenInv, InForm
<1>2. PICK m \in cookies.map : net' = [net EXCEPT !["map"] = Sending("map", m)]
  BY DEF OpenGame
<1>3. m \in MapIds /\ m \in Args /\ "map" \in Kinds
  BY <1>2 DEF PageInv, JarInv, CookiesInv, Args, Kinds
<1>4. FineQueue("map", Sending("map", m))
  BY <1>3, SentIsFine DEF PageInv, JarInv
<1>5. NetInv'
  BY <1>1, <1>2, <1>3, <1>4, NetStep DEF PageInv
<1>6. KeysInv'
  BY KeysRest DEF PageInv, OpenGame
<1>7. StagesInv'
  <2>1. \A l \in Kinds : l # "map" => net'[l] = net[l]
    BY <1>2 DEF PageInv, NetInv
  <2> QED BY <2>1 DEF PageInv, OpenGame, StagesInv, Kinds, InForm
<1> QED BY <1>1, <1>5, <1>6, <1>7 DEF PageInv

(* A request that needs nothing but the token.                             *)
LEMMA AskingIsFine ==
  ASSUME PageInv, NEW k \in {"state", "players"}, ~ InForm(stage)
  PROVE  k \in Kinds /\ FineQueue(k, Sending(k, NoMap))
<1>1. k \in Kinds /\ NoMap \in Args /\ k \notin {"join", "map", "action"}
  BY DEF Kinds, Args
<1>2. cookies.token # {}
  BY DEF PageInv, JarInv, MineInv
<1> QED BY <1>1, <1>2, SentIsFine DEF PageInv, JarInv

LEMMA ConstructKeeps ==
  ASSUME PageInv, ConstructGameState
  PROVE  PageInv'
<1>1. Kept /\ JarInv' /\ ScreenInv'
  BY PageSends DEF ConstructGameState, PageInv, ScreenInv, InForm
<1>2. /\ "state" \in Kinds /\ FineQueue("state", Sending("state", NoMap))
      /\ "players" \in Kinds /\ FineQueue("players", Sending("players", NoMap))
  BY AskingIsFine DEF ConstructGameState, InForm
<1> DEFINE s == Sending("state", NoMap)
           p == Sending("players", NoMap)
<1> HIDE DEF s, p
<1>3. net' = [[net EXCEPT !["state"] = s] EXCEPT !["players"] = p]
  BY DEF ConstructGameState, s, p
<1>4. /\ DOMAIN net' = Kinds /\ net'["state"] = s /\ net'["players"] = p
      /\ \A l \in Kinds : l \notin {"state", "players"} => net'[l] = net[l]
  BY <1>2, <1>3 DEF PageInv, NetInv
<1>5. \A l \in Kinds : FineQueue(l, net'[l])
  BY <1>2, <1>4 DEF PageInv, NetInv, s, p
<1>6. NetInv'
  <2>1. ASSUME NEW l \in Kinds
        PROVE  FineQueue(l, net[l])'
    <3>1. PICK q : q = net'[l]
      OBVIOUS
    <3>2. FineQueue(l, q)
      BY <1>5, <3>1
    <3>3. q \in Seq(Request(Answers[l])) /\ \A i \in 1 .. Len(q) : Fine(l, q[i])'
      BY <1>1, <3>2 DEF FineQueue, Kept
    <3> QED BY <3>1, <3>3 DEF FineQueue
  <2> QED BY <1>4, <2>1 DEF NetInv
<1>7. KeysInv'
  BY KeysRest DEF PageInv, ConstructGameState
<1>8. StagesInv'
  BY <1>4 DEF PageInv, ConstructGameState, StagesInv, Kinds, InForm
<1> QED BY <1>1, <1>6, <1>7, <1>8 DEF PageInv

LEMMA PollKeeps ==
  ASSUME PageInv, NEW k \in Kinds, Poll(k)
  PROVE  PageInv'
<1>1. Kept /\ JarInv' /\ ScreenInv'
  BY PageSends DEF Poll, PageInv, ScreenInv
<1>2. k \in {"state", "players"} /\ FineQueue(k, Sending(k, NoMap))
  BY AskingIsFine DEF Poll, InForm
<1>3. net' = [net EXCEPT ![k] = Sending(k, NoMap)]
  BY DEF Poll
<1>4. NetInv'
  BY <1>1, <1>2, <1>3, NetStep DEF PageInv
<1>5. KeysInv'
  BY KeysRest DEF PageInv, Poll
<1>6. StagesInv'
  <2>1. \A l \in Kinds : l # k => net'[l] = net[l]
    BY <1>3 DEF PageInv, NetInv
  <2> QED BY <1>2, <2>1 DEF PageInv, Poll, StagesInv, Kinds, InForm
<1> QED BY <1>1, <1>4, <1>5, <1>6 DEF PageInv

(* The keys that PressKey can leave pressed.                               *)
LEMMA PressedKeys ==
  ASSUME KeysInv, NEW key \in bound.keys
  PROVE  /\ ~ Pressed(key) => Append(keys, key) \in Seq(bound.keys) /\ IsInjective(Append(keys, key))
         /\ \A i \in 1 .. Len(keys) :
              RemoveAt(keys, i) \in Seq(bound.keys) /\ IsInjective(RemoveAt(keys, i))
<1>1. keys \in Seq(bound.keys) /\ Len(keys) \in Nat
      /\ \A a, b \in 1 .. Len(keys) : keys[a] = keys[b] => a = b
  BY DEF KeysInv, IsInjective
<1>2. ASSUME ~ Pressed(key)
      PROVE  Append(keys, key) \in Seq(bound.keys) /\ IsInjective(Append(keys, key))
  <2> DEFINE q == Append(keys, key)
  <2>1. /\ q \in Seq(bound.keys) /\ Len(q) = Len(keys) + 1 /\ q[Len(keys) + 1] = key
        /\ \A a \in 1 .. Len(keys) : q[a] = keys[a]
    BY <1>1
  <2>2. \A a \in 1 .. Len(keys) : keys[a] # key
    BY <1>2 DEF Pressed
  <2> HIDE DEF q
  <2>3. \A a \in 1 .. Len(q) : a \in 1 .. Len(keys) \/ a = Len(keys) + 1
    BY <1>1, <2>1
  <2>4. \A a, b \in 1 .. Len(q) : q[a] = q[b] => a = b
    BY <1>1, <2>1, <2>2, <2>3
  <2>5. DOMAIN q = 1 .. Len(q)
    BY <2>1
  <2> QED BY <2>1, <2>4, <2>5 DEF IsInjective, q
<1>3. ASSUME NEW i \in 1 .. Len(keys)
      PROVE  RemoveAt(keys, i) \in Seq(bound.keys) /\ IsInjective(RemoveAt(keys, i))
  <2> DEFINE q == RemoveAt(keys, i)
  <2>1. /\ q \in Seq(bound.keys) /\ Len(q) = Len(keys) - 1
        /\ \A j \in 1 .. Len(keys) - 1 : q[j] = IF j < i THEN keys[j] ELSE keys[j + 1]
    BY <1>1, RemoveAtFacts
  <2> HIDE DEF q
  <2>2. ASSUME NEW a \in 1 .. Len(q), NEW b \in 1 .. Len(q), q[a] = q[b]
        PROVE  a = b
    <3> DEFINE f == IF a < i THEN a ELSE a + 1
               g == IF b < i THEN b ELSE b + 1
    <3>1. /\ f \in 1 .. Len(keys) /\ g \in 1 .. Len(keys)
          /\ q[a] = keys[f] /\ q[b] = keys[g]
      BY <1>1, <2>1
    <3>2. f = g => a = b
      BY <1>1, <2>1
    <3> HIDE DEF f, g
    <3> QED BY <1>1, <2>2, <3>1, <3>2
  <2>3. DOMAIN q = 1 .. Len(q)
    BY <2>1
  <2> QED BY <2>1, <2>2, <2>3 DEF IsInjective, q
<1> QED BY <1>2, <1>3

LEMMA KeyIsDirection ==
  ASSUME KeysInv, NEW ks \in Seq(bound.keys)
  PROVE  KeyToSend(ks) \in Directions
<1>1. bound.keys \subseteq Directions
  BY PageAssumption DEF KeysInv
<1>2. ks # <<>> => ks[Len(ks)] \in bound.keys
  OBVIOUS
<1> QED BY <1>1, <1>2 DEF KeyToSend, LastKey, Directions

LEMMA PressKeeps ==
  ASSUME PageInv, NEW ks \in Seq(bound.keys), IsInjective(ks), PressKey(ks)
  PROVE  PageInv'
<1>1. Kept /\ JarInv' /\ ScreenInv'
  BY PageSends DEF PressKey, PageInv, ScreenInv
<1>2. KeyToSend(ks) \in Directions /\ KeyToSend(ks) \in Args /\ "action" \in Kinds
  BY KeyIsDirection DEF PageInv, Args, Kinds
<1>3. cookies.token # {}
  BY DEF PageInv, JarInv, MineInv, PressKey, InForm
<1>4. FineQueue("action", Sending("action", KeyToSend(ks)))
  BY <1>2, <1>3, SentIsFine DEF PageInv, JarInv
<1>5. net' = [net EXCEPT !["action"] = Sending("action", KeyToSend(ks))]
  BY DEF PressKey
<1>6. NetInv'
  BY <1>1, <1>2, <1>4, <1>5, NetStep DEF PageInv
<1>7. KeysInv'
  BY DEF PressKey, PageInv, KeysInv
<1>8. StagesInv'
  <2>1. \A l \in Kinds : l # "action" => net'[l] = net[l]
    BY <1>5 DEF PageInv, NetInv
  <2> QED BY <2>1 DEF PageInv, PressKey, StagesInv, Kinds, InForm
<1> QED BY <1>1, <1>6, <1>7, <1>8 DEF PageInv

LEMMA KeysKeep ==
  ASSUME PageInv, NEW key \in bound.keys, KeyDown(key) \/ KeyUp(key)
  PROVE  PageInv'
<1>1. CASE KeyDown(key)
  <2>1. PressKey(Append(keys, key)) /\ ~ Pressed(key)
    BY <1>1 DEF KeyDown
  <2>2. Append(keys, key) \in Seq(bound.keys) /\ IsInjective(Append(keys, key))
    BY <2>1, PressedKeys DEF PageInv
  <2> QED BY <2>1, <2>2, PressKeeps
<1>2. CASE KeyUp(key)
  <2>1. PICK i \in 1 .. Len(keys) : PressKey(RemoveAt(keys, i))
    BY <1>2 DEF KeyUp
  <2>2. RemoveAt(keys, i) \in Seq(bound.keys) /\ IsInjective(RemoveAt(keys, i))
    BY PressedKeys DEF PageInv
  <2> QED BY <2>1, <2>2, PressKeeps
<1> QED BY <1>1, <1>2

-----------------------------------------------------------------------------
(***************************************************************************)
(* The steps of the server.                                                *)
(***************************************************************************)
LEMMA NetBecomes ==
  ASSUME NetInv, Kept, NEW k \in Kinds, NEW q \in Seq(Request(Answers[k])),
         \A i \in 1 .. Len(q) : Fine(k, q[i])', net' = [net EXCEPT ![k] = q]
  PROVE  NetInv'
<1>1. DOMAIN net' = Kinds /\ net'[k] = q /\ \A l \in Kinds : l # k => net'[l] = net[l]
  BY DEF NetInv
<1>2. ASSUME NEW l \in Kinds
      PROVE  FineQueue(l, net[l])'
  <2>1. PICK p : p = net'[l]
    OBVIOUS
  <2>2. p \in Seq(Request(Answers[l])) /\ \A i \in 1 .. Len(p) : Fine(l, p[i])'
    <3>1. CASE l = k
      BY <1>1, <2>1, <3>1
    <3>2. CASE l # k
      BY <1>1, <2>1, <3>2 DEF NetInv, FineQueue, Kept
    <3> QED BY <3>1, <3>2
  <2> QED BY <2>1, <2>2 DEF FineQueue
<1> QED BY <1>1, <1>2 DEF NetInv

(* A request of which the server has made the answer goes to the end.      *)
LEMMA AnsweredLast ==
  ASSUME NEW S, NEW q \in Seq(S), NEW i \in 1 .. Len(q), NEW r \in S,
         NEW p, p = Append(RemoveAt(q, i), r)
  PROVE  /\ p \in Seq(S) /\ Len(p) = Len(q) /\ p[Len(q)] = r
         /\ \A j \in 1 .. Len(q) : j # Len(q) => p[j] = IF j < i THEN q[j] ELSE q[j + 1]
         /\ \A j \in 1 .. Len(p) : p[j] = r \/ \E m \in 1 .. Len(q) : p[j] = q[m]
<1>1. PICK o : o = RemoveAt(q, i)
  OBVIOUS
<1>2. /\ o \in Seq(S) /\ Len(o) = Len(q) - 1 /\ Len(q) \in Nat
      /\ \A j \in 1 .. Len(q) - 1 : o[j] = IF j < i THEN q[j] ELSE q[j + 1]
  BY <1>1, RemoveAtFacts
<1>3. \A j \in 1 .. Len(o) : \E m \in 1 .. Len(q) : o[j] = q[m]
  BY <1>1, RemovedAreThere
<1>4. /\ p \in Seq(S) /\ Len(p) = Len(o) + 1 /\ p[Len(o) + 1] = r
      /\ \A j \in 1 .. Len(o) : p[j] = o[j]
  BY <1>1, <1>2
<1>5. Len(p) = Len(q) /\ Len(o) + 1 = Len(q) /\ \A j \in 1 .. Len(q) : j = Len(q) \/ j \in 1 .. Len(o)
  BY <1>2, <1>4
<1>6. \A j \in 1 .. Len(q) : j # Len(q) => p[j] = IF j < i THEN q[j] ELSE q[j + 1]
  BY <1>2, <1>4, <1>5
<1>7. p[Len(q)] = r
  BY <1>4, <1>5
<1>8. \A j \in 1 .. Len(p) : p[j] = r \/ \E m \in 1 .. Len(q) : p[j] = q[m]
  BY <1>3, <1>4, <1>5
<1> QED BY <1>4, <1>5, <1>6, <1>7, <1>8

LEMMA AnswerKeeps ==
  ASSUME PageInv, WorldGrows, NEW k \in Kinds, NEW i \in 1 .. Len(net[k]),
         NEW answer \in SUBSET Answers[k], Served(k, i, answer),
         NEW r, r = Answered(net[k][i], answer), Fine(k, r)',
         ServerOnly, astray' = astray
  PROVE  PageInv'
<1>1. Kept
  BY GrowingKeepsRequests DEF ServerOnly, PageInv, JarInv, jar
<1>2. PICK q : q = net[k]
  OBVIOUS
<1>3. q \in Seq(Request(Answers[k])) /\ \A j \in 1 .. Len(q) : Fine(k, q[j])
  BY <1>2 DEF PageInv, NetInv, FineQueue
<1>4. r \in Request(Answers[k])
  <2>1. q[i] \in Request(Answers[k])
    BY <1>2, <1>3
  <2> QED BY <1>2, <2>1 DEF Answered, Request
<1>5. PICK p : p = Append(RemoveAt(q, i), r)
  OBVIOUS
<1>6. /\ p \in Seq(Request(Answers[k])) /\ Len(p) = Len(q)
      /\ \A j \in 1 .. Len(p) : p[j] = r \/ \E m \in 1 .. Len(q) : p[j] = q[m]
  <2>1. PICK S : S = Request(Answers[k])
    OBVIOUS
  <2>2. q \in Seq(S) /\ r \in S
    BY <1>3, <1>4, <2>1
  <2>3. i \in 1 .. Len(q)
    BY <1>2
  <2>4. PICK o : o = RemoveAt(q, i)
    OBVIOUS
  <2>5. o \in Seq(S) /\ Len(o) = Len(q) - 1 /\ Len(q) \in Nat
    BY <2>2, <2>3, <2>4, RemoveAtFacts
  <2>6. \A j \in 1 .. Len(o) : \E m \in 1 .. Len(q) : o[j] = q[m]
    BY <2>2, <2>3, <2>4, RemovedAreThere
  <2>7. /\ p \in Seq(S) /\ Len(p) = Len(o) + 1 /\ p[Len(o) + 1] = r
        /\ \A j \in 1 .. Len(o) : p[j] = o[j]
    BY <1>5, <2>2, <2>4, <2>5
  <2>8. Len(p) = Len(q) /\ \A j \in 1 .. Len(p) : j = Len(o) + 1 \/ j \in 1 .. Len(o)
    BY <2>5, <2>7
  <2> QED BY <2>1, <2>5, <2>6, <2>7, <2>8
<1>7. net' = [net EXCEPT ![k] = p]
  BY <1>2, <1>5 DEF Served
<1>8. \A j \in 1 .. Len(p) : Fine(k, p[j])'
  <2> SUFFICES ASSUME NEW j \in 1 .. Len(p) PROVE Fine(k, p[j])'
    OBVIOUS
  <2>1. PICK s : s = p[j]
    OBVIOUS
  <2>2. Fine(k, s)'
    BY <1>1, <1>3, <1>6, <2>1 DEF Kept
  <2> QED BY <2>1, <2>2
<1>9. NetInv'
  BY <1>1, <1>6, <1>7, <1>8, NetBecomes DEF PageInv
<1>10. net[k] = <<>> => p = <<>>
  BY <1>2, <1>3, <1>6
<1>11. StagesInv' /\ KeysInv'
  BY <1>7, <1>10, StagesRest, KeysRest DEF PageInv, ServerOnly
<1>12. JarInv' /\ ScreenInv'
  BY JarRests, ScreenRests DEF PageInv, JarInv, jar, ServerOnly, ScreenInv
<1> QED BY <1>9, <1>11, <1>12 DEF PageInv

LEMMA ServeJoinKeeps ==
  ASSUME WorldInv, PageInv, NEW i \in 1 .. Len(net["join"]), ServeJoin(i), ServerOnly
  PROVE  PageInv'
<1> DEFINE m == net["join"][i].arg
           answer == {[token |-> u, id |-> player'[u].id, map |-> m] : u \in known' \ known}
<1>1. "join" \in Kinds /\ FineQueue("join", net["join"]) /\ Fine("join", net["join"][i])
  BY DEF Kinds, PageInv, NetInv, FineQueue
<1>2. m \in MapIds
  BY <1>1 DEF Fine
<1>3. PICK t \in Tokens, code \in Codes : JoinGame(m, t, code) /\ Served("join", i, answer)
  BY DEF ServeJoin
<1>4. /\ WorldGrows
      /\ \A u, w \in known' \ known : u = w
      /\ \A u \in known' \ known :
           /\ u \in Tokens /\ u \in registered' /\ player'[u].id \in Nat
           /\ player'[u].session \in 1 .. Len(sessions')
           /\ sessions'[player'[u].session].map = m
  BY <1>2, <1>3, JoinGrows
<1>5. PICK a : a = answer
  OBVIOUS
<1>6. PICK mm : mm = m
  OBVIOUS
<1>7. \A c \in a : \E u \in known' \ known :
        c.token = u /\ c.id = player'[u].id /\ c.map = mm /\ c \in Cookie
  BY <1>2, <1>4, <1>5, <1>6 DEF Cookie
<1>8. a \in SUBSET Answers["join"]
  BY <1>1, <1>7 DEF Answers
<1>9. \A c \in a : Owned(c)'
  BY <1>4, <1>6, <1>7 DEF Owned, Joined, HomeOf
<1>10. \A c, d \in a : c = d
  BY <1>4, <1>5
<1>11. PICK r : r = Answered(net["join"][i], a)
  OBVIOUS
<1>12. /\ r.arg = mm /\ r.token \subseteq told /\ r.answer = a
  BY <1>1, <1>6, <1>11 DEF Answered, Fine
<1>13. Fine("join", r)'
  <2>1. told' = told
    BY DEF ServerOnly, jar
  <2> QED BY <1>2, <1>6, <1>9, <1>10, <1>12, <2>1 DEF Fine
<1>14. Served("join", i, a) /\ astray' = astray
  BY <1>3, <1>5 DEF ServeJoin
<1> QED BY <1>1, <1>4, <1>8, <1>11, <1>13, <1>14, AnswerKeeps

(* The state that is shown to a player contains its own dog.               *)
LEMMA OwnDogIsShown ==
  ASSUME WorldInv, NEW tokens, tokens \subseteq known
  PROVE  /\ StateOf(tokens) \subseteq Shown
         /\ \A t \in tokens : \E s \in StateOf(tokens) : s.id = player[t].id
<1>1. /\ player \in [Tokens -> Player] /\ dog \in [Tokens -> Dog]
      /\ registered \subseteq Tokens /\ known \subseteq Tokens
  BY DEF WorldInv, TypeOK
<1>2. \A u \in registered : [id |-> player[u].id, dog |-> dog[u]] \in Shown
  BY <1>1 DEF Shown, Player
<1>3. \A t \in tokens : t \in SessionMates(t)
  <2>1. \A t \in known : t \in registered
    BY MapOfPlaced DEF WorldInv, KnownArePlaced, Placed, TypeOK
  <2> QED BY <2>1 DEF SessionMates
<1>4. \A t : SessionMates(t) \subseteq registered
  BY DEF SessionMates
<1>5. StateOf(tokens) \subseteq Shown
  BY <1>2, <1>4 DEF StateOf
<1>6. ASSUME NEW t \in tokens
      PROVE  \E s \in StateOf(tokens) : s.id = player[t].id
  <2>1. t \in UNION {SessionMates(u) : u \in tokens}
    BY <1>3
  <2>2. [id |-> player[t].id, dog |-> dog[t]] \in StateOf(tokens)
    BY <2>1 DEF StateOf
  <2> QED BY <2>2
<1> QED BY <1>5, <1>6

LEMMA ServeQueryKeeps ==
  ASSUME WorldInv, PageInv, NEW k \in {"map", "state", "players"}, NEW i \in 1 .. Len(net[k]),
         ServeQuery(k, i), ServerOnly
  PROVE  PageInv'
<1>1. WorldGrows /\ UNCHANGED jar /\ astray' = astray
  BY IdleGrows DEF ServeQuery, ServerOnly, vars
<1>2. k \in Kinds /\ FineQueue(k, net[k]) /\ Fine(k, net[k][i])
  BY DEF Kinds, PageInv, NetInv, FineQueue
<1>3. PICK a : a = IF k = "state" THEN StateOf(net[k][i].token)
                   ELSE IF k = "players" THEN AllPlayers ELSE {}
  OBVIOUS
<1>4. Served(k, i, a)
  BY <1>3 DEF ServeQuery
<1>5. net[k][i].token \subseteq known
  BY <1>2 DEF Fine, PageInv, JarInv, CookiesInv, Joined
<1>6. a \in SUBSET Answers[k]
  <2>1. CASE k = "state"
    BY <1>2, <1>3, <1>5, <2>1, OwnDogIsShown DEF Answers
  <2>2. CASE k = "players"
    <3>1. AllPlayers \subseteq Nat
      BY DEF AllPlayers, WorldInv, TypeOK, Player
    <3> QED BY <1>2, <1>3, <2>2, <3>1 DEF Answers
  <2>3. CASE k = "map"
    BY <1>2, <1>3, <2>3 DEF Answers
  <2> QED BY <2>1, <2>2, <2>3
<1>7. PICK r : r = Answered(net[k][i], a)
  OBVIOUS
<1>8. r.arg = net[k][i].arg /\ r.token = net[k][i].token /\ r.answer = a
  BY <1>7 DEF Answered
<1>9. Fine(k, r)
  <2>1. ASSUME k = "state", NEW t \in r.token
        PROVE  \E s \in r.answer : s.id = player[t].id
    BY <1>3, <1>5, <1>8, <2>1, OwnDogIsShown
  <2> QED BY <1>2, <1>8, <2>1 DEF Fine
<1>10. Fine(k, r)'
  <2>1. Kept
    BY <1>1, GrowingKeepsRequests DEF PageInv, JarInv, jar
  <2> QED BY <1>2, <1>9, <2>1 DEF Kept
<1> QED BY <1>1, <1>2, <1>4, <1>6, <1>7, <1>10, AnswerKeeps

(* The queue without one action, the earlier ones being late now.          *)
LEMMA WithoutActionFacts ==
  ASSUME PageInv, NEW i \in 1 .. Len(net["action"])
  PROVE  /\ "action" \in Kinds /\ FineQueue("action", WithoutAction(i))
         /\ net["action"] # <<>>
         /\ net["action"][i].late \in BOOLEAN
<1>1. PICK q : q = net["action"]
  OBVIOUS
<1>2. "action" \in Kinds /\ FineQueue("action", q) /\ i \in 1 .. Len(q)
  BY <1>1 DEF Kinds, PageInv, NetInv
<1>3. PICK b : b = [j \in 1 .. Len(q) |-> j < i]
  OBVIOUS
<1>4. b \in [1 .. Len(q) -> BOOLEAN]
  BY <1>3
<1>5. PICK p : p = [j \in 1 .. Len(q) |-> Lagging(q[j], b[j])]
  OBVIOUS
<1>6. FineQueue("action", p) /\ Len(p) = Len(q)
  BY <1>2, <1>4, <1>5, LaggingIsFine
<1>7. p = [j \in 1 .. Len(net["action"]) |-> Lagging(net["action"][j], j < i)]
  BY <1>1, <1>3, <1>5
<1>8. FineQueue("action", RemoveAt(p, i))
  BY <1>2, <1>6, RemovedIsFine
<1>9. q \in Seq(Request(Answers["action"]))
  BY <1>2 DEF FineQueue
<1>10. q[i].late \in BOOLEAN
  <2>1. q[i] \in Request(Answers["action"])
    BY <1>2, <1>9
  <2> QED BY <2>1 DEF Request
<1>11. q # <<>>
  BY <1>2
<1> QED BY <1>1, <1>2, <1>7, <1>8, <1>10, <1>11 DEF WithoutAction

LEMMA ServeActionKeeps ==
  ASSUME PageInv, NEW i \in 1 .. Len(net["action"]), ServeAction(i), ServerOnly
  PROVE  PageInv'
<1>1. WorldGrows
  BY IdleGrows DEF ServeAction
<1>2. KeysInv'
  BY KeysRest DEF PageInv, ServerOnly
<1>3. /\ net' = [net EXCEPT !["action"] = WithoutAction(i)] /\ astray' = net["action"][i].late
      /\ UNCHANGED <<stage, chosen, jar, pageMap, me, got, state, actors>>
  BY DEF ServeAction, ServerOnly
<1> QED BY <1>1, <1>2, <1>3, WithoutActionFacts, RequestsMove

LEMMA DropKeeps ==
  ASSUME PageInv, NEW k \in Kinds, NEW i \in 1 .. Len(net[k]), Drop(k, i)
  PROVE  PageInv'
<1>1. WorldGrows
  BY IdleGrows DEF Drop, vars
<1>2. KeysInv'
  <2>1. bound.drops \in Nat
    BY PageAssumption DEF PageInv, KeysInv
  <2> QED BY <2>1 DEF PageInv, KeysInv, Drop
<1>3. PICK q : q = IF k = "action" THEN WithoutAction(i) ELSE RemoveAt(net[k], i)
  OBVIOUS
<1>4. FineQueue(k, net[k]) /\ net[k] # <<>>
  BY DEF PageInv, NetInv, FineQueue
<1>5. FineQueue(k, q)
  BY <1>3, <1>4, WithoutActionFacts, RemovedIsFine
<1>6. astray' \in BOOLEAN
  BY WithoutActionFacts DEF Drop, PageInv, ScreenInv
<1>7. /\ net' = [net EXCEPT ![k] = q]
      /\ UNCHANGED <<stage, chosen, jar, pageMap, me, got, state, actors>>
  BY <1>3 DEF Drop
<1> QED BY <1>1, <1>2, <1>4, <1>5, <1>6, <1>7, RequestsMove

-----------------------------------------------------------------------------
(***************************************************************************)
(* Answers arrive at the page.                                             *)
(***************************************************************************)
LEMMA ArrivedFacts ==
  ASSUME PageInv, NEW k \in Kinds, NEW i \in 1 .. Len(net[k])
  PROVE  \E p : /\ Arrived(k, i) = [net EXCEPT ![k] = p] /\ FineQueue(k, p) /\ net[k] # <<>>
                /\ \A j \in 1 .. Len(p) : \E m \in 1 .. Len(net[k]) : p[j].answer = net[k][m].answer
<1>1. PICK q : q = net[k]
  OBVIOUS
<1>2. FineQueue(k, q) /\ i \in 1 .. Len(q) /\ q \in Seq(Request(Answers[k])) /\ q # <<>>
  BY <1>1 DEF PageInv, NetInv, FineQueue
<1>3. PICK b : b = [j \in 1 .. Len(q) |-> q[j].served /\ j < i]
  OBVIOUS
<1>4. b \in [1 .. Len(q) -> BOOLEAN]
  BY <1>3
<1>5. PICK l : l = [j \in 1 .. Len(q) |-> Lagging(q[j], b[j])]
  OBVIOUS
<1>6. FineQueue(k, l) /\ Len(l) = Len(q)
  BY <1>2, <1>4, <1>5, LaggingIsFine
<1>7. l = [j \in 1 .. Len(net[k]) |-> Lagging(net[k][j], net[k][j].served /\ j < i)]
  BY <1>1, <1>3, <1>5
<1>8. PICK p : p = RemoveAt(l, i)
  OBVIOUS
<1>9. i \in 1 .. Len(l) /\ l \in Seq(Request(Answers[k]))
  BY <1>2, <1>6 DEF FineQueue
<1>10. FineQueue(k, p)
  BY <1>6, <1>8, <1>9, RemovedIsFine
<1>11. \A j \in 1 .. Len(p) : \E m \in 1 .. Len(l) : p[j] = l[m]
  <2>1. PICK S : S = Request(Answers[k])
    OBVIOUS
  <2>2. l \in Seq(S)
    BY <1>9, <2>1
  <2> QED BY <1>8, <1>9, <2>2, RemovedAreThere
<1>12. \A j \in 1 .. Len(q) : l[j].answer = q[j].answer
  <2>1. \A j \in 1 .. Len(q) : q[j] \in Request(Answers[k]) /\ b[j] \in BOOLEAN
    BY <1>2, <1>4
  <2> QED BY <1>5, <2>1, LaggingFacts
<1>13. \A j \in 1 .. Len(p) : \E m \in 1 .. Len(q) : p[j].answer = q[m].answer
  BY <1>6, <1>11, <1>12
<1>14. Arrived(k, i) = [net EXCEPT ![k] = p]
  BY <1>7, <1>8, Zenon DEF Arrived
<1>15. \A j \in 1 .. Len(p) : \E m \in 1 .. Len(net[k]) : p[j].answer = net[k][m].answer
  BY <1>1, <1>13
<1>16. net[k] # <<>>
  BY <1>1, <1>2
<1> QED BY <1>10, <1>14, <1>15, <1>16, Zenon

(* What no answer changes but a join.                                      *)
LEMMA PageStays ==
  ASSUME PageInv, NEW k \in Kinds, NEW i \in 1 .. Len(net[k]), net' = Arrived(k, i),
         UNCHANGED <<vars, jar, keys, drops, bound>>,
         stage' = stage \/ (~ InForm(stage) /\ ~ InForm(stage'))
  PROVE  NetInv' /\ KeysInv' /\ JarInv' /\ \A l \in Kinds : net[l] = <<>> => net'[l] = <<>>
<1>1. WorldGrows
  BY IdleGrows DEF vars
<1>2. Kept
  BY <1>1, GrowingKeepsRequests DEF PageInv, JarInv, jar
<1>3. PICK q : net' = [net EXCEPT ![k] = q] /\ FineQueue(k, q) /\ net[k] # <<>>
  BY ArrivedFacts
<1>4. NetInv'
  BY <1>2, <1>3, NetStep DEF PageInv
<1>5. \A l \in Kinds : net[l] = <<>> => net'[l] = <<>>
  BY <1>3 DEF PageInv, NetInv
<1> QED BY <1>1, <1>4, <1>5, KeysRest, JarRests DEF PageInv

-----------------------------------------------------------------------------
(***************************************************************************)
(* The cookies are set.                                                    *)
(***************************************************************************)
LEMMA TokenSet ==
  ASSUME PageInv, NEW w \in Tabs, NEW c \in Cookie, Owned(c), SetToken(w, c), UNCHANGED vars
  PROVE  CookiesInv' /\ TabsInv' /\ TornInv' /\ SetSoFar(w)'
<1>1. JoinedStay /\ \A d : Owned(d) => Owned(d)'
  BY IdleGrows, GrowingKeepsJoined DEF vars
<1>2. CookiesInv /\ TabsInv
  BY DEF PageInv, JarInv
<1>3. /\ cookies' \in [token : SUBSET Tokens, id : SUBSET Nat, map : SUBSET MapIds]
      /\ cookies'.token = {c.token} /\ cookies'.id = cookies.id /\ cookies'.map = cookies.map
  BY <1>2 DEF SetToken, CookiesInv, Cookie
<1>4. told' = told \cup {c.token} /\ \A t \in told' : Joined(t)
  BY <1>2 DEF SetToken, CookiesInv, Owned
<1>5. \A t \in told' : Joined(t)' /\ player'[t] = player[t] /\ HomeOf(t)' = HomeOf(t)
  BY <1>1, <1>4 DEF JoinedStay
<1>6. foreign' \in {"never", "earlier", "meanwhile"} /\ torn' \in BOOLEAN
  BY <1>2 DEF SetToken, SetBy, CookiesInv
<1>7. CookiesInv'
  <2>1. told' \subseteq Tokens
    BY <1>2, <1>4 DEF CookiesInv, Cookie
  <2>2. \A n \in cookies'.id : \E t \in told' : n = player'[t].id
    BY <1>2, <1>3, <1>4, <1>5 DEF CookiesInv
  <2>3. \A m \in cookies'.map : \E t \in told' : m = HomeOf(t)'
    BY <1>2, <1>3, <1>4, <1>5 DEF CookiesInv
  <2> QED BY <1>2, <1>3, <1>4, <1>5, <1>6, <2>1, <2>2, <2>3 DEF CookiesInv
<1>8. /\ callback' = [callback EXCEPT ![w] = {c}] /\ toSet' = [toSet EXCEPT ![w] = "id"]
      /\ toSet[w] = "token"
  BY DEF SetToken
<1>9. TabsInv'
  BY <1>1, <1>2, <1>4, <1>8 DEF TabsInv
<1>10. /\ callback'[w] = {c} /\ toSet'[w] = "id"
       /\ \A v \in Tabs : v # w => callback'[v] = callback[v]
  BY <1>2, <1>8 DEF TabsInv
<1>11. SetSoFar(w)'
  BY <1>3, <1>10 DEF SetSoFar
<1>12. ASSUME ~ torn'
       PROVE  \A v \in Tabs : v # w => callback'[v] = {}
  BY <1>10, <1>12 DEF SetToken
<1>13. TornInv'
  BY <1>10, <1>11, <1>12 DEF TornInv, SetSoFar
<1> QED BY <1>7, <1>9, <1>11, <1>13

(* The next two: what SetId and SetMap do to the cookies and the tabs.     *)
LEMMA NextCookie ==
  ASSUME PageInv, NEW w \in Tabs, SetId(w) \/ SetMap(w)
  PROVE  /\ CookiesInv' /\ \A d : Owned(d) => Owned(d)'
         /\ cookies'.token = cookies.token
         /\ told' = told /\ torn' = torn /\ foreign' \in {foreign, "earlier", "meanwhile"}
         /\ SetId(w) => /\ cookies'.map = cookies.map
                        /\ \A c \in callback[w] : cookies'.id = {c.id}
         /\ SetMap(w) => /\ cookies'.id = cookies.id
                         /\ \A c \in callback[w] : cookies'.map = {c.map}
<1>1. CookiesInv /\ TabsInv
  BY DEF PageInv, JarInv
<1>2. /\ told' = told /\ torn' = torn /\ UNCHANGED vars
      /\ foreign' \in {foreign, "earlier", "meanwhile"}
  BY DEF SetId, SetMap, SetBy
<1>3. JoinedStay /\ \A d : Owned(d) => Owned(d)'
  BY <1>2, IdleGrows, GrowingKeepsJoined DEF vars
<1>4. \A t \in told : Joined(t)' /\ player'[t] = player[t] /\ HomeOf(t)' = HomeOf(t)
  BY <1>1, <1>3 DEF JoinedStay, CookiesInv
<1>5. \A c \in callback[w] : /\ c \in Cookie /\ Owned(c) /\ c.token \in told
                             /\ \A d \in callback[w] : c = d
  BY <1>1 DEF TabsInv
<1>6. CASE SetId(w)
  <2>1. PICK c \in callback[w] : cookies' = [cookies EXCEPT !.id = {c.id}]
    BY <1>6 DEF SetId
  <2>2. c \in Cookie /\ c.id = player[c.token].id /\ c.token \in told
    BY <1>5 DEF Owned
  <2>3. /\ cookies' \in [token : SUBSET Tokens, id : SUBSET Nat, map : SUBSET MapIds]
        /\ cookies'.token = cookies.token /\ cookies'.id = {c.id} /\ cookies'.map = cookies.map
    BY <1>1, <2>1, <2>2 DEF CookiesInv, Cookie
  <2>4. CookiesInv'
    BY <1>1, <1>2, <1>4, <2>2, <2>3 DEF CookiesInv
  <2>5. \A d \in callback[w] : cookies'.id = {d.id}
    BY <1>5, <2>3
  <2>6. ~ SetMap(w)
    BY <1>6 DEF SetId, SetMap
  <2> QED BY <1>2, <1>3, <2>3, <2>4, <2>5, <2>6
<1>7. CASE SetMap(w)
  <2>1. PICK c \in callback[w] : cookies' = [cookies EXCEPT !.map = {c.map}]
    BY <1>7 DEF SetMap
  <2>2. c \in Cookie /\ c.map = HomeOf(c.token) /\ c.token \in told
    BY <1>5 DEF Owned
  <2>3. /\ cookies' \in [token : SUBSET Tokens, id : SUBSET Nat, map : SUBSET MapIds]
        /\ cookies'.token = cookies.token /\ cookies'.id = cookies.id /\ cookies'.map = {c.map}
    BY <1>1, <2>1, <2>2 DEF CookiesInv, Cookie
  <2>4. CookiesInv'
    BY <1>1, <1>2, <1>4, <2>2, <2>3 DEF CookiesInv
  <2>5. \A d \in callback[w] : cookies'.map = {d.map}
    BY <1>5, <2>3
  <2>6. ~ SetId(w)
    BY <1>7 DEF SetId, SetMap
  <2> QED BY <1>2, <1>3, <2>3, <2>4, <2>5, <2>6
<1> QED BY <1>6, <1>7

LEMMA IdSet ==
  ASSUME PageInv, NEW w \in Tabs, SetId(w)
  PROVE  /\ CookiesInv' /\ TabsInv' /\ TornInv'
         /\ SetSoFar(w) => SetSoFar(w)'
         /\ cookies'.id # {} /\ callback' = callback
<1>1. /\ CookiesInv' /\ \A d : Owned(d) => Owned(d)'
      /\ cookies'.token = cookies.token /\ told' = told /\ torn' = torn
      /\ \A c \in callback[w] : cookies'.id = {c.id}
  BY NextCookie
<1>2. /\ callback' = callback /\ toSet' = [toSet EXCEPT ![w] = "map"] /\ toSet[w] = "id"
  BY DEF SetId
<1>3. TabsInv
  BY DEF PageInv, JarInv
<1>4. callback[w] # {}
  BY <1>2, <1>3 DEF TabsInv
<1>5. TabsInv'
  BY <1>1, <1>2, <1>3, <1>4 DEF TabsInv
<1>6. SetSoFar(w) => SetSoFar(w)'
  BY <1>1, <1>2 DEF SetSoFar
<1>7. TornInv'
  <2> SUFFICES ASSUME ~ torn
               PROVE  /\ \A u, v \in Tabs : callback[u] # {} /\ callback[v] # {} => u = v
                      /\ \A v \in Tabs : SetSoFar(v)'
    BY <1>1, <1>2, <1>4 DEF TornInv
  <2>1. /\ \A u, v \in Tabs : callback[u] # {} /\ callback[v] # {} => u = v
        /\ SetSoFar(w)
    BY DEF PageInv, JarInv, TornInv
  <2>2. \A v \in Tabs : v # w => callback[v] = {}
    BY <1>4, <2>1
  <2>3. \A v \in Tabs : v # w => SetSoFar(v)'
    BY <1>2, <2>2 DEF SetSoFar
  <2> QED BY <1>6, <2>1, <2>3
<1> QED BY <1>1, <1>2, <1>4, <1>5, <1>6, <1>7

LEMMA MapSet ==
  ASSUME PageInv, NEW w \in Tabs, SetMap(w)
  PROVE  /\ CookiesInv' /\ TabsInv' /\ TornInv'
         /\ SetSoFar(w) => AllSet'
         /\ cookies'.map # {} /\ callback'[w] = {} /\ toSet'[w] = "token"
         /\ \A v \in Tabs : v # w => callback'[v] = callback[v] /\ toSet'[v] = toSet[v]
<1>1. /\ CookiesInv' /\ \A d : Owned(d) => Owned(d)'
      /\ cookies'.token = cookies.token /\ cookies'.id = cookies.id
      /\ told' = told /\ torn' = torn
      /\ \A c \in callback[w] : cookies'.map = {c.map}
  BY NextCookie
<1>2. TabsInv
  BY DEF PageInv, JarInv
<1>3. /\ callback' = [callback EXCEPT ![w] = {}] /\ toSet' = [toSet EXCEPT ![w] = "token"]
      /\ toSet[w] = "map"
  BY DEF SetMap
<1>4. /\ callback'[w] = {} /\ toSet'[w] = "token"
      /\ \A v \in Tabs : v # w => callback'[v] = callback[v] /\ toSet'[v] = toSet[v]
  BY <1>2, <1>3 DEF TabsInv
<1>5. TabsInv'
  BY <1>1, <1>2, <1>3, <1>4 DEF TabsInv
<1>6. PICK c \in callback[w] : TRUE
  BY <1>2, <1>3 DEF TabsInv
<1>7. Owned(c) /\ c.token \in told
  BY <1>2 DEF TabsInv
<1>8. ASSUME SetSoFar(w)
      PROVE  AllSet'
  <2>1. cookies'.token = {c.token} /\ cookies'.id = {c.id} /\ cookies'.map = {c.map}
    <3>1. c \in callback[w] /\ toSet[w] = "map"
      BY <1>3, <1>6
    <3>2. cookies.token = {c.token}
      BY <1>8, <3>1 DEF SetSoFar
    <3>3. cookies.id = {c.id}
      BY <1>8, <3>1 DEF SetSoFar
    <3> QED BY <1>1, <3>1, <3>2, <3>3
  <2>2. c.id = player'[c.token].id /\ c.map = HomeOf(c.token)'
    BY <1>1, <1>7 DEF Owned
  <2>3. cookies' = [token |-> {c.token}, id |-> {c.id}, map |-> {c.map}]
    <3>1. cookies' \in [token : SUBSET Tokens, id : SUBSET Nat, map : SUBSET MapIds]
      BY <1>1 DEF CookiesInv
    <3> QED BY <2>1, <3>1
  <2>4. CookiesOf(c.token)'
    BY <2>2, <2>3 DEF CookiesOf, HomeOf
  <2> QED BY <1>1, <1>7, <2>4 DEF AllSet
<1>9. TornInv'
  <2> SUFFICES ASSUME ~ torn
               PROVE  /\ \A u, v \in Tabs : callback'[u] # {} /\ callback'[v] # {} => u = v
                      /\ \A v \in Tabs : SetSoFar(v)'
                      /\ AllSet'
    BY <1>1 DEF TornInv
  <2>1. /\ \A u, v \in Tabs : callback[u] # {} /\ callback[v] # {} => u = v
        /\ SetSoFar(w)
    BY DEF PageInv, JarInv, TornInv
  <2>2. \A v \in Tabs : callback'[v] = {}
    BY <1>4, <1>6, <2>1
  <2>3. \A v \in Tabs : SetSoFar(v)'
    BY <2>2 DEF SetSoFar
  <2> QED BY <1>8, <2>1, <2>2, <2>3
<1> QED BY <1>1, <1>4, <1>5, <1>6, <1>8, <1>9

(* Requests on their way while a cookie is set.                            *)
LEMMA NetWhileSetting ==
  ASSUME PageInv, UNCHANGED vars, told \subseteq told',
         foreign' = "meanwhile" \/ InForm(stage),
         NEW q, FineQueue("join", q), DOMAIN net' = Kinds, net'["join"] = q,
         \A l \in Kinds : l # "join" => net'[l] = net[l]
  PROVE  NetInv'
<1>1. WorldGrows
  BY IdleGrows DEF vars
<1>2. ASSUME NEW l \in Kinds
      PROVE  FineQueue(l, net[l])'
  <2>1. PICK p : p = net'[l]
    OBVIOUS
  <2>2. FineQueue(l, p)
    BY <2>1 DEF PageInv, NetInv
  <2>3. p \in Seq(Request(Answers[l])) /\ \A i \in 1 .. Len(p) : Fine(l, p[i])
    BY <2>2 DEF FineQueue
  <2>4. \A i \in 1 .. Len(p) : Fine(l, p[i])'
    <3>1. CASE l = "join"
      <4>1. ASSUME NEW i \in 1 .. Len(p)
            PROVE  Fine(l, p[i])'
        <5>1. PICK r : r = p[i]
          OBVIOUS
        <5>2. Fine("join", r)'
          BY <1>1, <2>3, <3>1, <5>1, GrowingKeepsJoins
        <5> QED BY <3>1, <5>1, <5>2
      <4> QED BY <4>1
    <3>2. CASE l # "join" /\ foreign' = "meanwhile"
      <4>1. Kept
        BY <1>1, <3>2, GrowingKeepsRequests DEF PageInv, JarInv
      <4>2. ASSUME NEW i \in 1 .. Len(p)
            PROVE  Fine(l, p[i])'
        <5>1. PICK r : r = p[i]
          OBVIOUS
        <5>2. Fine(l, r)'
          BY <2>3, <4>1, <5>1 DEF Kept
        <5> QED BY <5>1, <5>2
      <4> QED BY <4>2
    <3>3. CASE l # "join" /\ InForm(stage)
      <4>1. p = <<>>
        BY <2>1, <3>3 DEF PageInv, StagesInv, Kinds
      <4> QED BY <4>1
    <3> QED BY <3>1, <3>2, <3>3
  <2> QED BY <2>1, <2>3, <2>4 DEF FineQueue
<1> QED BY <1>2 DEF NetInv

(* Nothing of the game is on the screen yet.                               *)
LEMMA ScreenInForm ==
  ASSUME PageInv, InForm(stage), stage' \notin {"loaded", "asking", "playing"},
         chosen' \in MapIds \cup {NoMap}, UNCHANGED <<pageMap, me, got, state, actors, astray>>
  PROVE  ScreenInv'
BY DEF PageInv, StagesInv, ScreenInv

LEMMA JoinDoneKeeps ==
  ASSUME PageInv, NEW i \in 1 .. Len(net["join"]), JoinDone(i),
         UNCHANGED <<vars, chosen, keys, astray, drops, bound>>
  PROVE  PageInv'
<1>1. "join" \in Kinds /\ FineQueue("join", net["join"]) /\ ThisTab \in Tabs
  BY DEF Kinds, PageInv, NetInv, Tabs
<1>2. stage = "form" /\ net' = Arrived("join", i) /\ UNCHANGED <<pageMap, me, got, state, actors>>
  BY DEF JoinDone
<1>3. CASE /\ \E c \in net["join"][i].answer : SetToken(ThisTab, CookieOf(c))
           /\ stage' = "setting"
  <2>1. PICK c \in net["join"][i].answer : SetToken(ThisTab, c)
    BY <1>3 DEF CookieOf
  <2>2. c \in Cookie /\ Owned(c)
    <3>1. net["join"][i] \in Request(Cookie) /\ Fine("join", net["join"][i])
      BY <1>1 DEF FineQueue, Answers
    <3> QED BY <3>1 DEF Request, Fine
  <2>3. CookiesInv' /\ TabsInv' /\ TornInv' /\ SetSoFar(ThisTab)'
    BY <1>1, <2>1, <2>2, TokenSet
  <2>4. /\ told \subseteq told' /\ callback' = [callback EXCEPT ![ThisTab] = {c}]
        /\ toSet' = [toSet EXCEPT ![ThisTab] = "id"]
    BY <2>1 DEF SetToken
  <2>5. callback'[ThisTab] # {} /\ toSet'[ThisTab] # "map"
    BY <1>1, <2>4 DEF PageInv, JarInv, TabsInv
  <2>6. MineInv'
    BY <1>3, <2>3, <2>5 DEF MineInv, InForm
  <2>7. PICK p : net' = [net EXCEPT !["join"] = p] /\ FineQueue("join", p)
    BY <1>1, <1>2, ArrivedFacts
  <2>8. /\ DOMAIN net' = Kinds /\ net'["join"] = p
        /\ \A l \in Kinds : l # "join" => net'[l] = net[l]
    BY <1>1, <2>7 DEF PageInv, NetInv
  <2>9. NetInv'
    BY <1>2, <2>4, <2>7, <2>8, NetWhileSetting DEF InForm
  <2>10. StagesInv'
    BY <1>2, <1>3, <2>8 DEF PageInv, StagesInv, Kinds, InForm
  <2>11. ScreenInv'
    BY <1>2, <1>3, ScreenInForm DEF PageInv, ScreenInv, InForm
  <2> QED BY <2>3, <2>6, <2>9, <2>10, <2>11, KeysRest DEF PageInv, JarInv
<1>4. CASE UNCHANGED <<jar, stage>>
  <2>1. NetInv' /\ KeysInv' /\ JarInv' /\ \A l \in Kinds : net[l] = <<>> => net'[l] = <<>>
    BY <1>1, <1>2, <1>4, PageStays
  <2>2. StagesInv'
    BY <1>2, <1>4, <2>1 DEF PageInv, StagesInv, Kinds, InForm
  <2>3. ScreenInv'
    BY <1>2, <1>4, ScreenInForm DEF PageInv, ScreenInv, InForm
  <2> QED BY <2>1, <2>2, <2>3 DEF PageInv
<1> QED BY <1>3, <1>4 DEF JoinDone

(* This tab goes on with its callback.                                     *)
LEMMA ThisSetsKeeps ==
  ASSUME PageInv, SetId(ThisTab) \/ SetMap(ThisTab)
  PROVE  PageInv'
<1>1. ThisTab \in Tabs /\ "join" \in Kinds
  BY DEF Tabs, Kinds
<1>2. /\ UNCHANGED <<vars, pageMap, me, got, state, actors, keys, astray, drops, bound>>
      /\ told' = told /\ foreign' = foreign
  BY DEF SetId, SetMap, SetBy
<1>3. stage = "setting"
  BY <1>1 DEF SetId, SetMap, PageInv, JarInv, TabsInv, MineInv
<1>4. foreign # "meanwhile" => SetSoFar(ThisTab)
  BY DEF PageInv, JarInv, MineInv
<1>5. CASE SetId(ThisTab)
  <2>1. /\ CookiesInv' /\ TabsInv' /\ TornInv'
        /\ SetSoFar(ThisTab) => SetSoFar(ThisTab)'
        /\ cookies'.id # {} /\ callback' = callback
    BY <1>1, <1>5, IdSet
  <2>2. UNCHANGED <<stage, chosen, net>>
    BY <1>5 DEF SetId
  <2>3. MineInv'
    BY <1>2, <1>3, <1>4, <2>1, <2>2 DEF PageInv, JarInv, MineInv, InForm
  <2>4. NetInv'
    <3>1. FineQueue("join", net["join"]) /\ DOMAIN net' = Kinds /\ net'["join"] = net["join"]
      BY <1>1, <2>2 DEF PageInv, NetInv
    <3> QED BY <1>2, <1>3, <2>2, <3>1, NetWhileSetting DEF InForm
  <2>5. StagesInv'
    BY <1>2, <2>2 DEF PageInv, StagesInv
  <2>6. ScreenInv'
    BY <1>2, <1>3, <2>2, ScreenInForm DEF PageInv, ScreenInv, InForm
  <2> QED BY <1>2, <2>1, <2>3, <2>4, <2>5, <2>6, KeysRest DEF PageInv, JarInv
<1>6. CASE SetMap(ThisTab)
  <2>1. /\ CookiesInv' /\ TabsInv' /\ TornInv'
        /\ SetSoFar(ThisTab) => AllSet'
        /\ cookies'.map # {} /\ callback'[ThisTab] = {} /\ toSet'[ThisTab] = "token"
    BY <1>1, <1>6, MapSet
  <2>2. stage' = "opening" /\ chosen' = NoMap /\ net' = [net EXCEPT !["join"] = <<>>]
    BY <1>6 DEF SetMap
  <2>3. cookies'.token = cookies.token /\ cookies'.id = cookies.id
    BY <1>1, <1>6, NextCookie
  <2>4. cookies.token # {} /\ cookies.id # {}
    <3>1. PICK c \in callback[ThisTab] : TRUE
      BY <1>6 DEF SetMap
    <3>2. c.token \in told
      BY <1>1 DEF PageInv, JarInv, TabsInv
    <3>3. toSet[ThisTab] = "map"
      BY <1>6 DEF SetMap
    <3> QED BY <3>2, <3>3 DEF PageInv, JarInv, CookiesInv, MineInv
  <2>5. SetSoFar(ThisTab)'
    BY <2>1 DEF SetSoFar
  <2>6. MineInv'
    BY <1>2, <1>4, <2>1, <2>2, <2>3, <2>4, <2>5 DEF MineInv, InForm
  <2>7. /\ DOMAIN net' = Kinds /\ net'["join"] = <<>>
        /\ \A l \in Kinds : l # "join" => net'[l] = net[l]
    BY <1>1, <2>2 DEF PageInv, NetInv
  <2>8. NetInv'
    <3>1. FineQueue("join", <<>>)
      BY DEF FineQueue
    <3> QED BY <1>2, <1>3, <2>7, <3>1, NetWhileSetting DEF InForm
  <2>9. StagesInv'
    BY <1>2, <1>3, <2>2, <2>7 DEF PageInv, StagesInv, Kinds, InForm
  <2>10. ScreenInv'
    BY <1>2, <1>3, <2>2, ScreenInForm DEF InForm
  <2> QED BY <1>2, <2>1, <2>6, <2>8, <2>9, <2>10, KeysRest DEF PageInv, JarInv
<1> QED BY <1>5, <1>6

LEMMA MapDoneKeeps ==
  ASSUME PageInv, NEW i \in 1 .. Len(net["map"]), MapDone(i),
         UNCHANGED <<vars, chosen, keys, astray, drops, bound>>
  PROVE  PageInv'
<1>1. "map" \in Kinds /\ FineQueue("map", net["map"]) /\ Fine("map", net["map"][i])
  BY DEF Kinds, PageInv, NetInv, FineQueue
<1>2. ~ InForm(stage) /\ ~ InForm(stage')
  <2>1. net["map"] # <<>>
    BY <1>1 DEF FineQueue
  <2> QED BY <2>1 DEF PageInv, StagesInv, MapDone, InForm
<1>3. NetInv' /\ KeysInv' /\ JarInv' /\ \A l \in Kinds : net[l] = <<>> => net'[l] = <<>>
  BY <1>1, <1>2, PageStays DEF MapDone
<1>4. StagesInv'
  BY <1>2, <1>3 DEF PageInv, StagesInv, MapDone, Kinds, InForm
<1>5. me' \in cookies.id
  BY DEF MapDone
<1>6. /\ me' \in Nat /\ \A n \in cookies.id : n = me'
      /\ \E t \in told : me' = player[t].id
  BY <1>5 DEF PageInv, JarInv, CookiesInv
<1>7. /\ pageMap' \in MapIds /\ \E t \in told : pageMap' = HomeOf(t)
      /\ foreign # "meanwhile" => pageMap' \in cookies.map
  BY <1>1 DEF MapDone, Fine
<1>8. \A t \in told : player'[t] = player[t] /\ HomeOf(t)' = HomeOf(t)
  BY DEF vars, HomeOf
<1>9. UNCHANGED <<cookies, foreign, told, got, state, actors>> /\ stage' = "loaded"
  BY DEF MapDone, jar
<1>10. ASSUME foreign # "meanwhile", "state" \in got
       PROVE  me' = me
  BY <1>2, <1>6, <1>10 DEF PageInv, ScreenInv, StagesInv, InForm
<1>11. ScreenInv'
  BY <1>5, <1>6, <1>7, <1>8, <1>9, <1>10 DEF PageInv, ScreenInv
<1> QED BY <1>3, <1>4, <1>11 DEF PageInv

(* One of the first two answers came before GameState started, or later.   *)
LEMMA StageAfterFacts ==
  ASSUME PageInv, NEW k \in {"state", "players"}, net[k] # <<>>
  PROVE  /\ k \in Kinds
         /\ stage \in {"loaded", "asking", "playing"}
         /\ StageAfter(k) \in {"loaded", "asking", "playing"}
         /\ ~ InForm(stage) /\ ~ InForm(StageAfter(k))
BY DEF PageInv, StagesInv, StageAfter, Kinds, InForm

LEMMA StateDoneKeeps ==
  ASSUME PageInv, NEW i \in 1 .. Len(net["state"]), net["state"][i].served, StateDone(i),
         UNCHANGED <<vars, chosen, keys, astray, drops, bound>>
  PROVE  PageInv'
<1>1. /\ "state" \in Kinds /\ FineQueue("state", net["state"])
      /\ Fine("state", net["state"][i]) /\ net["state"] # <<>>
      /\ net["state"][i].answer \subseteq Shown
  <2>1. "state" \in Kinds /\ FineQueue("state", net["state"])
    BY DEF Kinds, PageInv, NetInv
  <2>2. net["state"][i] \in Request(Shown) /\ net["state"] # <<>> /\ Fine("state", net["state"][i])
    BY <2>1 DEF FineQueue, Answers
  <2> QED BY <2>1, <2>2 DEF Request
<1>2. /\ stage \in {"loaded", "asking", "playing"} /\ stage' \in {"loaded", "asking", "playing"}
      /\ ~ InForm(stage) /\ ~ InForm(stage')
  BY <1>1, StageAfterFacts DEF StateDone
<1>3. NetInv' /\ KeysInv' /\ JarInv' /\ \A l \in Kinds : net[l] = <<>> => net'[l] = <<>>
  BY <1>1, <1>2, PageStays DEF StateDone
<1>4. StagesInv'
  BY <1>2, <1>3 DEF PageInv, StagesInv, StateDone, Kinds, InForm
<1>5. PICK r : r = net["state"][i]
  OBVIOUS
<1>6. /\ r.token # {} /\ r.token \subseteq told /\ state' = r.answer
      /\ \A t \in r.token : \E s \in r.answer : s.id = player[t].id
  BY <1>1, <1>5 DEF Fine, StateDone
<1>7. \E s \in state' : \E t \in told : s.id = player[t].id
  BY <1>6
<1>8. ASSUME foreign # "meanwhile"
      PROVE  \E s \in state' : s.id = me
  <2>1. PICK t \in told : CookiesOf(t)
    BY <1>2, <1>8 DEF PageInv, JarInv, MineInv, AllSet
  <2>2. r.token = {t} /\ me = player[t].id
    <3>1. cookies.token = {t} /\ cookies.id = {player[t].id}
      BY <2>1 DEF CookiesOf
    <3> QED BY <1>1, <1>2, <1>5, <1>8, <3>1 DEF PageInv, ScreenInv, Fine
  <2> QED BY <1>6, <2>2
<1>9. \A t \in told : player'[t] = player[t] /\ HomeOf(t)' = HomeOf(t)
  BY DEF vars, HomeOf
<1>10. UNCHANGED <<cookies, foreign, told, pageMap, me, actors>> /\ got' = got \cup {"state"}
  BY DEF StateDone, jar
<1>11. ScreenInv'
  <2>1. state' \subseteq Shown /\ got' \subseteq {"state", "players"}
    BY <1>1, <1>5, <1>6, <1>10 DEF PageInv, ScreenInv
  <2> QED BY <1>2, <1>7, <1>8, <1>9, <1>10, <2>1 DEF PageInv, ScreenInv
<1> QED BY <1>3, <1>4, <1>11 DEF PageInv

LEMMA PlayersDoneKeeps ==
  ASSUME PageInv, NEW i \in 1 .. Len(net["players"]), PlayersDone(i),
         UNCHANGED <<vars, chosen, keys, astray, drops, bound>>
  PROVE  PageInv'
<1>1. /\ "players" \in Kinds /\ net["players"] # <<>> /\ net["players"][i].answer \subseteq Nat
  <2>1. "players" \in Kinds /\ FineQueue("players", net["players"])
    BY DEF Kinds, PageInv, NetInv
  <2>2. net["players"][i] \in Request(Nat) /\ net["players"] # <<>>
    BY <2>1 DEF FineQueue, Answers
  <2> QED BY <2>1, <2>2 DEF Request
<1>2. /\ stage \in {"loaded", "asking", "playing"} /\ stage' \in {"loaded", "asking", "playing"}
      /\ ~ InForm(stage) /\ ~ InForm(stage')
  BY <1>1, StageAfterFacts DEF PlayersDone
<1>3. NetInv' /\ KeysInv' /\ JarInv' /\ \A l \in Kinds : net[l] = <<>> => net'[l] = <<>>
  BY <1>1, <1>2, PageStays DEF PlayersDone
<1>4. StagesInv'
  BY <1>2, <1>3 DEF PageInv, StagesInv, PlayersDone, Kinds, InForm
<1>5. \A t \in told : player'[t] = player[t] /\ HomeOf(t)' = HomeOf(t)
  BY DEF vars, HomeOf
<1>6. /\ UNCHANGED <<cookies, foreign, told, pageMap, me, state>> /\ got' = got \cup {"players"}
      /\ actors' \subseteq Nat
  BY <1>1 DEF PlayersDone, UpdatedPlayers, jar
<1>7. ScreenInv'
  BY <1>2, <1>5, <1>6 DEF PageInv, ScreenInv
<1> QED BY <1>3, <1>4, <1>7 DEF PageInv

LEMMA DoneKeeps ==
  ASSUME PageInv, NEW k \in Kinds, NEW i \in 1 .. Len(net[k]), Done(k, i)
  PROVE  PageInv'
<1>1. net[k][i].served /\ UNCHANGED <<vars, chosen, keys, astray, drops, bound>>
  BY DEF Done
<1>2. \/ k = "join" /\ JoinDone(i)
      \/ k = "map" /\ MapDone(i)
      \/ k = "state" /\ StateDone(i)
      \/ k = "players" /\ PlayersDone(i)
  BY DEF Done
<1> QED BY <1>1, <1>2, JoinDoneKeeps, MapDoneKeeps, StateDoneKeeps, PlayersDoneKeeps

-----------------------------------------------------------------------------
(***************************************************************************)
(* Other players and other tabs.                                           *)
(***************************************************************************)
LEMMA OthersGrow ==
  ASSUME WorldInv, OthersPlay
  PROVE  WorldGrows
<1>1. ASSUME NEW t \in Tokens, NEW code \in Codes, NEW id \in MapIds, JoinGame(id, t, code)
      PROVE  WorldGrows
  BY <1>1, JoinGrows
<1>2. ASSUME OnTick \/ UNCHANGED <<sessions, registered, player, counter, tick, up, known>>
      PROVE  WorldGrows
  BY <1>2, IdleGrows DEF OnTick
<1> QED BY <1>1, <1>2 DEF OthersPlay

LEMMA OthersPlayKeeps ==
  ASSUME WorldInv, PageInv, OthersPlay
  PROVE  PageInv'
<1>1. WorldGrows /\ UNCHANGED <<stage, chosen, jar, pageMap, me, got, state, actors, keys, net,
                                astray, drops, bound>>
  BY OthersGrow DEF OthersPlay, pageVars
<1>2. Kept
  BY <1>1, GrowingKeepsRequests DEF PageInv, JarInv, jar
<1>3. NetInv' /\ KeysInv'
  BY <1>1, <1>2, NetRests, KeysRest DEF PageInv
<1>4. JarInv' /\ ScreenInv'
  BY <1>1, JarRests, ScreenRests DEF PageInv, JarInv, jar, ScreenInv
<1>5. StagesInv'
  BY <1>1 DEF PageInv, StagesInv
<1> QED BY <1>3, <1>4, <1>5 DEF PageInv

(* Another tab sets a cookie, while this one is in the form or meanwhile.  *)
LEMMA OtherSets ==
  ASSUME PageInv, NEW w \in OtherTabs, UNCHANGED vars, CookiesInv', TabsInv', TornInv',
         SetBy(w), told \subseteq told',
         UNCHANGED <<stage, chosen, pageMap, me, got, state, actors, keys, net, astray,
                     drops, bound>>,
         callback'[ThisTab] = callback[ThisTab], toSet'[ThisTab] = toSet[ThisTab],
         cookies.token # {} => cookies'.token # {}, cookies.id # {} => cookies'.id # {},
         cookies.map # {} => cookies'.map # {}
  PROVE  PageInv'
<1>1. foreign' = "meanwhile" \/ (stage = "form" /\ foreign' = "earlier")
  BY PageAssumption DEF SetBy
<1>2. callback[ThisTab] = {} <=> stage # "setting"
  BY DEF PageInv, JarInv, MineInv
<1>3. MineInv'
  <2>1. stage = "form" => SetSoFar(ThisTab)'
    BY <1>2 DEF SetSoFar
  <2> QED BY <1>1, <1>2, <2>1 DEF PageInv, JarInv, MineInv, InForm
<1>4. NetInv'
  <2>1. /\ "join" \in Kinds /\ FineQueue("join", net["join"]) /\ DOMAIN net' = Kinds
        /\ net'["join"] = net["join"]
    BY DEF PageInv, NetInv, Kinds
  <2> QED BY <1>1, <2>1, NetWhileSetting DEF InForm
<1>5. StagesInv' /\ KeysInv'
  BY KeysRest DEF PageInv, StagesInv
<1>6. ScreenInv'
  <2>1. CASE foreign' = "meanwhile"
    <3>1. WorldGrows
      BY IdleGrows DEF vars
    <3> QED BY <2>1, <3>1, ScreenRests DEF PageInv, JarInv, ScreenInv
  <2>2. CASE stage = "form"
    BY <2>2, ScreenInForm DEF InForm, PageInv, ScreenInv
  <2> QED BY <1>1, <2>1, <2>2
<1> QED BY <1>3, <1>4, <1>5, <1>6 DEF PageInv, JarInv

LEMMA OtherTabKeeps ==
  ASSUME WorldInv, PageInv, NEW w \in OtherTabs, OtherTabJoins(w) \/ SetId(w) \/ SetMap(w)
  PROVE  PageInv'
<1>1. w \in Tabs /\ w # ThisTab /\ ThisTab \in Tabs
  BY PageAssumption DEF Tabs
<1>2. TabsInv /\ CookiesInv
  BY DEF PageInv, JarInv
<1>3. CASE OtherTabJoins(w)
  <2>1. PICK t \in known \ OwnTokens :
          SetToken(w, [token |-> t, id |-> player[t].id, map |-> MapOf(t)])
    BY <1>3 DEF OtherTabJoins
  <2>2. PICK c : c = [token |-> t, id |-> player[t].id, map |-> MapOf(t)]
    OBVIOUS
  <2>3. t \in Tokens /\ player[t].id \in Nat
    BY DEF WorldInv, TypeOK, Player
  <2>4. PICK j \in 1 .. Len(sessions) : InSession(j, t)
    BY DEF WorldInv, KnownArePlaced, Placed
  <2>5. MapOf(t) = sessions[j].map /\ player[t].session = j /\ t \in registered
    BY <2>3, <2>4, MapOfPlaced DEF WorldInv
  <2>6. sessions[j].map \in MapIds
    <3>1. sessions[j] \in Session
      BY <2>4 DEF WorldInv, TypeOK
    <3> QED BY <3>1 DEF Session
  <2>7. c \in Cookie /\ Owned(c)
    BY <2>2, <2>3, <2>5, <2>6 DEF Cookie, Owned, Joined, HomeOf
  <2>8. SetToken(w, c) /\ UNCHANGED vars
    BY <1>3, <2>1, <2>2 DEF OtherTabJoins
  <2>9. CookiesInv' /\ TabsInv' /\ TornInv'
    BY <1>1, <2>7, <2>8, TokenSet
  <2>10. /\ SetBy(w) /\ told \subseteq told' /\ callback' = [callback EXCEPT ![w] = {c}]
         /\ toSet' = [toSet EXCEPT ![w] = "id"]
         /\ cookies' = [cookies EXCEPT !.token = {c.token}]
    BY <2>8 DEF SetToken
  <2>11. /\ callback'[ThisTab] = callback[ThisTab] /\ toSet'[ThisTab] = toSet[ThisTab]
         /\ cookies'.token # {} /\ cookies'.id = cookies.id /\ cookies'.map = cookies.map
    BY <1>1, <1>2, <2>10 DEF TabsInv, CookiesInv
  <2>12. UNCHANGED <<stage, chosen, pageMap, me, got, state, actors, keys, net, astray,
                     drops, bound>>
    BY <1>3 DEF OtherTabJoins
  <2> QED BY <2>8, <2>9, <2>10, <2>11, <2>12, OtherSets
<1>4. CASE SetId(w)
  <2>1. /\ CookiesInv' /\ TabsInv' /\ TornInv' /\ cookies'.id # {} /\ callback' = callback
    BY <1>1, <1>4, IdSet
  <2>2. cookies'.token = cookies.token /\ cookies'.map = cookies.map /\ told' = told
    BY <1>1, <1>4, NextCookie
  <2>3. toSet'[ThisTab] = toSet[ThisTab]
    BY <1>1, <1>2, <1>4 DEF SetId, TabsInv
  <2>4. /\ UNCHANGED vars /\ SetBy(w)
        /\ UNCHANGED <<stage, chosen, pageMap, me, got, state, actors, keys, net, astray,
                       drops, bound>>
    BY <1>4 DEF SetId
  <2> QED BY <2>1, <2>2, <2>3, <2>4, OtherSets
<1>5. CASE SetMap(w)
  <2>1. /\ CookiesInv' /\ TabsInv' /\ TornInv' /\ cookies'.map # {}
        /\ \A v \in Tabs : v # w => callback'[v] = callback[v] /\ toSet'[v] = toSet[v]
    BY <1>1, <1>5, MapSet
  <2>2. cookies'.token = cookies.token /\ cookies'.id = cookies.id /\ told' = told
    BY <1>1, <1>5, NextCookie
  <2>3. /\ UNCHANGED vars /\ SetBy(w)
        /\ UNCHANGED <<stage, chosen, pageMap, me, got, state, actors, keys, net, astray,
                       drops, bound>>
    BY <1>1, <1>5 DEF SetMap
  <2>4. callback'[ThisTab] = callback[ThisTab] /\ toSet'[ThisTab] = toSet[ThisTab]
    BY <1>1, <2>1
  <2> QED BY <2>1, <2>2, <2>3, <2>4, OtherSets
<1> QED BY <1>3, <1>4, <1>5

-----------------------------------------------------------------------------
(***************************************************************************)
(* The page and the game world together.                                   *)
(***************************************************************************)
LEMMA ServeKeeps ==
  ASSUME WorldInv, PageInv, NEW k \in Kinds, NEW i \in 1 .. Len(net[k]), Serve(k, i)
  PROVE  PageInv'
<1>1. ServerOnly
  BY DEF Serve
<1>2. \/ k = "join" /\ ServeJoin(i)
      \/ k \in {"map", "state", "players"} /\ ServeQuery(k, i)
      \/ k = "action" /\ ServeAction(i)
  BY DEF Serve
<1> QED BY <1>1, <1>2, ServeJoinKeeps, ServeQueryKeeps, ServeActionKeeps

LEMMA PageNextKeeps ==
  ASSUME WorldInv, PageInv, [PageNext]_allVars
  PROVE  PageInv'
<1>1. CASE UNCHANGED allVars
  <2>1. WorldGrows /\ UNCHANGED <<stage, chosen, jar, pageMap, me, got, state, actors, keys, net,
                                  astray, drops, bound>>
    BY <1>1, IdleGrows DEF allVars, vars, pageVars
  <2>2. Kept
    BY <2>1, GrowingKeepsRequests DEF PageInv, JarInv, jar
  <2>3. NetInv' /\ KeysInv'
    BY <2>1, <2>2, NetRests, KeysRest DEF PageInv
  <2>4. JarInv' /\ ScreenInv'
    BY <2>1, JarRests, ScreenRests DEF PageInv, JarInv, jar, ScreenInv
  <2>5. StagesInv'
    BY <2>1 DEF PageInv, StagesInv
  <2> QED BY <2>3, <2>4, <2>5 DEF PageInv
<1>2. CASE PageNext
  <2>1. ASSUME NEW m \in MapIds, Choose(m) PROVE PageInv'
    BY <2>1, ChooseKeeps
  <2>2. ASSUME Submit \/ OpenGame \/ ConstructGameState PROVE PageInv'
    BY <2>2, SubmitKeeps, OpenGameKeeps, ConstructKeeps
  <2>3. ASSUME NEW k \in Kinds, Poll(k) PROVE PageInv'
    BY <2>3, PollKeeps
  <2>4. ASSUME NEW key \in bound.keys, KeyDown(key) \/ KeyUp(key) PROVE PageInv'
    BY <2>4, KeysKeep
  <2>5. ASSUME NEW k \in Kinds, NEW i \in 1 .. Len(net[k]), Serve(k, i) \/ Done(k, i) \/ Drop(k, i)
        PROVE  PageInv'
    BY <2>5, ServeKeeps, DoneKeeps, DropKeeps
  <2>6. ASSUME OthersPlay PROVE PageInv'
    BY <2>6, OthersPlayKeeps
  <2>7. ASSUME NEW w \in OtherTabs, OtherTabJoins(w) PROVE PageInv'
    BY <2>7, OtherTabKeeps
  <2>8. ASSUME NEW w \in Tabs, SetId(w) \/ SetMap(w) PROVE PageInv'
    <3>1. w = ThisTab \/ w \in OtherTabs
      BY DEF Tabs
    <3> QED BY <2>8, <3>1, ThisSetsKeeps, OtherTabKeeps
  <2> QED BY <1>2, <2>1, <2>2, <2>3, <2>4, <2>5, <2>6, <2>7, <2>8 DEF PageNext
<1> QED BY <1>1, <1>2

LEMMA PageInitInv == PageInit => PageInv
<1> SUFFICES ASSUME PageInit PROVE PageInv
  OBVIOUS
<1>1. NetInv
  <2>1. DOMAIN net = Kinds /\ \A k \in Kinds : net[k] = <<>>
    BY DEF PageInit
  <2>2. ASSUME NEW k \in Kinds
        PROVE  FineQueue(k, net[k])
    <3>1. net[k] = <<>>
      BY <2>1
    <3> QED BY <3>1 DEF FineQueue
  <2> QED BY <2>1, <2>2 DEF NetInv
<1>2. KeysInv
  <2>1. keys = <<>> /\ drops = 0 /\ bound \in Bounds
    BY DEF PageInit
  <2>2. bound \in Bounds
    BY <2>1
  <2>3. bound.drops \in Nat
    BY <2>2, BoundFacts
  <2> QED BY <2>1, <2>3 DEF KeysInv, IsInjective
<1>3. StagesInv
  BY DEF PageInit, StagesInv, Kinds, InForm
<1>4. cookies = [token |-> {}, id |-> {}, map |-> {}]
      /\ callback = [w \in Tabs |-> {}] /\ toSet = [w \in Tabs |-> "token"]
      /\ told = {} /\ foreign = "never" /\ torn = FALSE /\ stage = "form"
  BY DEF PageInit
<1>5. CookiesInv /\ TabsInv
  BY <1>4 DEF CookiesInv, TabsInv
<1>8. ScreenInv
  BY DEF PageInit, ScreenInv
<1>6. /\ ThisTab \in Tabs /\ \A w \in Tabs : callback[w] = {} /\ toSet[w] = "token"
      /\ \A w \in Tabs : SetSoFar(w)
  BY <1>4 DEF Tabs, SetSoFar
<1>7. TornInv /\ MineInv
  BY <1>4, <1>6 DEF TornInv, MineInv, InForm
<1> QED BY <1>1, <1>2, <1>3, <1>5, <1>7, <1>8 DEF PageInv, JarInv

(* What one request does to the server is what one client may do.          *)
LEMMA ClientsJoin ==
  ASSUME up, NEW id \in MapIds, NEW t \in Tokens, NEW code \in Codes, JoinGame(id, t, code)
  PROVE  Next
BY DEF Next, HandlePlayerJoinRequest

LEMMA ClientsAct ==
  ASSUME WorldInv, NEW a \in known, NEW dir \in Directions, SetDogDirection(a, dir),
         UNCHANGED <<sessions, registered, player, counter, tick, up, known>>
  PROVE  Next
<1>1. a \in registered
  BY MapOfPlaced DEF WorldInv, KnownArePlaced, Placed, TypeOK
<1>2. HandleActionRequest(a, 200)
  BY <1>1 DEF HandleActionRequest
<1>3. a \in Credentials /\ 200 \in Codes /\ up
  BY DEF Credentials, Codes, WorldInv, ServerAlive
<1> QED BY <1>2, <1>3 DEF Next

LEMMA ServeIsNext ==
  ASSUME WorldInv, PageInv, NEW k \in Kinds, NEW i \in 1 .. Len(net[k]), Serve(k, i)
  PROVE  [Next]_vars
<1>1. up /\ Fine(k, net[k][i])
  BY DEF WorldInv, ServerAlive, PageInv, NetInv, FineQueue
<1>2. CASE k = "join" /\ ServeJoin(i)
  <2>1. net["join"][i].arg \in MapIds
    BY <1>1, <1>2 DEF Fine
  <2> QED BY <1>1, <1>2, <2>1, ClientsJoin DEF ServeJoin
<1>3. CASE k \in {"map", "state", "players"} /\ ServeQuery(k, i)
  BY <1>3 DEF ServeQuery
<1>4. CASE k = "action" /\ ServeAction(i)
  <2>1. /\ net["action"][i].token \subseteq known /\ net["action"][i].token # {}
        /\ net["action"][i].arg \in Directions
    BY <1>1, <1>4 DEF Fine, PageInv, JarInv, CookiesInv, Joined
  <2>2. PICK t \in known : SetDogDirection(t, net["action"][i].arg)
    BY <1>4, <2>1 DEF ServeAction
  <2>3. UNCHANGED <<sessions, registered, player, counter, tick, up, known>>
    BY <1>4 DEF ServeAction
  <2> QED BY <2>1, <2>2, <2>3, ClientsAct
<1> QED BY <1>2, <1>3, <1>4 DEF Serve

LEMMA OthersAreClients ==
  ASSUME WorldInv, OthersPlay, PageInv
  PROVE  Next
<1>1. up /\ bound.others \subseteq Directions
  <2>1. up /\ bound \in Bounds
    BY DEF WorldInv, ServerAlive, PageInv, KeysInv
  <2> QED BY <2>1, BoundFacts
<1>5. OthersTokens \subseteq known
  <2>1. told \subseteq known
    BY DEF PageInv, JarInv, CookiesInv, Joined
  <2> QED BY <2>1 DEF OthersTokens
<1>2. ASSUME NEW t \in Tokens, NEW code \in Codes, NEW id \in MapIds, JoinGame(id, t, code)
      PROVE  Next
  BY <1>1, <1>2, ClientsJoin
<1>3. ASSUME NEW t \in OthersTokens, NEW dir \in bound.others, SetDogDirection(t, dir),
             UNCHANGED <<sessions, registered, player, counter, tick, up, known>>
      PROVE  Next
  BY <1>1, <1>3, <1>5, ClientsAct
<1>4. ASSUME OnTick PROVE Next
  BY <1>1, <1>4 DEF Next
<1> QED BY <1>2, <1>3, <1>4 DEF OthersPlay

LEMMA PageStepIsNext ==
  ASSUME WorldInv, PageInv, [PageNext]_allVars
  PROVE  [Next]_vars
<1>1. CASE UNCHANGED allVars
  BY <1>1 DEF allVars
<1>2. CASE PageNext
  <2>1. ASSUME \/ \E m \in MapIds : Choose(m)
               \/ Submit
               \/ OpenGame
               \/ ConstructGameState
               \/ \E k \in Kinds : Poll(k)
               \/ \E key \in bound.keys : KeyDown(key) \/ KeyUp(key)
               \/ \E k \in Kinds : \E i \in 1 .. Len(net[k]) : Done(k, i) \/ Drop(k, i)
               \/ \E w \in OtherTabs : OtherTabJoins(w)
               \/ \E w \in Tabs : SetId(w) \/ SetMap(w)
        PROVE  UNCHANGED vars
    BY <2>1 DEF Choose, Submit, OpenGame, ConstructGameState, Poll, KeyDown, KeyUp, PressKey,
                Done, Drop, OtherTabJoins, SetId, SetMap
  <2>2. ASSUME NEW k \in Kinds, NEW i \in 1 .. Len(net[k]), Serve(k, i)
        PROVE  [Next]_vars
    BY <2>2, ServeIsNext
  <2>3. ASSUME OthersPlay PROVE [Next]_vars
    BY <2>3, OthersAreClients
  <2> QED BY <1>2, <2>1, <2>2, <2>3 DEF PageNext
<1> QED BY <1>1, <1>2

(* Both invariants together, and the steps of the server that they allow.  *)
LEMMA PageAndWorld == PageSpec => Spec /\ [](WorldInv /\ PageInv)
<1>1. PageInit => Init /\ WorldInv /\ PageInv
  BY InitInv, PageInitInv DEF PageInit
<1>2. WorldInv /\ PageInv /\ [PageNext]_allVars => [Next]_vars /\ WorldInv' /\ PageInv'
  BY PageStepIsNext, PageNextKeeps, NextKeepsInv
<1> QED BY <1>1, <1>2, PTL DEF PageSpec, Spec

(* The page with its network, other players and other tabs is a client     *)
(* that the specification of the game world allows: every property proved  *)
(* of Spec holds behind a page.                                            *)
THEOREM PageIsAClient == PageSpec => PageUsesWorld
BY PageAndWorld, PTL DEF PageUsesWorld

(* Types of the page and its network; no key is pressed twice.             *)
THEOREM PageTypes == PageSpec => []PageTypeOK
<1>1. WorldInv /\ PageInv => PageTypeOK
  BY DEF WorldInv, PageInv, PageTypeOK, NetInv, FineQueue, KeysInv, StagesInv, JarInv, CookiesInv,
         TabsInv, ScreenInv
<1> QED BY <1>1, PageAndWorld, PTL

(* For any number of tabs that set the cookies in any order: every cookie  *)
(* is that of a player of this browser, the cookies belong together unless *)
(* callbacks overlapped, and the page and the cookies are those of one     *)
(* player unless another tab set one meanwhile.                            *)
THEOREM PageBelongsToOnePlayer == PageSpec => []PageIsOfOnePlayer
<1>1. ASSUME PageInv
      PROVE  PageIsOfOnePlayer
  <2>1. CookiesInv /\ TabsInv /\ TornInv /\ MineInv
    BY <1>1 DEF PageInv, JarInv
  <2>2. cookies.token \subseteq told /\ told \subseteq registered
    BY <2>1 DEF CookiesInv, Joined
  <2>3. OfThisBrowser(cookies.id, cookies.map)
    BY <2>1 DEF CookiesInv, OfThisBrowser, HomeOf
  <2>4. stage \in {"loaded", "asking", "playing"} => OfThisBrowser({me}, {pageMap})
    BY <1>1 DEF PageInv, ScreenInv, OfThisBrowser, HomeOf
  <2>5. "state" \in got => \E s \in state : \E t \in told : s.id = player[t].id
    BY <1>1 DEF PageInv, ScreenInv
  <2>6. (~ torn /\ told # {} /\ \A w \in Tabs : callback[w] = {}) => \E t \in told : CookiesOf(t)
    BY <2>1 DEF TornInv, AllSet
  <2>7. ASSUME foreign # "meanwhile", stage \in {"loaded", "asking", "playing"}
        PROVE  \E t \in told : /\ CookiesOf(t)
                               /\ me = player[t].id
                               /\ pageMap = sessions[player[t].session].map
                               /\ "state" \in got => \E s \in state : s.id = me
    <3>1. PICK t \in told : CookiesOf(t)
      BY <2>1, <2>7 DEF MineInv, AllSet, InForm
    <3>2. cookies.id = {player[t].id} /\ cookies.map = {sessions[player[t].session].map}
      BY <3>1 DEF CookiesOf
    <3>3. me \in cookies.id /\ pageMap \in cookies.map
      BY <1>1, <2>7 DEF PageInv, ScreenInv
    <3>4. "state" \in got => \E s \in state : s.id = me
      BY <1>1, <2>7 DEF PageInv, ScreenInv
    <3> QED BY <3>1, <3>2, <3>3, <3>4
  <2> QED BY <2>2, <2>3, <2>4, <2>5, <2>6, <2>7 DEF PageIsOfOnePlayer
<1> QED BY <1>1, PageAndWorld, PTL

-----------------------------------------------------------------------------
(***************************************************************************)
(* The keys and the dog.  Of the actions on their way the late ones come   *)
(* first; the newest one, unless it is late, says where the last key       *)
(* points, and when there is none such the dog follows the keys already.   *)
(* Until the page has its token, the dog of that token rests.              *)
(***************************************************************************)
LateFirst(q) == \A i, j \in 1 .. Len(q) : i < j /\ q[j].late => q[i].late

AllLate(q) == q # <<>> => q[Len(q)].late

SaysLastKey(r) ==
  /\ r.arg = LastKey(keys)
  /\ foreign = "never" => r.token = cookies.token

QueueCourse ==
  LET q == net["action"]
  IN  LateFirst(q) /\ (~ AllLate(q) => SaysLastKey(q[Len(q)]))

DogCourse ==
  (AllLate(net["action"]) /\ ~ astray /\ foreign = "never") =>
    \A t \in cookies.token : FollowsKeys(dog[t])

NewDogsRest ==
  foreign = "never" =>
    \A i \in 1 .. Len(net["join"]) : \A c \in net["join"][i].answer : dog[c.token].speed = NoSpeed

CourseInv ==
  /\ QueueCourse
  /\ DogCourse
  /\ NewDogsRest
  /\ InForm(stage) => keys = <<>>

(* What a dog keeps while its player does not act.                         *)
Steady(t) ==
  /\ dog'[t].dir = dog[t].dir
  /\ dog[t].speed = NoSpeed => dog'[t].speed = NoSpeed

LEMMA MovedKeepsCourse ==
  ASSUME NEW m, NEW d \in Dog, NEW dt
  PROVE  Moved(m, d, dt).dir = d.dir /\ Moved(m, d, dt).speed \in {d.speed, NoSpeed}
<1>1. PICK p : p = Advance(d.pos, d.speed, dt)
  OBVIOUS
<1>2. PICK c : c = SetMaxMoveForTick(RoadsUnder(m, d.pos), p)
  OBVIOUS
<1>3. Moved(m, d, dt) \in {[d EXCEPT !.pos = p], [d EXCEPT !.pos = c, !.speed = NoSpeed]}
  BY <1>1, <1>2 DEF Moved
<1> QED BY <1>3 DEF Dog

LEMMA TickSparesDogs ==
  ASSUME WorldInv, OnTick, NEW t \in Tokens
  PROVE  Steady(t)
<1>1. PICK delta : \/ UNCHANGED dog
                   \/ dog' = [u \in Tokens |->
                                IF Placed(u) THEN Moved(MapOf(u), dog[u], delta) ELSE dog[u]]
  BY DEF OnTick, UpdateDogsPosition
<1>2. dog[t] \in Dog
  BY DEF WorldInv, TypeOK
<1>3. dog'[t] = dog[t] \/ dog'[t] = Moved(MapOf(t), dog[t], delta)
  BY <1>1
<1> QED BY <1>2, <1>3, MovedKeepsCourse DEF Steady

LEMMA JoinSparesDogs ==
  ASSUME WorldInv, NEW id \in MapIds, NEW t \in Tokens, NEW code, JoinGame(id, t, code)
  PROVE  /\ \A u \in registered : Steady(u)
         /\ \A u \in known' \ known : dog'[u].speed = NoSpeed
<1>1. dog \in [Tokens -> Dog] /\ registered \subseteq Tokens
  BY DEF WorldInv, TypeOK
<1>2. CASE dog' = dog /\ known' = known
  BY <1>2 DEF Steady
<1>3. CASE AddPlayer(id, t) /\ AddDog(id, t, code)
  <2>1. PICK p : dog' = [dog EXCEPT ![t] = DogAt(p, MapSpeed[id])]
    BY <1>3 DEF AddDog
  <2>2. t \notin registered /\ known' = known \cup {t}
    BY <1>3 DEF AddPlayer, AddDog
  <2>3. dog'[t].speed = NoSpeed
    BY <1>1, <2>1 DEF DogAt
  <2>4. \A u \in registered : dog'[u] = dog[u]
    BY <1>1, <2>1, <2>2
  <2> QED BY <2>2, <2>3, <2>4 DEF Steady
<1> QED BY <1>2, <1>3 DEF JoinGame, TokenCollides, AddDogThrows

LEMMA DirectedDog ==
  ASSUME WorldInv, NEW t \in Tokens, NEW dir \in Directions, SetDogDirection(t, dir)
  PROVE  /\ dog'[t].dir = dir
         /\ dir = "" => dog'[t].speed = NoSpeed
         /\ \A u \in Tokens : u # t => Steady(u)
<1>1. dog \in [Tokens -> Dog]
  BY DEF WorldInv, TypeOK
<1>2. PICK v : v = SpeedFor(dir, dog[t].top)
  OBVIOUS
<1>3. PICK d : d = [dog[t] EXCEPT !.dir = dir, !.speed = v]
  OBVIOUS
<1>4. d.dir = dir /\ d.speed = v
  <2>1. dog[t] \in Dog
    BY <1>1
  <2> QED BY <1>3, <2>1 DEF Dog
<1>5. dog' = [dog EXCEPT ![t] = d]
  BY <1>2, <1>3 DEF SetDogDirection
<1>6. dir = "" => v = NoSpeed
  BY <1>2 DEF SpeedFor, NoSpeed
<1> QED BY <1>1, <1>4, <1>5, <1>6 DEF Steady

LEMMA OwnAreRegistered ==
  ASSUME WorldInv, PageInv
  PROVE  /\ OwnTokens \subseteq registered /\ OwnTokens \subseteq Tokens
         /\ \A i \in 1 .. Len(net["join"]) : \A c \in net["join"][i].answer : c.token \in OwnTokens
         /\ \A t \in cookies.token : t \in OwnTokens
<1>1. "join" \in Kinds /\ FineQueue("join", net["join"])
  BY DEF Kinds, PageInv, NetInv
<1>2. \A i \in 1 .. Len(net["join"]) : \A c \in net["join"][i].answer : Owned(c)
  BY <1>1 DEF FineQueue, Fine
<1>3. \A t \in told : Joined(t)
  BY DEF PageInv, JarInv, CookiesInv
<1>4. cookies.token \subseteq told
  BY DEF PageInv, JarInv, CookiesInv
<1>5. registered \subseteq Tokens
  BY DEF WorldInv, TypeOK
<1> QED BY <1>2, <1>3, <1>4, <1>5 DEF OwnTokens, Owned, Joined

LEMMA OthersSpareDogs ==
  ASSUME WorldInv, PageInv, OthersPlay, foreign = "never", NEW t \in OwnTokens
  PROVE  Steady(t)
<1>1. t \in registered /\ t \in Tokens
  BY OwnAreRegistered
<1>2. ASSUME NEW u \in Tokens, NEW code \in Codes, NEW id \in MapIds, JoinGame(id, u, code)
      PROVE  Steady(t)
  BY <1>1, <1>2, JoinSparesDogs
<1>3. ASSUME NEW u \in OthersTokens, NEW dir \in bound.others, SetDogDirection(u, dir)
      PROVE  Steady(t)
  <2>1. u \in known \ OwnTokens
    BY DEF OthersTokens
  <2>2. bound \in Bounds
    BY DEF PageInv, KeysInv
  <2>3. dir \in Directions
    BY <2>2, BoundFacts
  <2>4. u \in Tokens /\ u # t
    BY <2>1 DEF WorldInv, TypeOK
  <2> QED BY <1>1, <1>3, <2>3, <2>4, DirectedDog
<1>4. OnTick => Steady(t)
  BY <1>1, TickSparesDogs
<1> QED BY <1>2, <1>3, <1>4 DEF OthersPlay

(* Steps that touch neither the keys nor the actions on their way.         *)
LEMMA CourseRests ==
  ASSUME WorldInv, PageInv, CourseInv,
         UNCHANGED <<keys, astray>>, net'["action"] = net["action"],
         foreign' = "never" => foreign = "never" /\ cookies'.token = cookies.token,
         InForm(stage') => InForm(stage),
         foreign = "never" => \A t \in OwnTokens : Steady(t),
         \A j \in 1 .. Len(net'["join"]) : \A c \in net'["join"][j].answer :
           \/ dog'[c.token].speed = NoSpeed
           \/ \E i \in 1 .. Len(net["join"]) : c \in net["join"][i].answer
  PROVE  CourseInv'
<1>1. QueueCourse'
  <2>1. PICK q : q = net["action"] /\ q = net'["action"]
    OBVIOUS
  <2>2. LateFirst(q) /\ (~ AllLate(q) => SaysLastKey(q[Len(q)]))
    BY <2>1 DEF CourseInv, QueueCourse
  <2>3. ASSUME NEW r, SaysLastKey(r) PROVE SaysLastKey(r)'
    BY <2>3 DEF SaysLastKey
  <2>4. LateFirst(q) /\ (~ AllLate(q) => SaysLastKey(q[Len(q)])')
    BY <2>2, <2>3
  <2> QED BY <2>1, <2>4 DEF QueueCourse
<1>2. DogCourse'
  <2> SUFFICES ASSUME AllLate(net["action"])', ~ astray', foreign' = "never", NEW t \in cookies'.token
               PROVE  FollowsKeys(dog[t])'
    BY DEF DogCourse
  <2>1. t \in cookies.token /\ FollowsKeys(dog[t]) /\ Steady(t)
    BY OwnAreRegistered DEF CourseInv, DogCourse
  <2> QED BY <2>1 DEF FollowsKeys, Steady
<1>3. NewDogsRest'
  <2>1. foreign = "never" =>
          \A i \in 1 .. Len(net["join"]) : \A c \in net["join"][i].answer :
            dog[c.token].speed = NoSpeed /\ Steady(c.token)
    BY OwnAreRegistered DEF CourseInv, NewDogsRest
  <2> QED BY <2>1 DEF NewDogsRest, Steady
<1> QED BY <1>1, <1>2, <1>3 DEF CourseInv

(* Nothing happens at the server, and the queue of another kind changes.   *)
LEMMA QueueMoves ==
  ASSUME WorldInv, PageInv, CourseInv, UNCHANGED vars, UNCHANGED <<keys, astray, jar>>,
         InForm(stage') => InForm(stage),
         NEW k \in Kinds, k # "action", NEW q, net' = [net EXCEPT ![k] = q],
         k = "join" => \A j \in 1 .. Len(q) : \A c \in q[j].answer :
                         \E i \in 1 .. Len(net["join"]) : c \in net["join"][i].answer
  PROVE  CourseInv'
<1>1. \A t : Steady(t)
  BY DEF vars, Steady
<1>2. {"join", "action"} \subseteq Kinds /\ DOMAIN net = Kinds
  BY DEF Kinds, PageInv, NetInv
<1>3. net'["action"] = net["action"]
  BY <1>2
<1>4. \A j \in 1 .. Len(net'["join"]) : \A c \in net'["join"][j].answer :
        \E i \in 1 .. Len(net["join"]) : c \in net["join"][i].answer
  <2>1. CASE k = "join"
    <3>1. net'["join"] = q
      BY <1>2, <2>1
    <3> QED BY <2>1, <3>1
  <2>2. CASE k # "join"
    <3>1. net'["join"] = net["join"]
      BY <1>2, <2>2
    <3> QED BY <3>1
  <2> QED BY <2>1, <2>2
<1>5. UNCHANGED <<keys, astray, cookies, foreign>>
  BY DEF jar
<1> QED BY <1>1, <1>3, <1>4, <1>5, CourseRests

LEMMA SubmitCourse ==
  ASSUME WorldInv, PageInv, CourseInv, Submit
  PROVE  CourseInv'
<1>1. PICK q : q = net["join"]
  OBVIOUS
<1>2. PICK r : r = NewRequest(chosen)
  OBVIOUS
<1>3. "join" \in Kinds /\ q \in Seq(Request(Answers["join"]))
  BY <1>1 DEF Kinds, PageInv, NetInv, FineQueue
<1>4. r.answer = {}
  BY <1>2 DEF NewRequest
<1>5. PICK p : p = Append(q, r)
  OBVIOUS
<1>6. /\ Len(p) = Len(q) + 1 /\ p[Len(q) + 1] = r /\ Len(q) \in Nat
      /\ \A j \in 1 .. Len(q) : p[j] = q[j]
  BY <1>3, <1>5
<1>7. \A j \in 1 .. Len(p) : \A c \in p[j].answer : \E i \in 1 .. Len(q) : c \in q[i].answer
  <2>1. \A j \in 1 .. Len(p) : j \in 1 .. Len(q) \/ j = Len(q) + 1
    BY <1>6
  <2> QED BY <1>4, <1>6, <2>1
<1>8. /\ net' = [net EXCEPT !["join"] = p] /\ UNCHANGED <<keys, astray, jar>>
      /\ UNCHANGED vars /\ stage' = stage
  BY <1>1, <1>2, <1>5 DEF Submit, Sending
<1> QED BY <1>1, <1>3, <1>7, <1>8, QueueMoves

LEMMA ConstructCourse ==
  ASSUME WorldInv, PageInv, CourseInv, ConstructGameState
  PROVE  CourseInv'
<1>1. \A t : Steady(t)
  BY DEF ConstructGameState, vars, Steady
<1>2. net'["action"] = net["action"] /\ net'["join"] = net["join"]
  BY DEF ConstructGameState, PageInv, NetInv, Kinds
<1>3. UNCHANGED <<keys, astray, cookies, foreign>> /\ ~ InForm(stage')
  BY DEF ConstructGameState, jar, InForm
<1> QED BY <1>1, <1>2, <1>3, CourseRests

(* Sending, as far as the keys are not concerned.                          *)
LEMMA PageCourse ==
  ASSUME WorldInv, PageInv, CourseInv,
         \/ \E m \in MapIds : Choose(m)
         \/ OpenGame
         \/ \E k \in Kinds : Poll(k)
  PROVE  CourseInv'
<1>1. CASE \E m \in MapIds : Choose(m)
  <2>1. \A t : Steady(t)
    BY <1>1 DEF Choose, vars, Steady
  <2>2. UNCHANGED <<keys, astray, cookies, foreign, net, stage>>
    BY <1>1 DEF Choose, jar
  <2> QED BY <2>1, <2>2, CourseRests
<1>2. CASE OpenGame
  <2>1. PICK q : net' = [net EXCEPT !["map"] = q]
    BY <1>2 DEF OpenGame
  <2>2. "map" \in Kinds
    BY DEF Kinds
  <2>3. UNCHANGED vars /\ UNCHANGED <<keys, astray, jar>> /\ ~ InForm(stage')
    BY <1>2 DEF OpenGame, InForm
  <2> QED BY <2>1, <2>2, <2>3, QueueMoves
<1>3. ASSUME NEW k \in Kinds, Poll(k)
      PROVE  CourseInv'
  <2>1. PICK q : net' = [net EXCEPT ![k] = q]
    BY <1>3 DEF Poll
  <2>2. k # "action" /\ k # "join"
    BY <1>3 DEF Poll
  <2>3. UNCHANGED vars /\ UNCHANGED <<keys, astray, jar>> /\ stage' = stage
    BY <1>3 DEF Poll
  <2> QED BY <2>1, <2>2, <2>3, QueueMoves
<1> QED BY <1>1, <1>2, <1>3

(* A key event is the newest action on its way.                            *)
LEMMA PressCourse ==
  ASSUME WorldInv, PageInv, CourseInv, NEW ks, PressKey(ks)
  PROVE  CourseInv'
<1>1. PICK q : q = net["action"]
  OBVIOUS
<1>2. PICK r : r = NewRequest(KeyToSend(ks))
  OBVIOUS
<1>3. PICK p : p = Append(q, r)
  OBVIOUS
<1>4. {"join", "action"} \subseteq Kinds /\ q \in Seq(Request(Answers["action"])) /\ DOMAIN net = Kinds
  BY <1>1 DEF Kinds, PageInv, NetInv, FineQueue
<1>5. net' = [net EXCEPT !["action"] = p] /\ keys' = ks /\ UNCHANGED <<cookies, foreign, stage, dog>>
  BY <1>1, <1>2, <1>3 DEF PressKey, Sending, vars, jar
<1>6. /\ Len(p) = Len(q) + 1 /\ p[Len(q) + 1] = r /\ Len(q) \in Nat
      /\ \A j \in 1 .. Len(q) : p[j] = q[j]
  BY <1>3, <1>4
<1>7. r.late = FALSE /\ r.arg = LastKey(ks) /\ r.token = cookies.token
  BY <1>2 DEF NewRequest, KeyToSend
<1>8. ~ AllLate(p) /\ p[Len(p)] = r
  BY <1>6, <1>7 DEF AllLate
<1>9. LateFirst(p)
  <2>1. LateFirst(q)
    BY <1>1 DEF CourseInv, QueueCourse
  <2>2. ASSUME NEW i \in 1 .. Len(p), NEW j \in 1 .. Len(p), i < j, p[j].late
        PROVE  p[i].late
    <3>1. j # Len(q) + 1
      BY <1>6, <1>7, <2>2
    <3>2. i \in 1 .. Len(q) /\ j \in 1 .. Len(q)
      BY <1>6, <2>2, <3>1
    <3> QED BY <1>6, <2>1, <2>2, <3>2 DEF LateFirst
  <2> QED BY <2>2 DEF LateFirst
<1>10. SaysLastKey(r)'
  BY <1>5, <1>7 DEF SaysLastKey
<1>11. net'["action"] = p /\ net'["join"] = net["join"]
  BY <1>4, <1>5
<1>12. QueueCourse' /\ DogCourse'
  BY <1>8, <1>9, <1>10, <1>11 DEF QueueCourse, DogCourse
<1>13. NewDogsRest'
  BY <1>5, <1>11 DEF CourseInv, NewDogsRest
<1>14. ~ InForm(stage')
  BY DEF PressKey, InForm
<1> QED BY <1>12, <1>13, <1>14 DEF CourseInv

(* When an action is taken out, the earlier ones become late: the newest   *)
(* stays the newest, or all are late.                                      *)
LEMMA WithoutActionLate ==
  ASSUME PageInv, LateFirst(net["action"]), NEW i \in 1 .. Len(net["action"]),
         NEW q, q = net["action"], NEW p, p = WithoutAction(i)
  PROVE  /\ LateFirst(p)
         /\ i # Len(q) => /\ p # <<>> /\ p[Len(p)].arg = q[Len(q)].arg
                          /\ p[Len(p)].token = q[Len(q)].token
                          /\ p[Len(p)].late <=> q[Len(q)].late
         /\ i = Len(q) => AllLate(p)
         /\ AllLate(q) => q[i].late /\ AllLate(p)
<1>1. q \in Seq(Request({})) /\ i \in 1 .. Len(q) /\ Len(q) \in Nat
  BY DEF Kinds, PageInv, NetInv, FineQueue, Answers
<1>2. PICK l : l = [j \in 1 .. Len(q) |-> Lagging(q[j], j < i)]
  OBVIOUS
<1>3. /\ l \in Seq(Request({})) /\ Len(l) = Len(q)
      /\ \A j \in 1 .. Len(q) : /\ l[j].arg = q[j].arg /\ l[j].token = q[j].token
                                /\ l[j].late <=> (q[j].late \/ j < i)
  <2>1. PICK b : b = [j \in 1 .. Len(q) |-> j < i]
    OBVIOUS
  <2>2. /\ \A j \in 1 .. Len(q) : b[j] = (j < i)
        /\ \A j \in 1 .. Len(q) : l[j] = Lagging(q[j], j < i)
    BY <1>2, <2>1, Zenon
  <2>3. b \in [1 .. Len(q) -> BOOLEAN]
    BY <2>1
  <2>4. \A j \in 1 .. Len(q) : b[j] \in BOOLEAN
    BY <2>3
  <2>5. \A j \in 1 .. Len(q) : q[j] \in Request({})
    BY <1>1
  <2>6. \A j \in 1 .. Len(q) : l[j] = Lagging(q[j], b[j])
    BY <2>2, Zenon
  <2>7. ASSUME NEW r \in Request({}), NEW v \in BOOLEAN
        PROVE  /\ Lagging(r, v) \in Request({})
               /\ Lagging(r, v).arg = r.arg /\ Lagging(r, v).token = r.token
               /\ Lagging(r, v).late <=> (r.late \/ v)
    BY DEF Lagging, Request
  <2>8. \A j \in 1 .. Len(q) : /\ l[j] \in Request({})
                               /\ l[j].arg = q[j].arg /\ l[j].token = q[j].token
                               /\ l[j].late <=> (q[j].late \/ b[j])
    <3> SUFFICES ASSUME NEW j \in 1 .. Len(q)
                 PROVE  /\ l[j] \in Request({}) /\ l[j].arg = q[j].arg /\ l[j].token = q[j].token
                        /\ l[j].late <=> (q[j].late \/ b[j])
      OBVIOUS
    <3>1. /\ Lagging(q[j], b[j]) \in Request({})
          /\ Lagging(q[j], b[j]).arg = q[j].arg /\ Lagging(q[j], b[j]).token = q[j].token
          /\ Lagging(q[j], b[j]).late <=> (q[j].late \/ b[j])
      <4>1. PICK r : r = q[j]
        OBVIOUS
      <4>2. PICK v : v = b[j]
        OBVIOUS
      <4>3. r \in Request({}) /\ v \in BOOLEAN
        BY <2>4, <2>5, <4>1, <4>2, Zenon
      <4> QED BY <2>7, <4>1, <4>2, <4>3, Zenon
    <3>2. l[j] = Lagging(q[j], b[j])
      BY <2>6
    <3> QED BY <3>1, <3>2, Zenon
  <2>9. l \in [1 .. Len(q) -> Request({})]
    BY <1>2, <2>8
  <2>10. l \in Seq(Request({})) /\ Len(l) = Len(q)
    BY <1>1, <2>9
  <2> QED BY <2>2, <2>8, <2>10, Zenon
<1>4. p = RemoveAt(l, i)
  BY <1>2 DEF WithoutAction
<1>5. /\ p \in Seq(Request({})) /\ Len(p) = Len(q) - 1
      /\ \A j \in 1 .. Len(q) - 1 : p[j] = IF j < i THEN l[j] ELSE l[j + 1]
  <2>1. l \in Seq(Request({})) /\ i \in 1 .. Len(l)
    BY <1>1, <1>3
  <2>2. /\ RemoveAt(l, i) \in Seq(Request({})) /\ Len(RemoveAt(l, i)) = Len(l) - 1
        /\ \A j \in 1 .. Len(l) - 1 : RemoveAt(l, i)[j] = IF j < i THEN l[j] ELSE l[j + 1]
    BY <2>1, RemoveAtFacts
  <2> QED BY <1>3, <1>4, <2>2
<1>6. ASSUME NEW j \in 1 .. Len(p)
      PROVE  /\ j \in 1 .. Len(q) /\ j + 1 \in 1 .. Len(q)
             /\ j < i => p[j].late
             /\ ~ (j < i) => /\ p[j].late <=> q[j + 1].late
                             /\ p[j].arg = q[j + 1].arg /\ p[j].token = q[j + 1].token
  <2>1. j \in 1 .. Len(q) /\ j + 1 \in 1 .. Len(q) /\ j \in 1 .. Len(q) - 1
    BY <1>1, <1>5
  <2>2. CASE j < i
    BY <1>3, <1>5, <2>1, <2>2
  <2>3. CASE ~ (j < i)
    <3>1. p[j] = l[j + 1] /\ ~ (j + 1 < i)
      BY <1>1, <1>5, <2>1, <2>3
    <3> QED BY <1>3, <2>1, <2>3, <3>1
  <2> QED BY <2>2, <2>3
<1>7. LateFirst(p)
  <2>1. ASSUME NEW a \in 1 .. Len(p), NEW b \in 1 .. Len(p), a < b, p[b].late
        PROVE  p[a].late
    <3>1. CASE a < i
      BY <1>6, <3>1
    <3>2. CASE ~ (a < i)
      <4>1. ~ (b < i) /\ a + 1 < b + 1
        BY <1>1, <1>5, <2>1, <3>2
      <4>2. q[b + 1].late /\ a + 1 \in 1 .. Len(q) /\ b + 1 \in 1 .. Len(q)
        BY <1>6, <2>1, <4>1
      <4>3. q[a + 1].late
        BY <4>1, <4>2 DEF LateFirst
      <4> QED BY <1>6, <3>2, <4>3
    <3> QED BY <3>1, <3>2
  <2> QED BY <2>1 DEF LateFirst
<1>8. ASSUME i # Len(q)
      PROVE  /\ p # <<>> /\ p[Len(p)].arg = q[Len(q)].arg
             /\ p[Len(p)].token = q[Len(q)].token
             /\ p[Len(p)].late <=> q[Len(q)].late
  <2>1. Len(p) \in 1 .. Len(p) /\ ~ (Len(p) < i) /\ Len(p) + 1 = Len(q)
    BY <1>1, <1>5, <1>8
  <2>2. p # <<>>
    BY <2>1
  <2> QED BY <1>6, <2>1, <2>2
<1>9. ASSUME i = Len(q)
      PROVE  AllLate(p)
  <2>1. ASSUME p # <<>> PROVE p[Len(p)].late
    <3>1. Len(p) \in 1 .. Len(p) /\ Len(p) < i
      BY <1>1, <1>5, <1>9, <2>1
    <3> QED BY <1>6, <3>1
  <2> QED BY <2>1 DEF AllLate
<1>10. ASSUME AllLate(q)
       PROVE  q[i].late
  <2>1. q[Len(q)].late /\ (i = Len(q) \/ i < Len(q)) /\ Len(q) \in 1 .. Len(q)
    <3>1. q # <<>> /\ (i = Len(q) \/ i < Len(q)) /\ Len(q) \in 1 .. Len(q)
      BY <1>1
    <3> QED BY <1>10, <3>1 DEF AllLate
  <2> QED BY <2>1 DEF LateFirst
<1>11. AllLate(q) => AllLate(p)
  <2>1. q # <<>>
    BY <1>1
  <2> QED BY <1>8, <1>9, <2>1 DEF AllLate
<1> QED BY <1>7, <1>8, <1>9, <1>10, <1>11


(* The server handles an action.                                           *)
LEMMA ServeActionCourse ==
  ASSUME WorldInv, PageInv, CourseInv, NEW i \in 1 .. Len(net["action"]), ServeAction(i), ServerOnly
  PROVE  CourseInv'
<1>1. PICK q : q = net["action"]
  OBVIOUS
<1>2. PICK p : p = WithoutAction(i)
  OBVIOUS
<1>3. LateFirst(q) /\ (~ AllLate(q) => SaysLastKey(q[Len(q)]))
  BY <1>1 DEF CourseInv, QueueCourse
<1>4. /\ LateFirst(p)
      /\ i # Len(q) => /\ p # <<>> /\ p[Len(p)].arg = q[Len(q)].arg
                       /\ p[Len(p)].token = q[Len(q)].token
                       /\ p[Len(p)].late <=> q[Len(q)].late
      /\ i = Len(q) => AllLate(p)
      /\ AllLate(q) => q[i].late /\ AllLate(p)
  BY <1>1, <1>2, <1>3, WithoutActionLate
<1>5. /\ net' = [net EXCEPT !["action"] = p] /\ astray' = q[i].late
      /\ UNCHANGED <<keys, cookies, foreign, stage>>
  BY <1>1, <1>2 DEF ServeAction, ServerOnly, jar
<1>6. net'["action"] = p /\ net'["join"] = net["join"]
  BY <1>5 DEF PageInv, NetInv, Kinds
<1>7. q # <<>> /\ q[i] \in Request({}) /\ Fine("action", q[i])
  BY <1>1 DEF Kinds, PageInv, NetInv, FineQueue, Answers
<1>8. ~ InForm(stage) /\ net["join"] = <<>>
  BY <1>1, <1>7 DEF PageInv, StagesInv
<1>9. QueueCourse'
  <2>1. ASSUME NEW r, NEW s, SaysLastKey(r), s.arg = r.arg, s.token = r.token PROVE SaysLastKey(s)'
    BY <1>5, <2>1 DEF SaysLastKey
  <2>2. ASSUME ~ AllLate(p) PROVE SaysLastKey(p[Len(p)])'
    <3>1. i # Len(q) /\ ~ AllLate(q)
      BY <1>4, <2>2
    <3> QED BY <1>3, <1>4, <2>1, <3>1
  <2> QED BY <1>4, <1>6, <2>2 DEF QueueCourse
<1>10. DogCourse'
  <2> SUFFICES ASSUME AllLate(p), ~ q[i].late, foreign = "never", NEW t \in cookies.token
               PROVE  FollowsKeys(dog[t])'
    BY <1>5, <1>6 DEF DogCourse
  <2>1. i = Len(q) /\ ~ AllLate(q)
    BY <1>4, <1>7 DEF AllLate
  <2>2. q[i].arg = LastKey(keys) /\ q[i].token = cookies.token
    BY <1>3, <2>1 DEF SaysLastKey
  <2>3. SetDogDirection(t, q[i].arg)
    BY <1>1, <2>2 DEF ServeAction
  <2>4. t \in Tokens /\ q[i].arg \in Directions
    BY <1>7, OwnAreRegistered DEF Fine
  <2>5. dog'[t].dir = q[i].arg /\ (q[i].arg = "" => dog'[t].speed = NoSpeed)
    BY <2>3, <2>4, DirectedDog
  <2>6. keys = <<>> => LastKey(keys) = ""
    BY DEF LastKey
  <2>7. keys' = keys
    BY <1>5
  <2> QED BY <2>2, <2>5, <2>6, <2>7 DEF FollowsKeys
<1>11. NewDogsRest'
  BY <1>6, <1>8 DEF NewDogsRest
<1> QED BY <1>5, <1>8, <1>9, <1>10, <1>11 DEF CourseInv

(* The network loses an action: nothing newer remains, or it is astray.    *)
LEMMA DropActionCourse ==
  ASSUME WorldInv, PageInv, CourseInv, NEW i \in 1 .. Len(net["action"]), Drop("action", i)
  PROVE  CourseInv'
<1>1. PICK q : q = net["action"]
  OBVIOUS
<1>2. PICK p : p = WithoutAction(i)
  OBVIOUS
<1>3. LateFirst(q) /\ (~ AllLate(q) => SaysLastKey(q[Len(q)]))
  BY <1>1 DEF CourseInv, QueueCourse
<1>4. /\ LateFirst(p)
      /\ i # Len(q) => /\ p # <<>> /\ p[Len(p)].arg = q[Len(q)].arg
                       /\ p[Len(p)].token = q[Len(q)].token
                       /\ p[Len(p)].late <=> q[Len(q)].late
      /\ i = Len(q) => AllLate(p)
      /\ AllLate(q) => q[i].late /\ AllLate(p)
  BY <1>1, <1>2, <1>3, WithoutActionLate
<1>5. /\ astray' <=> (astray \/ ~ q[i].late)
      /\ UNCHANGED <<keys, cookies, foreign, stage, dog>>
  BY <1>1, <1>2 DEF Drop, vars, jar
<1>6. net'["action"] = p /\ net'["join"] = net["join"]
  <2>1. net' = [net EXCEPT !["action"] = p]
    BY <1>2 DEF Drop
  <2> QED BY <2>1 DEF PageInv, NetInv, Kinds
<1>7. QueueCourse'
  <2>1. ASSUME NEW r, NEW s, SaysLastKey(r), s.arg = r.arg, s.token = r.token PROVE SaysLastKey(s)'
    BY <1>5, <2>1 DEF SaysLastKey
  <2>2. ASSUME ~ AllLate(p) PROVE SaysLastKey(p[Len(p)])'
    <3>1. i # Len(q) /\ ~ AllLate(q)
      BY <1>4, <2>2
    <3> QED BY <1>3, <1>4, <2>1, <3>1
  <2> QED BY <1>4, <1>6, <2>2 DEF QueueCourse
<1>8. DogCourse'
  <2> SUFFICES ASSUME AllLate(p), ~ astray, q[i].late, foreign = "never"
               PROVE  \A t \in cookies.token : FollowsKeys(dog[t])'
    BY <1>5, <1>6 DEF DogCourse
  <2>1. AllLate(q)
    BY <1>4 DEF AllLate
  <2>2. \A t \in cookies.token : FollowsKeys(dog[t])
    BY <1>1, <2>1 DEF CourseInv, DogCourse
  <2> QED BY <1>5, <2>2 DEF FollowsKeys
<1>9. NewDogsRest'
  BY <1>5, <1>6 DEF CourseInv, NewDogsRest
<1> QED BY <1>5, <1>7, <1>8, <1>9 DEF CourseInv

LEMMA DropCourse ==
  ASSUME WorldInv, PageInv, CourseInv, NEW k \in Kinds, NEW i \in 1 .. Len(net[k]), Drop(k, i)
  PROVE  CourseInv'
<1>1. CASE k = "action"
  BY <1>1, DropActionCourse
<1>2. CASE k # "action"
  <2>1. PICK q : q = RemoveAt(net[k], i)
    OBVIOUS
  <2>2. \A j \in 1 .. Len(q) : \E m \in 1 .. Len(net[k]) : q[j] = net[k][m]
    BY <2>1, RemovedAreThere DEF PageInv, NetInv, FineQueue
  <2>3. net' = [net EXCEPT ![k] = q]
    BY <1>2, <2>1 DEF Drop
  <2>4. /\ UNCHANGED vars /\ UNCHANGED <<keys, jar>> /\ stage' = stage
        /\ astray' = astray
    BY <1>2 DEF Drop, PageInv, ScreenInv
  <2>5. k = "join" => \A j \in 1 .. Len(q) : \A c \in q[j].answer :
                        \E m \in 1 .. Len(net["join"]) : c \in net["join"][m].answer
    BY <2>2
  <2> QED BY <1>2, <2>3, <2>4, <2>5, QueueMoves
<1> QED BY <1>1, <1>2

LEMMA ServeCourse ==
  ASSUME WorldInv, PageInv, CourseInv, NEW k \in Kinds, NEW i \in 1 .. Len(net[k]), Serve(k, i)
  PROVE  CourseInv'
<1>1. ServerOnly
  BY DEF Serve
<1>2. CASE k = "action" /\ ServeAction(i)
  BY <1>1, <1>2, ServeActionCourse
<1>3. CASE k \in {"map", "state", "players"} /\ ServeQuery(k, i)
  <2>1. PICK q : net' = [net EXCEPT ![k] = q]
    BY <1>3 DEF ServeQuery, Served
  <2>2. UNCHANGED vars /\ UNCHANGED <<keys, astray, jar>> /\ stage' = stage
    BY <1>1, <1>3 DEF ServeQuery, ServerOnly
  <2> QED BY <1>3, <2>1, <2>2, QueueMoves
<1>4. CASE k = "join" /\ ServeJoin(i)
  <2>1. PICK m : m = net["join"][i].arg
    OBVIOUS
  <2>2. PICK a : a = {[token |-> u, id |-> player'[u].id, map |-> m] : u \in known' \ known}
    OBVIOUS
  <2>3. PICK t \in Tokens, code \in Codes : JoinGame(m, t, code) /\ Served("join", i, a)
    BY <1>4, <2>1, <2>2 DEF ServeJoin
  <2>4. m \in MapIds
    BY <1>4, <2>1 DEF PageInv, NetInv, FineQueue, Fine
  <2>5. /\ \A u \in registered : Steady(u)
        /\ \A u \in known' \ known : dog'[u].speed = NoSpeed
    BY <2>3, <2>4, JoinSparesDogs
  <2>6. \A u \in OwnTokens : Steady(u)
    BY <2>5, OwnAreRegistered
  <2>7. PICK q : q = net["join"]
    OBVIOUS
  <2>8. PICK r : r = Answered(q[i], a)
    OBVIOUS
  <2>9. PICK o : o = RemoveAt(q, i)
    OBVIOUS
  <2>10. PICK p : p = Append(o, r)
    OBVIOUS
  <2>11. net'["join"] = p /\ net'["action"] = net["action"]
    <3>1. net' = [net EXCEPT !["join"] = p]
      BY <2>3, <2>7, <2>8, <2>9, <2>10 DEF Served
    <3> QED BY <3>1 DEF PageInv, NetInv, Kinds
  <2>12. q \in Seq(Request(Answers["join"])) /\ i \in 1 .. Len(q)
    BY <1>4, <2>7 DEF PageInv, NetInv, FineQueue
  <2>13. o \in Seq(Request(Answers["join"])) /\ \A j \in 1 .. Len(o) : \E n \in 1 .. Len(q) : o[j] = q[n]
    <3>1. PICK S : S = Request(Answers["join"])
      OBVIOUS
    <3>2. q \in Seq(S) /\ i \in 1 .. Len(q)
      BY <2>12, <3>1
    <3>3. o \in Seq(S)
      BY <2>9, <3>2, RemoveAtFacts
    <3>4. \A j \in 1 .. Len(o) : \E n \in 1 .. Len(q) : o[j] = q[n]
      BY <2>9, <3>2, RemovedAreThere
    <3> QED BY <3>1, <3>3, <3>4
  <2>14. /\ Len(p) = Len(o) + 1 /\ p[Len(o) + 1] = r /\ Len(o) \in Nat
         /\ \A j \in 1 .. Len(o) : p[j] = o[j]
    BY <2>10, <2>13
  <2>15. \A c \in r.answer : dog'[c.token].speed = NoSpeed
    BY <2>2, <2>5, <2>8 DEF Answered
  <2>16. \A j \in 1 .. Len(p) : \A c \in p[j].answer :
           dog'[c.token].speed = NoSpeed \/ \E n \in 1 .. Len(q) : c \in q[n].answer
    <3>1. \A j \in 1 .. Len(p) : j \in 1 .. Len(o) \/ j = Len(o) + 1
      BY <2>14
    <3> QED BY <2>13, <2>14, <2>15, <3>1
  <2>17. UNCHANGED <<keys, astray, cookies, foreign>> /\ stage' = stage
    BY <1>1, <1>4 DEF ServeJoin, ServerOnly, jar
  <2> QED BY <2>6, <2>7, <2>11, <2>16, <2>17, CourseRests
<1> QED BY <1>2, <1>3, <1>4 DEF Serve

(* The answer of the join: the dog of the new token rests.                 *)
LEMMA JoinDoneCourse ==
  ASSUME WorldInv, PageInv, CourseInv, NEW i \in 1 .. Len(net["join"]), JoinDone(i),
         UNCHANGED <<vars, keys, astray>>
  PROVE  CourseInv'
<1>1. "join" \in Kinds /\ "action" \in Kinds /\ DOMAIN net = Kinds
  BY DEF Kinds, PageInv, NetInv
<1>2. stage = "form" /\ InForm(stage) /\ net' = Arrived("join", i)
  BY DEF JoinDone, InForm
<1>3. keys = <<>> /\ net["action"] = <<>>
  BY <1>2 DEF PageInv, StagesInv, CourseInv
<1>4. PICK p : /\ net' = [net EXCEPT !["join"] = p]
               /\ \A j \in 1 .. Len(p) : \E m \in 1 .. Len(net["join"]) :
                    p[j].answer = net["join"][m].answer
  BY <1>1, <1>2, ArrivedFacts
<1>5. CASE UNCHANGED <<jar, stage>>
  <2>1. \A j \in 1 .. Len(p) : \A c \in p[j].answer :
          \E m \in 1 .. Len(net["join"]) : c \in net["join"][m].answer
    BY <1>4
  <2> QED BY <1>1, <1>4, <1>5, <2>1, QueueMoves
<1>6. ASSUME NEW c \in net["join"][i].answer, SetToken(ThisTab, CookieOf(c))
      PROVE  CourseInv'
  <2>1. net'["action"] = <<>> /\ net'["join"] = p
    BY <1>1, <1>3, <1>4
  <2>2. LateFirst(<<>>) /\ AllLate(<<>>)
    BY DEF LateFirst, AllLate
  <2>3. QueueCourse'
    BY <2>1, <2>2 DEF QueueCourse
  <2>4. foreign' = foreign /\ dog' = dog /\ keys' = keys
    BY <1>6 DEF SetToken, SetBy, vars
  <2>5. NewDogsRest'
    BY <1>4, <2>1, <2>4 DEF CourseInv, NewDogsRest
  <2>6. cookies'.token = {c.token}
    <3>1. cookies \in [token : SUBSET Tokens, id : SUBSET Nat, map : SUBSET MapIds]
      BY DEF PageInv, JarInv, CookiesInv
    <3> QED BY <1>6, <3>1 DEF SetToken, CookieOf
  <2>7. foreign = "never" => dog[c.token].speed = NoSpeed
    BY <1>6 DEF CourseInv, NewDogsRest
  <2>8. DogCourse'
    BY <1>3, <2>4, <2>6, <2>7 DEF DogCourse, FollowsKeys
  <2> QED BY <1>3, <2>3, <2>4, <2>5, <2>8 DEF CourseInv
<1> QED BY <1>5, <1>6 DEF JoinDone

LEMMA DoneCourse ==
  ASSUME WorldInv, PageInv, CourseInv, NEW k \in Kinds, NEW i \in 1 .. Len(net[k]), Done(k, i)
  PROVE  CourseInv'
<1>1. UNCHANGED <<vars, keys, astray>>
  BY DEF Done
<1>2. CASE k = "join" /\ JoinDone(i)
  BY <1>1, <1>2, JoinDoneCourse
<1>3. CASE /\ k \in {"map", "state", "players"}
           /\ net' = Arrived(k, i) /\ UNCHANGED jar /\ (InForm(stage') => InForm(stage))
  <2>1. PICK q : Arrived(k, i) = [net EXCEPT ![k] = q]
    BY ArrivedFacts, Zenon
  <2>2. k # "join" /\ k # "action" /\ net' = [net EXCEPT ![k] = q]
    BY <1>3, <2>1
  <2> QED BY <1>1, <1>3, <2>2, QueueMoves
<1>4. \/ k = "join" /\ JoinDone(i)
      \/ /\ k \in {"map", "state", "players"}
         /\ net' = Arrived(k, i) /\ UNCHANGED jar
         /\ stage' \in {"loaded", "playing", stage}
  BY DEF Done, MapDone, StateDone, PlayersDone, StageAfter
<1>5. stage' \in {"loaded", "playing", stage} => (InForm(stage') => InForm(stage))
  BY DEF InForm
<1> QED BY <1>2, <1>3, <1>4, <1>5

(* The other two cookies say nothing to dogs.                              *)
LEMMA SettingCourse ==
  ASSUME WorldInv, PageInv, CourseInv, NEW w \in Tabs, SetId(w) \/ SetMap(w)
  PROVE  CourseInv'
<1>1. cookies'.token = cookies.token /\ foreign' \in {foreign, "earlier", "meanwhile"}
  BY NextCookie
<1>2. UNCHANGED <<vars, keys, astray>> /\ \A t : Steady(t)
  BY DEF SetId, SetMap, vars, Steady
<1>3. {"join", "action"} \subseteq Kinds /\ DOMAIN net = Kinds
  BY DEF PageInv, NetInv, Kinds
<1>4. net'["action"] = net["action"] /\ (net'["join"] = net["join"] \/ net'["join"] = <<>>)
  BY <1>3 DEF SetId, SetMap
<1>5. InForm(stage') => InForm(stage)
  BY DEF SetId, SetMap, InForm
<1>6. foreign' = "never" => foreign = "never"
  BY <1>1
<1>7. \A j \in 1 .. Len(net'["join"]) : \A c \in net'["join"][j].answer :
        \E i \in 1 .. Len(net["join"]) : c \in net["join"][i].answer
  BY <1>4
<1> QED BY <1>1, <1>2, <1>4, <1>5, <1>6, <1>7, CourseRests

LEMMA OtherTabCourse ==
  ASSUME WorldInv, PageInv, CourseInv, NEW w \in OtherTabs, OtherTabJoins(w)
  PROVE  CourseInv'
<1>1. UNCHANGED <<vars, keys, astray, net, stage>> /\ \A t : Steady(t)
  BY DEF OtherTabJoins, vars, Steady
<1>2. w # ThisTab
  BY PageAssumption
<1>3. foreign' # "never"
  BY <1>2 DEF OtherTabJoins, SetToken, SetBy
<1> QED BY <1>1, <1>3, CourseRests

LEMMA CourseStep ==
  ASSUME WorldInv, PageInv, CourseInv, [PageNext]_allVars
  PROVE  CourseInv'
<1>1. CASE UNCHANGED allVars
  <2>1. \A t : Steady(t)
    BY <1>1 DEF allVars, vars, Steady
  <2> QED BY <1>1, <2>1, CourseRests DEF allVars, pageVars, jar
<1>2. ASSUME NEW key, KeyDown(key) \/ KeyUp(key) PROVE CourseInv'
  BY <1>2, PressCourse DEF KeyDown, KeyUp
<1>3. ASSUME OthersPlay PROVE CourseInv'
  BY <1>3, OthersSpareDogs, CourseRests DEF OthersPlay, pageVars, jar
<1> QED BY <1>1, <1>2, <1>3, PageCourse, SubmitCourse, ConstructCourse, ServeCourse,
           DoneCourse, DropCourse, OtherTabCourse, SettingCourse DEF PageNext

(* However the key events overtake each other: when all are handled and    *)
(* the last to be handled was not overtaken, the dog does what the keys    *)
(* that are still held say.                                                *)
THEOREM DogsFollowKeys == PageSpec => []KeysReachDog
<1>1. PageInit => CourseInv
  <2> SUFFICES ASSUME PageInit PROVE CourseInv
    OBVIOUS
  <2>1. net["action"] = <<>> /\ net["join"] = <<>> /\ cookies.token = {} /\ keys = <<>>
    BY DEF PageInit, Kinds
  <2>2. LateFirst(<<>>) /\ AllLate(<<>>)
    BY DEF LateFirst, AllLate
  <2> QED BY <2>1, <2>2 DEF CourseInv, QueueCourse, DogCourse, NewDogsRest
<1>2. WorldInv /\ PageInv /\ CourseInv /\ [PageNext]_allVars => CourseInv'
  BY CourseStep
<1>3. CourseInv => KeysReachDog
  BY DEF CourseInv, DogCourse, KeysReachDog, AllLate
<1> QED BY <1>1, <1>2, <1>3, PageAndWorld, PTL DEF PageSpec

-----------------------------------------------------------------------------
(***************************************************************************)
(* The list of actors.  Of two lists on their way the one that was made    *)
(* later names all that the other names, and one that no later one has     *)
(* overtaken names every player that the page shows.                       *)
(***************************************************************************)
InOrder(q) ==
  \A i, j \in 1 .. Len(q) :
    i < j /\ q[i].served /\ q[j].served => q[i].answer \subseteq q[j].answer

ListFits(r) ==
  r.served => r.answer \subseteq AllPlayers /\ (~ r.late => actors \subseteq r.answer)

ListsInv ==
  /\ actors \subseteq AllPlayers
  /\ InOrder(net["players"])
  /\ \A i \in 1 .. Len(net["players"]) : ListFits(net["players"][i])

(* The players of the server only become more, and keep their ids.         *)
LEMMA PlayersStay ==
  ASSUME WorldGrows
  PROVE  AllPlayers \subseteq AllPlayers'
BY DEF WorldGrows, AllPlayers

LEMMA RemovedInOrder ==
  ASSUME NEW S, NEW q \in Seq(S), NEW i \in 1 .. Len(q), InOrder(q),
         NEW p, p = RemoveAt(q, i)
  PROVE  InOrder(p)
<1>1. /\ Len(p) = Len(q) - 1 /\ Len(q) \in Nat /\ i \in Int
      /\ \A j \in 1 .. Len(q) - 1 : p[j] = IF j < i THEN q[j] ELSE q[j + 1]
  <2>1. /\ Len(RemoveAt(q, i)) = Len(q) - 1
        /\ \A j \in 1 .. Len(q) - 1 : RemoveAt(q, i)[j] = IF j < i THEN q[j] ELSE q[j + 1]
    BY RemoveAtFacts
  <2>2. Len(q) \in Nat /\ i \in Int
    OBVIOUS
  <2> QED BY <2>1, <2>2
<1>2. ASSUME NEW a \in 1 .. Len(p), NEW b \in 1 .. Len(p), a < b
      PROVE  \E c, d \in 1 .. Len(q) : c < d /\ p[a] = q[c] /\ p[b] = q[d]
  <2>1. /\ a \in 1 .. Len(q) /\ b \in 1 .. Len(q) /\ a + 1 \in 1 .. Len(q) /\ b + 1 \in 1 .. Len(q)
        /\ a \in 1 .. Len(q) - 1 /\ b \in 1 .. Len(q) - 1
    BY <1>1
  <2>2. CASE b < i
    <3>1. a < i
      BY <1>1, <1>2, <2>2
    <3> QED BY <1>1, <1>2, <2>1, <2>2, <3>1
  <2>3. CASE a < i /\ ~ (b < i)
    <3>1. a < b + 1 /\ p[a] = q[a] /\ p[b] = q[b + 1]
      BY <1>1, <1>2, <2>1, <2>3
    <3> QED BY <2>1, <3>1
  <2>4. CASE ~ (a < i)
    <3>1. ~ (b < i) /\ a + 1 < b + 1
      BY <1>1, <1>2, <2>4
    <3>2. p[a] = q[a + 1] /\ p[b] = q[b + 1]
      BY <1>1, <2>1, <2>4, <3>1
    <3> QED BY <2>1, <3>1, <3>2
  <2> QED BY <2>2, <2>3, <2>4
<1> QED BY <1>2 DEF InOrder

LEMMA AppendedInOrder ==
  ASSUME NEW S, NEW q \in Seq(S), NEW r \in S, InOrder(q),
         r.served => \A j \in 1 .. Len(q) : q[j].served => q[j].answer \subseteq r.answer,
         NEW p, p = Append(q, r)
  PROVE  InOrder(p)
<1>1. /\ Len(p) = Len(q) + 1 /\ Len(q) \in Nat /\ p[Len(q) + 1] = r
      /\ \A j \in 1 .. Len(q) : p[j] = q[j]
  OBVIOUS
<1>2. ASSUME NEW a \in 1 .. Len(p), NEW b \in 1 .. Len(p), a < b, p[a].served, p[b].served
      PROVE  p[a].answer \subseteq p[b].answer
  <2>1. a \in 1 .. Len(q) /\ p[a] = q[a]
    BY <1>1, <1>2
  <2>2. CASE b \in 1 .. Len(q)
    BY <1>1, <1>2, <2>1, <2>2 DEF InOrder
  <2>3. CASE b = Len(q) + 1
    BY <1>1, <1>2, <2>1, <2>3
  <2>4. b \in 1 .. Len(q) \/ b = Len(q) + 1
    BY <1>1
  <2> QED BY <2>2, <2>3, <2>4
<1> QED BY <1>2 DEF InOrder

LEMMA SameLists ==
  ASSUME ListsInv, WorldGrows, actors' = actors, net'["players"] = net["players"]
  PROVE  ListsInv'
BY PlayersStay DEF ListsInv, ListFits, InOrder

LEMMA AskedLists ==
  ASSUME PageInv, ListsInv, actors' = actors, WorldGrows,
         net'["players"] = Sending("players", NoMap)
  PROVE  ListsInv'
<1>1. PICK q : q = net["players"]
  OBVIOUS
<1>2. PICK r : r = NewRequest(NoMap)
  OBVIOUS
<1>3. "players" \in Kinds /\ q \in Seq(Request(Answers["players"]))
  BY <1>1 DEF Kinds, PageInv, NetInv, FineQueue
<1>4. PICK p : p = Append(q, r)
  OBVIOUS
<1>5. /\ Len(p) = Len(q) + 1 /\ p[Len(q) + 1] = r /\ Len(q) \in Nat
      /\ \A j \in 1 .. Len(q) : p[j] = q[j]
  BY <1>3, <1>4
<1>6. r.served = FALSE
  BY <1>2 DEF NewRequest
<1>7. \A j \in 1 .. Len(p) : p[j].served => j \in 1 .. Len(q) /\ p[j] = q[j]
  <2>1. \A j \in 1 .. Len(p) : j \in 1 .. Len(q) \/ j = Len(q) + 1
    BY <1>5
  <2> QED BY <1>5, <1>6, <2>1
<1>8. InOrder(p)
  BY <1>1, <1>7 DEF ListsInv, InOrder
<1>9. net'["players"] = p
  BY <1>1, <1>2, <1>4 DEF Sending
<1>10. \A j \in 1 .. Len(p) : ListFits(p[j])'
  BY <1>1, <1>7, PlayersStay DEF ListsInv, ListFits
<1>11. actors' \subseteq AllPlayers'
  BY PlayersStay DEF ListsInv
<1> QED BY <1>8, <1>9, <1>10, <1>11 DEF ListsInv

(* The server makes the list: it names every player that the page shows,   *)
(* and all that the lists made before name.                                *)
LEMMA ServedLists ==
  ASSUME WorldInv, PageInv, ListsInv, NEW i \in 1 .. Len(net["players"]), ServeQuery("players", i), ServerOnly
  PROVE  ListsInv'
<1>1. PICK q : q = net["players"]
  OBVIOUS
<1>2. PICK r : r = Answered(q[i], AllPlayers)
  OBVIOUS
<1>3. PICK o : o = RemoveAt(q, i)
  OBVIOUS
<1>4. PICK p : p = Append(o, r)
  OBVIOUS
<1>5. PICK S : S = Request(Answers["players"])
  OBVIOUS
<1>6. "players" \in Kinds /\ DOMAIN net = Kinds /\ q \in Seq(S) /\ i \in 1 .. Len(q)
  BY <1>1, <1>5 DEF Kinds, PageInv, NetInv, FineQueue
<1>7. r.answer = AllPlayers /\ r.served = TRUE
  BY <1>2 DEF Answered
<1>8. r \in S
  <2>1. q[i] \in S
    BY <1>6
  <2>2. AllPlayers \subseteq Nat
    <3>1. \A t \in registered : player[t].id \in Nat
      BY DEF WorldInv, TypeOK, Player
    <3> QED BY <3>1 DEF AllPlayers
  <2>3. Answers["players"] = Nat
    BY DEF Answers, Kinds
  <2> QED BY <1>2, <1>5, <2>1, <2>2, <2>3 DEF Request, Answered
<1>9. o \in Seq(S)
  BY <1>3, <1>6, RemoveAtFacts
<1>10. \A j \in 1 .. Len(o) : \E m \in 1 .. Len(q) : o[j] = q[m]
  BY <1>3, <1>6, RemovedAreThere
<1>11. InOrder(o)
  BY <1>1, <1>3, <1>6, RemovedInOrder DEF ListsInv
<1>12. \A j \in 1 .. Len(o) : ListFits(o[j])
  BY <1>1, <1>10 DEF ListsInv
<1>13. InOrder(p)
  <2>1. \A j \in 1 .. Len(o) : o[j].served => o[j].answer \subseteq r.answer
    BY <1>7, <1>12 DEF ListFits
  <2> QED BY <1>4, <1>8, <1>9, <1>11, <2>1, AppendedInOrder
<1>14. net'["players"] = p
  BY <1>1, <1>2, <1>3, <1>4, <1>6 DEF ServeQuery, Served
<1>15. AllPlayers' = AllPlayers /\ actors' = actors
  BY DEF ServeQuery, ServerOnly, AllPlayers, vars
<1>16. actors \subseteq AllPlayers
  BY DEF ListsInv
<1>17. \A j \in 1 .. Len(p) : p[j] = r \/ (j \in 1 .. Len(o) /\ p[j] = o[j])
  <2>1. /\ Len(p) = Len(o) + 1 /\ p[Len(o) + 1] = r /\ Len(o) \in Nat
        /\ \A j \in 1 .. Len(o) : p[j] = o[j]
    BY <1>4, <1>9
  <2>2. \A j \in 1 .. Len(p) : j \in 1 .. Len(o) \/ j = Len(o) + 1
    BY <2>1
  <2> QED BY <2>1, <2>2
<1>18. \A j \in 1 .. Len(p) : ListFits(p[j])'
  BY <1>7, <1>12, <1>15, <1>16, <1>17 DEF ListFits
<1> QED BY <1>13, <1>14, <1>15, <1>16, <1>18 DEF ListsInv

(* A list arrives: those made before it become late, and those made after  *)
(* it name all that it names.                                              *)
LEMMA ArrivedLists ==
  ASSUME PageInv, ListsInv, NEW i \in 1 .. Len(net["players"]), net["players"][i].served,
         PlayersDone(i), UNCHANGED vars
  PROVE  /\ ListsInv'
         /\ ~ actors \subseteq actors' => net["players"][i].late
<1>1. PICK q : q = net["players"]
  OBVIOUS
<1>2. PICK S : S = Request(Answers["players"])
  OBVIOUS
<1>3. /\ "players" \in Kinds /\ DOMAIN net = Kinds /\ FineQueue("players", q)
      /\ i \in 1 .. Len(q) /\ q \in Seq(S) /\ Len(q) \in Nat
      /\ \A j \in 1 .. Len(q) : q[j] \in S
  BY <1>1, <1>2 DEF Kinds, PageInv, NetInv, FineQueue
<1>4. PICK b : b = [j \in 1 .. Len(q) |-> q[j].served /\ j < i]
  OBVIOUS
<1>5. \A j \in 1 .. Len(q) : b[j] <=> q[j].served /\ j < i
  BY <1>4, Zenon
<1>6. b \in [1 .. Len(q) -> BOOLEAN]
  BY <1>4
<1>7. PICK l : l = [j \in 1 .. Len(q) |-> Lagging(q[j], b[j])]
  OBVIOUS
<1>8. FineQueue("players", l) /\ Len(l) = Len(q)
  BY <1>3, <1>6, <1>7, LaggingIsFine
<1>9. l \in Seq(S)
  BY <1>2, <1>8 DEF FineQueue
<1>10. \A j \in 1 .. Len(q) : /\ l[j].answer = q[j].answer /\ (l[j].served <=> q[j].served)
                              /\ l[j].late <=> (q[j].late \/ b[j])
  <2> SUFFICES ASSUME NEW j \in 1 .. Len(q)
               PROVE  /\ l[j].answer = q[j].answer /\ (l[j].served <=> q[j].served)
                      /\ l[j].late <=> (q[j].late \/ b[j])
    OBVIOUS
  <2>1. PICK r : r = q[j]
    OBVIOUS
  <2>2. PICK v : v = b[j]
    OBVIOUS
  <2>3. r \in Request(Answers["players"]) /\ v \in BOOLEAN /\ l[j] = Lagging(r, v)
    BY <1>2, <1>3, <1>6, <1>7, <2>1, <2>2
  <2>4. /\ Lagging(r, v).answer = r.answer /\ (Lagging(r, v).served <=> r.served)
        /\ Lagging(r, v).late <=> (r.late \/ v)
    BY <2>3 DEF Lagging, Request
  <2> QED BY <2>1, <2>2, <2>3, <2>4, Zenon
<1>11. InOrder(l)
  BY <1>1, <1>8, <1>10 DEF ListsInv, InOrder
<1>12. PICK p : p = RemoveAt(l, i)
  OBVIOUS
<1>13. InOrder(p)
  BY <1>3, <1>8, <1>9, <1>11, <1>12, RemovedInOrder
<1>14. net'["players"] = p
  <2>1. l = [j \in 1 .. Len(net["players"]) |->
               Lagging(net["players"][j], net["players"][j].served /\ j < i)]
    BY <1>1, <1>4, <1>7
  <2>2. net' = [net EXCEPT !["players"] = p]
    BY <1>12, <2>1, Zenon DEF PlayersDone, Arrived
  <2> QED BY <1>3, <2>2
<1>15. actors' = q[i].answer /\ AllPlayers' = AllPlayers
  BY <1>1 DEF PlayersDone, UpdatedPlayers, AllPlayers, vars
<1>16. q[i].served /\ \A j \in 1 .. Len(q) : ListFits(q[j])
  BY <1>1 DEF ListsInv
<1>17. q[i].answer \subseteq AllPlayers /\ (~ q[i].late => actors \subseteq q[i].answer)
  BY <1>3, <1>16 DEF ListFits
<1>18. ASSUME NEW j \in 1 .. Len(q), j # i
       PROVE  ListFits(l[j])'
  <2>1. ASSUME q[j].served PROVE q[j].answer \subseteq AllPlayers
    BY <1>16, <2>1 DEF ListFits
  <2>2. ASSUME q[j].served, ~ b[j]
        PROVE  q[i].answer \subseteq q[j].answer
    <3>1. i < j
      BY <1>3, <1>5, <1>18, <2>2
    <3> QED BY <1>1, <1>3, <1>16, <2>2, <3>1 DEF ListsInv, InOrder
  <2> QED BY <1>10, <1>15, <2>1, <2>2 DEF ListFits
<1>19. \A j \in 1 .. Len(p) : ListFits(p[j])'
  <2>1. /\ Len(p) = Len(q) - 1
        /\ \A j \in 1 .. Len(q) - 1 : p[j] = IF j < i THEN l[j] ELSE l[j + 1]
    BY <1>3, <1>8, <1>9, <1>12, RemoveAtFacts
  <2>2. ASSUME NEW j \in 1 .. Len(p)
        PROVE  \E m \in 1 .. Len(q) : m # i /\ p[j] = l[m]
    <3>1. /\ j \in 1 .. Len(q) - 1 /\ j \in 1 .. Len(q) /\ j + 1 \in 1 .. Len(q)
          /\ j < i => j # i
          /\ ~ (j < i) => j + 1 # i
      BY <1>3, <2>1
    <3> QED BY <2>1, <3>1
  <2>3. ASSUME NEW j \in 1 .. Len(p)
        PROVE  ListFits(p[j])'
    <3>1. PICK m \in 1 .. Len(q) : m # i /\ p[j] = l[m]
      BY <2>2
    <3>2. PICK r : r = l[m] /\ r = p[j]
      BY <3>1
    <3>3. ListFits(r)'
      BY <1>18, <3>1, <3>2
    <3> QED BY <3>2, <3>3
  <2> QED BY <2>3
<1>20. ListsInv'
  BY <1>13, <1>14, <1>15, <1>17, <1>19 DEF ListsInv
<1> QED BY <1>1, <1>15, <1>17, <1>20

LEMMA OtherLists ==
  ASSUME WorldInv, PageInv, ListsInv, NEW k \in Kinds, k # "players", WorldGrows, actors' = actors,
         NEW q, net' = [net EXCEPT ![k] = q]
  PROVE  ListsInv'
<1>1. net'["players"] = net["players"]
  BY DEF PageInv, NetInv, Kinds
<1> QED BY <1>1, SameLists

LEMMA ServeLists ==
  ASSUME WorldInv, PageInv, ListsInv, NEW k \in Kinds, NEW i \in 1 .. Len(net[k]), Serve(k, i)
  PROVE  ListsInv'
<1>1. ServerOnly /\ actors' = actors
  BY DEF Serve, ServerOnly
<1>2. CASE k = "players" /\ ServeQuery(k, i)
  BY <1>1, <1>2, ServedLists
<1>3. CASE k \in {"map", "state"} /\ ServeQuery(k, i)
  <2>1. PICK q : net' = [net EXCEPT ![k] = q]
    BY <1>3 DEF ServeQuery, Served
  <2>2. WorldGrows
    BY <1>3, IdleGrows DEF ServeQuery, vars
  <2> QED BY <1>1, <1>3, <2>1, <2>2, OtherLists
<1>4. CASE k = "join" /\ ServeJoin(i)
  <2>1. PICK m : m = net["join"][i].arg
    OBVIOUS
  <2>2. PICK t \in Tokens, code \in Codes :
          JoinGame(m, t, code) /\ \E q : net' = [net EXCEPT !["join"] = q]
    BY <1>4, <2>1 DEF ServeJoin, Served
  <2>3. m \in MapIds
    BY <1>4, <2>1 DEF PageInv, NetInv, FineQueue, Fine
  <2>4. WorldGrows
    BY <2>2, <2>3, JoinGrows
  <2> QED BY <1>1, <1>4, <2>2, <2>4, OtherLists
<1>5. CASE k = "action" /\ ServeAction(i)
  <2>1. PICK q : net' = [net EXCEPT !["action"] = q]
    BY <1>5 DEF ServeAction
  <2>2. WorldGrows
    BY <1>5, IdleGrows DEF ServeAction
  <2> QED BY <1>1, <1>5, <2>1, <2>2, OtherLists
<1> QED BY <1>2, <1>3, <1>4, <1>5 DEF Serve

LEMMA DoneLists ==
  ASSUME WorldInv, PageInv, ListsInv, NEW k \in Kinds, NEW i \in 1 .. Len(net[k]), Done(k, i)
  PROVE  /\ ListsInv'
         /\ (k = "players" /\ ~ actors \subseteq actors') => net["players"][i].late
<1>1. UNCHANGED vars /\ WorldGrows
  BY IdleGrows DEF Done, vars
<1>2. CASE k = "players"
  BY <1>1, <1>2, ArrivedLists DEF Done
<1>3. CASE k # "players"
  <2>1. net' = Arrived(k, i)
    BY <1>3 DEF Done, JoinDone, MapDone, StateDone
  <2>2. PICK q : net' = [net EXCEPT ![k] = q]
    BY <2>1, ArrivedFacts, Zenon
  <2>3. actors' = actors
    BY <1>3 DEF Done, JoinDone, MapDone, StateDone
  <2> QED BY <1>1, <1>3, <2>2, <2>3, OtherLists
<1> QED BY <1>2, <1>3

LEMMA DropLists ==
  ASSUME WorldInv, PageInv, ListsInv, NEW k \in Kinds, NEW i \in 1 .. Len(net[k]), Drop(k, i)
  PROVE  ListsInv'
<1>1. WorldGrows /\ actors' = actors
  BY IdleGrows DEF Drop, vars
<1>2. CASE k = "players"
  <2>1. PICK q : q = RemoveAt(net[k], i)
    OBVIOUS
  <2>2. PICK S : S = Request(Answers[k])
    OBVIOUS
  <2>3. net[k] \in Seq(S)
    BY <2>2 DEF PageInv, NetInv, FineQueue
  <2>4. \A j \in 1 .. Len(q) : \E m \in 1 .. Len(net[k]) : q[j] = net[k][m]
    BY <2>1, <2>3, RemovedAreThere
  <2>5. InOrder(q)
    BY <1>2, <2>1, <2>3, RemovedInOrder DEF ListsInv
  <2>6. net'[k] = q
    BY <1>2, <2>1 DEF Drop, PageInv, NetInv
  <2>7. \A r : ListFits(r) => ListFits(r)'
    BY <1>1, PlayersStay DEF ListFits
  <2>8. ASSUME NEW j \in 1 .. Len(q)
        PROVE  ListFits(q[j])'
    <3>1. PICK r : r = q[j]
      OBVIOUS
    <3>2. ListFits(r)
      BY <1>2, <2>4, <3>1 DEF ListsInv
    <3> QED BY <2>7, <3>1, <3>2
  <2>9. actors' \subseteq AllPlayers'
    BY <1>1, PlayersStay DEF ListsInv
  <2> QED BY <1>2, <2>5, <2>6, <2>8, <2>9 DEF ListsInv
<1>3. CASE k # "players"
  <2>1. PICK q : net' = [net EXCEPT ![k] = q]
    BY DEF Drop
  <2> QED BY <1>1, <1>3, <2>1, OtherLists
<1> QED BY <1>2, <1>3

LEMMA SendingLists ==
  ASSUME WorldInv, PageInv, ListsInv,
         \/ \E m \in MapIds : Choose(m)
         \/ Submit
         \/ OpenGame
         \/ ConstructGameState
         \/ \E k \in Kinds : Poll(k)
         \/ \E key : KeyDown(key) \/ KeyUp(key)
  PROVE  ListsInv'
<1>1. /\ \/ net' = net
         \/ \E k \in {"join", "map", "state", "action"} : \E q : net' = [net EXCEPT ![k] = q]
         \/ net'["players"] = Sending("players", NoMap)
      /\ UNCHANGED vars /\ actors' = actors
  <2>1. "players" \in Kinds /\ DOMAIN net = Kinds
    BY DEF Kinds, PageInv, NetInv
  <2> QED BY <2>1 DEF Choose, Submit, OpenGame, ConstructGameState, Poll, KeyDown, KeyUp, PressKey
<1>2. WorldGrows
  BY <1>1, IdleGrows DEF vars
<1>3. \A k \in {"join", "map", "state", "action"} : k \in Kinds /\ k # "players"
  BY DEF Kinds
<1> QED BY <1>1, <1>2, <1>3, SameLists, OtherLists, AskedLists

LEMMA ListsStep ==
  ASSUME WorldInv, PageInv, ListsInv, [PageNext]_allVars
  PROVE  ListsInv'
<1>1. CASE UNCHANGED allVars
  BY <1>1, IdleGrows, SameLists DEF allVars, vars, pageVars
<1>2. ASSUME OthersPlay PROVE ListsInv'
  BY <1>2, OthersGrow, SameLists DEF OthersPlay, pageVars
<1>3. ASSUME NEW w \in OtherTabs, OtherTabJoins(w) PROVE ListsInv'
  BY <1>3, IdleGrows, SameLists DEF OtherTabJoins, vars
<1>5. ASSUME NEW w \in Tabs, SetId(w) \/ SetMap(w) PROVE ListsInv'
  <2>1. net'["players"] = net["players"] /\ actors' = actors /\ WorldGrows
    BY <1>5, IdleGrows DEF SetId, SetMap, vars, PageInv, NetInv, Kinds
  <2> QED BY <2>1, SameLists
<1>4. ASSUME NEW k \in Kinds, NEW i \in 1 .. Len(net[k]), Serve(k, i) \/ Done(k, i) \/ Drop(k, i)
      PROVE  ListsInv'
  BY <1>4, ServeLists, DoneLists, DropLists
<1> QED BY <1>1, <1>2, <1>3, <1>4, <1>5, SendingLists DEF PageNext

(* A list of players that no later one has overtaken lets no actor         *)
(* disappear.                                                              *)
THEOREM ActorsStay == PageSpec => ActorsDropOnlyWhenStale
<1>1. PageInit => ListsInv
  BY DEF PageInit, ListsInv, InOrder, Kinds
<1>2. WorldInv /\ PageInv /\ ListsInv /\ [PageNext]_allVars => ListsInv'
  BY ListsStep
<1>3. WorldInv /\ PageInv /\ ListsInv /\ [PageNext]_allVars =>
        [\A i \in 1 .. Len(net["players"]) :
           (Done("players", i) /\ ~ actors \subseteq actors') => net["players"][i].late]_allVars
  <2>1. "players" \in Kinds
    BY DEF Kinds
  <2> QED BY <2>1, DoneLists
<1> QED BY <1>1, <1>2, <1>3, PageAndWorld, PTL DEF PageSpec, ActorsDropOnlyWhenStale

-----------------------------------------------------------------------------
(***************************************************************************)
(* Tiles and roads.                                                        *)
(***************************************************************************)
LEMMA BorderFacts ==
  ASSUME NEW cx \in Int, NEW cy \in Int, NEW c, c = [x |-> cx, y |-> cy]
  PROVE  /\ c.x = cx /\ c.y = cy
         /\ Border(c, -1, 0).x = 20 * cx - 10 /\ Border(c, -1, 0).y = 20 * cy
         /\ Border(c, 1, 0).x = 20 * cx + 10  /\ Border(c, 1, 0).y = 20 * cy
         /\ Border(c, 0, -1).x = 20 * cx      /\ Border(c, 0, -1).y = 20 * cy - 10
         /\ Border(c, 0, 1).x = 20 * cx       /\ Border(c, 0, 1).y = 20 * cy + 10
BY DEF Border, Cell

(* A road passes through the cells that the server enters for it.          *)
LEMMA PassesIsCovers ==
  ASSUME NEW m \in MapIds, NEW r \in RoadSet(m), NEW c, c.x \in Int, c.y \in Int
  PROVE  Passes(r, c) <=> CoversCell(r, c)
<1>1. /\ r.x0 \in Int /\ r.y0 \in Int /\ r.x1 \in Int /\ r.y1 \in Int
      /\ IsHorizontal(r) \/ IsVertical(r)
  BY RoadFacts
<1> QED BY <1>1 DEF Passes, CoversCell, Across, Z, Low, High, IsHorizontal, IsVertical, Least, Greatest

(* A single road is open across a border exactly when it contains it.      *)
LEMMA OpenIsOnRoad ==
  ASSUME NEW m \in MapIds, NEW r \in RoadSet(m), NEW cx \in Int, NEW cy \in Int,
         NEW c, c = [x |-> cx, y |-> cy]
  PROVE  /\ IsHorizontal(r) /\ OpenBack(r, c) <=> PointIsOnRoad(r, Border(c, -1, 0))
         /\ IsHorizontal(r) /\ OpenForward(r, c) <=> PointIsOnRoad(r, Border(c, 1, 0))
         /\ ~ IsHorizontal(r) /\ OpenBack(r, c) <=> PointIsOnRoad(r, Border(c, 0, -1))
         /\ ~ IsHorizontal(r) /\ OpenForward(r, c) <=> PointIsOnRoad(r, Border(c, 0, 1))
<1>1. /\ r.x0 \in Int /\ r.y0 \in Int /\ r.x1 \in Int /\ r.y1 \in Int
      /\ IsHorizontal(r) \/ IsVertical(r)
  BY RoadFacts
<1>2. /\ c.x = cx /\ c.y = cy
      /\ Border(c, -1, 0).x = 20 * cx - 10 /\ Border(c, -1, 0).y = 20 * cy
      /\ Border(c, 1, 0).x = 20 * cx + 10  /\ Border(c, 1, 0).y = 20 * cy
      /\ Border(c, 0, -1).x = 20 * cx      /\ Border(c, 0, -1).y = 20 * cy - 10
      /\ Border(c, 0, 1).x = 20 * cx       /\ Border(c, 0, 1).y = 20 * cy + 10
  BY BorderFacts
<1> USE DEF OpenBack, OpenForward, Passes, Across, Z, Low, High, IsHorizontal, IsVertical,
            Least, Greatest, PointIsOnRoad, XLo, XHi, YLo, YHi, Cell, HalfWidth
<1>3. CASE IsHorizontal(r)
  <2>1. IsHorizontal(r) /\ OpenBack(r, c) <=> PointIsOnRoad(r, Border(c, -1, 0))
    BY <1>1, <1>2, <1>3
  <2>2. IsHorizontal(r) /\ OpenForward(r, c) <=> PointIsOnRoad(r, Border(c, 1, 0))
    BY <1>1, <1>2, <1>3
  <2>3. ~ PointIsOnRoad(r, Border(c, 0, -1)) /\ ~ PointIsOnRoad(r, Border(c, 0, 1))
    BY <1>1, <1>2, <1>3
  <2> QED BY <1>3, <2>1, <2>2, <2>3
<1>4. CASE ~ IsHorizontal(r)
  <2>1. ~ IsHorizontal(r) /\ OpenBack(r, c) <=> PointIsOnRoad(r, Border(c, 0, -1))
    BY <1>1, <1>2, <1>4
  <2>2. ~ IsHorizontal(r) /\ OpenForward(r, c) <=> PointIsOnRoad(r, Border(c, 0, 1))
    BY <1>1, <1>2, <1>4
  <2>3. ~ PointIsOnRoad(r, Border(c, -1, 0)) /\ ~ PointIsOnRoad(r, Border(c, 1, 0))
    BY <1>1, <1>2, <1>4
  <2> QED BY <1>4, <2>1, <2>2, <2>3
<1> QED BY <1>3, <1>4

(* On every map, every tile agrees with the roads.                         *)
LEMMA TilesFit ==
  ASSUME NEW m \in MapIds, NEW cx \in Coord, NEW cy \in Coord
  PROVE  TileFits(m, [x |-> cx, y |-> cy])
<1>1. cx \in Int /\ cy \in Int
  BY MapAssumption DEF Coord
<1>2. PICK c : c = [x |-> cx, y |-> cy]
  OBVIOUS
<1>3. c.x \in Int /\ c.y \in Int
  BY <1>1, <1>2
<1>4. \A r \in RoadSet(m) : Passes(r, c) <=> CoversCell(r, c)
  BY <1>3, PassesIsCovers
<1>5. \A r \in RoadSet(m) :
        /\ IsHorizontal(r) /\ OpenBack(r, c) <=> PointIsOnRoad(r, Border(c, -1, 0))
        /\ IsHorizontal(r) /\ OpenForward(r, c) <=> PointIsOnRoad(r, Border(c, 1, 0))
        /\ ~ IsHorizontal(r) /\ OpenBack(r, c) <=> PointIsOnRoad(r, Border(c, 0, -1))
        /\ ~ IsHorizontal(r) /\ OpenForward(r, c) <=> PointIsOnRoad(r, Border(c, 0, 1))
  BY <1>1, <1>2, OpenIsOnRoad
<1>6. GetRoadsByCoords(m, c) # {} <=> \E r \in RoadSet(m) : CoversCell(r, c)
  BY DEF GetRoadsByCoords
<1> QED BY <1>2, <1>4, <1>5, <1>6 DEF TileFits, Tile, OnRoad

(* The painted map and the roads of the server agree wherever dogs can be. *)
THEOREM PaintedRoadsAreRoads == Spec => []DogsAreSeenOnRoads
<1>1. ASSUME WorldInv, NEW t \in Tokens, Placed(t)
      PROVE  /\ MapOf(t) \in MapIds
             /\ Tile(MapOf(t), CellAt(dog[t].pos)).road
  <2>1. PICK i \in 1 .. Len(sessions) : InSession(i, t)
    BY <1>1 DEF Placed
  <2>2. MapOf(t) = sessions[i].map
    BY <1>1, <2>1, MapOfPlaced DEF WorldInv
  <2>3. sessions[i] \in Session
    BY <1>1, <2>1 DEF WorldInv, TypeOK
  <2>4. MapOf(t) \in MapIds
    BY <2>2, <2>3 DEF Session
  <2>5. dog[t] \in Dog
    BY <1>1 DEF WorldInv, TypeOK
  <2>6. dog[t].pos.x \in Int /\ dog[t].pos.y \in Int
    BY <2>5 DEF Dog, Pair
  <2>7. PICK c : c = CellAt(dog[t].pos)
    OBVIOUS
  <2>8. c.x \in Int /\ c.y \in Int
    BY <2>6, <2>7, RoundNear DEF CellAt
  <2>9. RoadsUnder(MapOf(t), dog[t].pos) # {}
    BY <1>1, <2>1, <2>2 DEF WorldInv, DogsFit, DogFits
  <2>10. PICK r \in RoadSet(MapOf(t)) : CoversCell(r, c)
    BY <2>7, <2>9 DEF RoadsUnder, GetRoadsByCoords
  <2>11. Passes(r, c)
    BY <2>4, <2>8, <2>10, PassesIsCovers
  <2> QED BY <2>4, <2>7, <2>10, <2>11 DEF Tile
<1>2. WorldInv => DogsAreSeenOnRoads
  BY <1>1, TilesFit DEF DogsAreSeenOnRoads
<1> QED BY <1>2, WorldInvariant, PTL
=============================================================================
