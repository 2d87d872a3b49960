---------------------------- MODULE BrowserPage ----------------------------
(***************************************************************************)
(* One tab of the browser client (index.html, game.html, js/game.js) with  *)
(* the game server behind it.                                              *)
(*                                                                         *)
(* The tab sends requests without waiting for the answers of earlier ones. *)
(* The server may handle them in any order, and each answer comes back     *)
(* some time after it was made.  net[k] holds the requests of kind k in    *)
(* the order in which they were sent, and those that are answered moved to *)
(* the end, so that answers are in the order in which they were made.      *)
(* What an answer made later, or an action sent later, has overtaken is    *)
(* late.                                                                   *)
(*                                                                         *)
(* The tabs of a browser share its cookies.  The callback of a join sets   *)
(* them one by one, and other tabs may set and read them in between.       *)
(*                                                                         *)
(* The form of index.html is left with the answer of a join; requests that *)
(* the page leaves behind may still be handled, which is then a join of    *)
(* some other player.  Positions between two answers, animation and camera *)
(* are left out.                                                           *)
(***************************************************************************)
EXTENDS GameWorld, SequencesExt

CONSTANTS Bounds,    \* the bounds of a behaviour, one of a set of records
          ThisTab,
          OtherTabs  \* tabs in which other players join

Tabs == {ThisTab} \cup OtherTabs

Kinds == {"join", "map", "state", "players", "action"}

(* inFlight: how many requests of a kind are on their way at once; drops:  *)
(* how many the network loses; keys: the arrow keys that are pressed here; *)
(* company: whether there are other players (strangers), and other tabs;   *)
(* others: the directions that other players choose.                       *)
ASSUME PageAssumption ==
  /\ ThisTab \notin OtherTabs
  /\ Bounds \subseteq [inFlight : [Kinds -> Nat], drops : Nat,
                       keys : SUBSET (Directions \ {""}),
                       company : SUBSET {"strangers", "tabs"}, others : SUBSET Directions]

VARIABLES
  stage,    \* form, setting (the cookies), opening (game.html), loading
            \* (the map), loaded, asking (GameState is constructed), playing
  chosen,   \* the map selected in the form, while that is open
  cookies,  \* authToken, playerId and mapId, each a set of at most one
  callback, \* the answer with which a tab is setting the cookies
  toSet,    \* the cookie that the tab sets next
  pageMap,  \* map of game_map.js
  me,       \* playerId of game.js
  got,      \* stateLoaded and playersLoaded
  state,    \* desiredState, which is also the current one once started
  actors,   \* the keys of GameState.players
  keys,     \* pressedKeys
  net,      \* requests and answers on their way
  astray,   \* the last action the server handled was a late one, or was lost
  foreign,  \* another tab has set a cookie: never, earlier (this one was in
            \* its form) or meanwhile
  told,     \* the tokens that tabs of this browser were told
  torn,     \* the last callback began while another one was under way
  drops,    \* number of requests lost
  bound     \* the bounds, which do not change

jar      == <<cookies, callback, toSet, foreign, told, torn>>
pageVars == <<stage, chosen, jar, pageMap, me, got, state, actors, keys,
              net, astray, drops, bound>>
allVars  == <<vars, pageVars>>

Cookie  == [token : Tokens, id : Nat, map : MapIds]
Shown   == [id : Nat, dog : Dog]
Args    == MapIds \cup Directions \cup {NoMap}

(* What is asked, with which token, and the answer once it is made.        *)
Request(answers) ==
  [arg : Args, token : SUBSET Tokens, served : BOOLEAN, late : BOOLEAN, answer : SUBSET answers]

Answers == [k \in Kinds |-> IF k = "join" THEN Cookie
                            ELSE IF k = "state" THEN Shown
                            ELSE IF k = "players" THEN Nat ELSE {}]

PageTypeOK ==
  /\ TypeOK
  /\ stage \in {"form", "setting", "opening", "loading", "loaded", "asking", "playing"}
  /\ chosen \in MapIds \cup {NoMap}
  /\ cookies \in [token : SUBSET Tokens, id : SUBSET Nat, map : SUBSET MapIds]
  /\ \A t, u \in cookies.token : t = u
  /\ \A n, o \in cookies.id : n = o
  /\ \A m, l \in cookies.map : m = l
  /\ callback \in [Tabs -> SUBSET Cookie]
  /\ toSet \in [Tabs -> {"token", "id", "map"}]
  /\ pageMap \in MapIds \cup {NoMap}
  /\ me \in Nat
  /\ got \subseteq {"state", "players"}
  /\ state \subseteq Shown
  /\ actors \subseteq Nat
  /\ keys \in Seq(bound.keys)
  /\ IsInjective(keys)
  /\ DOMAIN net = Kinds
  /\ \A k \in Kinds : net[k] \in Seq(Request(Answers[k]))
  /\ astray \in BOOLEAN
  /\ foreign \in {"never", "earlier", "meanwhile"}
  /\ told \subseteq Tokens
  /\ torn \in BOOLEAN
  /\ bound \in Bounds
  /\ drops \in 0 .. bound.drops

PageInit ==
  /\ Init
  /\ stage = "form"
  /\ chosen \in MapIds
  /\ cookies = [token |-> {}, id |-> {}, map |-> {}]
  /\ callback = [w \in Tabs |-> {}]
  /\ toSet = [w \in Tabs |-> "token"]
  /\ pageMap = NoMap
  /\ me = 0
  /\ got = {}
  /\ state = {}
  /\ actors = {}
  /\ keys = <<>>
  /\ net = [k \in Kinds |-> <<>>]
  /\ astray = FALSE
  /\ foreign = "never"
  /\ told = {}
  /\ torn = FALSE
  /\ drops = 0
  /\ bound \in Bounds

-----------------------------------------------------------------------------
(* beforeSend reads the token from the cookies at every request.           *)
NewRequest(arg) ==
  [arg |-> arg, token |-> cookies.token, served |-> FALSE, late |-> FALSE,
   answer |-> {}]

CanSend(k) == Len(net[k]) < bound.inFlight[k]

Sending(k, arg) == Append(net[k], NewRequest(arg))

(* The form: another map is selected, and it is submitted; the button      *)
(* stays active while a join is on its way.                                *)
Choose(m) ==
  /\ stage = "form"
  /\ chosen' = m
  /\ UNCHANGED <<vars, stage, jar, pageMap, me, got, state, actors, keys, net,
                 astray, drops, bound>>

Submit ==
  /\ stage = "form"
  /\ CanSend("join")
  /\ net' = [net EXCEPT !["join"] = Sending("join", chosen)]
  /\ UNCHANGED <<vars, stage, chosen, jar, pageMap, me, got, state, actors, keys,
                 astray, drops, bound>>

(* game.html asks for the map of the cookies.                              *)
OpenGame ==
  /\ stage = "opening"
  /\ stage' = "loading"
  /\ \E m \in cookies.map : net' = [net EXCEPT !["map"] = Sending("map", m)]
  /\ UNCHANGED <<vars, chosen, jar, pageMap, me, got, state, actors, keys,
                 astray, drops, bound>>

(* The actor is loaded, and the next frame constructs GameState.  The list *)
(* of players is the same for every token: the two reads count as one.     *)
ConstructGameState ==
  /\ stage = "loaded"
  /\ stage' = "asking"
  /\ net' = [net EXCEPT !["state"] = Sending("state", NoMap),
                        !["players"] = Sending("players", NoMap)]
  /\ UNCHANGED <<vars, chosen, jar, pageMap, me, got, state, actors, keys,
                 astray, drops, bound>>

(* Fault: the flag stays set until the answer comes, also when none does.  *)
FlagStays(k) == net[k] = <<>> /\ drops = 0

(* updateInProgress and playersSuncInProgress are reset before the         *)
(* function that sets them returns: no frame finds one of them set.        *)
NotInProgress(k) == TRUE

(* A frame asks for the state, every 50th also for the list of players.    *)
Poll(k) ==
  /\ stage = "playing"
  /\ k \in {"state", "players"}
  /\ NotInProgress(k)
  /\ CanSend(k)
  /\ net' = [net EXCEPT ![k] = Sending(k, NoMap)]
  /\ UNCHANGED <<vars, stage, chosen, jar, pageMap, me, got, state, actors, keys,
                 astray, drops, bound>>

LastKey(ks) == IF ks = <<>> THEN "" ELSE ks[Len(ks)]

(* Fault: only the last key is compared.                                   *)
PressedLast(key) == keys # <<>> /\ LastKey(keys) = key

Pressed(key) == \E i \in 1 .. Len(keys) : keys[i] = key

(* Fault: a key that is released stops the dog.                            *)
StopOnRelease(ks) == IF Len(ks) < Len(keys) THEN "" ELSE LastKey(ks)

(* _pressKey(getLastKey()).                                                *)
KeyToSend(ks) == LastKey(ks)

PressKey(ks) ==
  /\ stage \in {"asking", "playing"}
  /\ CanSend("action")
  /\ keys' = ks
  /\ net' = [net EXCEPT !["action"] = Sending("action", KeyToSend(ks))]
  /\ UNCHANGED <<vars, stage, chosen, jar, pageMap, me, got, state, actors,
                 astray, drops, bound>>

KeyDown(key) == ~ Pressed(key) /\ PressKey(Append(keys, key))

KeyUp(key) == \E i \in 1 .. Len(keys) : keys[i] = key /\ PressKey(RemoveAt(keys, i))

-----------------------------------------------------------------------------
(* The server handles the i-th request of a kind.                          *)
Answered(r, answer) ==
  [arg |-> r.arg, token |-> r.token, served |-> TRUE, late |-> r.late, answer |-> answer]

Served(k, i, answer) ==
  net' = [net EXCEPT ![k] = Append(RemoveAt(net[k], i), Answered(net[k][i], answer))]

ServerOnly == UNCHANGED <<stage, chosen, jar, pageMap, me, got, state, actors,
                          keys, drops, bound>>

ServeJoin(i) ==
  /\ \E t \in Tokens, code \in Codes :
       /\ JoinGame(net["join"][i].arg, t, code)
       /\ Served("join", i, {[token |-> u, id |-> player'[u].id, map |-> net["join"][i].arg] :
                               u \in known' \ known})
  /\ UNCHANGED astray

StateOf(tokens) ==
  {[id |-> player[u].id, dog |-> dog[u]] : u \in UNION {SessionMates(t) : t \in tokens}}

AllPlayers == {player[t].id : t \in registered}

ServeQuery(k, i) ==
  /\ Served(k, i, IF k = "state" THEN StateOf(net[k][i].token)
                  ELSE IF k = "players" THEN AllPlayers ELSE {})
  /\ UNCHANGED <<vars, astray>>

Lagging(r, overtaken) == [r EXCEPT !.late = (r.late \/ overtaken)]

(* The actions that were sent before the i-th come too late after it.      *)
WithoutAction(i) ==
  RemoveAt([j \in 1 .. Len(net["action"]) |-> Lagging(net["action"][j], j < i)], i)

(* An action is done with when the server has handled it: nothing waits    *)
(* for its answer.                                                         *)
ServeAction(i) ==
  /\ \A t \in net["action"][i].token : SetDogDirection(t, net["action"][i].arg)
  /\ net' = [net EXCEPT !["action"] = WithoutAction(i)]
  /\ astray' = net["action"][i].late
  /\ UNCHANGED <<sessions, registered, player, counter, tick, up, known>>

Serve(k, i) ==
  /\ i \in 1 .. Len(net[k])
  /\ ~ net[k][i].served
  /\ \/ k = "join" /\ ServeJoin(i)
     \/ k \in {"map", "state", "players"} /\ ServeQuery(k, i)
     \/ k = "action" /\ ServeAction(i)
  /\ ServerOnly

-----------------------------------------------------------------------------
(* Of the answers on their way those made before the i-th become late.     *)
Arrived(k, i) ==
  [net EXCEPT ![k] =
     RemoveAt([j \in 1 .. Len(net[k]) |-> Lagging(net[k][j], net[k][j].served /\ j < i)], i)]

(* Cookies.set of the three cookies, one by one.                           *)
SetBy(w) == foreign' = IF w = ThisTab THEN foreign
                       ELSE IF stage = "form" THEN "earlier" ELSE "meanwhile"

SetToken(w, c) ==
  /\ toSet[w] = "token"
  /\ toSet' = [toSet EXCEPT ![w] = "id"]
  /\ callback' = [callback EXCEPT ![w] = {c}]
  /\ cookies' = [cookies EXCEPT !.token = {c.token}]
  /\ told' = told \cup {c.token}
  /\ torn' = (\E v \in Tabs : callback[v] # {})
  /\ SetBy(w)

SetId(w) ==
  /\ toSet[w] = "id"
  /\ toSet' = [toSet EXCEPT ![w] = "map"]
  /\ \E c \in callback[w] : cookies' = [cookies EXCEPT !.id = {c.id}]
  /\ SetBy(w)
  /\ UNCHANGED <<vars, stage, chosen, callback, told, torn, pageMap, me, got, state,
                 actors, keys, net, astray, drops, bound>>

(* The last one; then the tab leaves for game.html and with it everything  *)
(* that the form still waits for.                                          *)
SetMap(w) ==
  /\ toSet[w] = "map"
  /\ toSet' = [toSet EXCEPT ![w] = "token"]
  /\ \E c \in callback[w] : cookies' = [cookies EXCEPT !.map = {c.map}]
  /\ callback' = [callback EXCEPT ![w] = {}]
  /\ SetBy(w)
  /\ \/ /\ w = ThisTab
        /\ stage' = "opening"
        /\ chosen' = NoMap
        /\ net' = [net EXCEPT !["join"] = <<>>]
     \/ w # ThisTab /\ UNCHANGED <<stage, chosen, net>>
  /\ UNCHANGED <<vars, told, torn, pageMap, me, got, state, actors, keys, astray,
                 drops, bound>>

(* Fault: the callback reads the selected map again.                       *)
CookieOfForm(c) == [c EXCEPT !.map = chosen]

(* The callback of the join keeps the map that was submitted.              *)
CookieOf(c) == c

(* done of the join begins to set the cookies; fail only tells the player. *)
JoinDone(i) ==
  /\ stage = "form"
  /\ \/ /\ \E c \in net["join"][i].answer : SetToken(ThisTab, CookieOf(c))
        /\ stage' = "setting"
     \/ net["join"][i].answer = {} /\ UNCHANGED <<jar, stage>>
  /\ net' = Arrived("join", i)
  /\ UNCHANGED <<pageMap, me, got, state, actors>>

(* gameLoadMap and gameserverMain, which takes the player id.              *)
MapDone(i) ==
  /\ pageMap' = net["map"][i].arg
  /\ \E n \in cookies.id : me' = n
  /\ stage' = "loaded"
  /\ net' = Arrived("map", i)
  /\ UNCHANGED <<jar, got, state, actors>>

(* _startGame                                                              *)
StageAfter(k) == IF got \cup {k} = {"state", "players"} THEN "playing" ELSE stage

StateDone(i) ==
  /\ state' = net["state"][i].answer
  /\ got' = got \cup {"state"}
  /\ stage' = StageAfter("state")
  /\ net' = Arrived("state", i)
  /\ UNCHANGED <<jar, pageMap, me, actors>>

(* Fault: a player that is listed already is not kept.                     *)
OnlyNew(list) == list \ actors

(* _updatePlayersList adds the new ones and deletes those not listed.      *)
UpdatedPlayers(list) == list

PlayersDone(i) ==
  /\ actors' = UpdatedPlayers(net["players"][i].answer)
  /\ got' = got \cup {"players"}
  /\ stage' = StageAfter("players")
  /\ net' = Arrived("players", i)
  /\ UNCHANGED <<jar, pageMap, me, state>>

Done(k, i) ==
  /\ i \in 1 .. Len(net[k])
  /\ net[k][i].served
  /\ \/ k = "join" /\ JoinDone(i)
     \/ k = "map" /\ MapDone(i)
     \/ k = "state" /\ StateDone(i)
     \/ k = "players" /\ PlayersDone(i)
  /\ UNCHANGED <<vars, chosen, keys, astray, drops, bound>>

(* The network loses a request or its answer; only the join says so.       *)
Drop(k, i) ==
  /\ drops < bound.drops
  /\ i \in 1 .. Len(net[k])
  /\ drops' = drops + 1
  /\ net' = [net EXCEPT ![k] = IF k = "action" THEN WithoutAction(i) ELSE RemoveAt(net[k], i)]
  /\ astray' = (astray \/ (k = "action" /\ ~ net[k][i].late))
  /\ UNCHANGED <<vars, stage, chosen, jar, pageMap, me, got, state, actors, keys, bound>>

-----------------------------------------------------------------------------
(* The tokens of this browser: told to its tabs, or in answers on the way. *)
OwnTokens ==
  told \cup {c.token : c \in UNION {net["join"][i].answer : i \in 1 .. Len(net["join"])}}

(* Other players join, and press keys with tokens that are not those of    *)
(* this browser, and other tabs with any that they found in the cookies.   *)
OthersTokens == (known \ OwnTokens) \cup (IF foreign = "never" THEN {} ELSE told)

OthersPlay ==
  /\ "strangers" \in bound.company
  /\ \/ \E t \in Tokens, code \in Codes, id \in MapIds : JoinGame(id, t, code)
     \/ /\ \E t \in OthersTokens : \E dir \in bound.others : SetDogDirection(t, dir)
        /\ UNCHANGED <<sessions, registered, player, counter, tick, up, known>>
     \/ OnTick
  /\ UNCHANGED pageVars

(* Another tab of the same browser gets the answer of its own join.        *)
OtherTabJoins(w) ==
  /\ "tabs" \in bound.company
  /\ \E t \in known \ OwnTokens :
       SetToken(w, [token |-> t, id |-> player[t].id, map |-> MapOf(t)])
  /\ UNCHANGED <<vars, stage, chosen, pageMap, me, got, state, actors, keys, net,
                 astray, drops, bound>>

PageNext ==
  /\ up
  /\ \/ \E m \in MapIds : Choose(m)
     \/ Submit
     \/ OpenGame
     \/ ConstructGameState
     \/ \E k \in Kinds : Poll(k)
     \/ \E key \in bound.keys : KeyDown(key) \/ KeyUp(key)
     \/ \E k \in Kinds : \E i \in 1 .. Len(net[k]) : Serve(k, i) \/ Done(k, i) \/ Drop(k, i)
     \/ OthersPlay
     \/ \E w \in OtherTabs : OtherTabJoins(w)
     \/ \E w \in Tabs : SetId(w) \/ SetMap(w)

(* The page goes on by itself, a callback runs to its end, and every       *)
(* request that is not lost is handled and answered.                       *)
PageFairness ==
  /\ \A w \in Tabs : WF_allVars(up /\ SetId(w)) /\ WF_allVars(up /\ SetMap(w))
  /\ WF_allVars(up /\ OpenGame)
  /\ WF_allVars(up /\ ConstructGameState)
  /\ \A k \in {"state", "players"} : WF_allVars(up /\ Poll(k))
  /\ \A k \in Kinds : WF_allVars(up /\ Serve(k, 1)) /\ WF_allVars(up /\ Done(k, 1))

PageSpec == PageInit /\ [][PageNext]_allVars /\ PageFairness

-----------------------------------------------------------------------------
(* The page and the network around it do to the server only what the       *)
(* specification of the game world lets clients do.                        *)
PageUsesWorld == Spec

(* The cookies are those of one player.                                    *)
CookiesOf(t) ==
  cookies = [token |-> {t}, id |-> {player[t].id}, map |-> {sessions[player[t].session].map}]

(* What one of the tabs of this browser was told, and nothing else.        *)
OfThisBrowser(ids, maps) ==
  /\ ids \subseteq {player[t].id : t \in told}
  /\ maps \subseteq {sessions[player[t].session].map : t \in told}

(* Token, player id and map are set one by one and read at three times.    *)
(* Whatever the tabs do, each of them is that of a player who joined in    *)
(* this browser, so that no request is refused and every state shows the   *)
(* dog of such a player.  Unless the callbacks of two tabs overlapped, the *)
(* cookies are those of one player when no callback is under way.  Unless  *)
(* another tab set one since this tab had its answer, the page shows the   *)
(* map of the player of its cookies and states in which its own dog is.    *)
PageIsOfOnePlayer ==
  /\ cookies.token \subseteq told /\ told \subseteq registered
  /\ OfThisBrowser(cookies.id, cookies.map)
  /\ stage \in {"loaded", "asking", "playing"} => OfThisBrowser({me}, {pageMap})
  /\ "state" \in got => \E s \in state : \E t \in told : s.id = player[t].id
  /\ (~ torn /\ told # {} /\ \A w \in Tabs : callback[w] = {})
       => \E t \in told : CookiesOf(t)
  /\ (foreign # "meanwhile" /\ stage \in {"loaded", "asking", "playing"})
       => \E t \in told : /\ CookiesOf(t)
                          /\ me = player[t].id
                          /\ pageMap = sessions[player[t].session].map
                          /\ "state" \in got => \E s \in state : s.id = me

(* Key events are sent one by one without waiting.  When all are handled,  *)
(* the dog goes where the last key still held points, or stands when there *)
(* is none, unless an older key came after a newer one or was lost, or     *)
(* another tab steers the same dog.                                        *)
FollowsKeys(d) == IF keys = <<>> THEN d.speed = NoSpeed ELSE d.dir = LastKey(keys)

KeysReachDog ==
  (net["action"] = <<>> /\ ~ astray /\ foreign = "never") =>
    \A t \in cookies.token : FollowsKeys(dog[t])

(* Players never leave the server.  An actor disappears from the page only *)
(* with a list that the server made before one that was applied already.   *)
ActorsDropOnlyWhenStale ==
  [][\A i \in 1 .. Len(net["players"]) :
       (Done("players", i) /\ ~ actors \subseteq actors') => net["players"][i].late]_allVars

(* Nothing changes at the server any more: from some time on the page      *)
(* shows its state and all its players, or it is blank because one of the  *)
(* first two requests or their answers was lost, which nobody repeats.     *)
UpToDate ==
  /\ stage = "playing"
  /\ actors = AllPlayers
  /\ state = StateOf(cookies.token)

Blank == \/ "state" \notin got /\ net["state"] = <<>>
         \/ "players" \notin got /\ net["players"] = <<>>

PageCatchesUp ==
  <>[][FALSE]_<<vars, cookies>> =>
    <>[](stage \in {"asking", "playing"} => UpToDate \/ Blank)
=============================================================================
