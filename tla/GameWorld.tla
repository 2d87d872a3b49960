----------------------------- MODULE GameWorld -----------------------------
(***************************************************************************)
(* The state that the game server keeps between requests (class GameServer *)
(* with model::Game, GameSession, PlayerList, Player and Dog) and the      *)
(* operations that change it: the handlers of ApiHandler and the tick of   *)
(* Ticker.  All of them run on one strand, so each is one step here.       *)
(***************************************************************************)
EXTENDS GameMap, FiniteSets

CONSTANTS Tokens,      \* what GetToken can return
          NoToken,     \* the Authorization header is missing or malformed
          NoMap,       \* a map id that is not in the configuration
          MapSpeed,    \* MapSpeed[m]: dog speed of map m, units per millisecond
          DefaultSpeed,\* default_dog_speed_ of a new Dog
          RandomSpawn, \* --randomize-spawn-points
          Spots,       \* the positions a random spawn is drawn from
          AutoTicker,  \* --tick-period was given
          Deltas,      \* milliseconds from one tick to the next
          MaxJoins     \* bound on player_id_counter_

ASSUME GameAssumption ==
  /\ NoToken \notin Tokens
  /\ NoMap \notin MapIds
  /\ MapSpeed \in [MapIds -> Nat]
  /\ DefaultSpeed \in Nat
  /\ RandomSpawn \in BOOLEAN
  /\ AutoTicker \in BOOLEAN
  /\ Spots \subseteq Pair
  /\ Deltas \subseteq Nat \ {0}
  /\ MaxJoins \in Nat

VARIABLES
  sessions,    \* game_sessions_: the map and the dogs_ of every session
  registered,  \* the keys of players_
  player,      \* player[t]: id and session of the player with token t
  dog,         \* dog[t]: the dog that player owns
  counter,     \* player_id_counter_, always equal to dog_id_counter_
  tick,        \* tick_ of GameServer, in milliseconds
  up,          \* FALSE when the process has died
  known        \* tokens that a join reply has given to a client

vars == <<sessions, registered, player, dog, counter, tick, up, known>>

Directions == {"U", "D", "L", "R", ""}

Dog     == [pos : Pair, speed : Pair, dir : Directions, top : Nat]
Player  == [id : Nat, session : Nat]
Session == [map : MapIds, dogs : Seq(Tokens)]

(* Fault: a direction the protocol does not have.                          *)
DogFacingNorth(p, top) == [pos |-> p, speed |-> NoSpeed, dir |-> "N", top |-> top]

(* A dog starts at rest, facing up.  AddDog sets the position and the map's *)
(* speed of a new one.  An unregistered token has neither dog nor player:  *)
(* NewDog and NoPlayer stand for nothing.                                  *)
DogAt(p, top) == [pos |-> p, speed |-> NoSpeed, dir |-> "U", top |-> top]

NewDog   == DogAt([x |-> 0, y |-> 0], DefaultSpeed)
NoPlayer == [id |-> 0, session |-> 0]

Codes == {200, 400, 401, 404, 405, 500}

TypeOK ==
  /\ sessions \in Seq(Session)
  /\ registered \subseteq Tokens
  /\ player \in [Tokens -> Player]
  /\ dog \in [Tokens -> Dog]
  /\ counter \in Nat
  /\ tick \in Int
  /\ up \in BOOLEAN
  /\ known \subseteq Tokens

Init ==
  /\ sessions = <<>>
  /\ registered = {}
  /\ player = [t \in Tokens |-> NoPlayer]
  /\ dog = [t \in Tokens |-> NewDog]
  /\ counter = 0
  /\ tick = 100
  /\ up = TRUE
  /\ known = {}

(* A handler is a relation between a state, the next state and the status  *)
(* code of its response; a response that changes nothing is a Reply.       *)
Reply(code, codes) == code \in codes /\ UNCHANGED vars

-----------------------------------------------------------------------------
(***************************************************************************)
(* Joining: find or create the session of the map, add a player, then put  *)
(* the player's dog into the session.                                      *)
(***************************************************************************)
HasSession(id) == \E i \in 1 .. Len(sessions) : sessions[i].map = id

SessionIndex(id) ==
  IF HasSession(id)
    THEN CHOOSE i \in 1 .. Len(sessions) :
           /\ sessions[i].map = id
           /\ \A j \in 1 .. (i - 1) : sessions[j].map # id
    ELSE Len(sessions) + 1

(* Fault: the loop over the sessions is left out.                          *)
AlwaysNewSession(id) == Append(sessions, [map |-> id, dogs |-> <<>>])

GetGameSession(id) ==
  IF HasSession(id) THEN sessions ELSE Append(sessions, [map |-> id, dogs |-> <<>>])

(* AddPlayer constructs the Player, which takes an id for itself and its   *)
(* dog, before players_ refuses a token that is already there.             *)
TokenCollides(id, t, code) ==
  /\ t \in registered
  /\ code = 500
  /\ sessions' = GetGameSession(id)
  /\ counter' = counter + 1
  /\ UNCHANGED <<registered, player, dog, known>>

(* Fault: the counter does not move.                                       *)
AddPlayerSameId(id, t) ==
  /\ t \notin registered
  /\ registered' = registered \cup {t}
  /\ counter' = counter
  /\ player' = [player EXCEPT ![t] = [id |-> counter + 1, session |-> SessionIndex(id)]]

AddPlayer(id, t) ==
  /\ t \notin registered
  /\ registered' = registered \cup {t}
  /\ counter' = counter + 1
  /\ player' = [player EXCEPT ![t] = [id |-> counter + 1, session |-> SessionIndex(id)]]

(* Fault: the dog goes into the newest session.                            *)
DogInLastSession(id, t) ==
  [GetGameSession(id) EXCEPT ![Len(GetGameSession(id))].dogs = Append(@, t)]

DogAppended(id, t) ==
  [GetGameSession(id) EXCEPT ![SessionIndex(id)].dogs = Append(@, t)]

(* Fault: the client is told the token of a join that failed.              *)
AddDogThrowsLate(id, code) ==
  /\ RoadsOf[id] = <<>>
  /\ code = 500
  /\ sessions' = GetGameSession(id)
  /\ known' = known \cup (registered' \ registered)
  /\ UNCHANGED dog

(* AddDog asks the map for a start position first, and that throws on a    *)
(* map without roads: the player stays in the list without a placed dog.   *)
AddDogThrows(id, code) ==
  /\ RoadsOf[id] = <<>>
  /\ code = 500
  /\ sessions' = GetGameSession(id)
  /\ UNCHANGED <<dog, known>>

AddDog(id, t, code) ==
  /\ RoadsOf[id] # <<>>
  /\ code = 200
  /\ sessions' = DogAppended(id, t)
  /\ \E p \in Spots \cup {StartPosition(id)} :
       /\ GetStartPosition(id, RandomSpawn, p)
       /\ dog' = [dog EXCEPT ![t] = DogAt(p, MapSpeed[id])]
  /\ known' = known \cup {t}

JoinGame(id, t, code) ==
  /\ counter < MaxJoins
  /\ \/ TokenCollides(id, t, code)
     \/ AddPlayer(id, t) /\ (AddDogThrows(id, code) \/ AddDog(id, t, code))
  /\ UNCHANGED <<tick, up>>

(* The method is not POST, the body cannot be used, the map is unknown, or *)
(* the player joins.                                                       *)
HandlePlayerJoinRequest(t, code) ==
  \/ Reply(code, {400, 405})
  \/ \E id \in MapIds \cup {NoMap} :
       \/ id \notin MapIds /\ Reply(code, {404})
       \/ id \in MapIds /\ JoinGame(id, t, code)

-----------------------------------------------------------------------------
(* What a client can put in the Authorization header: nothing usable, or a *)
(* token; one it was given, or one nobody owns.                            *)
Credentials == {NoToken} \cup known \cup (Tokens \ registered)

Unauthorized(a, code) == a \notin registered /\ Reply(code, {401})

(* The answers about maps read only what the configuration file said.      *)
HandleMapRequest(code) == Reply(code, {200, 400, 404, 405})

(* The list names the players of every session; the state only those whose *)
(* session pointer is the caller's.                                        *)
HandlePlayersListRequest(a, code) ==
  \/ Reply(code, {405})
  \/ Unauthorized(a, code)
  \/ a \in registered /\ Reply(code, {200})

HandleStateRequest(a, code) ==
  \/ Reply(code, {405})
  \/ Unauthorized(a, code)
  \/ a \in registered /\ Reply(code, {200})

(* Fault: the state request shows every player.                            *)
EverybodyAsMates(a) == registered

SessionMates(a) == {t \in registered : player[t].session = player[a].session}

SpeedFor(dir, top) ==
  [x |-> IF dir = "R" THEN top ELSE IF dir = "L" THEN -top ELSE 0,
   y |-> IF dir = "D" THEN top ELSE IF dir = "U" THEN -top ELSE 0]

(* Fault: the empty direction does not stop the dog.                       *)
SetDogDirectionOnly(t, dir) ==
  dog' = [dog EXCEPT ![t].dir = dir,
                     ![t].speed = IF dir = "" THEN @ ELSE SpeedFor(dir, dog[t].top)]

(* SetDogDirection throws on a direction it does not know before it has    *)
(* changed anything.                                                       *)
SetDogDirection(t, dir) ==
  dog' = [dog EXCEPT ![t].dir = dir, ![t].speed = SpeedFor(dir, dog[t].top)]

HandleActionRequest(a, code) ==
  \/ Reply(code, {405})
  \/ Unauthorized(a, code)
  \/ a \in registered /\ Reply(code, {400})
  \/ /\ a \in registered
     /\ code = 200
     /\ \E dir \in Directions : SetDogDirection(a, dir)
     /\ UNCHANGED <<sessions, registered, player, counter, tick, up, known>>

(* SetGameServerTick only stores the period: its call of UpdateGames is    *)
(* commented out.  With a ticker the target is a bad request.              *)
HandleTickRequest(code) ==
  \/ Reply(code, {400})
  \/ ~ AutoTicker /\ Reply(code, {405})
  \/ /\ ~ AutoTicker
     /\ code = 200
     /\ \E delta \in Deltas \cup {-1, 0} : tick' = delta
     /\ UNCHANGED <<sessions, registered, player, dog, counter, up, known>>

-----------------------------------------------------------------------------
(***************************************************************************)
(* The tick: UpdateGame calls UpdateDogsPosition of every session, which   *)
(* moves every dog in its dogs_ (players are never removed, so no weak_ptr *)
(* in dogs_ has expired).                                                  *)
(***************************************************************************)
InSession(i, t) == \E k \in 1 .. Len(sessions[i].dogs) : sessions[i].dogs[k] = t

Placed(t) == \E i \in 1 .. Len(sessions) : InSession(i, t)

MapOf(t) == sessions[CHOOSE i \in 1 .. Len(sessions) : InSession(i, t)].map

UpdateDogsPosition(delta) ==
  dog' = [t \in Tokens |-> IF Placed(t) THEN Moved(MapOf(t), dog[t], delta) ELSE dog[t]]

OnTick ==
  /\ AutoTicker
  /\ \E delta \in Deltas :
       IF \E t \in Tokens : Placed(t) /\ ReadsEmptySet(MapOf(t), dog[t], delta)
         THEN up' = FALSE /\ UNCHANGED dog
         ELSE UpdateDogsPosition(delta) /\ UNCHANGED up
  /\ UNCHANGED <<sessions, registered, player, counter, tick, known>>

Next ==
  /\ up
  /\ \/ OnTick
     \/ \E code \in Codes :
          \/ HandleMapRequest(code)
          \/ \E t \in Tokens : HandlePlayerJoinRequest(t, code)
          \/ \E a \in Credentials : \/ HandlePlayersListRequest(a, code)
                                    \/ HandleStateRequest(a, code)
                                    \/ HandleActionRequest(a, code)
          \/ HandleTickRequest(code)

Spec == Init /\ [][Next]_vars

(* The ticker re-arms its timer at the end of every tick (ticker.h), so    *)
(* ticks keep coming; clients owe nothing.                                 *)
FairSpec == Spec /\ WF_vars(up /\ OnTick)

-----------------------------------------------------------------------------
(***************************************************************************)
(* Properties.                                                             *)
(***************************************************************************)

(* GetGameSession creates a session only when the loop has found none: two *)
(* players of one map are always in the same session.                      *)
OneSessionPerMap ==
  \A i, j \in 1 .. Len(sessions) : sessions[i].map = sessions[j].map => i = j

(* The player list and the sessions are two structures: a dog is in the    *)
(* dogs_ of the session its player points to and in no other, and only     *)
(* once, or a tick would move it twice.                                    *)
RosterAgreesWithPlayers ==
  \A i \in 1 .. Len(sessions) :
    \A k \in 1 .. Len(sessions[i].dogs) :
      /\ sessions[i].dogs[k] \in registered
      /\ player[sessions[i].dogs[k]].session = i
      /\ \A l \in 1 .. Len(sessions[i].dogs) :
           sessions[i].dogs[k] = sessions[i].dogs[l] => k = l

(* JoinGame is not undone when AddDog throws.  A registered player without *)
(* a dog in its session exists only on a map that has no roads, and then   *)
(* no client was told its token.                                           *)
HalfJoined(t) == t \in registered /\ ~ Placed(t)

HalfJoinedOnlyWithoutRoads ==
  \A t \in Tokens :
    /\ t \in known => Placed(t)
    /\ HalfJoined(t) => /\ player[t].session \in 1 .. Len(sessions)
                        /\ RoadsOf[sessions[player[t].session].map] = <<>>

(* The dog of a half-joined player never leaves the origin.                *)
HalfJoinedDogsRest ==
  \A t \in Tokens : ~ Placed(t) => dog[t] = NewDog

(* Ids come from a counter that also moves when a join fails: no two       *)
(* players share one, and none is ahead of the counter.                    *)
UniqueIds ==
  \A t, u \in registered :
    /\ player[t].id \in 1 .. counter
    /\ player[t].id = player[u].id => t = u

(* The state request filters the player list by session: on a map with     *)
(* roads it shows exactly the dogs the ticks of that session move.         *)
StateShowsTheSession ==
  \A t \in registered :
    LET i == player[t].session
    IN  RoadsOf[sessions[i].map] # <<>> =>
          SessionMates(t) = {u \in Tokens : InSession(i, u)}

(* Wherever the ticks take it, there is a road registered at the cell of   *)
(* every placed dog, so that the tick never reads roads.begin() of an      *)
(* empty set.                                                              *)
RoadUnderDog ==
  \A t \in Tokens : Placed(t) => RoadsUnder(MapOf(t), dog[t].pos) # {}

(* The server survives every tick.                                         *)
ServerAlive == up

(* A moving dog moves in the direction its player chose last, at the speed *)
(* of its map; a dog that the tick has stopped keeps its direction.        *)
SpeedFollowsDirection ==
  \A t \in Tokens :
    Placed(t) => /\ dog[t].top = MapSpeed[MapOf(t)]
                 /\ dog[t].speed \in {NoSpeed, SpeedFor(dog[t].dir, dog[t].top)}

(* The clamp uses the bounding box of all roads at the cell, which at a    *)
(* crossing contains ground that is on no road.  Only there can a step     *)
(* leave a dog off the roads.                                              *)
Crossing(roads) == /\ \E r \in roads : ~ IsVertical(r)
                   /\ \E r \in roads : ~ IsHorizontal(r)

OffRoad(t) == Placed(t) /\ ~ OnRoad(MapOf(t), dog[t].pos)

OffRoadOnlyFromCrossing ==
  [][\A t \in Tokens :
       (Placed(t) /\ ~ OffRoad(t) /\ OffRoad(t)')
          => Crossing(RoadsUnder(MapOf(t), dog[t].pos))]_vars

(* Roads end: a dog does not run for ever in the direction it was given.   *)
(* The ticks stop it, or its player turns it first.                        *)
DogEventuallyStops ==
  \A t \in Tokens : \A dir \in Directions :
    (Placed(t) /\ dog[t].dir = dir /\ dog[t].speed # NoSpeed)
       ~> (dog[t].dir # dir \/ dog[t].speed = NoSpeed)
=============================================================================
