# Models of YaP_backend_practices

TLA+ models of the concurrent and stateful programs of this repository, the TLC
configurations that check them on small instances, and proofs of their safety
properties that TLAPS checks for every value of the constants.

The repository holds the exercises of a C++ backend course. Five parts of it are
programs with a core of their own, and the rest leads up to them:

* `src/command_line/solution`, the game server in its last state: an HTTP server
  (Boost.Asio and Beast) with a REST API, game sessions, dogs that walk on roads,
  and a timer that moves them;
* `src/command_line/solution/static`, the browser client of that server: a form to join,
  and a page that polls the state, draws it and sends the keys that are pressed;
* `src/cafeteria2/precode`, a cafeteria of hot dogs: a pool of gas burners,
  orders on an `io_context` with several threads, timers and strands;
* `src/async_operations`, a restaurant of hamburgers on the same library;
* `src/seabattle/precode`, the game of two players over a TCP connection.

Paths below are relative to these directories where that is clear.

## 1. Inventory

### The game server

| Component | State it keeps | Operations | What makes it correct |
|---|---|---|---|
| Road geometry, `model.{h,cpp}`, `model_game.cpp` | roads of a map, the index `coord_to_road` from grid points to roads | start position of a dog, move of a dog in a tick | there is a road at the cell of every dog; a dog is off the roads only around a crossing |
| Game world, `game_server.h`, `model_game.*`, `model_app.*`, `api_handler.*` | sessions with their dogs, players by token, the id counters | join, player list, state, action, tick request, map requests, tick | one session per map; player list and sessions agree; a failed join is contained; ids and tokens are unique |
| Request pipeline, `http_server.*`, `request_handler.*`, `main.cpp` | acceptor, one session object per connection, the API strand | accept, read, dispatch, handle, log, write, close | a request is answered once, with the answer to it; a log record tells what was sent; requests and ticks do not overlap |
| Ticker, `ticker.h` | timer, time of the last tick | start, tick, re-arm | the game's time follows the clock; ticks keep coming |
| Configuration loader, command line, logger, responses, URL helpers | none after start | parsing and formatting | not modelled |

A client's request goes from `Session::OnRead` through `LoggingRequestHandler`
to `RequestHandler`. Requests for files are answered there. API requests are
dispatched to the API strand, where `ApiHandler` calls `GameServer`. The `Ticker`
runs on the same strand. The strand is the only thing that keeps requests of
different connections and ticks apart: nothing in `GameServer` is locked.

Hard behaviours: a handler that has to wait for a busy strand outlives the frame
its references point to, and reads and writes what is there then
(`request_handler.h:52-58, 135-137`); the log record is written when
the dispatching function returns, not when the response exists
(`request_handler.h:139-142`); a join fails half way and is not undone
(`game_server.h:49-52`); a tick dereferences `roads.begin()` (`model_game.cpp:51`);
durations are truncated at each tick (`ticker.h:46`).

### The cafeteria

| Component | State it keeps | Operations | What makes it correct |
|---|---|---|---|
| Gas cooker, `gascooker.h`, `ingredients.h` | count of burners in use, queue of pending handlers, a strand | `UseBurner`, `ReleaseBurner`, both from any thread; the lock of an ingredient | its four asserts; no burner idle while somebody waits; first come, first served |
| Cafeteria, `cafeteria.h`, `hotdog.h`, `main.cpp` | orders with two ingredients, a strand and two timers each; a latch in `main` | order, start and stop of frying and baking, readiness check, delivery | each order is delivered once; the program ends; no hot dog of a badly cooked ingredient |

The cafeteria calls the cooker from the threads of the `io_context`; the cooker
posts handlers back to it; timers come back on the strand of their order.

Hard behaviours: both timer handlers of an order look at both ingredients
(`cafeteria.h:91`); a handler that is half a second late makes `HotDog` throw where
nothing catches it (`hotdog.h:30`); worker threads block in a latch inside a handler
(`main.cpp:84`); the order of `UseBurner` calls decides about the total time.

### The browser client

| Component | State it keeps | Operations | What makes it correct |
|---|---|---|---|
| Form, `index.html` | the map selected; the cookies token, player and map | select, submit, answer of the join | the cookies belong to one player |
| Page, `game.html`, `game.js` | the map, the player's id, the last state, the actors, the pressed keys | start, poll state and players, key down and up, each answer | it shows the player's own map and dog; it catches up with the server; the dog obeys the last key |
| Tiles, `game_map.js` | one tile per cell | load a map | the painted map is the one dogs walk on |

The page talks to the server only through requests, which it sends without waiting for
earlier ones. The browser may use several connections, so that requests and answers
overtake each other, and a request that fails is not repeated.

Hard behaviours: two key events overtake each other (`game.js:124`); an old list of
players is applied after a newer one (`game.js:193`); the two requests without which the
game does not start are sent once (`game.js:79-86`); the flags meant to allow one poll at
a time are reset too early (`game.js:177, 204`); the cookies are set one by one
(`index.html:182-184`), read at three times and shared with other tabs.

### The restaurant

| Component | State it keeps | Operations | What makes it correct |
|---|---|---|---|
| Hamburger orders, `async_operations/src/main.cpp` | orders with flags, two timers and a strand; the map of results in its own strand | make an order, roasted, marinaded, check readiness, pack, deliver, store | no handler of an order runs inside another; one result for each order; the asserts of `main` |

Hard behaviours: the two timers of an order end in any order and may end with an error;
a packing handler holds a thread for half a second; the result is copied in one strand and stored
in another.

### The sea battle

| Component | State it keeps | Operations | What makes it correct |
|---|---|---|---|
| Agents, `main.cpp` | own field, picture of the other's field, who has the initiative | shoot, take the result; take the shot, answer | both agree whose turn it is and how the game ended |
| Field, `seabattle.h` | cells, count of cells with ships left | shoot, mark a miss, a hit, a sunk ship | the picture is true |

The two processes share nothing but the lines of the connection. Hard behaviours: a read
throws away what arrived behind its line (`main.cpp:175`); the end is found by each side for
itself (`main.cpp:126`); a sunk ship marks cells around it (`seabattle.h:131`); moves may
name a column that does not exist (`main.cpp:142`).

### Other parts

Older states of these programs (`cafeteria`, `join_game`, `Rest_single`,
`server_loggin_version`, `try`, ...), single-loop network exercises, the vendored audio
library of `radio` and the vendored three.js are not modelled, see section 7. PROJECT.json
lists every part.

## 2. Modules

| Module | Models | Composes |
|---|---|---|
| `GameMap` | roads, the coordinate index, start positions, the move of one dog | |
| `GameWorld` | all state between requests and every handler that uses it | EXTENDS `GameMap` |
| `ApiServer` | listener, connections, both request handlers, API strand, threads, timer | EXTENDS `GameWorld`: the tasks of the strand are its actions |
| `Ticker` | time, the timer and the deltas | |
| `BurnerPool` | abstract: who is in line and who has asked before them, who has a burner | |
| `GasCooker` | the cooker's strand, count, queue, and the ingredients' life | implements `BurnerPool` |
| `Cafeteria` | orders, strands, latch, delivery | EXTENDS `GasCooker`: its ingredients are the orders' |
| `CookingTime` | how long all orders take when only cooking takes time | |
| `Hamburger` | orders, timers that may fail, packing, the results | |
| `SeaBattle` | two agents, their fields, the connection | |
| `MapTiles` | the tiles that the browser paints | EXTENDS `GameWorld`, to compare them with the server's roads |
| `BrowserPage` | a tab, its requests and answers on their way, other players and tabs | EXTENDS `GameWorld`: the server's handlers are its actions |
| `*Proofs`, `QueueLemmas` | theorems about the module of that name; queues without duplicates, sizes of growing sets | |
| `MC*` | values of the constants for TLC | |

Operators called "Fault" in a comment are not used by the specifications. Each is a
plausible error in the definition after it; putting it in that definition's place must
make a run fail, which shows that the property of the run depends on the code.

### GameMap

Positions are fixed point: 20 units are one step of the grid, so that the
half-width 0.4 of a road is 8 units. The code uses doubles; what the model drops is
rounding error, not geometry. `RoadsUnder` is `coord_to_road` at the rounded position
(`std::round`, halves away from zero). `Moved` is `UpdateDogsPosition` for one dog:
the new position is kept when a road *of the old cell* contains it, otherwise it is
clamped to the bounding box of those roads and the dog stops. With no road at the
cell the code dereferences `begin()` of an empty set; `ReadsEmptySet` is that case,
and `OnTick` then sets `up` to FALSE.

A random start position is truncated twice by `RoundToTwoDigits`, the offset and then the
coordinate (`model.cpp:74, 87-88`). Truncation is towards zero and rounding then adds, so
that the offset across the road is asymmetric, and depends on the sign of the coordinate
of the road: at a negative one it can be a hundredth beyond the road's edge. `OffsetAcross`
has one unit of the grid for that hundredth, and `game_motion` starts a dog there. On a road given
backwards the random generator gets its bounds in the wrong order, which is undefined
behaviour by the standard. The model takes what the standard libraries make of it, a position
between the ends of the road.

### GameWorld

`sessions` is the vector `game_sessions_` with each session's `dogs_`; `registered`
holds the keys of `players_`; `player` and `dog` are indexed by the token, which also
names the dog. A handler is an action with the status code as a parameter; `Reply` is
a response without effect. Error paths that change state are actions of their own: `TokenCollides`
(the player constructor has taken an id when `emplace` refuses the token) and
`AddDogThrows` (a map without roads: the player stays).

`HandleTickRequest` only stores the period, as the code does: the call of
`UpdateGames` is commented out in `game_server.h`. With a ticker the request is a 400.

Players are never removed in this version of the server, hence no leave action.

### ApiServer

Functions of the connection say where it is: `stage`, the request read, the request the handler
has looked at, the status, whether the frames of the two `operator()` still exist, the `result`
in them (`code_result` of `LoggingRequestHandler`), and the last log record. `queue` and `inside`
are the API strand. `dispatch` to an idle strand runs the lambda in place (`EnterNow`), else it
waits (`EnterLate`). A thread is used by each frame and by a queued task while it runs; with one
thread a lambda never waits.

The lambda holds references into both frames: to the request and the parsed target, and to
`code_result` and `content_type`. A lambda that had to wait races with the return of
the frames. It may find them in place, and then all is well; or it reads and writes dead objects,
which is undefined behaviour. `RunsAstray` is that step, and `memory` keeps what has come of it:

* "sound": no lambda has used a dead object yet;
* "astray": the milder outcomes that the run follows. The lambda serves any request, and writes its code
  into a frame that another handler has at that place now (`FramesAt`), whose record then names
  it; or the process dies of it (`up`);
* "wrecked": anything else. Nothing is said of the process afterwards, and it takes no more
  steps in the model (`Lives`).

Undefined behaviour bounds nothing, so that nothing is claimed of the game, the replies and the
records after it. `ReplyFitsRequest`, `LogTellsTheCode` and `GameWorldSpec` are stated for one
thread, where it cannot happen, and the theorems about them for several threads speak of the time while
`memory` is "sound". What is said of the strand (`EachTaskOnce`, `RequestsAnswered`, `TicksGoOn`)
also holds in the outcomes "astray", and of "wrecked" nothing is said. `main.cpp` runs
as many threads as the machine has cores.

Assumed: requests carry a Host header (`request_handler.h:151` throws otherwise). Left
out: shutdown on a signal, the time limits of a connection (they end it, like any read
error), the text of targets, files.

### Ticker

Time passes between any two statements, in units smaller than a millisecond.
`ScheduleTick` arms the timer one period after the moment it is called, not after the last
expiry, which is why late ticks cause no burst. The timer is never cancelled.

### GasCooker and Cafeteria

An ingredient uses a burner once, so that its `stage` tells which of its calls is in
the strand of the cooker: `calls` is a sequence of ingredients. A lambda that finds
the strand idle runs at once in the code; here it is appended and run by the next
step, which adds interleavings and removes none. Posted handlers run in any order.
The mapping to `BurnerPool` puts in line the pending handlers and, behind them, the
calls of `UseBurner` that the strand has not run yet; who has asked before whom is read
off the two queues (`Precedes`). A user has a burner from the moment its handler is posted
until it calls `ReleaseBurner`.

`Cafeteria` counts threads only while they can block, in the latch and while
ordering. Timer handlers take a thread for a moment and are steps. The store's
mutex section is part of the ordering step. `cooked` says whether the timer handler
of an ingredient came in time; a late one makes `HotDog` throw out of
`io_context::run`, and `alive` becomes FALSE.

`CookingTime` reduces the cooker to what decides about time, given that it serves in
the order of the calls (`ImplementsPool`): each request gets the burner that
is free first. As many orders can be between their two calls as there are threads.

### Hamburger

A timer handler passes through `stage`: it is entered (`OnRoasted` or `OnMarinaded` up to
`CheckReadiness`), then it either leaves, or packs and leaves. Between these steps other
orders' handlers run, on at most `NumWorkers` threads; `StrandFree` is the strand that
both handlers are bound to. `expected` is the local `ThreadChecker`, whose assert is evaluated
when the handler leaves. The code never cancels a timer, yet its handlers treat an error;
`Failing` lets a wait end with one. `alive` is FALSE after an assert or an exception.

### SeaBattle

`pc` is where the loop of `StartGame` is: "aim" before a line is typed, "result" and
"guard" in the two reads. `Take(p, n)` reads one line and drops the n - 1 behind it. The
walks of `IsKilledInDirection` and `MarkKillInDirection` are sets of distances (`Walk`).
`ParseMove` accepts the index 8 on a field of 8: in the column `Size` the cell is the first
one of the next row, which the model has; in the row `Size` the code writes behind the array,
and such moves are not typed in the model. A write that is cut into parts is not modelled.

### BrowserPage and MapTiles

`net[k]` holds the requests of kind k in the order in which they were sent, each with the token
that the cookies held then. When the server handles one it gets its answer and moves to the end, so that the
answers are in the order in which they were made. Any request may be handled next, any answer
may arrive next, and either may be lost. `late` marks what was overtaken: an answer when one
that was made later arrives before it, an action when one that was sent later is handled before
it. An answer that is made later and arrives later is not late. An action is
done with once handled, since nothing waits for its answer. `NotInProgress` is TRUE because
the flags it stands for are reset before the function that sets them returns.

The callback of a join sets three cookies one by one. `JoinDone` and `OtherTabJoins` begin it with the token
(`SetToken`), `SetId` and `SetMap` go on, and between them other tabs of `Tabs` may set cookies
of their own answers, and this page may read any of them. `callback` is the
answer that a tab has in its hands. Four variables without counterpart in the code say what has
happened, so that the properties can: `told`, the tokens that tabs of this browser were told;
`torn`, whether the last callback began during another one; `foreign`, whether another tab has set
a cookie, and whether that was after this tab had its answer; `astray`, whether the last action that
was handled was a late one, or one was lost. Other players use the server (`OthersPlay`) with
tokens that this browser does not have, not even in an answer on its way (`OwnTokens`); other tabs
also with those that are in the cookies (`OthersTokens`).
Left out: turning and interpolation between two states, animation, camera, rendering, the
player's name, and the alert of a failed join.

`MapTiles` is the loop of `gameLoadMap` over the roads, as a predicate of the cell. It is
compared with `GetRoadsByCoords` and with the rectangles of the roads.

## 3. Runs

| Run | Question | States | Bounds, and why they are enough |
|---|---|---|---|
| `game_sessions` | do sessions, player list and dogs stay in agreement in every order of joins, failed joins and actions? | 77 132 | 3 tokens, so that two players share a map while a third is elsewhere, or a token comes twice; 2 maps with a road and one without; 4 ids (`MaxJoins`), so that one is lost to a failed join. Dogs stand still here. Tokens are symmetric |
| `game_motion` | is there always a road under a dog, does it leave the roads only at a crossing, does it stop? | 4 786 | one dog (dogs do not interact); 6 roads: corner, crossing, T, continuation, backwards, length zero, at a negative coordinate; a start beside a road; ticks of 11 and 33 units, shorter and longer than a cell, which reach the ground between a road's edge and its cell's edge |
| `api_single` | does the pipeline with one thread implement the game world, with the right replies and records? | 18 806 | 2 connections and the timer, so that each meets the others; one token, one map |
| `api_workers` | with two threads: is each task in the strand once, is every request answered, do ticks go on? | 197 192 | 2 threads for 3 tasks: one runs, one waits, one comes; a lambda that outlived its frame may write into that of the other connection |
| `api_log` | violation: `LogTellsTheCode` with two threads | | see Findings |
| `ticker` | does game time follow the clock under any delay? | 212 283 | up to 5 ticks, each up to several milliseconds late, 3 units per millisecond |
| `gas_cooker` | asserts, sharing, waiting, FIFO, everybody served? | 2 424 | 4 ingredients on 2 burners: two wait while both burners come back |
| `cafeteria` | is every order delivered once, does the program end? | 582 926 | 3 orders on 2 threads (one does not go through the latch), 2 burners for 6 ingredients |
| `hamburger` | no assert, no exception, one result per order, for every order of the timers and every failure? | 17 079 | 3 orders, two with onion, on 2 workers: one order packs while another's handler runs or waits; any timer may fail |
| `sea_battle` | is the picture true, when can both wait for ever, does the game end for both? | 94 730 | a field of 9 cells with a ship of two and one of one: a ship is hit, sunk, lies along and across, at an edge and in a corner, and is shot at through the column that does not exist; either side quits at any point |
| `browser_page` | whose page is it, do keys reach the dog, do actors vanish, does the page catch up? | 704 726 | 2 players on 2 maps; each behaviour lets one kind of request have 2 or 3 on their way (two overtake each other, a third shows that an older one stays late) and at most one be lost; another tab joins, and sets its cookies between those of this one, where joins or states can be several (each tab gets one of the two tokens, and their callbacks overlap in every way) |
| `cook_duration` | violation: `CookDurationAsAsserted` with the numbers of `main` | | 20 orders, 4 threads, 8 burners, as in the code |

Deadlock is checked except where the program really stops: when all orders are
done, all ingredients cooked, or the process has died. `MaxJoins`,
`MaxTime`, `CoordMax` and the records of `Bounds` (requests of a kind on their way, losses,
keys, whether there are other players and tabs) are the only bounds in guards or ranges; the
theorems hold for every value of them.

Type invariants and some invariants of the game world and the pipeline that are proved are
not repeated in the runs. In `browser_page` no tick moves a dog (`Deltas` is empty), which
`game_motion` covers; roads are of length zero, so that a dog turns but does not walk.
`game_motion` also compares the painted tiles with the roads.

`game_sessions` is a run without fairness and without ticks: its maps have zero-length or
single-step roads and its properties are about structure. `game_motion` is the run
with ticks.

## 4. Fairness

* `GameWorld`: weak fairness of `OnTick`. The ticker arms its timer again at the end of
  every tick (`ticker.h:53`). Clients owe nothing.
* `ApiServer`: a handler that has begun ends (weak fairness of `HandleRequest`,
  `HandlerReturns`, `TickerOnTick`). A ready handler that needs a free thread runs when
  threads become free again and again (strong fairness of `RunNext`, `TimerFires`,
  `OnWrite`): the scheduler of `io_context` is a FIFO queue, so that a ready handler is
  not passed over for ever. Accepting and reading are up to the clients. All of it only while the
  process lives and its memory is not wrecked (`Lives`).
* `GasCooker`: weak fairness of the strand's lambdas, posted handlers and the release
  (a timer expires). Nobody has to ask for a burner.
* `Cafeteria`: weak fairness of `Next` as a whole. All behaviours are finite, so that this
  alone makes the program go on until it has ended.
* `Hamburger`: weak fairness of `Next` as a whole, for the same reason.
* `SeaBattle`: weak fairness of reading: a process that can read does. Nobody has to type a
  move, and a player may quit at any time.
* `BrowserPage`: frames come (`requestAnimationFrame`), so that the page starts and polls
  when it can; the first request of a kind that is on its way is handled and its answer arrives
  unless it is lost; a callback that has set one cookie sets the next. Nothing forces players to press
  keys or to join.

## 5. What is proved

All theorems are for every value of the constants that satisfies the named
assumptions: any maps whose roads are horizontal or vertical, any number of tokens,
connections, threads, burners, ingredients, orders and requests on their way, any speeds
and tick lengths.

* **Game world** (`GameWorldProofs`). The inductive invariant `WorldInv`
  joins the type, `OneSessionPerMap`, `RosterAgreesWithPlayers`,
  `HalfJoinedOnlyWithoutRoads`, the ids, the dogs and `up`. They need each other: a dog
  is placed in the right session only because a map has one session; the move of a dog
  is safe only because its map is known. The argument for `RoadUnderDog` is in the first part
  of the module: if the new position is on a road of the old cell, it rounds to a cell of
  that road (`OnRoadHasCell`); if it is clamped, the dog moves along one axis, the
  road that bounds the box on that side reaches the cell the clamp stops in, and the clamp
  keeps the other coordinate's cell (`ClampKeepsRoad`). A start position has a road, also a
  random one: the hundredth beyond the edge of a road still rounds to its cell (`StartHasRoad`,
  `NearRoadHasCell`). `ServerAlive` follows: no tick reads an empty set.
  `RoadsAreLeftAtCrossings` proves the action property `OffRoadOnlyFromCrossing` from the same
  invariant: roads at a cell that all run the same way lie on one line and meet in the
  cell, so that their bounding box is what they cover together (`ClampOnStraightRoads`).
* **Pipeline** (`ApiServerProofs`). `PipeInv` is the type with `EachTaskOnce`: queue and
  running tasks are disjoint, without duplicates, and hold exactly the connections that wait.
  Proved for any number of threads. With one thread `OneThreadInv` adds that a free
  thread means an idle strand, so that `EnterLate` is never taken: replies and records fit,
  and `ServerImplementsGame` shows `ApiSpec => GameWorldSpec`, so that every theorem
  about the game world holds in the server with one thread. With several threads a lambda that
  has waited may use dead objects, and nothing holds for certain after it has. So the theorems speak of the
  time before. `ServerIsGameUntilAstray`: every step is a step of the game world or leaves it
  alone, or it is the first one in which a lambda goes astray. `GameSoundUntilAstray`: all of
  `WorldInv` holds as long as `memory` is sound and the process lives. `LogRightUntilAstray`: as long as
  `memory` is sound, a record that names a code names the one that was sent, and the finding
  `api_log` is the only other case.
  `RequestsAreNotStuck` is the safety behind `RequestsAnswered`: while a request waits (and `Lives`), the task in
  the strand runs, or a thread is free for the next, or a handler that holds a thread can
  return. It needs that a lambda inside of `operator()` is the one the strand runs (`InlineRuns`).
* **Gas cooker** (first half of `CafeteriaProofs`). `CookerInv`: the calls in the strand are those whose
  stage says so, the pending queue likewise, `burners_in_use_` is the cardinality of the
  set of holders (posted, cooking or releasing), it is at most `Burners`, and equal to it
  while somebody waits. The four asserts of the class follow. `CookerImplementsPool` is the
  safety part of `ImplementsPool`: the lambda of `UseBurner` is a grant when a burner is free and
  a stutter otherwise, the one of `ReleaseBurner` a grant to the first in line or a stutter. It
  needs that no user is twice in the two queues, so that the order of requests is well defined,
  and that the head of the pending queue precedes everybody in line.
* **Cafeteria** (`CafeteriaProofs`). `CafeteriaUsesCooker` is a refinement:
  `Spec => CookerSpec`, which hands the cooker's invariant to the cafeteria. `OrderInv` says
  that the handlers inside an order's strand have stopped their ingredient, that at most one
  is there, and that an order was delivered iff both were cooked and checked. `CafeteriaTypes`
  is the type invariant of the cafeteria and the cooker in it.
  Two theorems are the safety behind `EverybodyEats`. `NobodyIsStuck`: while an order is
  not done, `GoesOn` holds, the disjunction of the guards of the actions. If it did not, no
  ingredient would have a burner, so none would be pending; and at the latch wait fewer orders
  than there are threads, since tasks start in order, so that the next could start.
  `EveryStepCounts`: the number of stages passed grows with every step and is at most
  `18 * NumOrders`. So every behaviour ends, and by `NoOrderIsForgotten` it ends with all orders
  fulfilled or with a late ingredient. That the guards enable the steps is read off
  the actions; that fairness then takes them is left to TLC.
* **Ticker** (`TimeProofs`, first half). `TickerInv`: an armed timer expires at least a period
  after the last tick. With it and the truncation lemma, the game is never ahead, loses
  less than a millisecond per tick, and no tick is shorter than the period.
* **Cooking time** (`TimeProofs`, second half). `TimeInv`: no burner is ever further ahead of another
  than one sausage, since each request goes to the burner that is free first, and the burners
  cook all together what was asked for. The sum over the burners is a function whose existence
  the invariant states (`SumsOf`). `CookDurationIsAverage` follows for any numbers of orders,
  threads and burners. With the numbers of `main` it gives 6.5 to 7.5 seconds (`UpperHalfHolds`): the run
  `cook_duration` reaches the lower end, and the upper bound that `main` asserts is right.
  The step from neighbouring burners to all of them is an induction; it is proved by the least
  counterexample (`NeverFalls`), from the well-foundedness of the strict subset ordering.
* **Restaurant** (`HamburgerProofs`). The inductive invariant says that at most one handler
  of an order is inside, that the counter equals what that handler expects, and for each
  combination of where the two handlers are which flags are set and whether the order's one
  result is unmade, waiting or stored. `AssertsHold` and `DeliveredOnce` follow for any number
  of orders and workers. `NobodyIsStuck` and `EveryStepCounts` are the safety behind
  `EveryOrderIsDelivered`, as in the cafeteria: at most `9 * NumOrders` steps, and before the last
  one some handler can begin or go on, however few workers there are.
* **Sea battle** (`SeaBattleProofs`), for any size of the field and any ships that do not touch.
  `PhaseInv` lists the eight phases of the connection: who aims, whose shot or result is on its
  way, both at once after a miss, a lost line, the end, and what is left when one side has quit.
  Every step goes from one phase to another; `OnlyLossIsStuck` reads off the phases. `PictureInv`
  says that a result on its way is true of the field it comes from. That a KILL marks
  no ship needs geometry: no two ship cells meet at a corner (`RandomHasNoCorners`). A marked
  cell on a walk holds no ship because the walk of `IsKilled` met none; one beside the start is
  on the walk in that direction; one beside a later cell meets the killed cell before it at a
  corner (`KillMarksNoShip`).
  `WinnerIsAgreed` is about the end, which each process finds for itself (`main.cpp:126`). `EndInv`
  says that no shot changes the number of ship cells of a field (`ShotKeepsFleet`), that a loop
  ends exactly when a weight it knows is zero, and that one side still floats. A picture with as
  many killed cells as there are ship cells must be the whole fleet, so who ends as the winner
  has an opponent without ships, who has ended as the loser.
* **Browser** (`BrowserPageProofs`). `PageIsAClient` shows `PageSpec => Spec` of the game
  world: a handled request is an action of the world or a stutter, everything else leaves it
  alone. So the invariants of the world hold behind the page. `PageInv` adds that every
  request on its way is fine: its token is registered, and its answer tells what the server
  keeps of that player. The world only grows (players, sessions and their maps stay), so that
  an answer remains true while it travels. `JarInv` is about the cookies, for any
  number of tabs: each of them is that of somebody who was told the token in this browser
  (`CookiesInv`); a callback has set what it has set (`TabsInv`, `SetSoFar`); while callbacks do not
  overlap the three are of one player as soon as none is under way (`TornInv`); and they are this
  tab's own while no other tab sets one (`MineInv`). So two tabs that join at once can leave the token of one
  player with the map of another, and `PageIsOfOnePlayer` says exactly when not. `DogsFollowKeys` proves
  `KeysReachDog` from `CourseInv`: in the queue of actions the late ones come first, and the newest
  says what the last key says; when all that are left are late, the dog goes that way already.
  Nothing else turns it: others have other tokens (once another tab has set cookies it may steer
  the same dog, and the property excuses it), and a tick can only stop a dog. `ActorsStay` proves
  `ActorsDropOnlyWhenStale` from `ListsInv`: the answers on their way are in the order in which they
  were made, so that each holds all players of those before it, and one that is not late holds all
  actors of the page, since players never leave. `PaintedRoadsAreRoads` proves tile by tile that the loop of
  `gameLoadMap` and the index of the server agree, and takes the place of the dog from
  `RoadUnderDog`.

Only model-checked: liveness (`DogEventuallyStops`, `RequestsAnswered`,
`TicksGoOn`, `EverybodyCooks`, `EverybodyEats`, `EveryOrderIsDelivered`, `EndsForBoth`,
`PageCatchesUp`), the fairness in `ImplementsPool`, and that the violations of section 6 occur.
Liveness under fairness and ENABLED, and so a refinement whose abstract specification
has fairness, are out of this prover's reach. Every safety property of a passing run is
stated by a theorem.

## 6. Findings

* `api_log`: with two threads a request that waits for the strand is logged as sent
  before it is answered, with a code that was never assigned (`request_handler.h:142`).
  The same frame's end leaves the references of the waiting lambda dangling.
* `cook_duration`: `main.cpp:153` of the cafeteria asserts 7 to 7.5 seconds; when two
  threads ask for their sausages before the first asks for its bread the cooking adds up to
  6.5 seconds. It cannot be shorter, nor longer than 7.5 seconds (`UpperHalfHolds`).

Noted without a run: after one accept error the listener stops (`http_server.h:126`);
the time limit set before a read is not renewed for the write (`http_server.cpp:33`);
the tick request moves nothing (`game_server.h:76`); an attacker whose opponent is gone is
asked for moves for ever (`seabattle/precode/src/main.cpp:83`); two moves read at once leave
the sea battle waiting on both sides (`main.cpp:175`, `StuckOnlyByLoss` says exactly when);
a ship is reported sunk too early when it is hit through the ninth column, and a move to the
ninth row writes behind the array (`main.cpp:142`); the page stays blank when one of its first
two requests fails (`game.js:79`); the flags against several polls at once have no effect
(`game.js:177, 204`); a failed join with status 500 is not shown (`index.html:187`); a dog that
stands has no angle (`game.js:27`). None of these contradicts a statement of the repository.

## 7. Not modelled

* The implementation lines of the repository are, as a line counter sees them, almost all
  JavaScript, and nearly all of that is three.js, its loaders and minified libraries, copied
  into every version of the client. They are third-party code without state of this
  system. What the repository itself has in JavaScript is `game.js`, `game_map.js`, the two
  pages and `helper.js`, of which the parts that keep state are modelled.
* Configuration loader, command line, logger, responses: input and output without state.
* Older versions of the server, the cafeteria and the restaurant: subsets of what is modelled.
* Network exercises: one loop, no shared state. `radio` streams audio through a library.
* Drawing: angles, interpolation, animation, camera.
* In `ApiServer`: shutdown on a signal, time limits, the text of targets, files.

## 8. Plan

Done: the core of both C++ programs, the restaurant, the sea battle and the browser client.

All safety properties of the runs are proved.

Next, in this order:

1. Safety behind the other liveness properties: how often the strand passes over a waiting
   request, and what `EndsForBoth` of the sea battle needs.
2. Request targets: which strings of the API paths select which handler.
