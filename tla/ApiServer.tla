----------------------------- MODULE ApiServer -----------------------------
(***************************************************************************)
(* The way of a request through the game server: http_server (Listener,    *)
(* Session), LoggingRequestHandler, RequestHandler, the API strand, and    *)
(* the handlers of GameWorld at its end.  The io_context is run by Threads *)
(* threads (RunWorkers).  Each connection has a strand of its own; what    *)
(* touches the game is dispatched to the API strand, and so is the timer   *)
(* of the Ticker.                                                          *)
(*                                                                         *)
(* The lambda that RequestHandler dispatches refers to the request and the *)
(* parsed target of operator(), and the send function inside of it to      *)
(* code_result and content_type of LoggingRequestHandler.  They all live   *)
(* until dispatch has run the lambda only when it runs it at once.  A      *)
(* lambda that had to wait races with the return of the two operator()s:   *)
(* it may still find everything in place, or it reads and writes dead      *)
(* objects.  That is undefined behaviour, and the variable memory says how *)
(* far it has gone: while it is "sound" no lambda has used a dead object;  *)
(* "astray" is the mildest outcome, where the lambda serves whatever       *)
(* request it finds and writes its code into the frame that is at the old  *)
(* place now; "wrecked" stands for every other one, and nothing is said of *)
(* the process from then on.                                               *)
(***************************************************************************)
EXTENDS GameWorld

CONSTANTS Conns,    \* the connections that clients open
          Ops,      \* the operations that clients ask for
          Threads,  \* number of threads in io_context::run
          Timer     \* the timer of the Ticker, as a task of the API strand

(* A "local" request is for a file, or its target cannot be parsed.        *)
ApiOps == {"maps", "join", "players", "state", "action", "tick"}

ASSUME ApiAssumption ==
  /\ Ops \subseteq ApiOps \cup {"local"}
  /\ Threads \in Nat \ {0}
  /\ Timer \notin Conns
  /\ IsFiniteSet(Conns)

VARIABLES
  listening,  \* the acceptor has an async_accept outstanding
  armed,      \* the timer of the Ticker has an async_wait outstanding
  stage,      \* where the connection's current request is
  request,    \* the request that OnRead has read
  answered,   \* the request that the handler has looked at
  status,     \* status code of the response
  frame,      \* operator() of the two request handlers has not returned yet
  result,     \* code_result in the frame of LoggingRequestHandler
  queue,      \* tasks waiting in the API strand
  inside,     \* tasks that the API strand is running
  memory,     \* what lambdas that outlived their frames have done to it
  logged      \* code in the last "response sent" record, 0 before it

pipe    == <<listening, armed, stage, request, answered, status, frame, result, queue, inside,
             memory, logged>>
apiVars == <<vars, pipe>>

Stages == {"closed", "reading", "inline", "queued", "writing"}

(* The requests a client can send now: with a token it was given, or with  *)
(* none.                                                                   *)
Authorized == {"players", "state", "action"}
Sendable == {r \in [op : Ops, token : known \cup {NoToken}] :
               r.op \notin Authorized => r.token = NoToken}

Request   == [op : ApiOps \cup {"local"}, token : Tokens \cup {NoToken}]
NoRequest == [op |-> "local", token |-> NoToken]

(* code_result is read before anything was assigned to it.                 *)
Uninitialized == -1

(* The process goes on, and its memory is what the program has made of it. *)
Lives == up /\ memory # "wrecked"

ApiTypeOK ==
  /\ listening \in BOOLEAN /\ armed \in BOOLEAN
  /\ stage \in [Conns -> Stages]
  /\ request \in [Conns -> Request] /\ answered \in [Conns -> Request]
  /\ status \in [Conns -> Codes \cup {0}]
  /\ frame \in [Conns -> BOOLEAN]
  /\ result \in [Conns -> Codes \cup {Uninitialized}]
  /\ queue \in Seq(Conns \cup {Timer})
  /\ inside \subseteq Conns \cup {Timer}
  /\ memory \in {"sound", "astray", "wrecked"}
  /\ logged \in [Conns -> Codes \cup {0, Uninitialized}]

ApiInit ==
  /\ Init
  /\ listening = TRUE
  /\ armed = AutoTicker
  /\ stage = [c \in Conns |-> "closed"]
  /\ request = [c \in Conns |-> NoRequest]
  /\ answered = [c \in Conns |-> NoRequest]
  /\ status = [c \in Conns |-> 0]
  /\ frame = [c \in Conns |-> FALSE]
  /\ result = [c \in Conns |-> Uninitialized]
  /\ queue = <<>>
  /\ inside = {}
  /\ memory = "sound"
  /\ logged = [c \in Conns |-> 0]

-----------------------------------------------------------------------------
(* A thread is taken by every request handler that has not returned, and   *)
(* by the task that the strand runs outside of such a handler.             *)
Busy == Cardinality({c \in Conns : frame[c]})
        + Cardinality({t \in inside : t = Timer \/ stage[t] = "queued"})

ThreadFree == Busy < Threads

(* Faults: the lambda is posted; it is dispatched to the io_context.       *)
NeverAtOnce  == FALSE
AlwaysAtOnce == TRUE

(* dispatch to the API strand runs a task at once if the strand is idle.   *)
StrandIdle == inside = {} /\ queue = <<>>

Waiting == {queue[i] : i \in 1 .. Len(queue)}

EnterNow(task)  == StrandIdle /\ inside' = inside \cup {task} /\ UNCHANGED queue
EnterLate(task) == ~ StrandIdle /\ queue' = Append(queue, task) /\ UNCHANGED inside

-----------------------------------------------------------------------------
(* Connections.  After an error of the acceptor OnAccept does not accept   *)
(* again.                                                                  *)
OnAccept(c) ==
  /\ listening
  /\ stage[c] = "closed"
  /\ ThreadFree
  /\ \/ stage' = [stage EXCEPT ![c] = "reading"] /\ UNCHANGED listening
     \/ listening' = FALSE /\ UNCHANGED stage
  /\ UNCHANGED <<vars, armed, request, answered, status, frame, result, queue, inside>>
  /\ UNCHANGED <<memory, logged>>

(* End of stream, an error, or the 30 seconds are over.                    *)
OnReadFails(c) ==
  /\ stage[c] = "reading"
  /\ ThreadFree
  /\ stage' = [stage EXCEPT ![c] = "closed"]
  /\ UNCHANGED <<vars, listening, armed, request, answered, status, frame, result, queue, inside>>
  /\ UNCHANGED <<memory, logged>>

(* A request has arrived: LoggingRequestHandler and RequestHandler run in  *)
(* the thread of the connection.                                           *)
OnRead(c) ==
  /\ stage[c] = "reading"
  /\ ThreadFree
  /\ \E r \in Sendable :
       /\ request' = [request EXCEPT ![c] = r]
       /\ \/ /\ r.op = "local"
             /\ stage' = [stage EXCEPT ![c] = "writing"]
             /\ answered' = [answered EXCEPT ![c] = r]
             /\ \E code \in {200, 400, 404} :
                  /\ status' = [status EXCEPT ![c] = code]
                  /\ result' = [result EXCEPT ![c] = code]
             /\ UNCHANGED <<queue, inside>>
          \/ /\ r.op # "local"
             /\ \/ EnterNow(c) /\ stage' = [stage EXCEPT ![c] = "inline"]
                \/ EnterLate(c) /\ stage' = [stage EXCEPT ![c] = "queued"]
             /\ UNCHANGED <<answered, status, result>>
  /\ frame' = [frame EXCEPT ![c] = TRUE]
  /\ UNCHANGED <<vars, listening, armed, memory, logged>>

(* Fault: the record is written before the request is handled.             *)
LogBeforeHandling(c) ==
  /\ frame[c]
  /\ stage[c] # "inline"
  /\ frame' = [frame EXCEPT ![c] = FALSE]
  /\ logged' = [logged EXCEPT ![c] = Uninitialized]
  /\ UNCHANGED <<vars, listening, armed, stage, request, answered, status, result, queue, inside>>
  /\ UNCHANGED memory

(* operator() returns: the "response sent" record takes whatever           *)
(* code_result holds, and its place on the stack is free for another one.  *)
HandlerReturns(c) ==
  /\ frame[c]
  /\ stage[c] # "inline"
  /\ frame' = [frame EXCEPT ![c] = FALSE]
  /\ logged' = [logged EXCEPT ![c] = result[c]]
  /\ result' = [result EXCEPT ![c] = Uninitialized]
  /\ UNCHANGED <<vars, listening, armed, stage, request, answered, status, queue, inside, memory>>

(* OnWrite comes after OnRead has returned, on the connection's strand:    *)
(* read on, or close.                                                      *)
OnWrite(c) ==
  /\ stage[c] = "writing"
  /\ ~ frame[c]
  /\ ThreadFree
  /\ \E s \in {"reading", "closed"} : stage' = [stage EXCEPT ![c] = s]
  /\ request' = [request EXCEPT ![c] = NoRequest]
  /\ answered' = [answered EXCEPT ![c] = NoRequest]
  /\ status' = [status EXCEPT ![c] = 0]
  /\ logged' = [logged EXCEPT ![c] = 0]
  /\ UNCHANGED <<vars, listening, armed, frame, result, queue, inside, memory>>

-----------------------------------------------------------------------------
(* The API strand.                                                         *)
Serve(r, code) ==
  \/ r.op = "maps" /\ HandleMapRequest(code)
  \/ r.op = "join" /\ \E t \in Tokens : HandlePlayerJoinRequest(t, code)
  \/ r.op = "players" /\ HandlePlayersListRequest(r.token, code)
  \/ r.op = "state" /\ HandleStateRequest(r.token, code)
  \/ r.op = "action" /\ HandleActionRequest(r.token, code)
  \/ r.op = "tick" /\ HandleTickRequest(code)

(* Fault: an unauthorized request is not answered.                         *)
AnswerAuthorized(c, r, d) ==
  \E code \in Codes :
    /\ Serve(r, code)
    /\ stage' = [stage EXCEPT ![c] = IF code = 401 THEN @ ELSE "writing"]
    /\ answered' = [answered EXCEPT ![c] = r]
    /\ status' = [status EXCEPT ![c] = code]
    /\ result' = [result EXCEPT ![d] = IF frame[d] THEN code ELSE @]

(* The connection c is sent the response to r, after its code was written  *)
(* to the code_result of d, if there is such a frame.                      *)
Answer(c, r, d) ==
  \E code \in Codes :
    /\ Serve(r, code)
    /\ stage' = [stage EXCEPT ![c] = "writing"]
    /\ answered' = [answered EXCEPT ![c] = r]
    /\ status' = [status EXCEPT ![c] = code]
    /\ result' = [result EXCEPT ![d] = IF frame[d] THEN code ELSE @]

RunNext ==
  /\ inside = {}
  /\ queue # <<>>
  /\ ThreadFree
  /\ inside' = {Head(queue)}
  /\ queue' = Tail(queue)
  /\ UNCHANGED <<vars, listening, armed, stage, request, answered, status, frame, result>>
  /\ UNCHANGED <<memory, logged>>

(* Where a lambda writes the code: to the frame it came from, or to one    *)
(* that a later handler has in its place.                                  *)
FramesAt(c) == {c} \cup {d \in Conns : frame[d] /\ ~ frame[c]}

(* A lambda that had to wait finds dead objects.                           *)
RunsAstray(c) ==
  \/ /\ \E r \in Sendable, d \in FramesAt(c) : r.op # "local" /\ Answer(c, r, d)
     /\ memory' = "astray"
  \/ /\ up' = FALSE
     /\ memory' = "astray"
     /\ UNCHANGED <<sessions, registered, player, dog, counter, tick, known>>
     /\ UNCHANGED <<stage, answered, status, result>>
  \/ /\ memory' = "wrecked"
     /\ UNCHANGED <<vars, stage, answered, status, result>>

(* The lambda of operator(): its request and the frame are there, which is *)
(* certain when it runs inside of operator(), or it had to wait.           *)
HandleRequest(c) ==
  /\ c \in inside
  /\ inside' = inside \ {c}
  /\ \/ frame[c] /\ Answer(c, request[c], c) /\ UNCHANGED memory
     \/ stage[c] = "queued" /\ RunsAstray(c)
  /\ UNCHANGED <<listening, armed, request, frame, queue, logged>>

TimerFires ==
  /\ armed
  /\ ThreadFree
  /\ armed' = FALSE
  /\ EnterNow(Timer) \/ EnterLate(Timer)
  /\ UNCHANGED <<vars, listening, stage, request, answered, status, frame, result, memory, logged>>

(* Fault: the timer is left as it is after a tick.                         *)
TickerOnTickOnce ==
  /\ Timer \in inside
  /\ inside' = inside \ {Timer}
  /\ OnTick
  /\ UNCHANGED <<listening, armed, stage, request, answered, status, frame, result, queue>>
  /\ UNCHANGED <<memory, logged>>

(* OnTick of the Ticker calls GameServer::Tick and arms the timer again.   *)
TickerOnTick ==
  /\ Timer \in inside
  /\ inside' = inside \ {Timer}
  /\ OnTick
  /\ armed' = TRUE
  /\ UNCHANGED <<listening, stage, request, answered, status, frame, result, queue, memory, logged>>

ApiNext ==
  /\ Lives
  /\ \/ \E c \in Conns : \/ OnAccept(c)
                         \/ OnReadFails(c)
                         \/ OnRead(c)
                         \/ HandlerReturns(c)
                         \/ OnWrite(c)
                         \/ HandleRequest(c)
     \/ RunNext
     \/ TimerFires
     \/ TickerOnTick

ApiSpec == ApiInit /\ [][ApiNext]_apiVars

(* The threads of the io_context take ready handlers in turn, so that one  *)
(* that is ready whenever a thread is free runs eventually; a handler that *)
(* has begun ends.                                                         *)
ApiFairSpec ==
  /\ ApiSpec
  /\ SF_apiVars(Lives /\ RunNext)
  /\ SF_apiVars(Lives /\ TimerFires)
  /\ WF_apiVars(Lives /\ TickerOnTick)
  /\ \A c \in Conns : /\ WF_apiVars(Lives /\ HandleRequest(c))
                      /\ WF_apiVars(Lives /\ HandlerReturns(c))
                      /\ SF_apiVars(Lives /\ OnWrite(c))

-----------------------------------------------------------------------------
(***************************************************************************)
(* Properties.                                                             *)
(***************************************************************************)

(* A task is in the strand once, waiting or running, the tasks run one at a *)
(* time, and no request that was read is lost: until it is answered there  *)
(* is a task that will answer it.                                          *)
EachTaskOnce ==
  Lives =>
    /\ \A s, t \in inside : s = t
    /\ \A i, j \in 1 .. Len(queue) : queue[i] = queue[j] => i = j
    /\ Waiting \cap inside = {}
    /\ armed <=> AutoTicker /\ Timer \notin inside \cup Waiting
    /\ \A c \in Conns : stage[c] \in {"inline", "queued"} <=> c \in inside \cup Waiting

(* With one thread a request is answered from what the client has sent.    *)
ReplyFitsRequest ==
  \A c \in Conns : stage[c] = "writing" => answered[c] = request[c]

(* A "response sent" record names the code of the response that was handed *)
(* to the connection.                                                      *)
LogTellsTheCode ==
  \A c \in Conns : logged[c] # 0 => stage[c] = "writing" /\ logged[c] = status[c]

(* Seen from the game, the pipeline is the game world: requests, ticks and *)
(* everything the connections do are its steps or leave it alone.          *)
GameWorldSpec == Spec

(* A request that was read is answered, unless a lambda that had to wait   *)
(* ends the process or wrecks its memory.                                  *)
RequestsAnswered ==
  \A c \in Conns : stage[c] \in {"inline", "queued"} ~> (stage[c] = "writing" \/ ~ Lives)

(* Requests do not keep the ticker out of the strand.                      *)
TicksGoOn == AutoTicker => []<>(Timer \in inside \/ ~ Lives)
=============================================================================
