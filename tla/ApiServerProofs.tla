-------------------------- MODULE ApiServerProofs --------------------------
(***************************************************************************)
(* What the request pipeline guarantees for every set of connections.      *)
(*                                                                         *)
(* For any number of threads, a task is in the API strand exactly when its *)
(* connection waits for it (PipeInv).  For one thread, the strand's queue  *)
(* stays empty, because whoever could find the strand busy would need a    *)
(* second thread (OneThreadInv); then every step of the pipeline is a step *)
(* of the game world, and replies and log records are right.               *)
(*                                                                         *)
(* With several threads a lambda that had to wait may find the objects it  *)
(* refers to dead, and what it does then the code does not determine.      *)
(* Until the first one does, everything is in order: the server is still   *)
(* the game world (ServerIsGameUntilAstray), and records are right but for *)
(* those of requests that wait (LogRightUntilAstray).                      *)
(***************************************************************************)
EXTENDS ApiServer, GameWorldProofs, QueueLemmas, FiniteSetTheorems, TLAPS

Tasks == Conns \cup {Timer}

-----------------------------------------------------------------------------
(* A strand that holds each of its tasks once.                             *)
StrandOk ==
  /\ queue \in Seq(Tasks)
  /\ inside \subseteq Tasks
  /\ \A s, t \in inside : s = t
  /\ Distinct(queue)
  /\ Waiting \cap inside = {}

LEMMA EnterKeepsStrand ==
  ASSUME StrandOk, NEW task \in Tasks, task \notin inside \cup Waiting,
         EnterNow(task) \/ EnterLate(task)
  PROVE  StrandOk' /\ (inside \cup Waiting)' = inside \cup Waiting \cup {task}
<1>1. CASE EnterNow(task)
  <2>1. queue' = queue /\ inside' = {task} /\ inside = {} /\ queue = <<>>
    BY <1>1 DEF EnterNow, StrandIdle
  <2>2. Waiting' = Waiting /\ Waiting = {}
    BY <2>1 DEF Waiting
  <2> QED BY <2>1, <2>2 DEF StrandOk, Distinct
<1>2. CASE EnterLate(task)
  <2>1. PICK q, p : q = queue /\ p = queue'
    OBVIOUS
  <2>2. inside' = inside /\ p = Append(q, task) /\ q \in Seq(Tasks) /\ Distinct(q)
    BY <1>2, <2>1 DEF EnterLate, StrandOk
  <2>3. Waiting = Elements(q) /\ Waiting' = Elements(p) /\ (Distinct(queue))' = Distinct(p)
    BY <2>1 DEF Waiting, Elements, Distinct
  <2>4. /\ p \in Seq(Tasks) /\ Distinct(p)
        /\ \A t : t \in Elements(p) <=> t \in Elements(q) \/ t = task
    BY <2>2, <2>3, AppendedQueue
  <2> QED BY <2>1, <2>2, <2>3, <2>4 DEF StrandOk
<1> QED BY <1>1, <1>2

LEMMA RunNextKeepsStrand ==
  ASSUME StrandOk, RunNext
  PROVE  StrandOk' /\ (inside \cup Waiting)' = inside \cup Waiting
<1>1. PICK q, p : q = queue /\ p = queue'
  OBVIOUS
<1>2. /\ q # <<>> /\ q \in Seq(Tasks) /\ Distinct(q) /\ p = Tail(q)
      /\ inside = {} /\ inside' = {Head(q)}
  BY <1>1 DEF RunNext, StrandOk
<1>3. Waiting = Elements(q) /\ Waiting' = Elements(p) /\ (Distinct(queue))' = Distinct(p)
  BY <1>1 DEF Waiting, Elements, Distinct
<1>4. /\ p \in Seq(Tasks)
      /\ Head(q) \in Tasks
      /\ Elements(q) = Elements(p) \cup {Head(q)}
      /\ Head(q) \notin Elements(p)
      /\ Distinct(p)
  BY <1>2, TakenQueue, Zenon
<1> QED BY <1>1, <1>2, <1>3, <1>4 DEF StrandOk

LEMMA LeaveKeepsStrand ==
  ASSUME StrandOk, NEW task \in inside, inside' = inside \ {task}, queue' = queue
  PROVE  StrandOk' /\ (inside \cup Waiting)' = (inside \cup Waiting) \ {task}
<1>1. Waiting' = Waiting
  BY DEF Waiting
<1> QED BY <1>1 DEF StrandOk

(* The world's handlers give out tokens only, and take none back.          *)
LEMMA ServeGrowsKnown ==
  ASSUME NEW r, NEW code \in Codes, Serve(r, code)
  PROVE  known \subseteq known' /\ (known \subseteq Tokens => known' \subseteq Tokens)
<1>1. ASSUME NEW t \in Tokens, HandlePlayerJoinRequest(t, code)
      PROVE  known' = known \/ known' = known \cup {t}
  BY <1>1 DEF HandlePlayerJoinRequest, Reply, vars, JoinGame, TokenCollides, AddDogThrows, AddDog
<1>2. UNCHANGED vars => known' = known
  BY DEF vars
<1> QED
  BY <1>1, <1>2 DEF Serve, HandleMapRequest, HandlePlayersListRequest, HandleStateRequest,
     HandleActionRequest, HandleTickRequest, Reply, Unauthorized

-----------------------------------------------------------------------------
InStrand(c) == c \in inside \cup Waiting
Pending(c)  == stage[c] \in {"inline", "queued"}

TasksMatch ==
  /\ armed <=> AutoTicker /\ ~ InStrand(Timer)
  /\ Lives => \A c \in Conns : Pending(c) <=> InStrand(c)

PipeInv ==
  /\ ApiTypeOK
  /\ known \subseteq Tokens
  /\ StrandOk
  /\ TasksMatch

LEMMA InitPipeInv == ApiInit => PipeInv
<1> SUFFICES ASSUME ApiInit PROVE PipeInv
  OBVIOUS
<1>1. inside = {} /\ queue = <<>> /\ Waiting = {}
  BY DEF ApiInit, Waiting
<1>2. NoRequest \in Request
  BY DEF NoRequest, Request
<1>3. ApiTypeOK
  BY <1>1, <1>2, GameAssumption DEF ApiInit, ApiTypeOK, Stages
<1>4. known \subseteq Tokens
  BY DEF ApiInit, Init
<1>5. StrandOk
  BY <1>1 DEF StrandOk, Distinct
<1>6. TasksMatch
  BY <1>1 DEF TasksMatch, InStrand, Pending, ApiInit
<1> QED BY <1>3, <1>4, <1>5, <1>6 DEF PipeInv

(* Accepting, reading to the end, returning from the handlers and writing  *)
(* leave the strand alone.                                                 *)
LEMMA ConnectionKeepsInv ==
  ASSUME PipeInv, Lives, NEW c \in Conns,
         OnAccept(c) \/ OnReadFails(c) \/ HandlerReturns(c) \/ OnWrite(c)
  PROVE  PipeInv'
<1>1. /\ UNCHANGED <<vars, armed, queue, inside, memory>>
      /\ listening' \in BOOLEAN
  BY DEF OnAccept, OnReadFails, HandlerReturns, OnWrite, PipeInv, ApiTypeOK
<1>2. Waiting' = Waiting /\ (Lives' <=> Lives) /\ known' = known
  BY <1>1 DEF Waiting, Lives, vars
<1>3. \/ stage' = stage
      \/ /\ ~ Pending(c)
         /\ \E s \in {"reading", "closed"} : stage' = [stage EXCEPT ![c] = s]
  BY DEF OnAccept, OnReadFails, HandlerReturns, OnWrite, Pending
<1>4. stage' \in [Conns -> Stages] /\ \A d \in Conns : Pending(d)' <=> Pending(d)
  <2>1. CASE stage' = stage
    BY <2>1 DEF PipeInv, ApiTypeOK, Pending
  <2>2. CASE ~ Pending(c) /\ \E s \in {"reading", "closed"} : stage' = [stage EXCEPT ![c] = s]
    BY <2>2 DEF PipeInv, ApiTypeOK, Pending, Stages
  <2> QED BY <1>3, <2>1, <2>2
<1>5. /\ request' \in [Conns -> Request] /\ answered' \in [Conns -> Request]
      /\ status' \in [Conns -> Codes \cup {0}]
      /\ frame' \in [Conns -> BOOLEAN]
      /\ result' \in [Conns -> Codes \cup {Uninitialized}]
      /\ logged' \in [Conns -> Codes \cup {0, Uninitialized}]
  <2>1. NoRequest \in Request
    BY DEF NoRequest, Request
  <2>2. CASE OnAccept(c) \/ OnReadFails(c)
    BY <2>2 DEF OnAccept, OnReadFails, PipeInv, ApiTypeOK
  <2>3. CASE HandlerReturns(c)
    BY <2>3 DEF HandlerReturns, PipeInv, ApiTypeOK
  <2>4. CASE OnWrite(c)
    BY <2>1, <2>4 DEF OnWrite, PipeInv, ApiTypeOK
  <2> QED BY <2>2, <2>3, <2>4
<1>6. ApiTypeOK'
  BY <1>1, <1>4, <1>5 DEF PipeInv, ApiTypeOK
<1>7. StrandOk' /\ TasksMatch'
  BY <1>1, <1>2, <1>4 DEF PipeInv, StrandOk, TasksMatch, InStrand, Distinct
<1> QED BY <1>2, <1>6, <1>7 DEF PipeInv

LEMMA SendableAreRequests ==
  ASSUME known \subseteq Tokens
  PROVE  Sendable \subseteq Request
BY ApiAssumption DEF Sendable, Request

(* A request enters the strand unless it is a local one.                   *)
LEMMA ReadKeepsInv ==
  ASSUME PipeInv, Lives, NEW c \in Conns, OnRead(c)
  PROVE  PipeInv'
<1>1. PICK r \in Sendable :
        /\ request' = [request EXCEPT ![c] = r]
        /\ \/ /\ stage' = [stage EXCEPT ![c] = "writing"]
              /\ answered' = [answered EXCEPT ![c] = r]
              /\ \E code \in {200, 400, 404} : /\ status' = [status EXCEPT ![c] = code]
                                               /\ result' = [result EXCEPT ![c] = code]
              /\ UNCHANGED <<queue, inside>>
           \/ /\ \/ EnterNow(c) /\ stage' = [stage EXCEPT ![c] = "inline"]
                 \/ EnterLate(c) /\ stage' = [stage EXCEPT ![c] = "queued"]
              /\ UNCHANGED <<answered, status, result>>
  BY DEF OnRead
<1>2. r \in Request
  BY SendableAreRequests DEF PipeInv
<1>3. /\ UNCHANGED <<vars, listening, armed, memory, logged>>
      /\ frame' = [frame EXCEPT ![c] = TRUE]
      /\ stage[c] = "reading"
  BY DEF OnRead
<1>4. (Lives' <=> Lives) /\ known' = known
  BY <1>3 DEF Lives, vars
<1>5. ~ InStrand(c)
  BY <1>3 DEF PipeInv, TasksMatch, Pending
<1>6. CASE /\ stage' = [stage EXCEPT ![c] = "writing"]
           /\ answered' = [answered EXCEPT ![c] = r]
           /\ \E code \in {200, 400, 404} : /\ status' = [status EXCEPT ![c] = code]
                                            /\ result' = [result EXCEPT ![c] = code]
           /\ UNCHANGED <<queue, inside>>
  <2>1. PICK code \in {200, 400, 404} : /\ status' = [status EXCEPT ![c] = code]
                                        /\ result' = [result EXCEPT ![c] = code]
    BY <1>6
  <2>6. ApiTypeOK'
    BY <1>1, <1>2, <1>3, <1>6, <2>1 DEF PipeInv, ApiTypeOK, Stages, Codes
  <2>2. Waiting' = Waiting
    BY <1>6 DEF Waiting
  <2>3. StrandOk'
    BY <1>6, <2>2 DEF PipeInv, StrandOk, Distinct
  <2>4. \A d \in Conns : Pending(d)' <=> Pending(d)
    BY <1>3, <1>6 DEF Pending, PipeInv, ApiTypeOK
  <2>5. TasksMatch'
    BY <1>3, <1>4, <1>6, <2>2, <2>4 DEF PipeInv, TasksMatch, InStrand
  <2> QED BY <1>4, <2>3, <2>5, <2>6 DEF PipeInv
<1>7. CASE /\ \/ EnterNow(c) /\ stage' = [stage EXCEPT ![c] = "inline"]
              \/ EnterLate(c) /\ stage' = [stage EXCEPT ![c] = "queued"]
           /\ UNCHANGED <<answered, status, result>>
  <2>1. StrandOk' /\ (inside \cup Waiting)' = inside \cup Waiting \cup {c}
    BY <1>5, <1>7, EnterKeepsStrand DEF PipeInv, InStrand, Tasks
  <2>2. ApiTypeOK'
    BY <1>1, <1>2, <1>3, <1>7, <2>1 DEF PipeInv, ApiTypeOK, Stages, StrandOk, Tasks
  <2>3. \A d \in Conns : Pending(d)' <=> Pending(d) \/ d = c
    BY <1>7 DEF Pending, PipeInv, ApiTypeOK
  <2>4. TasksMatch'
    BY <1>3, <1>4, <2>1, <2>3, ApiAssumption DEF PipeInv, TasksMatch, InStrand
  <2> QED BY <1>4, <2>1, <2>2, <2>4 DEF PipeInv
<1> QED BY <1>1, <1>6, <1>7

LEMMA RunNextKeepsInv ==
  ASSUME PipeInv, Lives, RunNext
  PROVE  PipeInv'
<1>1. /\ UNCHANGED <<vars, listening, armed, stage, request, answered, status, frame, result>>
      /\ UNCHANGED <<memory, logged>>
      /\ (Lives' <=> Lives) /\ known' = known
  BY DEF RunNext, Lives, vars
<1>2. StrandOk' /\ (inside \cup Waiting)' = inside \cup Waiting
  BY RunNextKeepsStrand DEF PipeInv
<1>3. ApiTypeOK'
  BY <1>1, <1>2 DEF PipeInv, ApiTypeOK, StrandOk, Tasks
<1>4. TasksMatch'
  BY <1>1, <1>2 DEF PipeInv, TasksMatch, InStrand, Pending
<1> QED BY <1>1, <1>2, <1>3, <1>4 DEF PipeInv

(* Answered or not, the request leaves the strand.                         *)
LEMMA HandleKeepsInv ==
  ASSUME PipeInv, Lives, NEW c \in Conns, HandleRequest(c)
  PROVE  PipeInv'
<1>1. /\ c \in inside
      /\ inside' = inside \ {c}
      /\ queue' = queue
      /\ UNCHANGED <<listening, armed, request, frame, logged>>
  BY DEF HandleRequest
<1>2. StrandOk' /\ (inside \cup Waiting)' = (inside \cup Waiting) \ {c}
  BY <1>1, LeaveKeepsStrand DEF PipeInv
<1>3. ASSUME NEW r \in Request, NEW d \in Conns, Answer(c, r, d),
             memory' \in {memory, "astray"}
      PROVE  PipeInv'
  <2>1. PICK code \in Codes :
          /\ Serve(r, code)
          /\ stage' = [stage EXCEPT ![c] = "writing"]
          /\ answered' = [answered EXCEPT ![c] = r]
          /\ status' = [status EXCEPT ![c] = code]
          /\ result' = [result EXCEPT ![d] = IF frame[d] THEN code ELSE @]
    BY <1>3 DEF Answer
  <2>2. known' \subseteq Tokens
    BY <2>1, ServeGrowsKnown DEF PipeInv
  <2>3. ApiTypeOK'
    <3>1. result' \in [Conns -> Codes \cup {Uninitialized}]
      BY <2>1 DEF PipeInv, ApiTypeOK
    <3>2. memory' \in {"sound", "astray", "wrecked"}
      BY <1>3 DEF PipeInv, ApiTypeOK
    <3> QED BY <1>1, <1>2, <2>1, <3>1, <3>2 DEF PipeInv, ApiTypeOK, StrandOk, Tasks, Stages
  <2>4. \A e \in Conns : Pending(e)' <=> Pending(e) /\ e # c
    BY <2>1 DEF Pending, PipeInv, ApiTypeOK
  <2>5. TasksMatch'
    BY <1>1, <1>2, <2>4, ApiAssumption DEF PipeInv, TasksMatch, InStrand
  <2> QED BY <1>2, <2>2, <2>3, <2>5 DEF PipeInv
<1>4. ASSUME ~ Lives', memory' \in {"astray", "wrecked"},
             UNCHANGED <<known, stage, answered, status, result>>
      PROVE  PipeInv'
  <2>1. ApiTypeOK'
    BY <1>1, <1>2, <1>4 DEF PipeInv, ApiTypeOK, StrandOk, Tasks
  <2>2. TasksMatch'
    BY <1>1, <1>2, <1>4, ApiAssumption DEF PipeInv, TasksMatch, InStrand
  <2> QED BY <1>2, <1>4, <2>1, <2>2 DEF PipeInv
<1>5. request[c] \in Request /\ Sendable \subseteq Request /\ FramesAt(c) \subseteq Conns
  BY SendableAreRequests DEF PipeInv, ApiTypeOK, FramesAt
<1>6. CASE Answer(c, request[c], c) /\ UNCHANGED memory
  BY <1>3, <1>5, <1>6
<1>7. CASE RunsAstray(c)
  <2>1. ASSUME up' = FALSE \/ memory' = "wrecked"
        PROVE  ~ Lives'
    BY <2>1 DEF Lives
  <2>2. CASE /\ \E r \in Sendable, d \in FramesAt(c) : r.op # "local" /\ Answer(c, r, d)
             /\ memory' = "astray"
    BY <1>3, <1>5, <2>2
  <2> QED BY <1>4, <1>7, <2>1, <2>2 DEF RunsAstray, vars
<1> QED BY <1>6, <1>7 DEF HandleRequest

(* The timer is armed exactly while the ticker is not in the strand.       *)
LEMMA TimerKeepsInv ==
  ASSUME PipeInv, Lives, TimerFires \/ TickerOnTick
  PROVE  PipeInv'
<1>1. /\ UNCHANGED <<listening, stage, request, answered, status, frame, result, memory, logged>>
      /\ known' = known
      /\ \A d \in Conns : Pending(d)' <=> Pending(d)
  BY DEF TimerFires, TickerOnTick, OnTick, Pending, vars
<1>2. CASE TimerFires
  <2>1. ~ InStrand(Timer) /\ AutoTicker /\ armed' = FALSE
    BY <1>2 DEF PipeInv, TasksMatch, TimerFires
  <2>2. StrandOk' /\ (inside \cup Waiting)' = inside \cup Waiting \cup {Timer}
    BY <1>2, <2>1, EnterKeepsStrand DEF TimerFires, InStrand, PipeInv, Tasks
  <2>3. ApiTypeOK' /\ TasksMatch'
    BY <1>1, <2>1, <2>2, ApiAssumption
       DEF PipeInv, ApiTypeOK, TasksMatch, InStrand, StrandOk, Tasks
  <2> QED BY <1>1, <2>2, <2>3 DEF PipeInv
<1>3. CASE TickerOnTick
  <2>1. /\ Timer \in inside /\ inside' = inside \ {Timer} /\ queue' = queue
        /\ armed' = TRUE /\ AutoTicker
    BY <1>3 DEF TickerOnTick, OnTick
  <2>2. StrandOk' /\ (inside \cup Waiting)' = (inside \cup Waiting) \ {Timer}
    BY <2>1, LeaveKeepsStrand DEF PipeInv
  <2>3. ApiTypeOK' /\ TasksMatch'
    BY <1>1, <2>1, <2>2, ApiAssumption
       DEF PipeInv, ApiTypeOK, TasksMatch, InStrand, StrandOk, Tasks
  <2> QED BY <1>1, <2>2, <2>3 DEF PipeInv
<1> QED BY <1>2, <1>3

LEMMA NextPipeInv ==
  ASSUME PipeInv, [ApiNext]_apiVars
  PROVE  PipeInv'
<1>1. CASE UNCHANGED apiVars
  BY <1>1 DEF apiVars, pipe, vars, PipeInv, ApiTypeOK, StrandOk, TasksMatch, Distinct,
              InStrand, Pending, Waiting, Lives
<1>2. CASE ApiNext
  BY <1>2, ConnectionKeepsInv, ReadKeepsInv, RunNextKeepsInv, HandleKeepsInv, TimerKeepsInv
     DEF ApiNext
<1> QED BY <1>1, <1>2

LEMMA PipelineInvariant == ApiSpec => []PipeInv
<1>1. PipeInv /\ [ApiNext]_apiVars => PipeInv'
  BY NextPipeInv
<1> QED BY InitPipeInv, <1>1, PTL DEF ApiSpec

(* The variables of the pipeline keep their types.                         *)
THEOREM PipelineTypes == ApiSpec => []ApiTypeOK
<1>1. PipeInv => ApiTypeOK
  BY DEF PipeInv
<1> QED BY <1>1, PipelineInvariant, PTL

(* With any number of threads and connections no request and no tick is    *)
(* lost by the API strand, or done twice.                                  *)
THEOREM TasksAreKept == ApiSpec => []EachTaskOnce
<1>1. PipeInv => EachTaskOnce
  BY DEF PipeInv, StrandOk, TasksMatch, EachTaskOnce, Distinct, InStrand, Pending
<1> QED BY <1>1, PipelineInvariant, PTL

-----------------------------------------------------------------------------
(***************************************************************************)
(* One thread.                                                             *)
(***************************************************************************)
OneThreadInv ==
  /\ queue = <<>>
  /\ \A c, d \in Conns : frame[c] /\ frame[d] => c = d
  /\ \A c \in Conns : frame[c] => stage[c] \in {"inline", "writing"} /\ Timer \notin inside
  /\ \A c \in Conns : stage[c] # "queued" /\ (stage[c] = "inline" => frame[c])
  /\ \A c \in Conns : request[c].token \in known \cup {NoToken}
  /\ \A c \in Conns : frame[c] /\ stage[c] = "writing" => result[c] = status[c]
  /\ ReplyFitsRequest
  /\ LogTellsTheCode

(* A free thread can only be the one thread, and then it is in no handler. *)
LEMMA FreeThreadIsIdle ==
  ASSUME Threads = 1, PipeInv, OneThreadInv, Lives, ThreadFree
  PROVE  StrandIdle /\ \A c \in Conns : ~ frame[c]
<1> DEFINE F == {c \in Conns : frame[c]}
           I == {t \in inside : t = Timer \/ stage[t] = "queued"}
<1>1. IsFiniteSet(F) /\ IsFiniteSet(I)
  <2>1. IsFiniteSet(Tasks)
    BY ApiAssumption, FS_AddElement DEF Tasks
  <2>2. F \in SUBSET Tasks /\ I \in SUBSET Tasks
    BY DEF PipeInv, StrandOk, Tasks
  <2> QED BY <2>1, <2>2, FS_Subset
<1>2. Cardinality(F) + Cardinality(I) < 1
  BY DEF ThreadFree, Busy
<1>3. Cardinality(F) \in Nat /\ Cardinality(I) \in Nat
  BY <1>1, FS_CardinalityType
<1>4. Cardinality(F) = 0 /\ Cardinality(I) = 0
  BY <1>2, <1>3
<1>5. F = {} /\ I = {}
  BY <1>1, <1>4, FS_EmptySet
<1>6. \A c \in Conns : ~ frame[c]
  BY <1>5
<1>7. inside = {}
  <2>1. Timer \notin inside
    BY <1>5
  <2>2. \A c \in Conns : c \notin inside
    BY <1>6 DEF OneThreadInv, PipeInv, TasksMatch, InStrand, Pending
  <2> QED BY <2>1, <2>2 DEF PipeInv, StrandOk, Tasks
<1> QED BY <1>6, <1>7 DEF StrandIdle, OneThreadInv

LEMMA InitOneThreadInv == ApiInit => OneThreadInv
BY DEF ApiInit, OneThreadInv, ReplyFitsRequest, LogTellsTheCode, NoRequest

LEMMA ConnectionKeepsOneThread ==
  ASSUME Threads = 1, PipeInv, OneThreadInv, Lives, NEW c \in Conns,
         OnAccept(c) \/ OnReadFails(c) \/ OnWrite(c) \/ HandlerReturns(c)
  PROVE  OneThreadInv'
<1>1. queue' = queue /\ inside' = inside /\ known' = known
  BY DEF OnAccept, OnReadFails, HandlerReturns, OnWrite, vars
<1>2. CASE OnAccept(c) \/ OnReadFails(c)
  BY <1>1, <1>2 DEF OnAccept, OnReadFails, OneThreadInv, ReplyFitsRequest, LogTellsTheCode,
                    PipeInv, ApiTypeOK
<1>3. CASE OnWrite(c)
  BY <1>1, <1>3 DEF OnWrite, OneThreadInv, ReplyFitsRequest, LogTellsTheCode, NoRequest,
                    PipeInv, ApiTypeOK
<1>4. CASE HandlerReturns(c)
  BY <1>1, <1>4 DEF HandlerReturns, OneThreadInv, ReplyFitsRequest, LogTellsTheCode,
                    PipeInv, ApiTypeOK
<1> QED BY <1>2, <1>3, <1>4

LEMMA ReadKeepsOneThread ==
  ASSUME Threads = 1, PipeInv, OneThreadInv, Lives, NEW c \in Conns, OnRead(c)
  PROVE  OneThreadInv'
<1>1. StrandIdle /\ (\A d \in Conns : ~ frame[d])
  BY FreeThreadIsIdle DEF OnRead
<1>2. PICK r \in Sendable :
        /\ request' = [request EXCEPT ![c] = r]
        /\ \/ /\ stage' = [stage EXCEPT ![c] = "writing"]
              /\ answered' = [answered EXCEPT ![c] = r]
              /\ \E code \in {200, 400, 404} : /\ status' = [status EXCEPT ![c] = code]
                                               /\ result' = [result EXCEPT ![c] = code]
              /\ UNCHANGED <<queue, inside>>
           \/ /\ EnterNow(c) /\ stage' = [stage EXCEPT ![c] = "inline"]
              /\ UNCHANGED <<answered, status, result>>
  BY <1>1 DEF OnRead, EnterLate
<1>3. r.token \in known \cup {NoToken}
  BY DEF Sendable
<1>4. /\ frame' = [frame EXCEPT ![c] = TRUE]
      /\ stage[c] = "reading"
      /\ logged' = logged /\ known' = known
  BY DEF OnRead, vars
<1>5. queue' = <<>> /\ Timer \notin inside'
  BY <1>1, <1>2, ApiAssumption DEF EnterNow, StrandIdle
<1>6. \A d \in Conns : frame'[d] => d = c
  BY <1>1, <1>4 DEF PipeInv, ApiTypeOK
<1>7. \A d \in Conns : request'[d] = IF d = c THEN r ELSE request[d]
  BY <1>2 DEF PipeInv, ApiTypeOK
<1>8. \A d \in Conns : logged[d] # 0 => d # c
  BY <1>4 DEF OneThreadInv, LogTellsTheCode
<1>9. CASE /\ stage' = [stage EXCEPT ![c] = "writing"]
           /\ answered' = [answered EXCEPT ![c] = r]
           /\ \E code \in {200, 400, 404} : /\ status' = [status EXCEPT ![c] = code]
                                            /\ result' = [result EXCEPT ![c] = code]
  BY <1>3, <1>4, <1>5, <1>6, <1>7, <1>8, <1>9
     DEF OneThreadInv, ReplyFitsRequest, LogTellsTheCode, PipeInv, ApiTypeOK
<1>10. CASE stage' = [stage EXCEPT ![c] = "inline"] /\ UNCHANGED <<answered, status, result>>
  BY <1>3, <1>4, <1>5, <1>6, <1>7, <1>8, <1>10
     DEF OneThreadInv, ReplyFitsRequest, LogTellsTheCode, PipeInv, ApiTypeOK
<1> QED BY <1>2, <1>9, <1>10

(* A task of the strand answers from the request its connection has read.  *)
LEMMA HandleWithOneThread ==
  ASSUME PipeInv, OneThreadInv, Lives, NEW c \in Conns, HandleRequest(c)
  PROVE  stage[c] = "inline" /\ Answer(c, request[c], c)
<1>1. c \in inside
  BY DEF HandleRequest
<1>2. stage[c] # "queued"
  BY DEF OneThreadInv
<1> QED BY <1>1, <1>2 DEF HandleRequest, TasksMatch, PipeInv, InStrand, Pending

LEMMA HandleKeepsOneThread ==
  ASSUME PipeInv, OneThreadInv, Lives, NEW c \in Conns, HandleRequest(c)
  PROVE  OneThreadInv'
<1>1. PICK code \in Codes :
        /\ Serve(request[c], code)
        /\ stage' = [stage EXCEPT ![c] = "writing"]
        /\ answered' = [answered EXCEPT ![c] = request[c]]
        /\ status' = [status EXCEPT ![c] = code]
        /\ result' = [result EXCEPT ![c] = IF frame[c] THEN code ELSE @]
  BY HandleWithOneThread DEF Answer
<1>2. stage[c] = "inline" /\ logged[c] = 0
  BY HandleWithOneThread DEF OneThreadInv, LogTellsTheCode, PipeInv, ApiTypeOK
<1>3. /\ inside' = inside \ {c}
      /\ UNCHANGED <<queue, request, frame, logged>>
  BY DEF HandleRequest
<1>4. known \subseteq known'
  BY <1>1, ServeGrowsKnown
<1> QED
  BY <1>1, <1>2, <1>3, <1>4 DEF OneThreadInv, ReplyFitsRequest, LogTellsTheCode, PipeInv, ApiTypeOK

LEMMA TimerKeepsOneThread ==
  ASSUME Threads = 1, PipeInv, OneThreadInv, Lives, TimerFires \/ TickerOnTick
  PROVE  OneThreadInv'
<1>1. UNCHANGED <<stage, request, answered, status, frame, result, logged, known>>
  BY DEF TimerFires, TickerOnTick, OnTick, vars
<1>2. CASE TimerFires
  <2>1. StrandIdle /\ \A c \in Conns : ~ frame[c]
    BY <1>2, FreeThreadIsIdle DEF TimerFires
  <2>2. queue' = <<>>
    BY <1>2, <2>1 DEF TimerFires, EnterNow, EnterLate, OneThreadInv
  <2> QED BY <1>1, <2>1, <2>2 DEF OneThreadInv, ReplyFitsRequest, LogTellsTheCode
<1>3. CASE TickerOnTick
  <2>1. queue' = queue /\ inside' = inside \ {Timer}
    BY <1>3 DEF TickerOnTick
  <2> QED BY <1>1, <2>1 DEF OneThreadInv, ReplyFitsRequest, LogTellsTheCode
<1> QED BY <1>2, <1>3

LEMMA NextOneThreadInv ==
  ASSUME Threads = 1, PipeInv, OneThreadInv, [ApiNext]_apiVars
  PROVE  OneThreadInv'
<1>1. CASE UNCHANGED apiVars
  BY <1>1 DEF apiVars, pipe, vars, OneThreadInv, ReplyFitsRequest, LogTellsTheCode
<1>2. CASE ApiNext
  <2>1. ~ RunNext
    BY DEF RunNext, OneThreadInv
  <2> QED
    BY <1>2, <2>1, ConnectionKeepsOneThread, ReadKeepsOneThread, HandleKeepsOneThread,
       TimerKeepsOneThread DEF ApiNext
<1> QED BY <1>1, <1>2

LEMMA OneThreadInvariant ==
  ASSUME Threads = 1
  PROVE  ApiSpec => []OneThreadInv
<1>1. PipeInv /\ OneThreadInv /\ [ApiNext]_apiVars => OneThreadInv'
  BY NextOneThreadInv
<1> QED BY InitOneThreadInv, <1>1, PipelineInvariant, PTL DEF ApiSpec

(* With one thread the reply answers the request that was sent.            *)
THEOREM RepliesFit ==
  ASSUME Threads = 1
  PROVE  ApiSpec => []ReplyFitsRequest
<1>1. OneThreadInv => ReplyFitsRequest
  BY DEF OneThreadInv
<1> QED BY <1>1, OneThreadInvariant, PTL

(* With one thread the "response sent" record names the response's code.   *)
THEOREM LogIsRight ==
  ASSUME Threads = 1
  PROVE  ApiSpec => []LogTellsTheCode
<1>1. OneThreadInv => LogTellsTheCode
  BY DEF OneThreadInv
<1> QED BY <1>1, OneThreadInvariant, PTL

-----------------------------------------------------------------------------
(* Serving a request is a step of the game world, which knows the tokens   *)
(* that clients can have.                                                  *)
LEMMA ServeIsNext ==
  ASSUME up, NEW r, NEW code \in Codes, r.token \in known \cup {NoToken}, Serve(r, code)
  PROVE  Next
<1>1. r.token \in Credentials
  BY DEF Credentials
<1> QED BY <1>1 DEF Serve, Next

LEMMA StepRefinesGame ==
  ASSUME PipeInv, OneThreadInv, [ApiNext]_apiVars
  PROVE  [Next]_vars
<1>1. CASE UNCHANGED apiVars
  BY <1>1 DEF apiVars
<1>2. CASE \E c \in Conns : OnAccept(c) \/ OnReadFails(c) \/ OnRead(c) \/ HandlerReturns(c) \/ OnWrite(c)
  BY <1>2 DEF OnAccept, OnReadFails, OnRead, HandlerReturns, OnWrite
<1>3. CASE RunNext \/ TimerFires
  BY <1>3 DEF RunNext, TimerFires
<1>4. ASSUME Lives, NEW c \in Conns, HandleRequest(c)
      PROVE  Next
  <2>1. PICK code \in Codes : Serve(request[c], code)
    BY <1>4, HandleWithOneThread DEF Answer
  <2>2. request[c].token \in known \cup {NoToken}
    BY DEF OneThreadInv
  <2> QED BY <1>4, <2>1, <2>2, ServeIsNext DEF Lives
<1>5. ASSUME Lives, TickerOnTick
      PROVE  Next
  BY <1>5 DEF TickerOnTick, Next, Lives
<1> QED BY <1>1, <1>2, <1>3, <1>4, <1>5 DEF ApiNext

(* With one thread the server is the game world: whatever connections, the *)
(* strand and the ticker do, the game sees its own steps only.             *)
THEOREM ServerImplementsGame ==
  ASSUME Threads = 1
  PROVE  ApiSpec => GameWorldSpec
<1>1. ApiInit => Init
  BY DEF ApiInit
<1>2. PipeInv /\ OneThreadInv /\ [ApiNext]_apiVars => [Next]_vars
  BY StepRefinesGame
<1>3. ApiSpec => []PipeInv /\ []OneThreadInv
  BY PipelineInvariant, OneThreadInvariant, PTL
<1> QED BY <1>1, <1>2, <1>3, PTL DEF ApiSpec, GameWorldSpec, Spec
-----------------------------------------------------------------------------
(***************************************************************************)
(* Any number of threads.  Until a lambda that had to wait has found the   *)
(* objects it refers to dead, everything is as with one thread, but for    *)
(* the records of requests that wait.  What comes after that is nothing    *)
(* the code determines.                                                    *)
(***************************************************************************)

(* The game takes its own steps only, one at a time, and once the memory   *)
(* is not sound any more it never is again.                                *)
OwnStep == ([Next]_vars /\ memory' = memory) \/ memory' # "sound"

GameUntilAstray == Init /\ memory = "sound" /\ [][OwnStep]_<<vars, memory>>

TokensKnown == \A c \in Conns : request[c].token \in known \cup {NoToken}

LEMMA SoundStep ==
  ASSUME TokensKnown, [ApiNext]_apiVars
  PROVE  OwnStep
<1> USE DEF OwnStep
<1>1. CASE UNCHANGED apiVars
  BY <1>1 DEF apiVars, pipe
<1>2. CASE \E c \in Conns : OnAccept(c) \/ OnReadFails(c) \/ OnRead(c) \/ HandlerReturns(c) \/ OnWrite(c)
  BY <1>2 DEF OnAccept, OnReadFails, OnRead, HandlerReturns, OnWrite
<1>3. CASE RunNext \/ TimerFires
  BY <1>3 DEF RunNext, TimerFires
<1>4. ASSUME Lives, NEW c \in Conns, HandleRequest(c)
      PROVE  (Next /\ memory' = memory) \/ memory' # "sound"
  <2>1. CASE RunsAstray(c)
    BY <2>1 DEF RunsAstray
  <2>2. CASE Answer(c, request[c], c) /\ UNCHANGED memory
    BY <1>4, <2>2, ServeIsNext DEF Answer, Lives, TokensKnown
  <2> QED BY <1>4, <2>1, <2>2 DEF HandleRequest
<1>5. ASSUME Lives, TickerOnTick
      PROVE  Next /\ memory' = memory
  BY <1>5 DEF TickerOnTick, Next, Lives
<1> QED BY <1>1, <1>2, <1>3, <1>4, <1>5 DEF ApiNext

LEMMA TokensStayKnown ==
  ASSUME TokensKnown, PipeInv, [ApiNext]_apiVars
  PROVE  TokensKnown'
<1>1. CASE UNCHANGED apiVars
  BY <1>1 DEF apiVars, pipe, vars, TokensKnown
<1>2. ASSUME NEW c \in Conns,
             OnAccept(c) \/ OnReadFails(c) \/ HandlerReturns(c) \/ OnWrite(c)
      PROVE  TokensKnown'
  <2>1. known' = known /\ (request' = request \/ request' = [request EXCEPT ![c] = NoRequest])
    BY <1>2 DEF OnAccept, OnReadFails, HandlerReturns, OnWrite, vars
  <2> QED BY <2>1 DEF TokensKnown, NoRequest, PipeInv, ApiTypeOK
<1>3. ASSUME NEW c \in Conns, OnRead(c)
      PROVE  TokensKnown'
  <2>1. known' = known /\ \E r \in Sendable : request' = [request EXCEPT ![c] = r]
    BY <1>3 DEF OnRead, vars
  <2> QED BY <2>1 DEF TokensKnown, Sendable, PipeInv, ApiTypeOK
<1>4. CASE RunNext \/ TimerFires \/ TickerOnTick
  BY <1>4 DEF RunNext, TimerFires, TickerOnTick, OnTick, vars, TokensKnown
<1>5. ASSUME NEW c \in Conns, HandleRequest(c)
      PROVE  TokensKnown'
  <2>1. request' = request
    BY <1>5 DEF HandleRequest
  <2>2. known \subseteq known'
    BY <1>5, ServeGrowsKnown DEF HandleRequest, RunsAstray, Answer, vars
  <2> QED BY <2>1, <2>2 DEF TokensKnown
<1> QED BY <1>1, <1>2, <1>3, <1>4, <1>5 DEF ApiNext

LEMMA TokensKnownInvariant == ApiSpec => []TokensKnown
<1>1. ApiInit => TokensKnown
  BY DEF ApiInit, TokensKnown, NoRequest
<1>2. TokensKnown /\ PipeInv /\ [ApiNext]_apiVars => TokensKnown'
  BY TokensStayKnown
<1> QED BY <1>1, <1>2, PipelineInvariant, PTL DEF ApiSpec

(* With any number of threads the server is the game world until the first *)
(* lambda finds dead objects: requests and ticks that wait for each other  *)
(* in the strand are handled one at a time, as the requests they are.      *)
THEOREM ServerIsGameUntilAstray == ApiSpec => GameUntilAstray
<1>1. ApiInit => Init /\ memory = "sound"
  BY DEF ApiInit
<1>2. TokensKnown /\ [ApiNext]_apiVars => [OwnStep]_<<vars, memory>>
  BY SoundStep
<1> QED BY <1>1, <1>2, TokensKnownInvariant, PTL DEF ApiSpec, GameUntilAstray

(* Until then the sessions, the list of players and the dogs agree, in     *)
(* whatever order the requests and ticks got into the strand.              *)
THEOREM GameSoundUntilAstray == ApiSpec => [](memory = "sound" /\ up => WorldInv)
<1> DEFINE Sound == memory = "sound" /\ up => WorldInv
<1>1. Init => Sound
  BY InitInv
<1>2. Sound /\ [OwnStep]_<<vars, memory>> => Sound'
  <2> SUFFICES ASSUME Sound, memory' = "sound", up', [OwnStep]_<<vars, memory>>
               PROVE  WorldInv'
    OBVIOUS
  <2>1. [Next]_vars /\ memory = "sound"
    BY DEF OwnStep
  <2>2. up
    BY <2>1 DEF Next, vars
  <2> QED BY <2>1, <2>2, NextKeepsInv
<1> QED BY <1>1, <1>2, ServerIsGameUntilAstray, PTL DEF GameUntilAstray

(* A response record names the code that is sent.  Only that of a request  *)
(* which still waits for the strand has a code that was never assigned.    *)
LogIsRightOrUnassigned ==
  \A c \in Conns :
    \/ logged[c] = 0
    \/ logged[c] = Uninitialized /\ stage[c] = "queued"
    \/ logged[c] = status[c] /\ stage[c] = "writing"

(* While a handler has not returned its connection reads nothing new and   *)
(* has no record, and code_result is that of the response if there is one. *)
FrameIsRight(c) ==
  /\ logged[c] = 0
  /\ stage[c] \in {"inline", "queued", "writing"}
  /\ result[c] = IF stage[c] = "writing" THEN status[c] ELSE Uninitialized

LogInv ==
  memory = "sound" =>
    /\ LogIsRightOrUnassigned
    /\ \A c \in Conns : IF frame[c] THEN FrameIsRight(c) ELSE result[c] = Uninitialized

LEMMA SoundAgo ==
  ASSUME memory' = "sound", [ApiNext]_apiVars
  PROVE  memory = "sound"
BY DEF ApiNext, apiVars, pipe, OnAccept, OnReadFails, OnRead, HandlerReturns, OnWrite,
       HandleRequest, RunsAstray, RunNext, TimerFires, TickerOnTick

LEMMA LogStep ==
  ASSUME LogInv, PipeInv, [ApiNext]_apiVars
  PROVE  LogInv'
<1> SUFFICES ASSUME memory' = "sound" PROVE LogInv'
  BY DEF LogInv
<1>a. memory = "sound"
  BY SoundAgo
<1>b. LogIsRightOrUnassigned
  BY <1>a DEF LogInv
<1>c. \A c \in Conns : IF frame[c] THEN FrameIsRight(c) ELSE result[c] = Uninitialized
  BY <1>a DEF LogInv
<1>1. CASE UNCHANGED apiVars
  BY <1>1 DEF apiVars, pipe, LogInv, LogIsRightOrUnassigned, FrameIsRight
<1>2. ASSUME Lives, NEW c \in Conns,
             OnAccept(c) \/ OnReadFails(c) \/ HandlerReturns(c) \/ OnWrite(c)
      PROVE  LogInv'
  <2>1. CASE OnAccept(c) \/ OnReadFails(c)
    BY <1>b, <1>c, <2>1
       DEF OnAccept, OnReadFails, LogInv, LogIsRightOrUnassigned, FrameIsRight, PipeInv, ApiTypeOK
  <2>2. CASE HandlerReturns(c)
    BY <1>b, <1>c, <2>2
       DEF HandlerReturns, LogInv, LogIsRightOrUnassigned, FrameIsRight, PipeInv, ApiTypeOK
  <2>3. CASE OnWrite(c)
    BY <1>b, <1>c, <2>3
       DEF OnWrite, LogInv, LogIsRightOrUnassigned, FrameIsRight, PipeInv, ApiTypeOK
  <2> QED BY <1>2, <2>1, <2>2, <2>3
<1>3. ASSUME Lives, NEW c \in Conns, OnRead(c)
      PROVE  LogInv'
  <2>1. /\ stage[c] = "reading" /\ logged' = logged /\ logged[c] = 0
        /\ ~ frame[c] /\ result[c] = Uninitialized
    BY <1>b, <1>c, <1>3 DEF OnRead, LogIsRightOrUnassigned, FrameIsRight
  <2>2. \A d \in Conns : d # c => /\ stage'[d] = stage[d] /\ status'[d] = status[d]
                                  /\ frame'[d] = frame[d] /\ result'[d] = result[d]
    BY <1>3 DEF OnRead, PipeInv, ApiTypeOK
  <2>3. /\ frame'[c]
        /\ \/ stage'[c] = "writing" /\ result'[c] = status'[c]
           \/ stage'[c] \in {"inline", "queued"} /\ result'[c] = result[c]
    BY <1>3 DEF OnRead, PipeInv, ApiTypeOK
  <2> QED BY <1>b, <1>c, <2>1, <2>2, <2>3 DEF LogInv, LogIsRightOrUnassigned, FrameIsRight
<1>4. CASE RunNext \/ TimerFires \/ TickerOnTick
  BY <1>b, <1>c, <1>4
     DEF RunNext, TimerFires, TickerOnTick, LogInv, LogIsRightOrUnassigned, FrameIsRight
<1>5. ASSUME Lives, NEW c \in Conns, HandleRequest(c)
      PROVE  LogInv'
  <2>1. PICK code \in Codes :
          /\ stage' = [stage EXCEPT ![c] = "writing"]
          /\ status' = [status EXCEPT ![c] = code]
          /\ result' = [result EXCEPT ![c] = code]
    BY <1>5 DEF HandleRequest, RunsAstray, Answer
  <2>2. frame[c] /\ logged' = logged /\ frame' = frame /\ logged[c] = 0
    BY <1>c, <1>5 DEF HandleRequest, RunsAstray, FrameIsRight
  <2>3. \A d \in Conns : d # c => /\ stage'[d] = stage[d] /\ status'[d] = status[d]
                                  /\ result'[d] = result[d]
    BY <2>1 DEF PipeInv, ApiTypeOK
  <2>4. stage'[c] = "writing" /\ status'[c] = code /\ result'[c] = code
    BY <2>1 DEF PipeInv, ApiTypeOK
  <2> QED BY <1>b, <1>c, <2>2, <2>3, <2>4 DEF LogInv, LogIsRightOrUnassigned, FrameIsRight
<1> QED BY <1>1, <1>2, <1>3, <1>4, <1>5 DEF ApiNext

(* With any number of threads: until the first lambda writes through dead  *)
(* references, a record names the code that was sent, or belongs to a      *)
(* request whose lambda still waits.                                       *)
THEOREM LogRightUntilAstray == ApiSpec => [](memory = "sound" => LogIsRightOrUnassigned)
<1>1. ApiInit => LogInv
  BY DEF ApiInit, LogInv, LogIsRightOrUnassigned
<1>2. LogInv /\ PipeInv /\ [ApiNext]_apiVars => LogInv'
  BY LogStep
<1>3. LogInv => (memory = "sound" => LogIsRightOrUnassigned)
  BY DEF LogInv
<1> QED BY <1>1, <1>2, <1>3, PipelineInvariant, PTL DEF ApiSpec

-----------------------------------------------------------------------------
(***************************************************************************)
(* No request is stuck: the safety behind RequestsAnswered.  A lambda that *)
(* runs inside of operator() is one that the strand runs.                  *)
(***************************************************************************)
InlineRuns == Lives => \A c \in Conns : stage[c] = "inline" => c \in inside

LEMMA InlineStep ==
  ASSUME InlineRuns, PipeInv, [ApiNext]_apiVars
  PROVE  InlineRuns'
<1>1. CASE UNCHANGED apiVars
  BY <1>1 DEF apiVars, pipe, vars, InlineRuns, Lives
<1>2. stage \in [Conns -> Stages] /\ \A s, t \in inside : s = t
  BY DEF PipeInv, ApiTypeOK, StrandOk
<1>3. ASSUME Lives, NEW c \in Conns,
             OnAccept(c) \/ OnReadFails(c) \/ HandlerReturns(c) \/ OnWrite(c)
      PROVE  InlineRuns'
  <2>1. inside' = inside
    BY <1>3 DEF OnAccept, OnReadFails, HandlerReturns, OnWrite
  <2>2. \A d \in Conns : stage'[d] = stage[d] \/ stage'[d] \in {"reading", "closed"}
    BY <1>2, <1>3 DEF OnAccept, OnReadFails, HandlerReturns, OnWrite
  <2> QED BY <1>3, <2>1, <2>2 DEF InlineRuns
<1>4. ASSUME Lives, NEW c \in Conns, OnRead(c)
      PROVE  InlineRuns'
  <2>1. \A d \in Conns : d # c => stage'[d] = stage[d]
    BY <1>2, <1>4 DEF OnRead
  <2>2. inside \subseteq inside' /\ (stage'[c] = "inline" => c \in inside')
    BY <1>2, <1>4 DEF OnRead, EnterNow, EnterLate
  <2> QED BY <1>4, <2>1, <2>2 DEF InlineRuns
<1>5. ASSUME Lives, RunNext PROVE InlineRuns'
  BY <1>5 DEF RunNext, InlineRuns
<1>6. ASSUME Lives, TimerFires \/ TickerOnTick PROVE InlineRuns'
  <2>1. stage' = stage /\ (\A d \in Conns : d \in inside => d \in inside')
    BY <1>6, ApiAssumption DEF TimerFires, TickerOnTick, EnterNow, EnterLate
  <2> QED BY <1>6, <2>1 DEF InlineRuns
<1>7. ASSUME Lives, NEW c \in Conns, HandleRequest(c)
      PROVE  InlineRuns'
  <2>1. c \in inside /\ inside' = inside \ {c}
    BY <1>7 DEF HandleRequest
  <2>2. Lives' => stage' = [stage EXCEPT ![c] = "writing"]
    BY <1>7 DEF HandleRequest, RunsAstray, Answer, Lives
  <2> QED BY <1>2, <1>7, <2>1, <2>2 DEF InlineRuns
<1> QED BY <1>1, <1>3, <1>4, <1>5, <1>6, <1>7 DEF ApiNext

(* What can go on while a request waits: the task that the strand runs,    *)
(* the next one, or operator() of a handler that has a thread.             *)
StrandGoesOn ==
  \/ inside # {}
  \/ queue # <<>> /\ ThreadFree
  \/ \E c \in Conns : frame[c] /\ stage[c] # "inline"

(* With any number of threads and connections, the handlers that hold all  *)
(* threads never wait for the strand that waits for a thread.              *)
THEOREM RequestsAreNotStuck ==
  ApiSpec => [](Lives => \A c \in Conns : Pending(c) => StrandGoesOn)
<1>1. ApiInit => InlineRuns
  BY DEF ApiInit, InlineRuns
<1>2. InlineRuns /\ PipeInv /\ [ApiNext]_apiVars => InlineRuns'
  BY InlineStep
<1>3. InlineRuns /\ PipeInv => (Lives => \A c \in Conns : Pending(c) => StrandGoesOn)
  <2> SUFFICES ASSUME InlineRuns, PipeInv, Lives, NEW c \in Conns, Pending(c),
                      inside = {}, ~ \E d \in Conns : frame[d] /\ stage[d] # "inline"
               PROVE  queue # <<>> /\ ThreadFree
    BY DEF StrandGoesOn
  <2>1. c \in Waiting
    BY DEF PipeInv, TasksMatch, InStrand
  <2>2. queue # <<>>
    BY <2>1 DEF Waiting
  <2>3. {d \in Conns : frame[d]} = {} /\ {t \in inside : t = Timer \/ stage[t] = "queued"} = {}
    BY DEF InlineRuns
  <2>4. Busy = 0
    BY <2>3, FS_EmptySet DEF Busy
  <2> QED BY <2>2, <2>4, ApiAssumption DEF ThreadFree
<1> QED BY <1>1, <1>2, <1>3, PipelineInvariant, PTL DEF ApiSpec
=============================================================================
