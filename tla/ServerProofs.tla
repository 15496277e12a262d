----------------------------- MODULE ServerProofs -----------------------------
(***************************************************************************)
(* Proofs about Server, for any set of connections to the three listeners. *)
(***************************************************************************)
EXTENDS Server, TLAPS

SettingUp == {"load", "pool", "migrate", "connect", "listen"}

(* Nobody can be connected while main is setting up, or to a worker, and   *)
(* nothing is shut down.                                                   *)
NobodyYet ==
    /\ phase \in SettingUp \/ kind = "worker" =>
          /\ stopper = "off"
          /\ \A t \in Listener : listeners[t] = "off"
          /\ \A c \in Connection : client[c] = "away"
    /\ phase \in SettingUp => outbox = "off" /\ ~unsent

(* What the shutdown goroutine has left behind it stays as it is. *)
BehindStopper ==
    /\ \A t \in {"grpc", "thrift"} :
          IsStopped(t) => listeners[t] \in {"closed", "failed", "lost"}
    /\ stopper \in {"thrift", "done"} => \A c \in Of("grpc") : client[c] = "away"
    /\ stopper = "done" => \A c \in Of("thrift") : client[c] = "away"

(* main goes on only when all goroutines have returned. *)
BehindWait ==
    /\ phase \in {"flush", "close"} =>
          ~err /\ outbox \in {"off", "returned"} /\ (kind = "server" => stopper = "done")
    /\ phase = "close" => ~unsent

(* The error of the errgroup is that of a listener, and the Thrift         *)
(* listener that is lost is none.                                          *)
ErrIsAListeners == err <=> \E t \in Listener : listeners[t] = "failed"

(* The places where a process ends. *)
EndedAt ==
    /\ status = "ok" =>
          \/ phase = "load"
          \/ phase = "close" /\ \A c \in Connection : client[c] # "tx"
    /\ status = "error" => phase \in SettingUp \cup {"serve"}
    /\ status = "error" /\ phase = "serve" =>
          err /\ (kind = "server" => stopper = "done")

(* The inductive invariant. *)
IInv ==
    /\ ServerTypeOK
    /\ NobodyYet
    /\ BehindStopper
    /\ BehindWait
    /\ ErrIsAListeners
    /\ EndedAt

-------------------------------------------------------------------------------
(***************************************************************************)
(* A variable of the environment gives a value of its type.                *)
(***************************************************************************)
LEMMA GetType ==
    ASSUME NEW V, NEW def \in V, NEW setting \in Setting(V)
    PROVE  Get(setting, def) \in V
  BY DEF Setting, Get

(***************************************************************************)
(* Every environment gives a configuration.                                *)
(***************************************************************************)
LEMMA LoadType ==
    ASSUME NEW env \in Env
    PROVE  Load(env) \in Config
<1>1. Get(env.MIGRATE_ON_START, TRUE) \in BOOLEAN
  BY GetType DEF Env
<1>2. Get(env.OUTBOX_ENABLED, TRUE) \in BOOLEAN
  BY GetType DEF Env
<1>3. Get(env.OUTBOX_POLL_INTERVAL, 1) \in {0, 1}
  BY GetType DEF Env
<1>4. Get(env.OUTBOX_BATCH_SIZE, 50) \in {0, 50}
  BY GetType DEF Env
<1> QED
  BY <1>1, <1>2, <1>3, <1>4 DEF Load, Config

(***************************************************************************)
(* A process that starts has no goroutines and no connections.             *)
(***************************************************************************)
LEMMA InitOK == Init => IInv
<1> SUFFICES ASSUME Init PROVE IInv
  OBVIOUS
<1>1. cfg \in Config
  BY DEF Init, Load, Get, Config
<1>2. ServerTypeOK
  BY <1>1 DEF Init, ServerTypeOK, Listener, ConnectionState
<1>3. NobodyYet /\ BehindStopper /\ BehindWait /\ ErrIsAListeners /\ EndedAt
  BY DEF Init, NobodyYet, BehindStopper, BehindWait, ErrIsAListeners, EndedAt,
         IsStopped
<1> QED BY <1>2, <1>3 DEF IInv

-------------------------------------------------------------------------------
(* main *)

(***************************************************************************)
(* log.Fatalf while main is setting up.                                    *)
(***************************************************************************)
LEMMA FatalKeeps ==
    ASSUME IInv, Fatal, phase \in SettingUp
    PROVE  IInv'
<1>1. ServerTypeOK'
  BY DEF IInv, ServerTypeOK, Fatal, goroutines
<1>2. NobodyYet' /\ BehindStopper' /\ BehindWait' /\ ErrIsAListeners'
  BY DEF IInv, Fatal, goroutines, NobodyYet, BehindStopper, BehindWait,
         ErrIsAListeners, IsStopped, Of
<1>3. EndedAt'
  BY DEF Fatal, EndedAt, SettingUp
<1> QED BY <1>1, <1>2, <1>3 DEF IInv

(***************************************************************************)
(* One step of the setup after another.                                    *)
(***************************************************************************)
LEMMA SetupKeeps ==
    ASSUME IInv, phase \in SettingUp, status = "running",
           NEW next \in SettingUp \cup {"serve"}, GoTo(next)
    PROVE  IInv'
<1>1. ServerTypeOK'
  BY DEF IInv, ServerTypeOK, GoTo, goroutines, SettingUp
<1>2. NobodyYet' /\ BehindStopper' /\ ErrIsAListeners'
  BY DEF IInv, GoTo, goroutines, NobodyYet, BehindStopper, ErrIsAListeners,
         IsStopped, Of
<1>3. BehindWait' /\ EndedAt'
  BY DEF GoTo, BehindWait, EndedAt, SettingUp
<1> QED BY <1>1, <1>2, <1>3 DEF IInv

(***************************************************************************)
(* The configuration is read, or found incomplete.                         *)
(***************************************************************************)
LEMMA LoadConfigKeeps ==
    ASSUME IInv, LoadConfig
    PROVE  IInv'
<1>1. phase = "load" /\ phase \in SettingUp /\ status = "running"
  BY DEF LoadConfig, Running, SettingUp
<1>2. CASE Fatal
  BY <1>1, <1>2, FatalKeeps
<1>3. CASE ~Fatal
  <2>1. PICK env \in Env :
           /\ cfg' = Load(env)
           /\ \/ status' = "ok" /\ UNCHANGED phase
              \/ phase' = "pool" /\ UNCHANGED status
           /\ UNCHANGED <<kind, goroutines>>
    BY <1>3 DEF LoadConfig
  <2>2. cfg' \in Config
    BY <2>1, LoadType
  <2>3. outbox = "off" /\ phase' \in SettingUp
    BY <1>1, <2>1 DEF IInv, NobodyYet, SettingUp
  <2>4. ServerTypeOK'
    BY <2>1, <2>2, <2>3 DEF IInv, ServerTypeOK, goroutines
  <2>5. NobodyYet' /\ BehindStopper' /\ ErrIsAListeners'
    BY <1>1, <2>1, <2>3 DEF IInv, goroutines, NobodyYet, BehindStopper,
       ErrIsAListeners, IsStopped, Of
  <2>6. BehindWait' /\ EndedAt'
    BY <1>1, <2>1 DEF BehindWait, EndedAt
  <2> QED BY <2>4, <2>5, <2>6 DEF IInv
<1> QED BY <1>2, <1>3

(***************************************************************************)
(* main waits for its goroutines and then closes what it has opened.       *)
(***************************************************************************)
LEMMA WaitKeeps ==
    ASSUME IInv, Wait
    PROVE  IInv'
<1>1. /\ phase = "serve" /\ status = "running" /\ outbox \in {"off", "returned"}
      /\ kind = "server" => stopper = "done"
      /\ UNCHANGED <<kind, cfg, goroutines>>
      /\ \/ err /\ status' = "error" /\ UNCHANGED phase
         \/ ~err /\ phase' = "flush" /\ UNCHANGED status
  BY DEF Wait, Running, AllReturned, Fatal, GoTo
<1>2. ServerTypeOK'
  BY <1>1 DEF IInv, ServerTypeOK, goroutines
<1>3. NobodyYet' /\ BehindStopper' /\ ErrIsAListeners'
  BY <1>1 DEF IInv, goroutines, NobodyYet, BehindStopper, ErrIsAListeners,
     IsStopped, Of, SettingUp
<1>4. BehindWait' /\ EndedAt'
  BY <1>1 DEF goroutines, BehindWait, EndedAt
<1> QED BY <1>2, <1>3, <1>4 DEF IInv

(***************************************************************************)
(* The deferred calls.                                                     *)
(***************************************************************************)
LEMMA CloseKeeps ==
    ASSUME IInv, ClosePublisher \/ ClosePool
    PROVE  IInv'
<1>1. /\ phase \in {"flush", "close"} /\ status = "running" /\ phase' = "close"
      /\ UNCHANGED <<kind, cfg, cancelled, err, listeners, outbox, stopper, client>>
      /\ \/ phase = "flush" /\ unsent' = FALSE /\ UNCHANGED status
         \/ /\ phase = "close" /\ UNCHANGED unsent /\ status' = "ok"
            /\ \A c \in Connection : client[c] # "tx"
  BY DEF ClosePublisher, ClosePool, Running, goroutines
<1>2. ServerTypeOK'
  BY <1>1 DEF IInv, ServerTypeOK
<1>3. NobodyYet' /\ BehindStopper' /\ ErrIsAListeners'
  BY <1>1 DEF IInv, NobodyYet, BehindStopper, ErrIsAListeners, IsStopped, Of,
     SettingUp
<1>4. BehindWait' /\ EndedAt'
  BY <1>1 DEF IInv, BehindWait, EndedAt
<1> QED BY <1>2, <1>3, <1>4 DEF IInv

(***************************************************************************)
(* Every step of main keeps the invariant.                                 *)
(***************************************************************************)
LEMMA MainKeeps ==
    ASSUME IInv, Main
    PROVE  IInv'
<1>1. CASE OpenPool
  BY <1>1, FatalKeeps, SetupKeeps DEF OpenPool, Running, SettingUp
<1>2. CASE ApplyMigrations
  BY <1>2, FatalKeeps, SetupKeeps DEF ApplyMigrations, Running, SettingUp
<1>3. CASE ConnectNATS
  BY <1>3, FatalKeeps, SetupKeeps DEF ConnectNATS, Running, SettingUp
<1>4. CASE Listen
  BY <1>4, FatalKeeps, SetupKeeps DEF Listen, Running, SettingUp
<1> QED BY <1>1, <1>2, <1>3, <1>4, LoadConfigKeeps, WaitKeeps, CloseKeeps
        DEF Main

-------------------------------------------------------------------------------
(* Goroutines *)

(***************************************************************************)
(* The outbox worker and the NATS client touch nobody else's state.        *)
(***************************************************************************)
LEMMA OutboxKeeps ==
    ASSUME IInv, OutboxWorker \/ FetchPending \/ Flush
    PROVE  IInv'
<1>1. /\ status = "running"
      /\ UNCHANGED <<main, cancelled, err, listeners, stopper, client>>
      /\ phase = "serve" \/ UNCHANGED outbox
      /\ unsent' \in BOOLEAN /\ (unsent' => unsent \/ phase = "serve")
  BY DEF OutboxWorker, StartOutbox, PublishBatch, OutboxReturns, FetchPending,
         Flush, Running, main, IInv, ServerTypeOK
<1>2. ServerTypeOK'
  <2>1. CASE StartOutbox
    <3>1. cfg \in Config
      BY DEF IInv, ServerTypeOK
    <3>2. cfg.OutboxInterval \in {0, 1} /\ cfg.OutboxBatch \in {0, 50}
      BY <3>1 DEF Config
    <3> DEFINE i == IF cfg.OutboxInterval <= 0 THEN 1 ELSE cfg.OutboxInterval
               b == IF cfg.OutboxBatch <= 0 THEN 50 ELSE cfg.OutboxBatch
    <3>3. i = 1 /\ b = 50
      BY <3>2
    <3>4. cfg' = [cfg EXCEPT !.OutboxInterval = i, !.OutboxBatch = b]
      BY <2>1, <3>1 DEF StartOutbox, Config
    <3>5. /\ cfg' = [cfg EXCEPT !.OutboxInterval = 1, !.OutboxBatch = 50]
          /\ outbox' = "waiting"
      BY <2>1, <3>3, <3>4 DEF StartOutbox
    <3>6. /\ cfg' \in Config /\ cfg'.OutboxInterval = 1
          /\ cfg'.OutboxBatch = 50
      BY <3>1, <3>5 DEF Config
    <3> QED BY <1>1, <3>5, <3>6 DEF IInv, ServerTypeOK, main
  <2>2. CASE ~StartOutbox
    <3>1. /\ UNCHANGED cfg
          /\ outbox' \in {"off", "waiting", "publishing", "returned"}
          /\ outbox' # "off" => outbox # "off"
      BY <2>2 DEF OutboxWorker, PublishBatch, OutboxReturns, FetchPending,
         Flush, IInv, ServerTypeOK
    <3> QED BY <1>1, <3>1 DEF IInv, ServerTypeOK, main
  <2> QED BY <2>1, <2>2
<1>3. NobodyYet' /\ BehindStopper' /\ ErrIsAListeners'
  BY <1>1 DEF IInv, main, NobodyYet, BehindStopper, ErrIsAListeners, IsStopped,
     Of, SettingUp
<1>4. BehindWait' /\ EndedAt'
  BY <1>1 DEF IInv, main, BehindWait, EndedAt
<1> QED BY <1>2, <1>3, <1>4 DEF IInv

(***************************************************************************)
(* A listener comes up, fails or is lost.                                  *)
(***************************************************************************)
LEMMA ListenerKeeps ==
    ASSUME IInv, NEW t \in Listener,
           Serve(t) \/ ServeFails(t) \/ (t = "thrift" /\ ThriftAcceptFails)
    PROVE  IInv'
<1>1. /\ status = "running" /\ phase = "serve" /\ kind = "server"
      /\ listeners[t] \in {"off", "up"}
      /\ UNCHANGED <<main, cfg, outbox, unsent, stopper, client>>
      /\ \/ /\ \E l \in {"up", "lost"} : listeners' = [listeners EXCEPT ![t] = l]
            /\ UNCHANGED <<cancelled, err>>
         \/ /\ listeners' = [listeners EXCEPT ![t] = "failed"]
            /\ cancelled' = TRUE /\ err' = TRUE
  <2>1. CASE Serve(t) \/ ServeFails(t)
    BY <2>1 DEF Serve, ServeFails, CanFail, Running
  <2>2. CASE t = "thrift" /\ ThriftAcceptFails
    <3>1. kind = "server"
      BY <2>2 DEF ThriftAcceptFails, IInv, ServerTypeOK, NobodyYet, Listener
    <3> QED BY <2>2, <3>1 DEF ThriftAcceptFails, Running
  <2> QED BY <2>1, <2>2
<1>2. /\ listeners'[t] \in {"up", "lost", "failed"}
      /\ \A u \in Listener : u # t => listeners'[u] = listeners[u]
  BY <1>1 DEF IInv, ServerTypeOK
<1>3. ServerTypeOK'
  BY <1>1 DEF IInv, ServerTypeOK, main
<1>4. NobodyYet' /\ BehindWait' /\ EndedAt'
  BY <1>1 DEF NobodyYet, BehindWait, EndedAt, SettingUp, main
<1>5. BehindStopper'
  <2>1. \A u \in {"grpc", "thrift"} : IsStopped(u) => u # t
    BY <1>1 DEF IInv, BehindStopper
  <2> QED BY <1>1, <1>2, <2>1 DEF IInv, BehindStopper, IsStopped, Of, Listener
<1>6. ErrIsAListeners'
  <2>1. CASE listeners'[t] \in {"up", "lost"} /\ UNCHANGED err
    BY <1>1, <1>2, <2>1 DEF IInv, ServerTypeOK, ErrIsAListeners
  <2>2. CASE listeners' = [listeners EXCEPT ![t] = "failed"] /\ err' = TRUE
    BY <1>1, <2>2 DEF IInv, ServerTypeOK, ErrIsAListeners
  <2> QED BY <1>1, <2>1, <2>2 DEF IInv, ServerTypeOK
<1> QED BY <1>3, <1>4, <1>5, <1>6 DEF IInv

(***************************************************************************)
(* The shutdown goroutine goes on to the next listener only when the calls *)
(* of the last one have ended.                                             *)
(***************************************************************************)
LEMMA ShutdownKeeps ==
    ASSUME IInv, Shutdown
    PROVE  IInv'
<1>1. CASE StopThrift
  <2>1. /\ status = "running" /\ phase = "serve" /\ stopper = "thrift"
        /\ stopper' = "done" /\ \A c \in Of("thrift") : client[c] = "away"
        /\ UNCHANGED <<main, cfg, cancelled, err, listeners, outbox, unsent, client>>
    BY <1>1 DEF StopThrift, Running
  <2>2. ServerTypeOK'
    BY <2>1 DEF IInv, ServerTypeOK, main
  <2>3. NobodyYet' /\ BehindWait' /\ EndedAt' /\ ErrIsAListeners'
    BY <2>1 DEF IInv, NobodyYet, BehindWait, EndedAt, ErrIsAListeners, main
  <2>4. BehindStopper'
    BY <2>1 DEF IInv, BehindStopper, IsStopped, Of
  <2> QED BY <2>2, <2>3, <2>4 DEF IInv
<1>2. CASE ~StopThrift
  <2>1. PICK t \in Listener, next \in {"http", "grpc", "thrift"} :
           /\ StopListener(t, next) /\ status = "running" /\ phase = "serve"
           /\ t = next
           /\ next = "http" => stopper = "off" /\ kind = "server"
           /\ next = "grpc" => stopper = "http"
           /\ next = "thrift" =>
                 /\ stopper = "grpc"
                 /\ \A c \in Of("grpc") : client[c] = "away"
    BY <1>2 DEF Shutdown, StartShutdown, ShutdownHTTP, ShutdownDeadline,
       GracefulStop, Running, Listener
  <2>2. /\ stopper' = next
        /\ UNCHANGED <<main, cfg, cancelled, err, outbox, unsent>>
        /\ listeners'[t] \in {"closed", "failed", "lost"}
        /\ \A u \in Listener : listeners'[u] = "failed" <=> listeners[u] = "failed"
        /\ \A u \in Listener : u # t => listeners'[u] = listeners[u]
        /\ \A c \in Connection : client'[c] \in {"away", client[c]}
    BY <2>1 DEF StopListener, IInv, ServerTypeOK
  <2>3. ServerTypeOK'
    <3>1. listeners' \in [Listener -> {"off", "up", "closed", "failed", "lost"}]
      BY <2>1 DEF StopListener, IInv, ServerTypeOK
    <3>2. client' \in [Connection -> ConnectionState]
      BY <2>1 DEF StopListener, IInv, ServerTypeOK, ConnectionState
    <3> QED BY <2>2, <3>1, <3>2 DEF IInv, ServerTypeOK, main
  <2>4. kind = "server"
    BY <2>1 DEF IInv, ServerTypeOK, NobodyYet
  <2>5. NobodyYet' /\ BehindWait' /\ EndedAt' /\ ErrIsAListeners'
    BY <2>1, <2>2, <2>4 DEF IInv, NobodyYet, BehindWait, EndedAt,
       ErrIsAListeners, SettingUp, main
  <2>6. BehindStopper'
    <3>1. \A u \in {"grpc", "thrift"} :
             IsStopped(u)' => u = t \/ (u # t /\ IsStopped(u))
      BY <2>1, <2>2 DEF IsStopped, Listener
    <3>2. \A u \in {"grpc", "thrift"} :
             IsStopped(u)' => listeners'[u] \in {"closed", "failed", "lost"}
      BY <2>2, <3>1 DEF IInv, BehindStopper, Listener
    <3>3. stopper' \in {"thrift", "done"} =>
             \A c \in Of("grpc") : client'[c] = "away"
      BY <2>1, <2>2 DEF Of
    <3> QED BY <2>1, <2>2, <3>2, <3>3 DEF BehindStopper, Of
  <2> QED BY <2>3, <2>5, <2>6 DEF IInv
<1> QED BY <1>1, <1>2

(***************************************************************************)
(* A signal ends the context, or a process that does not catch it yet.     *)
(***************************************************************************)
LEMMA SignalKeeps ==
    ASSUME IInv, Signal
    PROVE  IInv'
<1>1. /\ status = "running"
      /\ \/ phase = "load" /\ status' = "killed" /\ UNCHANGED cancelled
         \/ cancelled' = TRUE /\ UNCHANGED status
      /\ UNCHANGED <<kind, phase, cfg, err, listeners, outbox, unsent, stopper, client>>
  BY DEF Signal
<1>2. ServerTypeOK'
  BY <1>1 DEF IInv, ServerTypeOK
<1>3. NobodyYet' /\ BehindStopper' /\ ErrIsAListeners'
  BY <1>1 DEF IInv, NobodyYet, BehindStopper, ErrIsAListeners, IsStopped, Of
<1>4. BehindWait' /\ EndedAt'
  BY <1>1 DEF IInv, BehindWait, EndedAt
<1> QED BY <1>2, <1>3, <1>4 DEF IInv

-------------------------------------------------------------------------------
(* Connections *)

(***************************************************************************)
(* A connection comes only through a listener that is up, and what happens *)
(* to it there holds up whoever waits for it.                              *)
(***************************************************************************)
LEMMA MoveKeeps ==
    ASSUME IInv, NEW c \in Connection, NEW from, NEW to \in ConnectionState,
           Move(c, from, to),
           from = "away" => listeners[TransportOf[c]] = "up"
    PROVE  IInv'
<1>1. /\ status = "running" /\ client[c] = from
      /\ client' = [client EXCEPT ![c] = to]
      /\ UNCHANGED <<main, cfg, cancelled, err, listeners, outbox, unsent, stopper>>
  BY DEF Move
<1>2. TransportOf[c] \in Listener
  BY ServerAssumption
<1>3. ServerTypeOK'
  BY <1>1 DEF IInv, ServerTypeOK, main
<1>4. ~(phase \in SettingUp \/ kind = "worker")
  BY <1>1, <1>2 DEF IInv, NobodyYet
<1>5. NobodyYet' /\ BehindWait' /\ EndedAt' /\ ErrIsAListeners'
  BY <1>1, <1>4 DEF IInv, NobodyYet, BehindWait, EndedAt, ErrIsAListeners, main
<1>6. \A d \in Connection : d # c => client'[d] = client[d]
  BY <1>1 DEF IInv, ServerTypeOK
<1>7. stopper \in {"thrift", "done"} => c \notin Of("grpc")
  BY <1>1, <1>2 DEF IInv, BehindStopper, IsStopped, Of
<1>8. stopper = "done" => c \notin Of("thrift")
  BY <1>1, <1>2 DEF IInv, BehindStopper, IsStopped, Of
<1>9. BehindStopper'
  BY <1>1, <1>6, <1>7, <1>8 DEF IInv, BehindStopper, IsStopped, Of
<1> QED BY <1>3, <1>5, <1>9 DEF IInv

(***************************************************************************)
(* Every step of a connection or its handler keeps the invariant.          *)
(***************************************************************************)
LEMMA ConnectionKeeps ==
    ASSUME IInv, NEW c \in Connection,
           Connect(c) \/ Send(c) \/ Receive(c) \/ Handler(c) \/ Leave(c)
    PROVE  IInv'
<1>1. \E from, to \in ConnectionState :
         /\ Move(c, from, to)
         /\ from = "away" => listeners[TransportOf[c]] = "up"
  <2>1. CASE Connect(c)
    BY <2>1 DEF Connect, ConnectionState
  <2>2. CASE Send(c) \/ Receive(c)
    BY <2>2 DEF Send, Receive, ConnectionState
  <2>3. CASE Handler(c)
    BY <2>3 DEF Handler, Acquire, Refuse, Release, Answer, ConnectionState
  <2>4. CASE Leave(c)
    BY <2>4 DEF Leave, ConnectionState
  <2> QED BY <2>1, <2>2, <2>3, <2>4
<1> QED BY <1>1, MoveKeeps

-------------------------------------------------------------------------------
(* The results *)

(***************************************************************************)
(* Every step keeps the invariant.                                         *)
(***************************************************************************)
LEMMA NextOK == IInv /\ [Next]_vars => IInv'
<1> SUFFICES ASSUME IInv, [Next]_vars PROVE IInv'
  OBVIOUS
<1>1. CASE UNCHANGED vars
  <2>1. ServerTypeOK' /\ NobodyYet' /\ BehindStopper'
    BY <1>1 DEF IInv, vars, ServerTypeOK, NobodyYet, BehindStopper, IsStopped, Of
  <2>2. BehindWait' /\ ErrIsAListeners' /\ EndedAt'
    BY <1>1 DEF IInv, vars, BehindWait, ErrIsAListeners, EndedAt
  <2> QED BY <2>1, <2>2 DEF IInv
<1>2. CASE Ended
  BY <1>1, <1>2 DEF Ended
<1>3. "thrift" \in Listener
  BY DEF Listener
<1> QED BY <1>1, <1>2, <1>3, MainKeeps, OutboxKeeps, ShutdownKeeps, SignalKeeps,
           ListenerKeeps, ConnectionKeeps DEF Next

(***************************************************************************)
(* The process keeps the invariant from the environment to its exit.       *)
(***************************************************************************)
THEOREM ServerInvariant == Spec => []IInv
BY InitOK, NextOK, PTL DEF Spec

(***************************************************************************)
(* Type correctness; the outbox worker never runs with an interval or a    *)
(* batch size that is not positive.                                        *)
(***************************************************************************)
THEOREM ServerTypeCorrect == Spec => []ServerTypeOK
<1>1. IInv => ServerTypeOK
  BY DEF IInv
<1> QED BY <1>1, ServerInvariant, PTL

(***************************************************************************)
(* No call is cut off and no event is lost by a process that exits.        *)
(***************************************************************************)
THEOREM ExitIsOrderly == Spec => []OrderlyExit
<1>1. IInv => OrderlyExit
  <2> SUFFICES ASSUME IInv PROVE OrderlyExit
    OBVIOUS
  <2>1. ASSUME status \in {"ok", "error"}, NEW c \in Connection,
               TransportOf[c] # "http"
        PROVE  client[c] = "away"
    <3>1. TransportOf[c] \in {"grpc", "thrift"}
      BY <2>1, ServerAssumption DEF Listener
    <3>2. CASE phase \in SettingUp \/ kind = "worker"
      BY <3>2 DEF IInv, NobodyYet
    <3>3. CASE phase \notin SettingUp /\ kind = "server"
      <4>1. stopper = "done"
        BY <2>1, <3>3 DEF IInv, EndedAt, BehindWait, SettingUp
      <4> QED BY <3>1, <4>1 DEF IInv, BehindStopper, Of
    <3> QED BY <3>2, <3>3 DEF IInv, ServerTypeOK
  <2>2. ASSUME status = "ok"
        PROVE  ~unsent /\ \A c \in Connection : client[c] # "tx"
    BY <2>2 DEF IInv, EndedAt, BehindWait, NobodyYet, SettingUp
  <2> QED BY <2>1, <2>2 DEF OrderlyExit
<1> QED BY <1>1, ServerInvariant, PTL

(***************************************************************************)
(* A process that has served exits with an error exactly when the Serve of *)
(* one of its listeners has returned one.                                  *)
(***************************************************************************)
THEOREM ExitStatusTrue == Spec => []ExitTellsTheCause
<1>1. IInv => ExitTellsTheCause
  BY DEF IInv, EndedAt, BehindWait, NobodyYet, ErrIsAListeners, SettingUp,
         ExitTellsTheCause
<1> QED BY <1>1, ServerInvariant, PTL
===============================================================================
