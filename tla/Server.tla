-------------------------------- MODULE Server --------------------------------
(***************************************************************************)
(* The life of a process: cmd/server and cmd/worker from the environment   *)
(* to the exit status.  main sets up the database pool, the migrations,    *)
(* NATS and the listeners; the server then runs the three listeners, the   *)
(* outbox worker and the shutdown goroutine in an errgroup, whose context  *)
(* ends with the first failure or with SIGTERM, and the deferred calls     *)
(* close the publisher and the pool when all of them have returned.        *)
(*                                                                         *)
(* A client stands for one connection.  What its calls do is in Gateway;   *)
(* here they only hold a connection of the pool for a while.               *)
(***************************************************************************)
EXTENDS Integers

CONSTANTS
    Connection,     \* connections to the server
    TransportOf,    \* the listener each of them connects to
    ThriftAnswer    \* what Thrift clients make of the answers

Listener == {"http", "grpc", "thrift"}

ASSUME ServerAssumption ==
    /\ TransportOf \in [Connection -> Listener]
    /\ ThriftAnswer \subseteq {"understood", "starved"}

VARIABLES
    kind,       \* which of the two programs this is
    phase,      \* where main is
    status,     \* running, or how the process ended
    cfg,        \* the configuration
    cancelled,  \* has the context of the goroutines ended?
    err,        \* has a goroutine of the errgroup returned an error?
    listeners,  \* the goroutines of the listeners
    outbox,     \* the outbox worker
    unsent,     \* does the NATS client hold messages it has not sent?
    stopper,    \* the shutdown goroutine: what it is stopping
    client      \* what the server knows of each connection

vars == <<kind, phase, status, cfg, cancelled, err, listeners, outbox, unsent,
          stopper, client>>

-------------------------------------------------------------------------------
(* The environment.  A variable is <<>> when it is unset or does not parse *)
(* and <<v>> when it parses to v.  0 stands for every interval and batch   *)
(* size that is not positive.  The addresses, the token's lifetime and the *)
(* drones' speed decide nothing here.                                      *)

Setting(values) == {<<>>} \cup {<<v>> : v \in values}

Env == [DATABASE_URL : Setting({"url"}), JWT_SECRET : Setting({"secret"}),
        MIGRATE_ON_START : Setting(BOOLEAN), OUTBOX_ENABLED : Setting(BOOLEAN),
        OUTBOX_POLL_INTERVAL : Setting({0, 1}), OUTBOX_BATCH_SIZE : Setting({0, 50})]

Config == [MigrateOnStart : BOOLEAN, OutboxEnabled : BOOLEAN,
           OutboxInterval : {0, 1}, OutboxBatch : {0, 50}]

(* getString, getDuration, getFloat, getBool and getInt *)
Get(setting, def) == IF setting = <<>> THEN def ELSE setting[1]

Complete(env, requireJWT) ==
    env.DATABASE_URL # <<>> /\ (requireJWT => env.JWT_SECRET # <<>>)

Load(env) ==
    [MigrateOnStart |-> Get(env.MIGRATE_ON_START, TRUE),
     OutboxEnabled |-> Get(env.OUTBOX_ENABLED, TRUE),
     OutboxInterval |-> Get(env.OUTBOX_POLL_INTERVAL, 1),
     OutboxBatch |-> Get(env.OUTBOX_BATCH_SIZE, 50)]

-------------------------------------------------------------------------------
Init ==
    /\ kind \in {"server", "worker"}
    /\ phase = "load"
    /\ status = "running"
    /\ cfg = Load([v \in {"MIGRATE_ON_START", "OUTBOX_ENABLED",
                          "OUTBOX_POLL_INTERVAL", "OUTBOX_BATCH_SIZE"} |-> <<>>])
    /\ cancelled = FALSE
    /\ err = FALSE
    /\ listeners = [t \in Listener |-> "off"]
    /\ outbox = "off"
    /\ unsent = FALSE
    /\ stopper = "off"
    /\ client = [c \in Connection |-> "away"]

goroutines == <<cancelled, err, listeners, outbox, unsent, stopper, client>>

Running(at) == status = "running" /\ phase = at

(* log.Fatalf: the deferred calls are not made. *)
Fatal == status' = "error" /\ UNCHANGED <<kind, phase, cfg, goroutines>>

(* config.Load or LoadWorker.  The worker has nothing to do without an     *)
(* outbox and returns.                                                     *)
LoadConfig ==
    /\ Running("load")
    /\ \E env \in Env :
          IF ~Complete(env, kind = "server") THEN Fatal
          ELSE /\ cfg' = Load(env)
               /\ IF kind = "worker" /\ ~Load(env).OutboxEnabled
                  THEN status' = "ok" /\ UNCHANGED phase
                  ELSE phase' = "pool" /\ UNCHANGED status
               /\ UNCHANGED <<kind, goroutines>>

GoTo(next) ==
    phase' = next /\ UNCHANGED <<kind, status, cfg, goroutines>>

(* pgxpool.New: only parses the URL. *)
OpenPool ==
    /\ Running("pool")
    /\ Fatal \/ GoTo(IF cfg.MigrateOnStart THEN "migrate" ELSE "connect")

(* ApplyMigrations fails once the context has ended. *)
ApplyMigrations ==
    /\ Running("migrate")
    /\ Fatal \/ (~cancelled /\ GoTo("connect"))

(* natspub.New, which does not look at the context. *)
ConnectNATS ==
    /\ Running("connect")
    /\ \/ cfg.OutboxEnabled /\ Fatal
       \/ GoTo(IF kind = "server" THEN "listen" ELSE "serve")

(* net.Listen for gRPC and the address of the Thrift server. *)
Listen == Running("listen") /\ (Fatal \/ GoTo("serve"))

-------------------------------------------------------------------------------
(* The goroutines.  errgroup cancels the context on the first error. *)

main == <<kind, phase, status>>

(* The interval as it was configured. *)
StartOutboxBug ==
    /\ Running("serve")
    /\ cfg.OutboxEnabled
    /\ outbox = "off"
    /\ outbox' = "waiting"
    /\ UNCHANGED <<main, cfg, cancelled, err, listeners, unsent, stopper, client>>

(* OutboxWorker.Start, up to its loop; NewTicker panics without the check. *)
StartOutbox ==
    /\ Running("serve")
    /\ cfg.OutboxEnabled
    /\ outbox = "off"
    /\ outbox' = "waiting"
    /\ cfg' = [cfg EXCEPT !.OutboxInterval = IF @ <= 0 THEN 1 ELSE @,
                          !.OutboxBatch = IF @ <= 0 THEN 50 ELSE @]
    /\ UNCHANGED <<main, cancelled, err, listeners, unsent, stopper, client>>

(* A tick that finds events.  FetchPending fails once the context has      *)
(* ended, but a batch that was fetched is published.                       *)
FetchPending ==
    /\ Running("serve")
    /\ outbox = "waiting"
    /\ ~cancelled
    /\ outbox' = "publishing"
    /\ UNCHANGED <<main, cfg, cancelled, err, listeners, unsent, stopper, client>>

PublishBatch ==
    /\ Running("serve")
    /\ outbox = "publishing"
    /\ outbox' = "waiting"
    /\ unsent' = TRUE
    /\ UNCHANGED <<main, cfg, cancelled, err, listeners, stopper, client>>

OutboxReturns ==
    /\ Running("serve")
    /\ outbox = "waiting"
    /\ cancelled
    /\ outbox' = "returned"
    /\ UNCHANGED <<main, cfg, cancelled, err, listeners, unsent, stopper, client>>

(* The NATS client's flusher. *)
Flush ==
    /\ status = "running"
    /\ unsent
    /\ unsent' = FALSE
    /\ UNCHANGED <<main, cfg, cancelled, err, listeners, outbox, stopper, client>>

(* ListenAndServe and Serve.  A server that was stopped before returns     *)
(* from them at once: StopListener has closed it.                          *)
Serve(t) ==
    /\ Running("serve")
    /\ kind = "server"
    /\ listeners[t] = "off"
    /\ listeners' = [listeners EXCEPT ![t] = "up"]
    /\ UNCHANGED <<main, cfg, cancelled, err, outbox, unsent, stopper, client>>

(* When the error of a listener ends its Serve: http and gRPC return that  *)
(* of an Accept too.                                                       *)
CanFail(t) == listeners[t] = "off" \/ (listeners[t] = "up" /\ t # "thrift")

(* Takes every error for the end of the server. *)
ServeFailsBug(t) ==
    /\ Running("serve")
    /\ kind = "server"
    /\ CanFail(t)
    /\ listeners' = [listeners EXCEPT ![t] = "failed"]
    /\ cancelled' = TRUE
    /\ UNCHANGED <<main, cfg, err, outbox, unsent, stopper, client>>

(* The address is taken, or Accept fails, and Serve says so. *)
ServeFails(t) ==
    /\ Running("serve")
    /\ kind = "server"
    /\ CanFail(t)
    /\ listeners' = [listeners EXCEPT ![t] = "failed"]
    /\ err' = TRUE
    /\ cancelled' = TRUE
    /\ UNCHANGED <<main, cfg, outbox, unsent, stopper, client>>

(* TSimpleServer.Serve returns nil whatever its accept loop returns: the   *)
(* errgroup sees a goroutine that has done its work.  The connections the  *)
(* loop has accepted are served on.                                        *)
ThriftAcceptFails ==
    /\ Running("serve")
    /\ listeners["thrift"] = "up"
    /\ listeners' = [listeners EXCEPT !["thrift"] = "lost"]
    /\ UNCHANGED <<main, cfg, cancelled, err, outbox, unsent, stopper, client>>

-------------------------------------------------------------------------------
(* The shutdown goroutine: Shutdown, GracefulStop and Stop.  Each closes   *)
(* its listener; the first two also close the connections that are idle.   *)

Of(t) == {c \in Connection : TransportOf[c] = t}

(* Has the server of listener t been told to stop? *)
IsStopped(t) ==
    CASE t = "http" -> stopper # "off"
      [] t = "grpc" -> stopper \in {"grpc", "thrift", "done"}
      [] t = "thrift" -> stopper \in {"thrift", "done"}

StopListener(t, next) ==
    /\ stopper' = next
    /\ listeners' = [listeners EXCEPT ![t] = IF @ \in {"failed", "lost"} THEN @ ELSE "closed"]
    /\ client' = [c \in Connection |->
                    IF TransportOf[c] = t /\ t # "thrift" /\ client[c] = "idle"
                    THEN "away" ELSE client[c]]
    /\ UNCHANGED <<main, cfg, cancelled, err, outbox, unsent>>

StartShutdown ==
    /\ Running("serve")
    /\ kind = "server"
    /\ stopper = "off"
    /\ cancelled
    /\ StopListener("http", "http")

(* Shutdown returns when the requests under way have ended, or after ten   *)
(* seconds.                                                                *)
ShutdownHTTP ==
    /\ Running("serve")
    /\ stopper = "http"
    /\ \A c \in Of("http") : client[c] = "away"
    /\ StopListener("grpc", "grpc")

(* Waits for the requests, as GracefulStop does. *)
ShutdownDeadlineBug ==
    /\ Running("serve")
    /\ stopper = "http"
    /\ \A c \in Of("http") : client[c] = "away"
    /\ StopListener("grpc", "grpc")

ShutdownDeadline ==
    /\ Running("serve")
    /\ stopper = "http"
    /\ StopListener("grpc", "grpc")

(* Stop instead of GracefulStop: it does not wait for the handlers. *)
GracefulStopBug ==
    /\ Running("serve")
    /\ stopper = "grpc"
    /\ StopListener("thrift", "thrift")

GracefulStop ==
    /\ Running("serve")
    /\ stopper = "grpc"
    /\ \A c \in Of("grpc") : client[c] = "away"
    /\ StopListener("thrift", "thrift")

(* TSimpleServer.Stop waits for every connection, whatever it is doing. *)
StopThrift ==
    /\ Running("serve")
    /\ stopper = "thrift"
    /\ \A c \in Of("thrift") : client[c] = "away"
    /\ stopper' = "done"
    /\ UNCHANGED <<main, cfg, cancelled, err, listeners, outbox, unsent, client>>

-------------------------------------------------------------------------------
(* The end of main *)

AllReturned ==
    /\ outbox = IF cfg.OutboxEnabled THEN "returned" ELSE "off"
    /\ kind = "server" => /\ stopper = "done"
                          /\ \A t \in Listener :
                                listeners[t] \in {"closed", "failed", "lost"}

(* g.Wait or, in the worker, the end of Start. *)
Wait ==
    /\ Running("serve")
    /\ AllReturned
    /\ IF err THEN Fatal ELSE GoTo("flush")

(* defer publisher.Close(): nc.Close sends what is buffered. *)
ClosePublisher ==
    /\ Running("flush")
    /\ phase' = "close"
    /\ unsent' = FALSE
    /\ UNCHANGED <<kind, status, cfg, cancelled, err, listeners, outbox, stopper,
                   client>>

(* defer pool.Close(): waits for the connections that are in use. *)
ClosePool ==
    /\ Running("close")
    /\ \A c \in Connection : client[c] # "tx"
    /\ status' = "ok"
    /\ UNCHANGED <<kind, phase, cfg, goroutines>>

(* SIGINT or SIGTERM.  NotifyContext catches it from the moment it is      *)
(* called; a second one is caught too, and does nothing.                   *)
Signal ==
    /\ status = "running"
    /\ ~cancelled
    /\ IF phase = "load"
       THEN status' = "killed" /\ UNCHANGED cancelled
       ELSE cancelled' = TRUE /\ UNCHANGED status
    /\ UNCHANGED <<kind, phase, cfg, err, listeners, outbox, unsent, stopper, client>>

-------------------------------------------------------------------------------
(* Connections.  Goroutines of the HTTP server may outlive Shutdown.       *)
(* idle: between two requests; sending: part of one has come; called: the  *)
(* handler runs; tx: it holds a connection of the pool; answering: it has  *)
(* given it back; waiting: the client waits for the rest of an answer.     *)

ConnectionState == {"away", "idle", "sending", "called", "tx", "answering", "waiting"}

Move(c, from, to) ==
    /\ status = "running"
    /\ client[c] = from
    /\ client' = [client EXCEPT ![c] = to]
    /\ UNCHANGED <<main, cfg, cancelled, err, listeners, outbox, unsent, stopper>>

Connect(c) == listeners[TransportOf[c]] = "up" /\ Move(c, "away", "idle")

Send(c) == Move(c, "idle", "sending")

Receive(c) == Move(c, "sending", "called")

(* BeginTx, or a query outside of a transaction. *)
Acquire(c) == phase # "close" /\ Move(c, "called", "tx")

(* An error before the database is needed, or the pool is closed. *)
Refuse(c) == Move(c, "called", "answering")

(* Commit, Rollback or the end of the query. *)
Release(c) == Move(c, "tx", "answering")

(* The answer has been written, or the client has gone.  Once a server has *)
(* been stopped, and after every exception of the Thrift processor, the    *)
(* connection is closed.                                                   *)
Answer(c) ==
    \/ Move(c, "answering", "away")
    \/ /\ ~IsStopped(TransportOf[c])
       /\ Move(c, "answering", "idle")
    \/ /\ TransportOf[c] = "thrift"
       /\ "starved" \in ThriftAnswer
       /\ Move(c, "answering", "waiting")

(* The client closes its connection. *)
Leave(c) == \E from \in {"idle", "sending", "waiting"} : Move(c, from, "away")

-------------------------------------------------------------------------------
Main ==
    \/ LoadConfig \/ OpenPool \/ ApplyMigrations \/ ConnectNATS \/ Listen
    \/ Wait \/ ClosePublisher \/ ClosePool

OutboxWorker == StartOutbox \/ PublishBatch \/ OutboxReturns

Shutdown ==
    StartShutdown \/ ShutdownHTTP \/ ShutdownDeadline \/ GracefulStop \/ StopThrift

Handler(c) == Acquire(c) \/ Refuse(c) \/ Release(c) \/ Answer(c)

(* A process that has ended stays so. *)
Ended == status # "running" /\ UNCHANGED vars

Next ==
    \/ Main \/ OutboxWorker \/ FetchPending \/ Flush \/ Shutdown \/ Signal \/ Ended
    \/ ThriftAcceptFails
    \/ \E t \in Listener : Serve(t) \/ ServeFails(t)
    \/ \E c \in Connection :
          Connect(c) \/ Send(c) \/ Receive(c) \/ Handler(c) \/ Leave(c)

Spec == Init /\ [][Next]_vars

(***************************************************************************)
(* The process's own steps are taken when they can be: goroutines run, the *)
(* database answers the handlers, a connection to NATS is made or refused. *)
(* Nothing is assumed of the clients.                                      *)
(***************************************************************************)
FairSpec ==
    /\ Spec
    /\ WF_vars(Main) /\ WF_vars(OutboxWorker) /\ WF_vars(Shutdown)
    /\ \A c \in Connection : WF_vars(Handler(c))

-------------------------------------------------------------------------------
(* Properties *)

(***************************************************************************)
(* Types.  The outbox worker runs with a positive interval and batch size, *)
(* whatever the environment says.                                          *)
(***************************************************************************)
ServerTypeOK ==
    /\ kind \in {"server", "worker"}
    /\ phase \in {"load", "pool", "migrate", "connect", "listen", "serve", "flush",
                  "close"}
    /\ status \in {"running", "ok", "error", "killed"}
    /\ cfg \in Config
    /\ cancelled \in BOOLEAN
    /\ err \in BOOLEAN
    /\ listeners \in [Listener -> {"off", "up", "closed", "failed", "lost"}]
    /\ outbox \in {"off", "waiting", "publishing", "returned"}
    /\ outbox # "off" => cfg.OutboxInterval > 0 /\ cfg.OutboxBatch > 0
    /\ unsent \in BOOLEAN
    /\ stopper \in {"off", "http", "grpc", "thrift", "done"}
    /\ client \in [Connection -> ConnectionState]

(***************************************************************************)
(* The process does not end under the work it has accepted.  When it exits *)
(* by itself no gRPC or Thrift call is under way, the other listeners'     *)
(* failures included; when it exits with status 0 no HTTP handler that has *)
(* outlived the ten seconds is inside its transaction, and no event that   *)
(* is marked as published is left in the NATS client.  That Close sends it *)
(* takes a connection to NATS that is up; Outbox has the other case.       *)
(***************************************************************************)
OrderlyExit ==
    /\ status \in {"ok", "error"} =>
          \A c \in Connection : TransportOf[c] # "http" => client[c] = "away"
    /\ status = "ok" => ~unsent /\ \A c \in Connection : client[c] # "tx"

(***************************************************************************)
(* The exit status tells the cause, as far as main is told: a listener     *)
(* whose Serve returns an error makes the process end with an error even   *)
(* though it is shut down in order, and a process that has come to serve   *)
(* ends with an error for no other reason: the worker's context.Canceled   *)
(* and the closed listeners are no errors.  A Thrift listener that is lost *)
(* to its accept loop is not told, and the process ends with status 0.     *)
(***************************************************************************)
ExitTellsTheCause ==
    /\ status = "ok" => \A t \in Listener : listeners[t] # "failed"
    /\ status = "error" /\ phase = "serve" =>
          \E t \in Listener : listeners[t] = "failed"

(* What keeps GracefulStop and TSimpleServer.Stop waiting: half a request  *)
(* of a gRPC client, any Thrift connection.                                *)
HeldBy(c) ==
    \/ TransportOf[c] = "grpc" /\ client[c] = "sending"
    \/ TransportOf[c] = "thrift" /\ client[c] \in {"idle", "sending", "waiting"}

(***************************************************************************)
(* Once its context has ended, by a signal or because a listener failed,   *)
(* the process comes to an end, unless a client keeps it: a gRPC client    *)
(* that never completes its request or a Thrift client that stays          *)
(* connected.  HTTP clients cannot.                                        *)
(***************************************************************************)
ShutdownEnds ==
    (\A c \in Connection : []<>~HeldBy(c)) => (cancelled ~> status # "running")
===============================================================================
