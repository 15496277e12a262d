# Verification of the drone delivery backend

TLA+ modules for the Go service in `src/`: the service layer and its Postgres
transactions, the read path, the transactional outbox with its NATS worker, the
start-up migrations, the three transports down to the fields of the Thrift
messages, and the life of the two processes. TLC checks small instances of all
of them; TLAPS proves all but one of the safety properties, and that the
transactions, the views and the transports implement the service's
specification, for any number of orders, drones, sessions, workers, processes
and connections (section 5).

## 1. The system

| Part | Source | State | Operations |
|---|---|---|---|
| Domain | `internal/domain` | – | statuses, `IsTerminal`, `ValidateLocation`, `ValidateRole`, error values |
| Service, write path | `internal/service/service.go` | rows of `orders` and `drones`, outbox rows | `SubmitOrder`, `WithdrawOrder`, `AdminUpdateOrder`, `DroneReserveJob`, `DronePickup`, `DroneDeliver`, `DroneFail`, `DroneMarkBroken`, `DroneMarkFixed`, `DroneHeartbeat` |
| Service, read path | `service.go`, `eta.go` | – (reads several rows, no transaction) | `GetOrderView`, `AdminListOrders`, `DroneCurrentOrder`, the answer of `DroneHeartbeat` |
| Postgres store | `internal/repo/postgres` | transactions, row locks | `GetOrderForUpdate`, `GetDroneForUpdate`, `ReserveNextOrder` (`SKIP LOCKED`), whole-row `UPDATE`s, `EnqueueEvent` |
| Outbox | `repo/postgres/outbox.go`, `events/outbox.go`, `events/nats` | `outbox_events`, the worker's batch, the NATS client's buffer | `FetchPending`, `Publish`, `MarkPublished`, cancellation, `Close` |
| Migrations | `repo/postgres/migrate.go`, `migrations/` | `schema_migrations` and the schema | `ApplyMigrations` in each process that starts |
| Transports | `internal/transport/{httpapi,grpcapi,thriftapi}` | – | decode, role check, call, error mapping, encode; 15 methods each, and `IssueToken` |
| Thrift clients | `tmp_thrift_gen/thriftapi`, `tmp_thrift_raw_client.go` | – | the generated structs, argument and result types and client methods; one codec by hand |
| Authentication | `internal/auth` | – (self-contained tokens) | `IssueToken`, `ParseToken` |
| Processes | `cmd/server`, `cmd/worker`, `internal/config` | configuration, pool, listeners, connections, worker, exit status | start, `SIGTERM`, failing listener, shutdown |

Interactions. Every request is a goroutine; it passes a transport's role check
and calls one service method, which is one Postgres transaction at READ
COMMITTED. Nothing but row locks separates two requests, also of two server
processes. The method writes an event to `outbox_events` in the same
transaction. Workers (one in each server, and possibly `cmd/worker`) poll that
table, hand the events to the NATS client and mark them. All processes migrate
the database when they start.

What is hard here: lost updates from whole-row write-back; lock order; two
tables that refer to each other without a foreign key; breakdowns that send an
order round the life cycle again, with leftovers of the first round; clocks read
before a lock is granted; torn reads; publishing, marking and sending being
three different moments; two workers; simultaneous starts; sixteen handlers
written three times; a wire format written by hand on one side and generated on
the other; replies that are lost and calls that are repeated; a shutdown that
waits for three kinds of clients one after the other. `PROJECT.json` lists
each of these at its line under `hazards`.

What makes each part correct:

* service: the tables agree on assignments, a broken drone has no order,
  finished orders never change, orders change hands only through the queue, the
  outbox tells the committed state;
* store: transactions are serialisable, calls return, deadlocks are confined;
* outbox: at least once, bounded duplication, order, progress;
* read path: a view is consistent in itself or shows that it is torn, no dangling
  references;
* migrations: in order, no file skipped, nobody serves on half a schema, not
  everyone dies;
* transports: same rights and answers everywhere, nobody acts for another, an
  order or drone reported missing is missing, a repeated call acts once, also
  after an error that came too late;
* processes: nothing accepted is cut off, the exit status tells the cause as far
  as the servers report it, a shutdown ends.

## 2. Modules

```
Domain ── Delivery ──┬── Views
   │                 └── Gateway ── ThriftGateway (MCGateway: with ThriftWire)
   └── DeliveryTx (implements Delivery through INSTANCE)
Outbox          Migrate          Server (MCServer: with ThriftWire)

Proofs (TLAPS):
DeliveryProofs ──┬── ViewsProofs, GatewayProofs     (extend it)
                 └── DeliveryTxProofs (INSTANCE) ── DeliveryTxTimeProofs
OutboxProofs    MigrateProofs    ServerProofs
```

`MC*` modules only add symmetry sets and values for TLC; `MCGateway` and
`MCServer` take some of these values from `ThriftWire`. Definitions whose name
ends in `Bug` are deliberately wrong variants of the definition they stand next
to; no specification uses them. Substituted for the right one, each makes the
property listed with it in `PROJECT.json` (`mutants`) fail.

**Domain** – rows, events and what each method does to a row. A row keeps the
columns that decisions or promises are about; coordinates are members of a set
`Location` with a subset `ValidLocation`; a nil pointer or NULL column is `NULL`.
Left out: the failure reason, `updated_at`, the drones' own timestamps, and
`drone_status` in payloads.

**Delivery** – the abstract specification: a method is one atomic step on
`orders`, `drones` and the last outbox row of each order and drone
(`orderEvents`, `droneEvents`). A call that returns an error has no step.
`DroneReserveJob` promises *some* waiting order, since `SKIP LOCKED` does not
promise the oldest.

**DeliveryTx** – the same methods as sessions (`tx[s]`: request, next statement,
copies of the rows read), with row locks (`orderLock`, `droneLock`) and a clock.
`LockOrder` and `LockDrone` are `SELECT … FOR UPDATE`, after which the method goes on
or, if a check on the row fails (`Refusal`), is about to return an error: it then
still holds the row, until its deferred rollback (`Refused`). `MissOrder`, `MissDrone`, `InsertDrone` and `DuplicateDrone` are the steps
of `getOrCreateDrone`; `Now` is a call to `s.now()`; `Commit…` writes everything
back. The `UPDATE`s and the outbox `INSERT` touch only rows the session has
locked or created, which nobody can see before the commit, so they are part of
the commit step. `Abort` is a failing statement, a cancelled context or a dead
server; `DeadlockAbort` is Postgres' detector (external, like the lock queue).
The tables `Delivery` speaks of are variables of this module under the same names,
so the refinement mapping is the identity on them, with `Time <- 0..MaxClock`.

**Views** – read calls that run statement by statement between the atomic steps
of `Delivery`. A view keeps both rows, the location shown and the place the ETA
starts from; the speed is a parameter that is positive or not (`computeETA` gives
no ETA if it is not), the number of seconds and paging are left out.

**Outbox** – an event is its number in the order of `occurred_at`; rows appear
in any order of commits. Workers fetch a batch, publish one event after the
other into their client's `buffer`, mark; a flusher empties the buffer, and
`received` counts what the NATS server got. Failures: `PublishFails`,
`MarkFails`, `Disconnect`, `Crash`, `Cancel`. A crash or a broken connection
drops the buffer, which is what the client library does (external). `skipped`
and `lost` are histories for the properties.

**Migrate** – `ApplyMigrations` statement by statement. A file is sent as one
simple-protocol query and is therefore one transaction. `CREATE TABLE IF NOT
EXISTS` is not safe against a concurrent one: it looks, then inserts into the
catalogue and fails on its unique index if another transaction was faster
(`Look`, `Created`, `Clashed`; external).

**Gateway** – for each transport the handler of each method: the roles it
admits and the service method it calls, written down from each one's source
(for gRPC in two tables, because a descriptor's handler may call a method of
another name); the result of each method in the order of its checks; the three
error tables and what a client makes of an error. A request is one step:
authorisation, the `Delivery` step, the caller remembered in `caller`. `Fails` is a
request that ends in an internal error because the database failed under it:
before the commit nothing was done, but a commit may take effect and still
report an error, and `DroneHeartbeat` reads on after its commit, so the call may have
been carried out. The reply of a withdrawal, pickup, delivery or failure may also
be lost. `pending` remembers a request that was carried out without its client
being told, until that client comes back. `Unread` is a request whose body the
server cannot read (`ThriftGateway` has one for each such message). Tokens are
self-contained, so `IssueToken` has an answer and no effect.

**ThriftWire** – the Thrift messages. A codec is a sequence of numbered, typed
fields, with two facts about its code: does the writer end the struct with
`WriteFieldStop`, and which fields' types does the reader compare with the
header. There is one definition for each struct, argument and result type of the
generated code and for each reader, writer and handler of `processor.go`.
`Write` gives the tokens of a message, `Read` is the loop over field headers,
with skipping of unknown fields and a reader that starves when the frame is
used up. A value is the path of the field it was written from, so a message is
`understood` when every value is read where it belongs, `misread` when one is
not. Pure functions, recursive, for TLC only.

**ThriftGateway** – `Gateway` with these messages: the client writes a request,
the server reads it, acts or answers with an exception, and the client reads
the answer for the rows as they are after the step. `heard` is what the client
made of it. What the readers make of a message is a parameter (`Programs`,
`OptionalFields`, `RequestRead`, `AnswerRead`), so that what holds for any wire
format can be proved; the runs give it the values that `ThriftWire` computes.

**Server** – a process of either program. `phase` is where `main` is, `Env` and
`Load` are `config.go`; `listeners`, `outbox` and `stopper` are the goroutines of
the errgroup, `cancelled` and `err` its context and first error. A connection is
idle, sends, runs its handler, holds a connection of the pool, answers, or (a
Thrift client) waits for the rest of an answer. What `http.Server`,
`grpc.Server` and `TSimpleServer` do on their stop calls is external: Shutdown
and GracefulStop close idle connections, Stop does not; each waits for what is
under way. `TSimpleServer.Serve` returns nil whatever ended its accept loop, so
`ThriftAcceptFails` leaves a process without its Thrift listener (`"lost"`) that nobody
cancels, while `ServeFails` is the failure of a server that reports it. `MCServer` takes what a Thrift client makes of an answer from
`ThriftWire`.

## 3. Runs

| Run | Instance | States | Shows |
|---|---|---|---|
| `delivery` | 2 orders, 2 drones, 2 locations | 227 963 | all invariants and action properties of the service layer |
| `transactions` | 1 order, 2 drones, 2 sessions, a valid and an invalid location | 980 802 | `Serializable`: DeliveryTx implements Delivery; locked copies stay fresh; only `DroneMarkBroken` against withdraw/deliver/fail deadlocks; `NoJobHasACause` |
| `clock` | 1 order, 1 drone, 2 sessions, clock up to 2 | 2 049 170 | stamps of a row are ordered; only a breakdown's event can be stamped before its predecessor |
| `calls_return` | 1 order, 1 drone, 2 sessions, fair | 126 484 | no call waits for ever |
| `views` | 1 order, 1 drone, 2 locations, 1 reader, speed positive or not | 407 312 | an ETA starts at the place shown and is there exactly when it can be computed; no dangling reference; `TornReadsShow`: a view of an order that was lost between two statements can be told from one that was not |
| `outbox` | 2 events, 2 workers with batches of 2 and 1, 3 failures, fair | 532 159 | `LossesHaveACause`, `DuplicatesHaveACause`, `NoOvertaking`, `EventuallyReceived` |
| `gateway` | 1 order, 2 names that are users and drones, a valid and an invalid location | 2 147 | `NotFoundIsTrue`, `TransportsAgree`, `RepeatsActOnce`, `NobodyActsForAnother`, `NothingMisread` |
| `migrate` | 3 processes (one without the directory), 2 files, fair | 25 368 | order, marks, nobody up on half a schema, not everyone dies, someone comes up |
| `server` | both programs, every environment, one connection per listener, fair | 207 718 | `OrderlyExit`, `ExitTellsTheCause`, `ShutdownEnds` |

Three runs are expected to fail; each refutes a sentence of the repository:

| Run | Sentence | What happens |
|---|---|---|
| `picked_up_for_good` | docs_api.md: "Withdraw order (only before pickup)"; service.go: "merely RESERVED (not picked up yet)" | picked up, handed off, reserved again: then it is withdrawn, or the second drone breaks down before its pickup and the parcel's place is forgotten |
| `outbox_loss` | README.md: "(at-least-once)" | marked before the client has sent it, then a crash |
| `thrift_idl` | README.md: "IDL: `thrift/drone_delivery.thrift`" | `SubmitOrder`, `ListOrders` and `UpdateOrder` of a generated client end in an exception; of the other calls only `IssueToken`, empty lists and errors come back readable |

### Bounds

* One order and two drones produce every hand-over; a second order in `delivery`
  lets a drone change orders while another one is waiting, and a second location
  tells an origin from a new address or a hand-off point. What is proved in
  section 5 holds without bounds.
* Two sessions suffice for lost updates on a row: a violation needs a reader and
  an overtaking writer. With one order a cycle of waiting sessions has length
  two; that longer ones, which would need more rows, cannot form is proved
  (`DeadlocksClassified`).
* In `views` one drone gives an order up, breaks down, is fixed and takes the order
  again between two statements of a reader, so both halves of a view can be old. That
  the order may by then be another drone's is covered by the proof
  (`TornReadsAreVisible`). Two locations tell an origin from a hand-off point, where
  the way to a pickup starts. `Speed` is `{0, 1}`: one without an ETA and one with.
* `Time` is `{0}` where times are not compared; `MaxClock = 2` gives a stamp
  before, during and after a wait.
* Two events, taken singly by one worker and in batches of two by the other, give
  a full batch, a part of one, an event that comes while a batch is under way,
  and two that are committed in the wrong order. `MaxFaults` bounds failures and
  shutdowns together; three let each worker fail and one of them again.
* Two migration files have a first, a last, and a state between them.
* Symmetry is used for invariants and action properties only, never with a
  liveness property.

* In `gateway` the two names are users as well as drones, so every request that
  is somebody else's occurs; one order is enough, because a request names one.
  The state space is small because `VIEW Tables` leaves out `caller` and `heard`:
  they are set anew in every step, no guard reads them, and only properties of
  the step itself do. Every request is still tried in every state.
* In `server` one connection per listener is enough: the servers' stop calls wait
  for all of theirs, and the question is what one that does not end does to the
  others. `0` stands for every interval or batch size that is not positive.

Deadlock checking is off in the `Outbox` configurations, where a run may end: all
events received, no failure left and nobody acting.

### Assumptions and fairness

* `uuid.NewString` never repeats an id; the clock does not go backwards (one
  server, or servers with synchronised clocks).
* `DeliveryTx!FairSpec`: the statements of a call are attempted and Postgres
  grants row locks from a queue, so a lock that is free again and again is got
  (strong fairness); commits end and deadlocks are detected (weak). No fairness
  for calls, failures and the clock.
* `Outbox!FairSpec`: the worker's loop is driven by a ticker and the client's
  flusher is its own goroutine (weak). Nothing makes anybody restart a stopped
  worker; `EventuallyReceived` assumes that one stays up.
* `Server!FairSpec`: goroutines that can go on do, `Shutdown`'s ten seconds pass,
  the database ends the handlers' statements (weak). Nothing is assumed of
  clients, signals and failing listeners; `ShutdownEnds` names as its hypothesis
  what clients can do to keep the process: leave a gRPC request half sent, or a
  Thrift connection open.
* `Migrate!FairSpec`: Postgres ends every statement (weak). Nobody need restart
  a process.

## 4. Findings beyond the refuted sentences

* Deadlocks exist (`DeadlocksAreBreakdownRaces` shows their shape, not their
  absence): a breakdown reported while the same drone delivers makes one of the two calls
  fail with an internal error, without a retry.
* `EventTimesFollowCommits` needs its exception: a breakdown's `occurred_at` may
  precede that of the pickup it waited for, so the worker publishes them in the
  wrong order.
* Over REST an admin cannot read an order (`GET /orders/{id}` is in the end
  users' group), although `GetOrderView` provides for it and gRPC and Thrift
  allow it: the exception in `TransportsAgree`.
* A Thrift client that got an answer with a struct waits for the rest of it, its
  connection stays open, and `TSimpleServer.Stop` waits for the connection: after
  one such call the server does not stop on SIGTERM until the client goes away.
  The call itself was carried out; repeating it is harmless (`RepeatsActOnce`),
  except for `SubmitOrder`, which creates another order.
* A pickup, delivery or failure reported by a drone that has lost its order locks
  that order's row before the check that refuses it, and keeps it until its
  rollback. For that moment `SKIP LOCKED` passes over a waiting order, and a drone
  may be told that there is no job (`NoJobHasACause` names this case).
* If the Thrift listener's `Accept` fails, `TSimpleServer.Serve` discards the error:
  the process goes on without Thrift, and ends with status 0 when it is stopped.
* An internal error does not mean that nothing was done: a commit may take effect
  and still report an error, and `DroneHeartbeat` can fail in the reads after its
  commit. Repeating the call is harmless (`RepeatsActOnce`, and a heartbeat is
  idempotent), except for `SubmitOrder`, which creates another order.
  A repeated `DroneReserveJob` is answered with a conflict.
* Two processes that start on a fresh database can end each other's start; one
  comes up.

## 5. Proofs

Every theorem holds for all constants that satisfy the named assumptions of the
modules; TLC evaluates these in the runs. A theorem below states exactly the
property of that name that a run checks, unless a formula is given; the type
invariants of `DeliveryTx` and `Gateway` are only proved.

| Module | Theorem | Property |
|---|---|---|
| `DeliveryProofs` | `Invariance` | `Spec => []IInv` |
| | `TypeCorrect` | `TypeOK` |
| | `AssignmentCorrect` | `AssignmentAgrees` |
| | `AssignmentFitsStatus` | `AssignedExactlyWhileUnderway` |
| | `BrokenDronesIdle` | `BrokenDronesCarryNothing` |
| | `OutboxTruthful` | `OutboxMirrorsTables` |
| | `TimestampsTruthful` | `TimestampsMatchStatus` |
| | `TerminalOrdersAreFinal` | `TerminalIsFinal`, of steps |
| | `HandsChangeThroughQueue` | `ChangesHandsThroughQueue`, of steps |
| `DeliveryTxProofs` | `TransactionsKeepInvariant` | `Spec => []TxInv` |
| | `TxTypeCorrect` | `TypeOK` |
| | `LocksProtectCopies` | `LockedCopiesAreFresh` |
| | `TransactionsSerializable` | `Serializable`, the refinement of `Delivery` |
| | `CommittedTablesCorrect` | the invariants of `Delivery`, of the committed tables |
| | `DeadlocksClassified` | `DeadlocksAreBreakdownRaces` |
| | `NoJobExplained` | `NoJobHasACause` |
| | `WaitChainsAreShort` | `Spec => []WaitsAreShort`: no chain of waiting calls is longer than two, deadlocks apart |
| | `CallsAreBounded` | `Spec => CallsShrink`: a call has at most five statements, and each step leaves it fewer |
| `DeliveryTxTimeProofs` | `StampsKeepInvariant` | `Spec => []TimeInv` |
| | `TimestampsInOrder` | `TimestampsOrdered` |
| | `EventsInOrder` | `EventTimesFollowCommits`, of steps |
| `ViewsProofs` | `ViewsKeepInvariant` | `ViewSpec => []ViewInv` |
| | `ViewsTypeCorrect` | `ViewTypeOK` |
| | `ETAFromShownPlace` | `ETAStartsAtLocation` |
| | `NoDanglingReads` | `ReferencesResolve` |
| | `TornReadsAreVisible` | `TornReadsShow`, of steps |
| | `ViewsImplementDelivery` | `ViewSpec => Spec` |
| `OutboxProofs` | `OutboxInvariant` | `Spec => []IInv` |
| | `OutboxTypeCorrect` | `TypeOK` |
| | `LossesExplained` | `LossesHaveACause` |
| | `EventsNotOvertaken` | `NoOvertaking`, of steps |
| | `DuplicatesExplained` | `DuplicatesHaveACause` |
| `GatewayProofs` | `GatewayKeepsInvariant` | `GatewaySpec => []GatewayInv` |
| | `GatewayTypeCorrect` | `GatewayTypeOK` |
| | `RepeatsRefused` | `RepeatsActOnce` |
| | `EachActsForItself` | `NobodyActsForAnother`, of steps |
| | `TransportsAreThin` | `TransportsAgree` |
| | `NotFoundTellsTheTruth` | `NotFoundIsTrue` |
| | `GatewayImplementsDelivery` | `GatewaySpec => Spec` |
| | `TransportImplementsGateway` | `TransportSpec => GatewaySpec` |
| `MigrateProofs` | `MigrationInvariant` | `Spec => []IInv` |
| | `MigrationTypeCorrect` | `TypeOK` |
| | `MigrationMarksTrue` | `MarksAreTrue` |
| | `MigrationsInOrder` | `AppliedInOrder` |
| | `UpIsMigrated` | `UpMeansMigrated` |
| | `OneIsLeft` | `NotEveryoneDies` |
| `ServerProofs` | `ServerInvariant` | `Spec => []IInv` |
| | `ServerTypeCorrect` | `ServerTypeOK` |
| | `ExitIsOrderly` | `OrderlyExit` |
| | `ExitStatusTrue` | `ExitTellsTheCause` |

Assumptions. `DomainAssumption`, `RowAssumption`, `OpAssumption`,
`ClaimsAssumption`: NULL is no id, location, row, operation, role or claims.
`TimeAssumption`: instants are naturals, and there is one. `SpeedAssumption`: speeds
are integers, and there is one. `SessionAssumption`: NULL is no session,
the clock has some bound. `NameAssumption`: the name in a token is a user's id
or a drone's, as its role says. `OutboxAssumption`: events are numbers, there are
finitely many workers, a batch is not empty, the number of failures has some
bound. `MigrateAssumption`: there are a file and a process. `ServerAssumption`: each connection
is to one listener, and a Thrift client understands an answer or waits for more.

### The arguments

**Delivery.** `IInv == OrdersOK /\ DronesOK /\ AssignmentAgrees`. `OrdersOK` says of
each order that its row is well formed (type, timestamps for the status,
assigned exactly while under way) and that its last event mirrors it; `DronesOK`
says the same of drones, with "a broken drone has no order". `AssignmentAgrees`
alone is not inductive: freeing the drone of a reserved order keeps the
agreement only if that order names exactly one drone and its status decides
whether it has one (`OrdersOK`), and giving a drone an order only if a drone
that is not broken and has none is what the row says (`DronesOK`). There is one
lemma per row operation (`NewOrderOK` … `DroneRowsOK`), one per way of writing a
table (`PutOrderOK`, `PutDroneOK`, `PutDroneEventOK`, `PartedOK`), one per method
(`…Keeps`), and `NextCases` splits `Next`. The action properties follow from
`IInv` at the start of the step.

**DeliveryTx.** `TxInv` adds to `IInv` of the committed tables what each session
knows at each of its statements (`ForOrder`, `ForDrone`, `ForNewOrder`: the checks
already passed, in terms of its copies), that a copy is locked and equal to the
committed row (`CopiesOK`), and that a lock belongs to a session with a copy of
that row (`LocksOK`). The lock and the copy need each other: a commit by another
session leaves a copy fresh only because that session would have to hold the
same lock. A refused call is one of the cases: it holds the row its last statement
locked, and a lone one for a pickup, delivery or failure can be a waiting order,
which is what `NoJobExplained` comes down to. `CallOK` is what makes a commit a step of `Delivery`: the checks were
made on the copy, the copy is the committed row, so the guard of the atomic
method holds at the commit. With `InitOK` and one lemma per kind of commit this gives
the refinement, and with it everything proved of `Delivery`. Deadlocks: a session on
a cycle holds one row and wants another, which leaves the order's calls that want
the drone and the breakdown that wants the order; since the committed tables
agree on who works on what, whoever it waits for waits for it
(`WaitsAreReturned`). The same fact bounds the chains: of two waiting calls, each
with a row already, the second waits for the first. `Left` counts the statements
a call has before it; it goes down with every statement, the detour of
`getOrCreateDrone` included, because no method repeats one.

**Time.** `TimeInv`: no stamp is in the future, and a call that has read the clock
after it locked its row has a stamp no earlier than those of that row and of its
last event. A breakdown reads the clock before it locks the order, so this cannot
be said of its order's event: the exception in `EventTimesFollowCommits`.

**Views.** `ViewInv` adds that every drone an order row names has a row, also for
orders that are finished, which `AssignmentAgrees` does not cover; that rows are
never deleted (`NextRowsStay`) then carries what a reader has read over the steps
of others. For `TornReadsAreVisible` the row read first may be old when the second is
read, but the tables agree with each other at that moment (`AssignmentAgrees`):
the drone row just read names the order exactly if the order is that drone's now.

**Outbox.** `IInv` says of each worker that the ids it will mark were handed to a
client, that a batch was fetched with every earlier event not yet handed over,
and that in a buffer an earlier event stands before a later one. Duplicates are
counted: what was received, the copies in buffers, the workers that have the
event in their batch and those that may still fetch it are together at most the
workers and the failures (`CountInv`); every step that adds to one of the four
takes from another or is a failure.

**Gateway.** `Routes`: the three tables of handlers, and gRPC's two, lead each
writing method to the same method of the service behind the same role, so a
request that is carried out is one action of `Delivery` on behalf of the name in
the token (`RequestCases`, `WriteStep`). `GatewayInv` adds to `IInv` that the
order of a request with a lost reply is finished, or, for a pickup, does not wait
for that drone's pickup: only the drone itself could change that, by reserving
the order again, and then it is back. `NobodyActsForAnother` is by cases
(`OrderWrites`, `DroneWrites`), with `AssignmentAgrees` for the breakdown, which
goes from the drone to the order, and for the withdrawal, which goes from the
order to the drone. Each of the three error tables, read back by its client,
returns the result it was given for every result the handler can have
(`TransportsAreThin`), so a reply has one meaning. `NotFoundTellsTheTruth` rests on
`AssignmentAgrees`: a row that is found through another one, such as the drone of
an order that is withdrawn, is there (`FollowedRows`), so a missing row is the one
the caller named. A request under which
the database fails is a stutter or the same action of `Delivery` as one that is
answered (`FailsCases`), and every client reads an internal error as one
(`FailuresTold`), so it can know that it does not know.
`TransportImplementsGateway` carries all the other theorems about `GatewaySpec`
to the specification the run uses.

**Migrate.** A process in its loop has the files before its own executed and
marked behind it; tables and marks are never taken away, so other processes
cannot undo that. `SurvivorInv`, for `OneIsLeft`, says that as long as nobody has
crashed some process is alive whose next statement cannot clash with what is
already there: a statement fails only because another process has created the
relation or set the mark it wanted, and that process is past it.

**Server.** The invariant follows `main` and the goroutine that stops the servers:
what each has left behind it (a listener, the connections of it, the worker)
stays ended. A Thrift listener that is lost has put down no error: `err` is set by
exactly those failures that the errgroup is told of, which is what the exit status
tells.

### Only model-checked

* Liveness under fairness (`CallsReturn`, `EventuallyReceived`, `SomeoneComesUp`,
  `ShutdownEnds`) is out of the prover's reach. What the first and the third rest
  on besides fairness is proved: `WaitsAreShort` and `CallsShrink`, and
  `NotEveryoneDies`.
* `NothingMisread` depends on the recursive readers and writers of `ThriftWire`,
  which the prover cannot unfold; TLC evaluates it for every message that occurs.

## 6. Not modelled

* JSON, malformed bodies, and ids that are not UUIDs (an internal error).
* Great-circle distance and ETA arithmetic, paging, `AdminListDrones` beyond its
  answer.
* Signature and lifetime of tokens, `JWT_TTL` and the addresses. `DRONE_SPEED_MPS`
  only as positive or not; its value, and NaN, are not modelled.
* In `Server` the NATS connection is up when the worker closes it; what is lost when
  it is not is in `Outbox` (`Disconnect`, `Crash`).
* The generated Thrift processors, which the server does not use, and the
  generated command lines (`*-remote.go`): argument parsing around one call.
* `tmp_thrift_client.go` and `tmp_grpc_client.go` as programs; their calls are
  requests of `ThriftGateway`.

## 7. Plan

Done: all the modules of section 2, and the safety properties proved as far as
section 5 says.

Next, in this order:

1. **Pool** – bounded connections: a session that holds one while it waits for a
   row lock, read calls that need one more.
2. **Delivery with Outbox** – events of `DeliveryTx` with their times fed to the
   worker, to show how far a consumer's picture can be from the tables.
