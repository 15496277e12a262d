------------------------------ MODULE DeliveryTx ------------------------------
(***************************************************************************)
(* How the methods of service.Service run: each call is a goroutine (a     *)
(* session) with a Postgres transaction at READ COMMITTED that locks rows  *)
(* with SELECT ... FOR UPDATE, decides on the copies it has read, and      *)
(* writes the copies back whole.  Nothing but the row locks keeps two      *)
(* sessions apart: the service has no mutex, no version column and no      *)
(* retry.                                                                  *)
(*                                                                         *)
(* A step is one statement, or what a session does between two statements  *)
(* nobody else can observe: the UPDATEs and the outbox INSERT of a method  *)
(* touch rows it has locked (or a fresh id), so they become visible, and   *)
(* are modelled, in its commit step.  The calls to s.now() are steps of    *)
(* their own, because some come before the last lock is granted.           *)
(***************************************************************************)
EXTENDS Domain

CONSTANTS
    Session,        \* requests in progress, over all transports and servers
    MaxClock        \* bound on the clock

(* The clock is bounded for TLC only; a session is not nil. *)
ASSUME SessionAssumption == MaxClock \in Nat /\ NULL \notin Session

VARIABLES
    orders, drones, orderEvents, droneEvents,   \* committed, as in Delivery
    orderLock,      \* the session that holds the row lock of an order, or NULL
    droneLock,      \* the same for drones, uncommitted inserts included
    tx,             \* each session's request and transaction
    clock           \* what s.now() returns

tables == <<orders, drones, orderEvents, droneEvents>>
vars == <<tables, orderLock, droneLock, tx, clock>>

(* The promise this module keeps. *)
Abs == INSTANCE Delivery WITH Time <- 0 .. MaxClock

-------------------------------------------------------------------------------
(* Requests *)

OrderOp == {"withdraw", "update", "pickup", "deliver", "fail"}
DroneOp == {"reserve", "broken", "fixed", "heartbeat"}
Op == {"submit"} \cup OrderOp \cup DroneOp

(* No operation is nil. *)
ASSUME OpAssumption == NULL \notin Op

(* The next statement of a session. *)
Step == {"idle", "order", "drone", "insert", "reserve", "now", "commit",
         "refused"}

Tx == [op: Opt(Op), pc: Step, user: Opt(UserId), order: Opt(OrderId),
       drone: Opt(DroneId), origin: Opt(Location), dest: Opt(Location),
       ord: Opt(OrderRow), drn: Opt(DroneRow), stamp: Nat]

NoTx == [op |-> NULL, pc |-> "idle", user |-> NULL, order |-> NULL,
         drone |-> NULL, origin |-> NULL, dest |-> NULL, ord |-> NULL,
         drn |-> NULL, stamp |-> 0]

TypeOK ==
    /\ orders \in [OrderId -> Opt(OrderRow)]
    /\ drones \in [DroneId -> Opt(DroneRow)]
    /\ orderEvents \in [OrderId -> Opt(OrderEvent)]
    /\ droneEvents \in [DroneId -> Opt(DroneEvent)]
    /\ orderLock \in [OrderId -> Opt(Session)]
    /\ droneLock \in [DroneId -> Opt(Session)]
    /\ tx \in [Session -> Tx]
    /\ clock \in 0 .. MaxClock

Init ==
    /\ Abs!Init
    /\ orderLock = [o \in OrderId |-> NULL]
    /\ droneLock = [d \in DroneId |-> NULL]
    /\ tx = [s \in Session |-> NoTx]
    /\ clock = 0

(* Where each method goes after BeginTx, and after it has read the clock.   *)
FirstStep(op) ==
    IF op = "submit" THEN "now" ELSE IF op \in OrderOp THEN "order" ELSE "drone"

AfterNow(t) ==
    IF t.op \in {"deliver", "fail"} THEN "drone"
    ELSE IF t.op = "broken" /\ t.drn.current # NULL THEN "order"
    ELSE "commit"

HasDrone(row) == row.status = "RESERVED" /\ row.assigned # NULL

(* The checks a method makes on the order row it has locked. *)
MayWithdraw(t, row) ==
    row.user = t.user /\ row.status \in {"CREATED", "RESERVED"}

MayUpdate(t, row) ==
    /\ ~IsTerminal(row.status)
    /\ t.origin # NULL => ValidateLocation(t.origin)
    /\ t.dest # NULL => ValidateLocation(t.dest)

MayPickup(t, row) ==
    row.assigned = t.drone /\ row.status \in {"RESERVED", "HANDOFF_REQUESTED"}

MayComplete(t, row) == row.assigned = t.drone /\ row.status = "PICKED_UP"

Admissible(t, row) ==
    /\ t.op = "withdraw" => MayWithdraw(t, row)
    /\ t.op = "update" => MayUpdate(t, row)
    /\ t.op = "pickup" => MayPickup(t, row)
    /\ t.op \in {"deliver", "fail"} => MayComplete(t, row)

(* The checks of DroneReserveJob on the drone row. *)
MayFly(t, row) ==
    t.op = "reserve" => row.status # "BROKEN" /\ row.current = NULL

(* Where each method goes after a row is locked and has passed the checks. *)

(* Pickup locks the drone row too. *)
AfterOrderBug(t, row) ==
    IF (t.op = "withdraw" /\ HasDrone(row)) \/ t.op = "pickup" THEN "drone"
    ELSE IF t.op = "broken" THEN "commit" ELSE "now"

AfterOrder(t, row) ==
    IF t.op = "withdraw" /\ HasDrone(row) THEN "drone"
    ELSE IF t.op = "broken" THEN "commit" ELSE "now"

AfterDrone(t) ==
    IF t.op = "reserve" THEN "reserve"
    ELSE IF t.op \in {"deliver", "fail"} THEN "commit" ELSE "now"

(* A method that returns an error does nothing more with its arguments, but *)
(* it has its locks, and its copies, until the deferred Rollback.           *)
Refusal(t) ==
    [NoTx EXCEPT !.op = t.op, !.pc = "refused", !.ord = t.ord, !.drn = t.drn,
                 !.order = IF t.ord = NULL THEN NULL ELSE t.order,
                 !.drone = IF t.drn = NULL THEN NULL ELSE t.drone]

(* The session's record once it has a row.  WithdrawOrder goes on to the    *)
(* drone the order names.                                                   *)
WithOrder(t, row) ==
    IF ~Admissible(t, row) THEN Refusal([t EXCEPT !.ord = row])
    ELSE [t EXCEPT !.pc = AfterOrder(t, row), !.ord = row,
                   !.drone = IF t.op = "withdraw" /\ HasDrone(row)
                             THEN row.assigned ELSE @]

WithDrone(t, row) ==
    IF ~MayFly(t, row) THEN Refusal([t EXCEPT !.drn = row])
    ELSE [t EXCEPT !.pc = AfterDrone(t), !.drn = row]

(* End of a transaction: the locks go, the session is free again.  A       *)
(* rollback is only this.                                                  *)
Release(s) ==
    /\ orderLock' = [o \in OrderId |->
                        IF orderLock[o] = s THEN NULL ELSE orderLock[o]]
    /\ droneLock' = [d \in DroneId |->
                        IF droneLock[d] = s THEN NULL ELSE droneLock[d]]
    /\ tx' = [tx EXCEPT ![s] = NoTx]
    /\ UNCHANGED clock

Rollback(s) == Release(s) /\ UNCHANGED tables

-------------------------------------------------------------------------------
(* Calls.  Locations of SubmitOrder and DroneHeartbeat are validated before *)
(* the transaction begins; newOrderID never repeats an id.                  *)

Begin(s, op, user, o, d, origin, dest) ==
    /\ tx[s].pc = "idle"
    /\ tx' = [tx EXCEPT ![s] =
                 [NoTx EXCEPT !.op = op, !.pc = FirstStep(op), !.user = user,
                              !.order = o, !.drone = d, !.origin = origin,
                              !.dest = dest]]
    /\ UNCHANGED <<tables, orderLock, droneLock, clock>>

CallSubmit(s) ==
    \E u \in UserId, o \in OrderId, a, b \in Location :
        /\ ValidateLocation(a) /\ ValidateLocation(b)
        /\ orders[o] = NULL
        /\ \A t \in Session : ~(tx[t].op = "submit" /\ tx[t].order = o)
        /\ Begin(s, "submit", u, o, NULL, a, b)

CallOrder(s) ==
    \E o \in OrderId :
        \/ \E u \in UserId : Begin(s, "withdraw", u, o, NULL, NULL, NULL)
        \/ \E a, b \in Opt(Location) : Begin(s, "update", NULL, o, NULL, a, b)
        \/ \E d \in DroneId, op \in {"pickup", "deliver", "fail"} :
               Begin(s, op, NULL, o, d, NULL, NULL)

CallDrone(s) ==
    \E d \in DroneId :
        \/ \E op \in {"reserve", "broken", "fixed"} :
               Begin(s, op, NULL, NULL, d, NULL, NULL)
        \/ \E l \in Location :
               /\ ValidateLocation(l)
               /\ Begin(s, "heartbeat", NULL, NULL, d, l, NULL)

-------------------------------------------------------------------------------
(* Statements *)

(* Reads with GetOrder's SQL, without FOR UPDATE. *)
LockOrderBug(s) ==
    LET o == tx[s].order
    IN  /\ tx[s].pc = "order"
        /\ orders[o] # NULL
        /\ tx' = [tx EXCEPT ![s] = WithOrder(tx[s], orders[o])]
        /\ UNCHANGED <<tables, orderLock, droneLock, clock>>

(* GetOrderForUpdate, once the lock is free, and the checks on what it     *)
(* returns.  Under READ COMMITTED that is the row as committed when the    *)
(* lock is granted.                                                        *)
LockOrder(s) ==
    LET o == tx[s].order
    IN  /\ tx[s].pc = "order"
        /\ orders[o] # NULL
        /\ orderLock[o] = NULL
        /\ orderLock' = [orderLock EXCEPT ![o] = s]
        /\ tx' = [tx EXCEPT ![s] = WithOrder(tx[s], orders[o])]
        /\ UNCHANGED <<tables, droneLock, clock>>

(* The method returns an error. *)
Refuse(s) ==
    /\ tx' = [tx EXCEPT ![s] = Refusal(@)]
    /\ UNCHANGED <<tables, orderLock, droneLock, clock>>

(* ErrNotFound *)
MissOrder(s) ==
    /\ tx[s].pc = "order"
    /\ orders[tx[s].order] = NULL
    /\ Refuse(s)

(* Reads with GetDrone's SQL, without FOR UPDATE. *)
LockDroneBug(s) ==
    LET d == tx[s].drone
    IN  /\ tx[s].pc = "drone"
        /\ drones[d] # NULL
        /\ tx' = [tx EXCEPT ![s] = WithDrone(tx[s], drones[d])]
        /\ UNCHANGED <<tables, orderLock, droneLock, clock>>

(* GetDroneForUpdate, and the checks of DroneReserveJob. *)
LockDrone(s) ==
    LET d == tx[s].drone
    IN  /\ tx[s].pc = "drone"
        /\ drones[d] # NULL
        /\ droneLock[d] = NULL
        /\ droneLock' = [droneLock EXCEPT ![d] = s]
        /\ tx' = [tx EXCEPT ![s] = WithDrone(tx[s], drones[d])]
        /\ UNCHANGED <<tables, orderLock, clock>>

(* No committed row: getOrCreateDrone goes on to insert it, the methods    *)
(* that have found the drone in an order row give up.                      *)
MissDrone(s) ==
    /\ tx[s].pc = "drone"
    /\ drones[tx[s].drone] = NULL
    /\ IF tx[s].op \in DroneOp
       THEN /\ tx' = [tx EXCEPT ![s].pc = "insert"]
            /\ UNCHANGED <<tables, orderLock, droneLock, clock>>
       ELSE Refuse(s)

(* CreateDrone.  The primary key makes it wait for another transaction     *)
(* that is inserting the same drone, and fail once that one has committed. *)
InsertDrone(s) ==
    LET d == tx[s].drone
    IN  /\ tx[s].pc = "insert"
        /\ drones[d] = NULL
        /\ droneLock[d] = NULL
        /\ droneLock' = [droneLock EXCEPT ![d] = s]
        /\ tx' = [tx EXCEPT ![s] = WithDrone(tx[s], NewDrone)]
        /\ UNCHANGED <<tables, orderLock, clock>>

(* The failed statement has aborted the transaction already. *)
DuplicateDrone(s) ==
    /\ tx[s].pc = "insert"
    /\ drones[tx[s].drone] # NULL
    /\ Rollback(s)

(* Forgets the parcels that wait for a second drone. *)
CandidatesBug ==
    {o \in OrderId : /\ orders[o] # NULL
                     /\ orders[o].status = "CREATED"
                     /\ orders[o].assigned = NULL
                     /\ orderLock[o] = NULL}

(* The rows ReserveNextOrder may return: SKIP LOCKED. *)
Candidates ==
    {o \in OrderId : /\ orders[o] # NULL
                     /\ orders[o].status \in Reservable
                     /\ orders[o].assigned = NULL
                     /\ orderLock[o] = NULL}

ReserveNextOrder(s) ==
    LET t == tx[s]
    IN  /\ t.pc = "reserve"
        /\ \E o \in Candidates :
              /\ \A p \in Candidates :
                    orders[o].createdAt <= orders[p].createdAt
              /\ orderLock' = [orderLock EXCEPT ![o] = s]
              /\ tx' = [tx EXCEPT ![s] = [t EXCEPT !.pc = "now", !.order = o,
                                                   !.ord = orders[o]]]
        /\ UNCHANGED <<tables, droneLock, clock>>

(* ErrNoJob *)
NoJob(s) ==
    /\ tx[s].pc = "reserve"
    /\ Candidates = {}
    /\ Refuse(s)

(* Returns the error without rolling back. *)
RefusedBug(s) ==
    /\ tx[s].pc = "refused"
    /\ tx' = [tx EXCEPT ![s] = NoTx]
    /\ UNCHANGED <<tables, orderLock, droneLock, clock>>

(* defer tx.Rollback(ctx), on the way out of a refused call.  A drone row  *)
(* inserted on the way goes too.                                           *)
Refused(s) == tx[s].pc = "refused" /\ Rollback(s)

(* DroneMarkBroken goes on to the order its drone has, if any. *)
Stamped(t) ==
    [t EXCEPT !.pc = AfterNow(t), !.stamp = clock,
              !.order = IF t.op = "broken" THEN t.drn.current ELSE @]

(* Uses a time read once, when the server started. *)
NowBug(s) ==
    /\ tx[s].pc = "now"
    /\ tx' = [tx EXCEPT ![s] = [Stamped(tx[s]) EXCEPT !.stamp = 0]]
    /\ UNCHANGED <<tables, orderLock, droneLock, clock>>

(* now := s.now() *)
Now(s) ==
    /\ tx[s].pc = "now"
    /\ tx' = [tx EXCEPT ![s] = Stamped(tx[s])]
    /\ UNCHANGED <<tables, orderLock, droneLock, clock>>

-------------------------------------------------------------------------------
(* Commits: the copies the session holds, changed by its method, replace   *)
(* the committed rows, and the events join the outbox.                     *)

Committing(s, op) == tx[s].pc = "commit" /\ tx[s].op = op /\ Release(s)

CommitSubmit(s) ==
    LET t == tx[s]
    IN  /\ Committing(s, "submit")
        /\ Abs!PutOrder(t.order, NewOrder(t.user, t.origin, t.dest, t.stamp),
                        "order.created", t.stamp)
        /\ UNCHANGED <<drones, droneEvents>>

CommitWithdraw(s) ==
    LET t == tx[s]
    IN  /\ Committing(s, "withdraw")
        /\ Abs!PutOrder(t.order, Withdrawn(t.ord), "order.withdrawn", t.stamp)
        /\ IF HasDrone(t.ord) THEN Abs!PutDrone(t.drone, Freed(t.drn))
           ELSE UNCHANGED drones
        /\ UNCHANGED droneEvents

CommitUpdate(s) ==
    LET t == tx[s]
    IN  /\ Committing(s, "update")
        /\ Abs!PutOrder(t.order, Readdressed(t.ord, t.origin, t.dest),
                        "order.updated", t.stamp)
        /\ UNCHANGED <<drones, droneEvents>>

CommitReserve(s) ==
    LET t == tx[s]
    IN  /\ Committing(s, "reserve")
        /\ Abs!PutOrder(t.order, Reserved(t.ord, t.drone, t.stamp),
                        "order.reserved", t.stamp)
        /\ Abs!PutDrone(t.drone, Tasked(t.drn, t.order))
        /\ UNCHANGED droneEvents

(* The event of a pickup has a time of its own, read just before it is      *)
(* enqueued.                                                                *)
CommitPickup(s) ==
    LET t == tx[s]
    IN  /\ Committing(s, "pickup")
        /\ Abs!PutOrder(t.order, PickedUp(t.ord, t.stamp),
                        "order.picked_up", clock)
        /\ UNCHANGED <<drones, droneEvents>>

CommitComplete(s, op, status, type) ==
    LET t == tx[s]
    IN  /\ Committing(s, op)
        /\ Abs!PutOrder(t.order, Completed(t.ord, status, t.stamp),
                        type, t.stamp)
        /\ Abs!PutDrone(t.drone, Freed(t.drn))
        /\ UNCHANGED droneEvents

CommitDeliver(s) == CommitComplete(s, "deliver", "DELIVERED", "order.delivered")
CommitFail(s) == CommitComplete(s, "fail", "FAILED", "order.failed")

CommitBroken(s) ==
    LET t == tx[s]
        o == t.drn.current
    IN  /\ Committing(s, "broken")
        /\ IF o # NULL /\ t.ord.status \in Underway
           THEN Abs!PutOrder(o, AfterBreakdown(t.ord, t.drn.location),
                             BreakdownEventType(t.ord), t.stamp)
           ELSE UNCHANGED <<orders, orderEvents>>
        /\ Abs!PutDrone(t.drone, Broken(t.drn))
        /\ Abs!PutDroneEvent(t.drone, "drone.broken", Broken(t.drn), t.stamp)

CommitFixed(s) ==
    LET t == tx[s]
    IN  /\ Committing(s, "fixed")
        /\ Abs!PutDrone(t.drone, Fixed(t.drn))
        /\ Abs!PutDroneEvent(t.drone, "drone.fixed", Fixed(t.drn), t.stamp)
        /\ UNCHANGED <<orders, orderEvents>>

CommitHeartbeat(s) ==
    LET t == tx[s]
    IN  /\ Committing(s, "heartbeat")
        /\ Abs!PutDrone(t.drone, Located(t.drn, t.origin))
        /\ UNCHANGED <<orders, orderEvents, droneEvents>>

-------------------------------------------------------------------------------
(* Failures *)

(* A statement fails, the client goes away (its context is cancelled) or   *)
(* the server dies: Postgres rolls the transaction back.                   *)
Abort(s) == tx[s].pc # "idle" /\ Rollback(s)

(* s waits for a row lock that t holds. *)
WaitsFor(s, t) ==
    \/ /\ tx[s].pc = "order"
       /\ orders[tx[s].order] # NULL
       /\ orderLock[tx[s].order] = t
    \/ /\ tx[s].pc = "drone"
       /\ drones[tx[s].drone] # NULL
       /\ droneLock[tx[s].drone] = t
    \/ /\ tx[s].pc = "insert"
       /\ drones[tx[s].drone] = NULL
       /\ droneLock[tx[s].drone] = t

(* A session waits for at most one other, so a set in which everyone waits *)
(* and is waited for is made of cycles.                                    *)
OnCycle(s) ==
    \E C \in SUBSET Session :
        /\ s \in C
        /\ \A t \in C : \E u \in C : WaitsFor(t, u)
        /\ \A u \in C : \E t \in C : WaitsFor(t, u)

(* After deadlock_timeout Postgres fails the statement of one of them. *)
DeadlockAbort(s) == OnCycle(s) /\ Rollback(s)

Tick ==
    /\ clock < MaxClock
    /\ clock' = clock + 1
    /\ UNCHANGED <<tables, orderLock, droneLock, tx>>

-------------------------------------------------------------------------------
Call(s) == CallSubmit(s) \/ CallOrder(s) \/ CallDrone(s)

Statement(s) ==
    \/ LockOrder(s) \/ MissOrder(s)
    \/ LockDrone(s) \/ MissDrone(s)
    \/ InsertDrone(s) \/ DuplicateDrone(s)
    \/ ReserveNextOrder(s) \/ NoJob(s)
    \/ Now(s) \/ Refused(s)

Commit(s) ==
    \/ CommitSubmit(s) \/ CommitWithdraw(s) \/ CommitUpdate(s)
    \/ CommitReserve(s) \/ CommitPickup(s)
    \/ CommitDeliver(s) \/ CommitFail(s)
    \/ CommitBroken(s) \/ CommitFixed(s) \/ CommitHeartbeat(s)

Next ==
    \/ Tick
    \/ \E s \in Session :
          Call(s) \/ Statement(s) \/ Commit(s) \/ Abort(s) \/ DeadlockAbort(s)

Spec == Init /\ [][Next]_vars

(***************************************************************************)
(* A call in progress goes on as long as Postgres answers: its goroutine   *)
(* is never blocked by another in this process.  Row locks are granted in  *)
(* the order of a queue, so a waiter whose lock is free again and again    *)
(* gets it (SF); deadlocks are detected (WF).  Nothing makes clients call, *)
(* calls fail or the clock advance.                                        *)
(***************************************************************************)
FairSpec ==
    /\ Spec
    /\ \A s \in Session : SF_vars(Statement(s)) /\ WF_vars(Commit(s))
    /\ WF_vars(\E s \in Session : DeadlockAbort(s))

-------------------------------------------------------------------------------
(* Properties *)

(***************************************************************************)
(* Serializability: whatever the interleaving of statements, each commit   *)
(* is the atomic step Delivery allows on the committed tables, and nothing *)
(* else changes them.  Whole-row write-back from a copy that another       *)
(* commit has overtaken would break it (a lost update).                    *)
(***************************************************************************)
Serializable == Abs!Spec

(***************************************************************************)
(* A session's copy of a row it has locked is the committed row until the  *)
(* session ends, and two sessions never hold a copy of the same row.       *)
(***************************************************************************)
LockedCopiesAreFresh ==
    \A s \in Session :
        /\ tx[s].ord # NULL =>
              /\ orderLock[tx[s].order] = s
              /\ orders[tx[s].order] = tx[s].ord
        /\ tx[s].drn # NULL =>
              /\ droneLock[tx[s].drone] = s
              /\ drones[tx[s].drone] \in {tx[s].drn, NULL}

(***************************************************************************)
(* Every deadlock is the lock-order inversion of DroneMarkBroken (drone,   *)
(* then order) against WithdrawOrder or completeOrderForDrone (order, then *)
(* drone) on one order and the drone that has it: no longer cycle, and no  *)
(* cycle between other methods, can form.                                  *)
(***************************************************************************)
DeadlocksAreBreakdownRaces ==
    \A s \in Session :
        OnCycle(s) =>
            \E b, c \in Session :
                /\ s \in {b, c}
                /\ WaitsFor(b, c) /\ WaitsFor(c, b)
                /\ tx[b].op = "broken"
                /\ tx[c].op \in {"withdraw", "deliver", "fail"}
                /\ tx[c].order = tx[b].drn.current

(***************************************************************************)
(* SKIP LOCKED sends a drone away with no_job while an order is waiting    *)
(* only if every waiting order is locked by another call that is           *)
(* withdrawing, updating or reserving it, or by a pickup, a delivery or a  *)
(* failure report that has been refused and is about to roll back: one     *)
(* that goes through never hides a job, and neither does a breakdown.      *)
(***************************************************************************)
NoJobHasACause ==
    \A s \in Session, o \in OrderId :
        (/\ tx[s].pc = "reserve" /\ Candidates = {}
         /\ orders[o] # NULL /\ orders[o].status \in Reservable)
        => \E t \in Session \ {s} :
               /\ orderLock[o] = t
               /\ \/ tx[t].op \in {"withdraw", "update", "reserve"}
                  \/ /\ tx[t].op \in {"pickup", "deliver", "fail"}
                     /\ tx[t].pc = "refused"

(***************************************************************************)
(* The timestamps of a row are in the order of its life: every stamp is    *)
(* read after the row it goes to is locked, so a transaction that waited   *)
(* does not bring an old one.  A re-reservation after a hand-off is later  *)
(* than the pickup before it.                                              *)
(***************************************************************************)
TimestampsOrdered ==
    \A o \in OrderId :
        LET row == orders[o]
        IN  row # NULL =>
              /\ row.reservedAt # NULL => row.createdAt <= row.reservedAt
              /\ row.pickedUpAt # NULL => row.createdAt <= row.pickedUpAt
              /\ row.status = "RESERVED" /\ row.pickedUpAt # NULL
                     => row.pickedUpAt <= row.reservedAt
              /\ row.status \notin {"CREATED", "RESERVED", "WITHDRAWN"}
                     => row.reservedAt <= row.pickedUpAt
              /\ row.deliveredAt # NULL => row.pickedUpAt <= row.deliveredAt
              /\ row.failedAt # NULL => row.pickedUpAt <= row.failedAt

(***************************************************************************)
(* FetchPending orders events by occurred_at.  That is the order of the    *)
(* commits for all events of one order or drone but those of               *)
(* DroneMarkBroken, which reads the clock before it waits for the order:   *)
(* its event can be older than the one committed before it.                *)
(***************************************************************************)
EventTimesFollowCommits ==
    [][/\ \A o \in OrderId :
             LET old == orderEvents[o]
                 new == orderEvents'[o]
             IN  old # NULL /\ new # old =>
                   \/ old.at <= new.at
                   \/ old.drone # NULL /\ new.drone = NULL
                      /\ new.status \in Reservable
       /\ \A d \in DroneId :
             droneEvents[d] # NULL => droneEvents[d].at <= droneEvents'[d].at
      ]_vars

(***************************************************************************)
(* Every call returns: no session waits for a row lock for ever, in spite  *)
(* of deadlocks and of locks held by calls that fail half way.             *)
(***************************************************************************)
CallsReturn == \A s \in Session : tx[s].pc # "idle" ~> tx[s].pc = "idle"
===============================================================================
