------------------------------- MODULE Delivery -------------------------------
(***************************************************************************)
(* What the service layer promises: every method of service.Service that   *)
(* changes state is one atomic step on the orders and drones tables and    *)
(* the outbox.  A call that returns an error has no step here.             *)
(*                                                                         *)
(* DeliveryTx models how the methods really run, as Postgres transactions  *)
(* of many statements, and is shown to implement this specification.       *)
(*                                                                         *)
(* Of the outbox rows of an aggregate the state keeps the one inserted     *)
(* last: what a consumer that has seen every event knows of it.            *)
(***************************************************************************)
EXTENDS Domain

CONSTANT Time       \* the instants s.now() can return

ASSUME TimeAssumption == Time \subseteq Nat /\ Time # {}

VARIABLES
    orders,         \* the orders table
    drones,         \* the drones table
    orderEvents,    \* last outbox row of each order
    droneEvents     \* last outbox row of each drone

vars == <<orders, drones, orderEvents, droneEvents>>

TypeOK ==
    /\ orders \in [OrderId -> Opt(OrderRow)]
    /\ drones \in [DroneId -> Opt(DroneRow)]
    /\ orderEvents \in [OrderId -> Opt(OrderEvent)]
    /\ droneEvents \in [DroneId -> Opt(DroneEvent)]

Init ==
    /\ orders = [o \in OrderId |-> NULL]
    /\ drones = [d \in DroneId |-> NULL]
    /\ orderEvents = [o \in OrderId |-> NULL]
    /\ droneEvents = [d \in DroneId |-> NULL]

-------------------------------------------------------------------------------
(* The row getOrCreateDrone returns. *)
GetOrCreateDrone(d) == IF drones[d] = NULL THEN NewDrone ELSE drones[d]

(* UpdateOrder (or CreateOrder) followed by EnqueueEvent. *)
PutOrder(o, row, type, now) ==
    /\ orders' = [orders EXCEPT ![o] = row]
    /\ orderEvents' = [orderEvents EXCEPT ![o] = NewOrderEvent(type, row, now)]

(* UpdateDrone (or CreateDrone and UpdateDrone). *)
PutDrone(d, row) == drones' = [drones EXCEPT ![d] = row]

PutDroneEvent(d, type, row, now) ==
    droneEvents' = [droneEvents EXCEPT ![d] = NewDroneEvent(type, row, now)]

-------------------------------------------------------------------------------
(* The methods of service.Service *)

SubmitOrder(user, o, origin, dest, now) ==
    /\ ValidateLocation(origin)
    /\ ValidateLocation(dest)
    /\ orders[o] = NULL
    /\ PutOrder(o, NewOrder(user, origin, dest, now), "order.created", now)
    /\ UNCHANGED <<drones, droneEvents>>

(* Forgets to free the drone. *)
WithdrawOrderBug(user, o, now) ==
    /\ orders[o] # NULL
    /\ orders[o].user = user
    /\ orders[o].status \in {"CREATED", "RESERVED"}
    /\ PutOrder(o, Withdrawn(orders[o]), "order.withdrawn", now)
    /\ UNCHANGED <<drones, droneEvents>>

WithdrawOrder(user, o, now) ==
    /\ orders[o] # NULL
    /\ orders[o].user = user
    /\ orders[o].status \in {"CREATED", "RESERVED"}
    /\ PutOrder(o, Withdrawn(orders[o]), "order.withdrawn", now)
    /\ LET d == orders[o].assigned
       IN  IF orders[o].status = "RESERVED" /\ d # NULL
           THEN drones[d] # NULL /\ PutDrone(d, Freed(drones[d]))
           ELSE UNCHANGED drones
    /\ UNCHANGED droneEvents

(* Forgets the terminal check. *)
AdminUpdateOrderBug(o, origin, dest, now) ==
    /\ orders[o] # NULL
    /\ origin # NULL => ValidateLocation(origin)
    /\ dest # NULL => ValidateLocation(dest)
    /\ PutOrder(o, Readdressed(orders[o], origin, dest), "order.updated", now)
    /\ UNCHANGED <<drones, droneEvents>>

AdminUpdateOrder(o, origin, dest, now) ==
    /\ orders[o] # NULL
    /\ ~IsTerminal(orders[o].status)
    /\ origin # NULL => ValidateLocation(origin)
    /\ dest # NULL => ValidateLocation(dest)
    /\ PutOrder(o, Readdressed(orders[o], origin, dest), "order.updated", now)
    /\ UNCHANGED <<drones, droneEvents>>

(* Forgets the ErrConflict check. *)
DroneReserveJobBug(d, o, now) ==
    LET drone == GetOrCreateDrone(d)
    IN  /\ drone.status # "BROKEN"
        /\ orders[o] # NULL
        /\ orders[o].status \in Reservable
        /\ orders[o].assigned = NULL
        /\ PutOrder(o, Reserved(orders[o], d, now), "order.reserved", now)
        /\ PutDrone(d, Tasked(drone, o))
        /\ UNCHANGED droneEvents

(* Forgets to write the drone back. *)
DroneReserveJobOrderOnlyBug(d, o, now) ==
    LET drone == GetOrCreateDrone(d)
    IN  /\ drone.status # "BROKEN"
        /\ drone.current = NULL
        /\ orders[o] # NULL
        /\ orders[o].status \in Reservable
        /\ orders[o].assigned = NULL
        /\ PutOrder(o, Reserved(orders[o], d, now), "order.reserved", now)
        /\ UNCHANGED <<drones, droneEvents>>

(* ReserveNextOrder skips rows that other transactions hold, so the method *)
(* promises some reservable order, not the oldest one.                     *)
DroneReserveJob(d, o, now) ==
    LET drone == GetOrCreateDrone(d)
    IN  /\ drone.status # "BROKEN"
        /\ drone.current = NULL
        /\ orders[o] # NULL
        /\ orders[o].status \in Reservable
        /\ orders[o].assigned = NULL
        /\ PutOrder(o, Reserved(orders[o], d, now), "order.reserved", now)
        /\ PutDrone(d, Tasked(drone, o))
        /\ UNCHANGED droneEvents

(* updateOrderForDrone reads the clock a second time for the event. *)
DronePickup(d, o, now, sent) ==
    /\ orders[o] # NULL
    /\ orders[o].assigned = d
    /\ orders[o].status \in {"RESERVED", "HANDOFF_REQUESTED"}
    /\ PutOrder(o, PickedUp(orders[o], now), "order.picked_up", sent)
    /\ UNCHANGED <<drones, droneEvents>>

(* completeOrderForDrone: DroneDeliver and DroneFail. *)
CompleteOrderForDrone(d, o, status, now) ==
    /\ orders[o] # NULL
    /\ orders[o].assigned = d
    /\ orders[o].status = "PICKED_UP"
    /\ PutOrder(o, Completed(orders[o], status, now),
                IF status = "FAILED" THEN "order.failed" ELSE "order.delivered",
                now)
    /\ drones[d] # NULL
    /\ PutDrone(d, Freed(drones[d]))
    /\ UNCHANGED droneEvents

(* Requeues a RESERVED order without telling the outbox. *)
DroneMarkBrokenBug(d, now) ==
    LET drone == GetOrCreateDrone(d)
        o     == drone.current
    IN  /\ o # NULL => orders[o] # NULL
        /\ IF o # NULL /\ orders[o].status \in Underway
           THEN orders' = [orders EXCEPT ![o] =
                               AfterBreakdown(@, drone.location)]
           ELSE UNCHANGED orders
        /\ UNCHANGED orderEvents
        /\ PutDrone(d, Broken(drone))
        /\ PutDroneEvent(d, "drone.broken", Broken(drone), now)

(* Also AdminMarkDroneBroken.  An order in any state but PICKED_UP and      *)
(* RESERVED is left as it is.                                              *)
DroneMarkBroken(d, now) ==
    LET drone == GetOrCreateDrone(d)
        o     == drone.current
    IN  /\ o # NULL => orders[o] # NULL
        /\ IF o # NULL /\ orders[o].status \in Underway
           THEN PutOrder(o, AfterBreakdown(orders[o], drone.location),
                         BreakdownEventType(orders[o]), now)
           ELSE UNCHANGED <<orders, orderEvents>>
        /\ PutDrone(d, Broken(drone))
        /\ PutDroneEvent(d, "drone.broken", Broken(drone), now)

(* Only reachable through AdminMarkDroneFixed. *)
DroneMarkFixed(d, now) ==
    LET drone == Fixed(GetOrCreateDrone(d))
    IN  /\ PutDrone(d, drone)
        /\ PutDroneEvent(d, "drone.fixed", drone, now)
        /\ UNCHANGED <<orders, orderEvents>>

DroneHeartbeat(d, loc) ==
    /\ ValidateLocation(loc)
    /\ PutDrone(d, Located(GetOrCreateDrone(d), loc))
    /\ UNCHANGED <<orders, orderEvents, droneEvents>>

-------------------------------------------------------------------------------
OrderNext(o, now) ==
    \/ \E u \in UserId, a, b \in Location : SubmitOrder(u, o, a, b, now)
    \/ \E u \in UserId : WithdrawOrder(u, o, now)
    \/ \E a, b \in Opt(Location) : AdminUpdateOrder(o, a, b, now)

JobNext(d, o, now) ==
    \/ DroneReserveJob(d, o, now)
    \/ \E sent \in Time : DronePickup(d, o, now, sent)
    \/ CompleteOrderForDrone(d, o, "DELIVERED", now)
    \/ CompleteOrderForDrone(d, o, "FAILED", now)

DroneNext(d, now) ==
    \/ DroneMarkBroken(d, now)
    \/ DroneMarkFixed(d, now)
    \/ \E l \in Location : DroneHeartbeat(d, l)

Next ==
    \E now \in Time :
        \/ \E o \in OrderId : OrderNext(o, now)
        \/ \E d \in DroneId, o \in OrderId : JobNext(d, o, now)
        \/ \E d \in DroneId : DroneNext(d, now)

Spec == Init /\ [][Next]_vars

-------------------------------------------------------------------------------
(* Properties *)

(***************************************************************************)
(* The two tables agree on who works on what: an order row that is         *)
(* RESERVED or PICKED_UP by a drone is the current order of that drone's   *)
(* row, and the other way round.  Every method writes the two rows         *)
(* separately, and no foreign key ties them.                               *)
(***************************************************************************)
AssignmentAgrees ==
    \A o \in OrderId, d \in DroneId :
        (/\ orders[o] # NULL
         /\ orders[o].status \in Underway
         /\ orders[o].assigned = d)
        <=> (drones[d] # NULL /\ drones[d].current = o)

(***************************************************************************)
(* An order under way has a drone and an order waiting for one (or         *)
(* withdrawn) has none: ReserveNextOrder finds a job again only once       *)
(* assigned_drone_id is cleared, and the drone's calls are authorised by   *)
(* that column.                                                            *)
(***************************************************************************)
AssignedExactlyWhileUnderway ==
    \A o \in OrderId :
        orders[o] # NULL =>
            /\ orders[o].status \in Underway => orders[o].assigned # NULL
            /\ orders[o].status \in {"CREATED", "HANDOFF_REQUESTED", "WITHDRAWN"}
                   => orders[o].assigned = NULL

(***************************************************************************)
(* A BROKEN drone holds no order: DroneMarkBroken takes its order away and *)
(* DroneReserveJob gives it no other until AdminMarkDroneFixed.            *)
(***************************************************************************)
BrokenDronesCarryNothing ==
    \A d \in DroneId :
        drones[d] # NULL /\ drones[d].status = "BROKEN"
            => drones[d].current = NULL

(***************************************************************************)
(* The outbox tells the truth: the last event enqueued for an order        *)
(* carries the status and the drone of the committed row, and its type is  *)
(* the one a consumer expects for that status; a drone without events is   *)
(* ACTIVE.                                                                 *)
(***************************************************************************)
ExpectedType(row) ==
    CASE row.status = "CREATED" -> {"order.created", "order.updated"}
      [] row.status = "RESERVED" -> {"order.reserved", "order.updated"}
      [] row.status = "PICKED_UP" -> {"order.picked_up", "order.updated"}
      [] row.status = "HANDOFF_REQUESTED" ->
             {"order.handoff_requested", "order.updated"}
      [] row.status = "DELIVERED" -> {"order.delivered"}
      [] row.status = "FAILED" -> {"order.failed"}
      [] row.status = "WITHDRAWN" -> {"order.withdrawn"}

OutboxMirrorsOrders ==
    \A o \in OrderId :
        IF orders[o] = NULL THEN orderEvents[o] = NULL
        ELSE /\ orderEvents[o] # NULL
             /\ orderEvents[o].status = orders[o].status
             /\ orderEvents[o].drone = orders[o].assigned
             /\ orderEvents[o].type \in ExpectedType(orders[o])

OutboxMirrorsDrones ==
    \A d \in DroneId :
        IF droneEvents[d] = NULL
        THEN drones[d] # NULL => drones[d].status = "ACTIVE"
        ELSE /\ drones[d] # NULL
             /\ droneEvents[d].status = drones[d].status

OutboxMirrorsTables == OutboxMirrorsOrders /\ OutboxMirrorsDrones

(***************************************************************************)
(* The timestamp columns tell how far the order got, also after several    *)
(* breakdowns: delivered_at and failed_at are set exactly in DELIVERED and *)
(* FAILED, reserved_at and picked_up_at in every status that implies them  *)
(* (picked_up_at stays when the order is reserved a second time), and a    *)
(* hand-off point exists only for a parcel that was picked up.             *)
(***************************************************************************)
TimestampsMatchStatus ==
    \A o \in OrderId :
        LET row == orders[o]
        IN  row # NULL =>
              /\ (row.deliveredAt # NULL) <=> (row.status = "DELIVERED")
              /\ (row.failedAt # NULL) <=> (row.status = "FAILED")
              /\ row.status = "CREATED" => row.reservedAt = NULL
              /\ row.status \notin {"CREATED", "WITHDRAWN"}
                     => row.reservedAt # NULL
              /\ row.status \notin {"CREATED", "RESERVED", "WITHDRAWN"}
                     => row.pickedUpAt # NULL
              /\ row.handoff # NULL => row.pickedUpAt # NULL

(***************************************************************************)
(* No call changes an order that is DELIVERED, FAILED or WITHDRAWN, however *)
(* late it arrives: not an admin's update, a repeated deliver, nor the     *)
(* breakdown of the drone that had carried it.                             *)
(***************************************************************************)
TerminalIsFinal ==
    [][\A o \in OrderId :
          orders[o] # NULL /\ IsTerminal(orders[o].status)
              => orders'[o] = orders[o]]_vars

(***************************************************************************)
(* An order changes hands only through the queue: no step moves it from    *)
(* one drone to another, and a drone gets an order only when it has none.  *)
(***************************************************************************)
ChangesHandsThroughQueue ==
    [][/\ \A o \in OrderId :
             orders[o] # NULL /\ orders[o].assigned # NULL
                 => orders'[o].assigned \in {orders[o].assigned, NULL}
       /\ \A d \in DroneId :
             drones[d] # NULL /\ drones[d].current # NULL
                 => drones'[d].current \in {drones[d].current, NULL}]_vars

-------------------------------------------------------------------------------
(* What the documentation says, and the code does not do *)

(***************************************************************************)
(* docs_api.md: "Withdraw order (only before pickup)", and the comment in  *)
(* DroneMarkBroken: an order goes back to CREATED when it is "merely       *)
(* RESERVED (not picked up yet)".  Both rest on the status RESERVED, which *)
(* a parcel that was handed off has a second time.                         *)
(***************************************************************************)
PickedUpForGood ==
    \A o \in OrderId :
        orders[o] # NULL /\ orders[o].pickedUpAt # NULL
            => orders[o].status \notin {"CREATED", "WITHDRAWN"}
===============================================================================
