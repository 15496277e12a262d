-------------------------------- MODULE Domain --------------------------------
(***************************************************************************)
(* The vocabulary of the delivery service: the order and drone rows of the *)
(* two Postgres tables, the statuses of internal/domain, and what each     *)
(* operation of internal/service does to one row it has read.              *)
(*                                                                         *)
(* A row is abstracted to the columns the service decides on.  A nil       *)
(* pointer (a NULL column) and an absent row are both NULL.  Timestamps    *)
(* are numbers; the drone's own timestamps and the failure reason are left *)
(* out, no decision and no property reads them.                            *)
(***************************************************************************)
EXTENDS Naturals

CONSTANTS
    OrderId,        \* identifiers newOrderID can return
    DroneId,        \* subjects of drone tokens, ids in admin calls
    UserId,         \* subjects of enduser tokens
    Location,       \* coordinates a caller may send
    ValidLocation,  \* those with -90 <= lat <= 90 and -180 <= lng <= 180
    NULL            \* nil

(***************************************************************************)
(* NULL is no identifier, no coordinate and no instant.                    *)
(***************************************************************************)
ASSUME DomainAssumption ==
    /\ ValidLocation \subseteq Location
    /\ NULL \notin OrderId \cup DroneId \cup UserId \cup Location \cup Nat

Opt(S) == S \cup {NULL}

-------------------------------------------------------------------------------
(* Statuses, domain.go *)

OrderStatus == {"CREATED", "RESERVED", "PICKED_UP", "HANDOFF_REQUESTED",
                "DELIVERED", "FAILED", "WITHDRAWN"}

DroneStatus == {"ACTIVE", "BROKEN"}

IsTerminal(status) == status \in {"DELIVERED", "FAILED", "WITHDRAWN"}

ValidateLocation(loc) == loc \in ValidLocation

(* Statuses DroneReserveJob passes to ReserveNextOrder. *)
Reservable == {"CREATED", "HANDOFF_REQUESTED"}

(* Statuses in which an assigned drone is working on the order. *)
Underway == {"RESERVED", "PICKED_UP"}

-------------------------------------------------------------------------------
(* Rows *)

OrderRow == [user: UserId, origin: Location, dest: Location,
             status: OrderStatus, assigned: Opt(DroneId),
             handoff: Opt(Location), createdAt: Nat, reservedAt: Opt(Nat),
             pickedUpAt: Opt(Nat), deliveredAt: Opt(Nat), failedAt: Opt(Nat)]

DroneRow == [status: DroneStatus, location: Opt(Location),
             current: Opt(OrderId)]

(* What an order event's payload says of the row, and its occurred_at. *)
OrderEventType == {"order.created", "order.reserved", "order.picked_up",
                   "order.delivered", "order.failed",
                   "order.handoff_requested", "order.withdrawn",
                   "order.updated"}

DroneEventType == {"drone.broken", "drone.fixed"}

OrderEvent == [type: OrderEventType, status: OrderStatus,
               drone: Opt(DroneId), at: Nat]

DroneEvent == [type: DroneEventType, status: DroneStatus, at: Nat]

(* A row is not nil. *)
ASSUME RowAssumption == NULL \notin OrderRow \cup DroneRow \cup OrderEvent \cup DroneEvent

NewOrderEvent(type, row, now) ==
    [type |-> type, status |-> row.status, drone |-> row.assigned, at |-> now]

NewDroneEvent(type, row, now) ==
    [type |-> type, status |-> row.status, at |-> now]

-------------------------------------------------------------------------------
(* What the operations do to an order row.                                 *)
(*                                                                         *)
(* Names ending in Bug, here and in the other modules, are faulty variants *)
(* of the definition that follows them.  No specification uses them: the   *)
(* mutation checks put them in the place of that definition to see the     *)
(* properties fail.                                                        *)

NewOrder(user, origin, dest, now) ==
    [user |-> user, origin |-> origin, dest |-> dest, status |-> "CREATED",
     assigned |-> NULL, handoff |-> NULL, createdAt |-> now,
     reservedAt |-> NULL, pickedUpAt |-> NULL, deliveredAt |-> NULL,
     failedAt |-> NULL]

Withdrawn(row) == [row EXCEPT !.status = "WITHDRAWN", !.assigned = NULL]

(* origin and dest are pointers in AdminUpdateOrder: nil leaves the column. *)
Readdressed(row, origin, dest) ==
    [row EXCEPT !.origin = IF origin = NULL THEN @ ELSE origin,
                !.dest = IF dest = NULL THEN @ ELSE dest]

(* Keeps the time of the first reservation. *)
ReservedBug(row, drone, now) ==
    [row EXCEPT !.status = "RESERVED", !.assigned = drone,
                !.reservedAt = IF @ = NULL THEN now ELSE @]

Reserved(row, drone, now) ==
    [row EXCEPT !.status = "RESERVED", !.assigned = drone, !.reservedAt = now]

PickedUp(row, now) == [row EXCEPT !.status = "PICKED_UP", !.pickedUpAt = now]

Completed(row, status, now) ==
    IF status = "DELIVERED"
    THEN [row EXCEPT !.status = status, !.deliveredAt = now]
    ELSE [row EXCEPT !.status = status, !.failedAt = now]

(* The two cases of DroneMarkBroken that change the drone's order.  The     *)
(* hand-off point is overwritten only when the drone has reported a         *)
(* location.                                                                *)
(* Keeps the broken drone on the order. *)
HandedOffBug(row, location) ==
    [row EXCEPT !.status = "HANDOFF_REQUESTED",
                !.handoff = IF location = NULL THEN @ ELSE location]

HandedOff(row, location) ==
    [row EXCEPT !.status = "HANDOFF_REQUESTED", !.assigned = NULL,
                !.handoff = IF location = NULL THEN @ ELSE location]

(* Forgets reserved_at and the hand-off point. *)
RequeuedBug(row) == [row EXCEPT !.status = "CREATED", !.assigned = NULL]

Requeued(row) ==
    [row EXCEPT !.status = "CREATED", !.assigned = NULL, !.reservedAt = NULL,
                !.handoff = NULL]

AfterBreakdown(row, location) ==
    IF row.status = "PICKED_UP" THEN HandedOff(row, location)
    ELSE IF row.status = "RESERVED" THEN Requeued(row)
    ELSE row

BreakdownEventType(row) ==
    IF row.status = "PICKED_UP" THEN "order.handoff_requested"
    ELSE "order.updated"

-------------------------------------------------------------------------------
(* What the operations do to a drone row *)

NewDrone == [status |-> "ACTIVE", location |-> NULL, current |-> NULL]

Tasked(row, order) == [row EXCEPT !.current = order]

Freed(row) == [row EXCEPT !.current = NULL]

(* Leaves current_order_id alone. *)
BrokenBug(row) == [row EXCEPT !.status = "BROKEN"]

Broken(row) == [row EXCEPT !.status = "BROKEN", !.current = NULL]

(* Writes the event's word instead of the status. *)
FixedBug(row) == [row EXCEPT !.status = "FIXED"]

Fixed(row) == [row EXCEPT !.status = "ACTIVE"]

Located(row, loc) == [row EXCEPT !.location = loc]
===============================================================================
