---------------------------- MODULE DeliveryProofs ----------------------------
(***************************************************************************)
(* Proofs about Delivery for any number of orders, drones, users and       *)
(* locations.                                                              *)
(***************************************************************************)
EXTENDS Delivery, TLAPS

(***************************************************************************)
(* What the invariants say of one order row on its own.                    *)
(***************************************************************************)
RowAssigned(row) ==
    /\ row.status \in Underway => row.assigned # NULL
    /\ row.status \in {"CREATED", "HANDOFF_REQUESTED", "WITHDRAWN"}
           => row.assigned = NULL

RowTimes(row) ==
    /\ (row.deliveredAt # NULL) <=> (row.status = "DELIVERED")
    /\ (row.failedAt # NULL) <=> (row.status = "FAILED")
    /\ row.status = "CREATED" => row.reservedAt = NULL
    /\ row.status \notin {"CREATED", "WITHDRAWN"} => row.reservedAt # NULL
    /\ row.status \notin {"CREATED", "RESERVED", "WITHDRAWN"}
           => row.pickedUpAt # NULL
    /\ row.handoff # NULL => row.pickedUpAt # NULL

RowOK(row) == row \in OrderRow /\ RowAssigned(row) /\ RowTimes(row)

(***************************************************************************)
(* The row SubmitOrder inserts is well formed.                             *)
(***************************************************************************)
LEMMA NewOrderOK ==
    ASSUME NEW u \in UserId, NEW a \in Location, NEW b \in Location,
           NEW now \in Nat
    PROVE  /\ RowOK(NewOrder(u, a, b, now))
           /\ NewOrder(u, a, b, now).status = "CREATED"
           /\ NewOrder(u, a, b, now).assigned = NULL
BY DomainAssumption
   DEF RowOK, RowAssigned, RowTimes, NewOrder, OrderRow, OrderStatus, Opt,
       Underway

(***************************************************************************)
(* WithdrawOrder's update keeps a row well formed.                         *)
(***************************************************************************)
LEMMA WithdrawnOK ==
    ASSUME NEW row, RowOK(row), row.status \in {"CREATED", "RESERVED"}
    PROVE  /\ RowOK(Withdrawn(row))
           /\ Withdrawn(row).status = "WITHDRAWN"
           /\ Withdrawn(row).assigned = NULL
BY DEF RowOK, RowAssigned, RowTimes, Withdrawn, OrderRow, OrderStatus, Opt,
       Underway

(***************************************************************************)
(* AdminUpdateOrder changes neither the status nor the drone of a row.     *)
(***************************************************************************)
LEMMA ReaddressedOK ==
    ASSUME NEW row, RowOK(row), NEW a \in Opt(Location),
           NEW b \in Opt(Location)
    PROVE  /\ RowOK(Readdressed(row, a, b))
           /\ Readdressed(row, a, b).status = row.status
           /\ Readdressed(row, a, b).assigned = row.assigned
<1>1. PICK x \in Location, y \in Location :
        Readdressed(row, a, b) = [row EXCEPT !.origin = x, !.dest = y]
  <2>1. row.origin \in Location /\ row.dest \in Location
    BY DEF RowOK, OrderRow
  <2> QED BY <2>1 DEF Readdressed, Opt
<1> QED BY <1>1 DEF RowOK, RowAssigned, RowTimes, OrderRow

(***************************************************************************)
(* DroneReserveJob gives a waiting order a drone.                          *)
(***************************************************************************)
LEMMA ReservedOK ==
    ASSUME NEW row, RowOK(row), row.status \in Reservable,
           NEW d \in DroneId, NEW now \in Nat
    PROVE  /\ RowOK(Reserved(row, d, now))
           /\ Reserved(row, d, now).status = "RESERVED"
           /\ Reserved(row, d, now).assigned = d
BY DomainAssumption DEF RowOK, RowAssigned, RowTimes, Reserved, Reservable, OrderRow, OrderStatus,
       Opt, Underway

(***************************************************************************)
(* A pickup keeps the drone of an order under way.                         *)
(***************************************************************************)
LEMMA PickedUpOK ==
    ASSUME NEW row, RowOK(row), row.status \in {"RESERVED", "HANDOFF_REQUESTED"},
           row.assigned # NULL, NEW now \in Nat
    PROVE  /\ RowOK(PickedUp(row, now))
           /\ PickedUp(row, now).status = "PICKED_UP"
           /\ PickedUp(row, now).assigned = row.assigned
BY DomainAssumption DEF RowOK, RowAssigned, RowTimes, PickedUp, OrderRow, OrderStatus,
       Opt, Underway

(***************************************************************************)
(* A delivered or failed order keeps its drone.                            *)
(***************************************************************************)
LEMMA CompletedOK ==
    ASSUME NEW row, RowOK(row), row.status = "PICKED_UP", NEW now \in Nat,
           NEW st \in {"DELIVERED", "FAILED"}
    PROVE  /\ RowOK(Completed(row, st, now))
           /\ Completed(row, st, now).status = st
           /\ Completed(row, st, now).assigned = row.assigned
BY DomainAssumption DEF RowOK, RowAssigned, RowTimes, Completed, OrderRow, OrderStatus,
       Opt, Underway

(***************************************************************************)
(* A breakdown takes an order under way from its drone and puts it back    *)
(* where ReserveNextOrder finds it, with an event that names its status.   *)
(***************************************************************************)
LEMMA AfterBreakdownOK ==
    ASSUME NEW row, RowOK(row), row.status \in Underway,
           NEW loc \in Opt(Location)
    PROVE  /\ RowOK(AfterBreakdown(row, loc))
           /\ AfterBreakdown(row, loc).status \in Reservable
           /\ AfterBreakdown(row, loc).assigned = NULL
           /\ BreakdownEventType(row) \in ExpectedType(AfterBreakdown(row, loc))
           /\ BreakdownEventType(row) \in OrderEventType
<1>1. CASE row.status = "PICKED_UP"
  BY <1>1 DEF RowOK, RowAssigned, RowTimes, AfterBreakdown, HandedOff,
              OrderRow, OrderStatus, Opt, Underway, Reservable,
              BreakdownEventType, ExpectedType, OrderEventType
<1>2. CASE row.status = "RESERVED"
  BY <1>2 DEF RowOK, RowAssigned, RowTimes, AfterBreakdown, Requeued,
              OrderRow, OrderStatus, Opt, Underway, Reservable,
              BreakdownEventType, ExpectedType, OrderEventType
<1> QED BY <1>1, <1>2 DEF Underway

(***************************************************************************)
(* The drone rows the methods write are drone rows, with the status and    *)
(* the current order they should have.                                     *)
(***************************************************************************)
LEMMA DroneRowsOK ==
    /\ NewDrone \in DroneRow
    /\ NewDrone.status = "ACTIVE" /\ NewDrone.current = NULL
    /\ \A row \in DroneRow :
          /\ Freed(row) \in DroneRow
          /\ Freed(row).status = row.status /\ Freed(row).current = NULL
          /\ Broken(row) \in DroneRow
          /\ Broken(row).status = "BROKEN" /\ Broken(row).current = NULL
          /\ Fixed(row) \in DroneRow
          /\ Fixed(row).status = "ACTIVE" /\ Fixed(row).current = row.current
          /\ \A o \in OrderId :
                /\ Tasked(row, o) \in DroneRow
                /\ Tasked(row, o).status = row.status
                /\ Tasked(row, o).current = o
          /\ \A l \in Location :
                /\ Located(row, l) \in DroneRow
                /\ Located(row, l).status = row.status
                /\ Located(row, l).current = row.current
BY DEF DroneRow, DroneStatus, Opt, NewDrone, Freed, Broken, Fixed, Tasked,
       Located

-------------------------------------------------------------------------------
(***************************************************************************)
(* The inductive invariant, by table.  No part is inductive alone: that a  *)
(* breakdown finds its order under way needs AssignmentAgrees, which needs *)
(* the assignment rule of the single rows, and so on around.               *)
(***************************************************************************)
OrdersOK ==
    /\ orders \in [OrderId -> Opt(OrderRow)]
    /\ orderEvents \in [OrderId -> Opt(OrderEvent)]
    /\ AssignedExactlyWhileUnderway
    /\ TimestampsMatchStatus
    /\ OutboxMirrorsOrders

DronesOK ==
    /\ drones \in [DroneId -> Opt(DroneRow)]
    /\ droneEvents \in [DroneId -> Opt(DroneEvent)]
    /\ BrokenDronesCarryNothing
    /\ OutboxMirrorsDrones

IInv == OrdersOK /\ DronesOK /\ AssignmentAgrees

(***************************************************************************)
(* A row of the orders table is well formed.                               *)
(***************************************************************************)
LEMMA OrderRowOK ==
    ASSUME OrdersOK, NEW o \in OrderId, orders[o] # NULL
    PROVE  RowOK(orders[o])
<1>1. orders[o] \in OrderRow
  BY DEF OrdersOK, Opt
<1>2. RowAssigned(orders[o])
  BY DEF OrdersOK, AssignedExactlyWhileUnderway, RowAssigned
<1>3. RowTimes(orders[o])
  BY DEF OrdersOK, TimestampsMatchStatus, RowTimes
<1> QED BY <1>1, <1>2, <1>3 DEF RowOK

(***************************************************************************)
(* A write of a well-formed order row with an event of a fitting type      *)
(* keeps the orders table and its outbox rows in order.                    *)
(***************************************************************************)
LEMMA PutOrderOK ==
    ASSUME OrdersOK, NEW o \in OrderId, NEW row, RowOK(row), NEW now \in Nat,
           NEW type \in OrderEventType, type \in ExpectedType(row),
           PutOrder(o, row, type, now)
    PROVE  OrdersOK'
<1>1. row \in OrderRow /\ row # NULL
  BY RowAssumption DEF RowOK
<1> DEFINE evt == NewOrderEvent(type, row, now)
<1>2. /\ evt \in OrderEvent /\ evt # NULL
      /\ evt.status = row.status /\ evt.drone = row.assigned /\ evt.type = type
  <2>1. row.status \in OrderStatus /\ row.assigned \in Opt(DroneId)
    BY <1>1 DEF OrderRow
  <2>2. evt \in OrderEvent
    BY <2>1 DEF NewOrderEvent, OrderEvent
  <2> QED BY <2>2, RowAssumption DEF NewOrderEvent
<1>3. /\ orders' \in [OrderId -> Opt(OrderRow)]
      /\ orderEvents' \in [OrderId -> Opt(OrderEvent)]
  BY <1>1, <1>2 DEF OrdersOK, PutOrder, Opt
<1>4. ASSUME NEW p \in OrderId
      PROVE  /\ orders'[p] = IF p = o THEN row ELSE orders[p]
             /\ orderEvents'[p] = IF p = o THEN evt ELSE orderEvents[p]
  BY DEF OrdersOK, PutOrder
<1> HIDE DEF evt
<1>5. AssignedExactlyWhileUnderway'
  BY <1>4 DEF OrdersOK, AssignedExactlyWhileUnderway, RowOK, RowAssigned
<1>6. TimestampsMatchStatus'
  BY <1>4 DEF OrdersOK, TimestampsMatchStatus, RowOK, RowTimes
<1>7. OutboxMirrorsOrders'
  <2> SUFFICES ASSUME NEW p \in OrderId
               PROVE  IF orders'[p] = NULL THEN orderEvents'[p] = NULL
                      ELSE /\ orderEvents'[p] # NULL
                           /\ orderEvents'[p].status = orders'[p].status
                           /\ orderEvents'[p].drone = orders'[p].assigned
                           /\ orderEvents'[p].type \in ExpectedType(orders'[p])
    BY DEF OutboxMirrorsOrders, ExpectedType
  <2>1. CASE p = o
    BY <2>1, <1>1, <1>2, <1>4
  <2>2. CASE p # o
    BY <2>2, <1>4 DEF OrdersOK, OutboxMirrorsOrders
  <2> QED BY <2>1, <2>2
<1> QED BY <1>3, <1>5, <1>6, <1>7 DEF OrdersOK

(***************************************************************************)
(* OrdersOK depends on the two order tables only.                          *)
(***************************************************************************)
LEMMA OrdersUnchanged ==
    ASSUME OrdersOK, UNCHANGED <<orders, orderEvents>>
    PROVE  OrdersOK'
BY DEF OrdersOK, AssignedExactlyWhileUnderway, TimestampsMatchStatus,
       OutboxMirrorsOrders, ExpectedType

(***************************************************************************)
(* What getOrCreateDrone returns.                                          *)
(***************************************************************************)
LEMMA GetOrCreateDroneOK ==
    ASSUME DronesOK, NEW d \in DroneId
    PROVE  /\ GetOrCreateDrone(d) \in DroneRow
           /\ drones[d] # NULL => GetOrCreateDrone(d) = drones[d]
           /\ drones[d] = NULL => /\ GetOrCreateDrone(d).status = "ACTIVE"
                                  /\ GetOrCreateDrone(d).current = NULL
           /\ droneEvents[d] = NULL => GetOrCreateDrone(d).status = "ACTIVE"
           /\ GetOrCreateDrone(d).status = "BROKEN"
                  => GetOrCreateDrone(d).current = NULL
<1>1. CASE drones[d] = NULL
  BY <1>1, DroneRowsOK DEF GetOrCreateDrone
<1>2. CASE drones[d] # NULL
  <2>1. drones[d] \in DroneRow
    BY <1>2 DEF DronesOK, Opt
  <2> QED BY <1>2, <2>1
          DEF GetOrCreateDrone, DronesOK, OutboxMirrorsDrones,
              BrokenDronesCarryNothing
<1> QED BY <1>1, <1>2

(***************************************************************************)
(* A write of a drone row that keeps its status needs no event.            *)
(***************************************************************************)
LEMMA PutDroneOK ==
    ASSUME DronesOK, NEW d \in DroneId, NEW row \in DroneRow,
           row.status = GetOrCreateDrone(d).status,
           row.status = "BROKEN" => row.current = NULL,
           PutDrone(d, row), UNCHANGED droneEvents
    PROVE  DronesOK'
<1>1. row # NULL
  BY RowAssumption
<1>2. drones' \in [DroneId -> Opt(DroneRow)]
  BY DEF DronesOK, PutDrone, Opt
<1>3. \A e \in DroneId : drones'[e] = IF e = d THEN row ELSE drones[e]
  BY DEF DronesOK, PutDrone
<1>4. BrokenDronesCarryNothing'
  BY <1>3 DEF DronesOK, BrokenDronesCarryNothing
<1>5. OutboxMirrorsDrones'
  <2>1. droneEvents[d] # NULL => GetOrCreateDrone(d).status = droneEvents[d].status
    BY DEF DronesOK, OutboxMirrorsDrones, GetOrCreateDrone
  <2> QED BY <1>1, <1>3, <2>1, GetOrCreateDroneOK
          DEF DronesOK, OutboxMirrorsDrones
<1> QED BY <1>2, <1>4, <1>5 DEF DronesOK

(***************************************************************************)
(* A write of a drone row with its event.                                  *)
(***************************************************************************)
LEMMA PutDroneEventOK ==
    ASSUME DronesOK, NEW d \in DroneId, NEW row \in DroneRow,
           row.status = "BROKEN" => row.current = NULL,
           NEW type \in DroneEventType, NEW now \in Nat,
           PutDrone(d, row), PutDroneEvent(d, type, row, now)
    PROVE  DronesOK'
<1> DEFINE evt == NewDroneEvent(type, row, now)
<1>1. row # NULL /\ evt \in DroneEvent /\ evt # NULL /\ evt.status = row.status
  <2>1. evt \in DroneEvent
    BY DEF NewDroneEvent, DroneEvent, DroneRow
  <2> QED BY <2>1, RowAssumption DEF NewDroneEvent
<1>2. /\ drones' \in [DroneId -> Opt(DroneRow)]
      /\ droneEvents' \in [DroneId -> Opt(DroneEvent)]
  BY <1>1 DEF DronesOK, PutDrone, PutDroneEvent, Opt
<1>3. \A e \in DroneId :
        /\ drones'[e] = IF e = d THEN row ELSE drones[e]
        /\ droneEvents'[e] = IF e = d THEN evt ELSE droneEvents[e]
  BY DEF DronesOK, PutDrone, PutDroneEvent
<1> HIDE DEF evt
<1>4. BrokenDronesCarryNothing'
  BY <1>3 DEF DronesOK, BrokenDronesCarryNothing
<1>5. OutboxMirrorsDrones'
  BY <1>1, <1>3 DEF DronesOK, OutboxMirrorsDrones
<1> QED BY <1>2, <1>4, <1>5 DEF DronesOK

(***************************************************************************)
(* DronesOK depends on the two drone tables only.                          *)
(***************************************************************************)
LEMMA DronesUnchanged ==
    ASSUME DronesOK, UNCHANGED <<drones, droneEvents>>
    PROVE  DronesOK'
BY DEF DronesOK, BrokenDronesCarryNothing, OutboxMirrorsDrones

(***************************************************************************)
(* An order leaves its drone: the order row goes to a status in which it   *)
(* is not under way, and the drone's row to one without an order.          *)
(***************************************************************************)
LEMMA PartedOK ==
    ASSUME IInv, NEW o \in OrderId, NEW d \in DroneId, drones[d] # NULL,
           drones[d].current = o,
           NEW row, row.status \notin Underway,
           NEW drone, drone.current = NULL,
           orders' = [orders EXCEPT ![o] = row],
           drones' = [drones EXCEPT ![d] = drone]
    PROVE  AssignmentAgrees'
<1>1. \A p \in OrderId : orders'[p] = IF p = o THEN row ELSE orders[p]
  BY DEF IInv, OrdersOK
<1>2. \A e \in DroneId : drones'[e] = IF e = d THEN drone ELSE drones[e]
  BY DEF IInv, DronesOK
<1>3. \A p \in OrderId, e \in DroneId :
        (/\ orders[p] # NULL
         /\ orders[p].status \in Underway
         /\ orders[p].assigned = e)
        <=> (drones[e] # NULL /\ drones[e].current = p)
  BY DEF IInv, AssignmentAgrees
<1>4. \A p \in OrderId, e \in DroneId :
        (/\ orders'[p] # NULL
         /\ orders'[p].status \in Underway
         /\ orders'[p].assigned = e)
        <=> (drones'[e] # NULL /\ drones'[e].current = p)
  <2> TAKE p \in OrderId, e \in DroneId
  <2>1. CASE p = o
    BY <2>1, <1>1, <1>2, <1>3, DomainAssumption
  <2>2. CASE p # o
    BY <2>2, <1>1, <1>2, <1>3, DomainAssumption
  <2> QED BY <2>1, <2>2
<1> QED BY <1>4 DEF AssignmentAgrees

-------------------------------------------------------------------------------
(* Every method keeps the invariant. *)

(***************************************************************************)
(* SubmitOrder: no drone can have the fresh order.                         *)
(***************************************************************************)
LEMMA SubmitOrderKeeps ==
    ASSUME IInv, NEW u \in UserId, NEW o \in OrderId, NEW a \in Location,
           NEW b \in Location, NEW now \in Nat, SubmitOrder(u, o, a, b, now)
    PROVE  IInv'
<1> DEFINE row == NewOrder(u, a, b, now)
<1>1. PutOrder(o, row, "order.created", now) /\ orders[o] = NULL
  BY DEF SubmitOrder
<1>2. RowOK(row) /\ row.status = "CREATED" /\ row.assigned = NULL
  BY NewOrderOK
<1> HIDE DEF row
<1>3. OrdersOK'
  BY <1>1, <1>2, PutOrderOK DEF IInv, OrderEventType, ExpectedType
<1>4. DronesOK'
  BY DronesUnchanged DEF IInv, SubmitOrder
<1>5. AssignmentAgrees'
  BY <1>1, <1>2 DEF IInv, OrdersOK, PutOrder, SubmitOrder, AssignmentAgrees,
                    Underway
<1> QED BY <1>3, <1>4, <1>5 DEF IInv

(***************************************************************************)
(* WithdrawOrder: the drone of a RESERVED order exists and is freed.       *)
(***************************************************************************)
LEMMA WithdrawOrderKeeps ==
    ASSUME IInv, NEW u \in UserId, NEW o \in OrderId, NEW now \in Nat,
           WithdrawOrder(u, o, now)
    PROVE  IInv'
<1> DEFINE row == Withdrawn(orders[o])
<1>1. /\ PutOrder(o, row, "order.withdrawn", now)
      /\ orders[o] # NULL
      /\ orders[o].status \in {"CREATED", "RESERVED"}
  BY DEF WithdrawOrder
<1>2. RowOK(orders[o])
  BY <1>1, OrderRowOK DEF IInv
<1>3. RowOK(row) /\ row.status = "WITHDRAWN" /\ row.assigned = NULL
  BY <1>1, <1>2, WithdrawnOK
<1>4. orders' = [orders EXCEPT ![o] = row]
  BY <1>1 DEF PutOrder
<1> HIDE DEF row
<1>5. OrdersOK'
  BY <1>1, <1>3, PutOrderOK DEF IInv, OrderEventType, ExpectedType
<1>6. CASE orders[o].status = "CREATED"
  <2>1. UNCHANGED <<drones, droneEvents>>
    BY <1>6 DEF WithdrawOrder
  <2>2. DronesOK'
    BY <2>1, DronesUnchanged DEF IInv
  <2>3. AssignmentAgrees'
    BY <1>3, <1>4, <1>6, <2>1 DEF IInv, OrdersOK, AssignmentAgrees, Underway
  <2> QED BY <1>5, <2>2, <2>3 DEF IInv
<1>7. CASE orders[o].status = "RESERVED"
  <2> DEFINE d == orders[o].assigned
  <2>1. d # NULL /\ d \in DroneId
    BY <1>2, <1>7 DEF RowOK, RowAssigned, OrderRow, Opt, Underway
  <2>2. PutDrone(d, Freed(drones[d])) /\ drones[d] # NULL /\ UNCHANGED droneEvents
    BY <1>7, <2>1 DEF WithdrawOrder
  <2>3. drones[d].current = o
    BY <1>1, <1>7, <2>1 DEF IInv, AssignmentAgrees, Underway
  <2> HIDE DEF d
  <2>4. GetOrCreateDrone(d) = drones[d] /\ drones[d] \in DroneRow
    BY <2>1, <2>2, GetOrCreateDroneOK DEF IInv
  <2>5. /\ Freed(drones[d]) \in DroneRow
        /\ Freed(drones[d]).status = drones[d].status
        /\ Freed(drones[d]).current = NULL
    BY <2>4, DroneRowsOK
  <2>6. DronesOK'
    BY <2>1, <2>2, <2>4, <2>5, PutDroneOK DEF IInv
  <2>7. AssignmentAgrees'
    BY <1>3, <1>4, <2>1, <2>2, <2>3, <2>5, PartedOK DEF IInv, PutDrone, Underway
  <2> QED BY <1>5, <2>6, <2>7 DEF IInv
<1> QED BY <1>1, <1>6, <1>7

(***************************************************************************)
(* AdminUpdateOrder moves no order between statuses or drones.             *)
(***************************************************************************)
LEMMA AdminUpdateOrderKeeps ==
    ASSUME IInv, NEW o \in OrderId, NEW a \in Opt(Location),
           NEW b \in Opt(Location), NEW now \in Nat,
           AdminUpdateOrder(o, a, b, now)
    PROVE  IInv'
<1> DEFINE row == Readdressed(orders[o], a, b)
<1>1. /\ PutOrder(o, row, "order.updated", now)
      /\ orders[o] # NULL
      /\ ~IsTerminal(orders[o].status)
      /\ UNCHANGED <<drones, droneEvents>>
  BY DEF AdminUpdateOrder
<1>2. RowOK(orders[o])
  BY <1>1, OrderRowOK DEF IInv
<1>3. /\ RowOK(row)
      /\ row.status = orders[o].status
      /\ row.assigned = orders[o].assigned
  BY <1>2, ReaddressedOK
<1>4. orders' = [orders EXCEPT ![o] = row] /\ row # NULL
  BY <1>1, <1>3, RowAssumption DEF PutOrder, RowOK
<1> HIDE DEF row
<1>5. OrdersOK'
  <2>1. "order.updated" \in ExpectedType(row)
    BY <1>1, <1>3 DEF ExpectedType, IsTerminal, RowOK, OrderRow, OrderStatus
  <2> QED BY <1>1, <1>3, <2>1, PutOrderOK DEF IInv, OrderEventType
<1>6. DronesOK'
  BY <1>1, DronesUnchanged DEF IInv
<1>7. AssignmentAgrees'
  BY <1>1, <1>3, <1>4 DEF IInv, OrdersOK, AssignmentAgrees
<1> QED BY <1>5, <1>6, <1>7 DEF IInv

(***************************************************************************)
(* DroneReserveJob: the drone had no order, the order no drone.            *)
(***************************************************************************)
LEMMA DroneReserveJobKeeps ==
    ASSUME IInv, NEW d \in DroneId, NEW o \in OrderId, NEW now \in Nat,
           DroneReserveJob(d, o, now)
    PROVE  IInv'
<1> DEFINE drone == GetOrCreateDrone(d)
           row   == Reserved(orders[o], d, now)
<1>1. /\ drone.status # "BROKEN" /\ drone.current = NULL
      /\ orders[o] # NULL
      /\ orders[o].status \in Reservable
      /\ PutOrder(o, row, "order.reserved", now)
      /\ PutDrone(d, Tasked(drone, o))
      /\ UNCHANGED droneEvents
  BY DEF DroneReserveJob
<1>2. RowOK(orders[o])
  BY <1>1, OrderRowOK DEF IInv
<1>3. RowOK(row) /\ row.status = "RESERVED" /\ row.assigned = d
  BY <1>1, <1>2, ReservedOK
<1>4. drone \in DroneRow
  BY GetOrCreateDroneOK DEF IInv
<1>5. /\ Tasked(drone, o) \in DroneRow
      /\ Tasked(drone, o).status = drone.status
      /\ Tasked(drone, o).current = o
  BY <1>4, DroneRowsOK
<1>6. /\ orders' = [orders EXCEPT ![o] = row] /\ row # NULL
      /\ drones' = [drones EXCEPT ![d] = Tasked(drone, o)]
      /\ Tasked(drone, o) # NULL
  BY <1>1, <1>3, <1>5, RowAssumption DEF PutOrder, PutDrone, RowOK
<1>7. drones[d] # NULL => drones[d].current = NULL
  BY <1>1, GetOrCreateDroneOK DEF IInv
<1>8. DronesOK'
  BY <1>1, <1>5, PutDroneOK DEF IInv
<1> HIDE DEF drone, row
<1>9. OrdersOK'
  BY <1>1, <1>3, PutOrderOK DEF IInv, OrderEventType, ExpectedType
<1>10. AssignmentAgrees'
  <2>1. \A e \in DroneId : ~(drones[e] # NULL /\ drones[e].current = o)
    BY <1>1 DEF IInv, AssignmentAgrees, Reservable, Underway
  <2>2. \A p \in OrderId : ~(/\ orders[p] # NULL
                             /\ orders[p].status \in Underway
                             /\ orders[p].assigned = d)
    BY <1>7, DomainAssumption DEF IInv, AssignmentAgrees
  <2> QED BY <1>3, <1>5, <1>6, <2>1, <2>2
          DEF IInv, OrdersOK, DronesOK, AssignmentAgrees, Underway
<1> QED BY <1>8, <1>9, <1>10 DEF IInv

(***************************************************************************)
(* DronePickup only moves the order from one status under way to another:  *)
(* a HANDOFF_REQUESTED order has no drone that could call it.              *)
(***************************************************************************)
LEMMA DronePickupKeeps ==
    ASSUME IInv, NEW d \in DroneId, NEW o \in OrderId, NEW now \in Nat,
           NEW sent \in Nat, DronePickup(d, o, now, sent)
    PROVE  IInv'
<1> DEFINE row == PickedUp(orders[o], now)
<1>1. /\ orders[o] # NULL
      /\ orders[o].assigned = d
      /\ orders[o].status \in {"RESERVED", "HANDOFF_REQUESTED"}
      /\ PutOrder(o, row, "order.picked_up", sent)
      /\ UNCHANGED <<drones, droneEvents>>
  BY DEF DronePickup
<1>2. RowOK(orders[o])
  BY <1>1, OrderRowOK DEF IInv
<1>3. d # NULL
  BY DomainAssumption
<1>4. RowOK(row) /\ row.status = "PICKED_UP" /\ row.assigned = d
  BY <1>1, <1>2, <1>3, PickedUpOK
<1>5. orders[o].status = "RESERVED"
  BY <1>1, <1>2, <1>3 DEF RowOK, RowAssigned
<1>6. orders' = [orders EXCEPT ![o] = row] /\ row # NULL
  BY <1>1, <1>4, RowAssumption DEF PutOrder, RowOK
<1> HIDE DEF row
<1>7. OrdersOK'
  BY <1>1, <1>4, PutOrderOK DEF IInv, OrderEventType, ExpectedType
<1>8. DronesOK'
  BY <1>1, DronesUnchanged DEF IInv
<1>9. AssignmentAgrees'
  BY <1>1, <1>4, <1>5, <1>6 DEF IInv, OrdersOK, AssignmentAgrees, Underway
<1> QED BY <1>7, <1>8, <1>9 DEF IInv

(***************************************************************************)
(* completeOrderForDrone frees the drone that has the order.               *)
(***************************************************************************)
LEMMA CompleteOrderKeeps ==
    ASSUME IInv, NEW d \in DroneId, NEW o \in OrderId,
           NEW st \in {"DELIVERED", "FAILED"}, NEW now \in Nat,
           CompleteOrderForDrone(d, o, st, now)
    PROVE  IInv'
<1> DEFINE row  == Completed(orders[o], st, now)
           type == IF st = "FAILED" THEN "order.failed" ELSE "order.delivered"
<1>1. /\ orders[o] # NULL
      /\ orders[o].assigned = d
      /\ orders[o].status = "PICKED_UP"
      /\ PutOrder(o, row, type, now)
      /\ drones[d] # NULL
      /\ PutDrone(d, Freed(drones[d]))
      /\ UNCHANGED droneEvents
  BY DEF CompleteOrderForDrone
<1>2. RowOK(orders[o])
  BY <1>1, OrderRowOK DEF IInv
<1>3. RowOK(row) /\ row.status = st
  BY <1>1, <1>2, CompletedOK
<1>4. type \in OrderEventType /\ type \in ExpectedType(row)
  BY <1>3 DEF OrderEventType, ExpectedType
<1> HIDE DEF row, type
<1>5. OrdersOK'
  BY <1>1, <1>3, <1>4, PutOrderOK DEF IInv
<1>6. GetOrCreateDrone(d) = drones[d] /\ drones[d] \in DroneRow
  BY <1>1, GetOrCreateDroneOK DEF IInv
<1>7. /\ Freed(drones[d]) \in DroneRow
      /\ Freed(drones[d]).status = drones[d].status
      /\ Freed(drones[d]).current = NULL
  BY <1>6, DroneRowsOK
<1>8. DronesOK'
  BY <1>1, <1>6, <1>7, PutDroneOK DEF IInv
<1>9. AssignmentAgrees'
  <2>1. drones[d].current = o
    BY <1>1 DEF IInv, AssignmentAgrees, Underway
  <2> QED BY <1>1, <1>3, <1>7, <2>1, PartedOK DEF PutOrder, PutDrone, Underway
<1> QED BY <1>5, <1>8, <1>9 DEF IInv

(***************************************************************************)
(* DroneMarkBroken: the drone's order, if it has one, is under way, so the *)
(* default branch of its switch is never taken.                            *)
(***************************************************************************)
LEMMA DroneMarkBrokenKeeps ==
    ASSUME IInv, NEW d \in DroneId, NEW now \in Nat, DroneMarkBroken(d, now)
    PROVE  IInv'
<1> DEFINE drone == GetOrCreateDrone(d)
           o     == drone.current
<1>1. drone \in DroneRow
  BY GetOrCreateDroneOK DEF IInv
<1>2. /\ Broken(drone) \in DroneRow
      /\ Broken(drone).status = "BROKEN"
      /\ Broken(drone).current = NULL
  BY <1>1, DroneRowsOK
<1>3. /\ PutDrone(d, Broken(drone))
      /\ PutDroneEvent(d, "drone.broken", Broken(drone), now)
  BY DEF DroneMarkBroken
<1>4. DronesOK'
  BY <1>2, <1>3, PutDroneEventOK DEF IInv, DroneEventType
<1>5. CASE o = NULL
  <2>1. UNCHANGED <<orders, orderEvents>>
    BY <1>5 DEF DroneMarkBroken
  <2>2. OrdersOK'
    BY <2>1, OrdersUnchanged DEF IInv
  <2>3. drones[d] # NULL => drones[d].current = NULL
    BY <1>5, GetOrCreateDroneOK DEF IInv
  <2>4. drones' = [drones EXCEPT ![d] = Broken(drone)]
    BY <1>3 DEF PutDrone
  <2>5. AssignmentAgrees'
    BY <1>2, <2>1, <2>3, <2>4, DomainAssumption
       DEF IInv, DronesOK, AssignmentAgrees
  <2> QED BY <1>4, <2>2, <2>5 DEF IInv
<1>6. CASE o # NULL
  <2>1. o \in OrderId /\ drone.location \in Opt(Location)
    BY <1>1, <1>6 DEF DroneRow, Opt
  <2>2. drones[d] # NULL /\ drone = drones[d]
    BY <1>6, GetOrCreateDroneOK DEF IInv
  <2> HIDE DEF drone
  <2>3. orders[o] # NULL /\ orders[o].status \in Underway
    BY <2>1, <2>2 DEF IInv, AssignmentAgrees
  <2> DEFINE row == AfterBreakdown(orders[o], drone.location)
  <2>4. PutOrder(o, row, BreakdownEventType(orders[o]), now)
    BY <1>6, <2>3 DEF DroneMarkBroken, drone
  <2>5. RowOK(orders[o])
    BY <2>1, <2>3, OrderRowOK DEF IInv
  <2>6. /\ RowOK(row)
        /\ row.status \in Reservable
        /\ BreakdownEventType(orders[o]) \in ExpectedType(row)
        /\ BreakdownEventType(orders[o]) \in OrderEventType
    BY <2>1, <2>3, <2>5, AfterBreakdownOK
  <2> HIDE DEF row
  <2>7. OrdersOK'
    BY <2>1, <2>4, <2>6, PutOrderOK DEF IInv
  <2>8. AssignmentAgrees'
    BY <1>2, <1>3, <2>1, <2>2, <2>4, <2>6, PartedOK
       DEF PutOrder, PutDrone, Underway, Reservable
  <2> QED BY <1>4, <2>7, <2>8 DEF IInv
<1> QED BY <1>5, <1>6

(***************************************************************************)
(* A drone row that keeps its current order keeps the tables in agreement. *)
(***************************************************************************)
LEMMA SameJobOK ==
    ASSUME IInv, NEW d \in DroneId, NEW row \in DroneRow,
           row.current = GetOrCreateDrone(d).current,
           PutDrone(d, row), UNCHANGED orders
    PROVE  AssignmentAgrees'
<1>1. row # NULL
  BY RowAssumption
<1>2. \A e \in DroneId : drones'[e] = IF e = d THEN row ELSE drones[e]
  BY DEF IInv, DronesOK, PutDrone
<1>3. /\ drones[d] # NULL => row.current = drones[d].current
      /\ drones[d] = NULL => row.current = NULL
  BY GetOrCreateDroneOK DEF IInv
<1> QED BY <1>1, <1>2, <1>3, DomainAssumption DEF IInv, AssignmentAgrees

(***************************************************************************)
(* DroneMarkFixed keeps the drone's order, which is NULL if it was broken. *)
(***************************************************************************)
LEMMA DroneMarkFixedKeeps ==
    ASSUME IInv, NEW d \in DroneId, NEW now \in Nat, DroneMarkFixed(d, now)
    PROVE  IInv'
<1> DEFINE drone == GetOrCreateDrone(d)
<1>1. /\ Fixed(drone) \in DroneRow
      /\ Fixed(drone).status = "ACTIVE"
      /\ Fixed(drone).current = drone.current
  BY GetOrCreateDroneOK, DroneRowsOK DEF IInv
<1>2. /\ PutDrone(d, Fixed(drone))
      /\ PutDroneEvent(d, "drone.fixed", Fixed(drone), now)
      /\ UNCHANGED <<orders, orderEvents>>
  BY DEF DroneMarkFixed
<1> HIDE DEF drone
<1>3. DronesOK'
  BY <1>1, <1>2, PutDroneEventOK DEF IInv, DroneEventType
<1>4. OrdersOK'
  BY <1>2, OrdersUnchanged DEF IInv
<1>5. AssignmentAgrees'
  BY <1>1, <1>2, SameJobOK DEF drone
<1> QED BY <1>3, <1>4, <1>5 DEF IInv

(***************************************************************************)
(* DroneHeartbeat changes only the drone's location.                       *)
(***************************************************************************)
LEMMA DroneHeartbeatKeeps ==
    ASSUME IInv, NEW d \in DroneId, NEW l \in Location, DroneHeartbeat(d, l)
    PROVE  IInv'
<1> DEFINE drone == GetOrCreateDrone(d)
<1>1. drone \in DroneRow /\ (drone.status = "BROKEN" => drone.current = NULL)
  BY GetOrCreateDroneOK DEF IInv
<1>2. /\ Located(drone, l) \in DroneRow
      /\ Located(drone, l).status = drone.status
      /\ Located(drone, l).current = drone.current
  BY <1>1, DroneRowsOK
<1>3. /\ PutDrone(d, Located(drone, l))
      /\ UNCHANGED <<orders, orderEvents, droneEvents>>
  BY DEF DroneHeartbeat
<1>4. DronesOK'
  BY <1>1, <1>2, <1>3, PutDroneOK DEF IInv
<1>5. OrdersOK'
  BY <1>3, OrdersUnchanged DEF IInv
<1>6. AssignmentAgrees'
  BY <1>2, <1>3, SameJobOK
<1> QED BY <1>4, <1>5, <1>6 DEF IInv

-------------------------------------------------------------------------------
(***************************************************************************)
(* Every step of the service is a step of one of its methods.  The action  *)
(* proofs below split on it.                                               *)
(***************************************************************************)
LEMMA NextCases ==
    ASSUME Next
    PROVE  \E now \in Nat :
             \/ \E o \in OrderId, u \in UserId, a, b \in Location :
                    SubmitOrder(u, o, a, b, now)
             \/ \E o \in OrderId, u \in UserId : WithdrawOrder(u, o, now)
             \/ \E o \in OrderId, a, b \in Opt(Location) :
                    AdminUpdateOrder(o, a, b, now)
             \/ \E d \in DroneId, o \in OrderId :
                    \/ DroneReserveJob(d, o, now)
                    \/ \E sent \in Nat : DronePickup(d, o, now, sent)
                    \/ \E st \in {"DELIVERED", "FAILED"} :
                           CompleteOrderForDrone(d, o, st, now)
             \/ \E d \in DroneId :
                    \/ DroneMarkBroken(d, now)
                    \/ DroneMarkFixed(d, now)
                    \/ \E l \in Location : DroneHeartbeat(d, l)
<1>1. PICK now \in Time : \/ \E o \in OrderId : OrderNext(o, now)
                          \/ \E d \in DroneId, o \in OrderId : JobNext(d, o, now)
                          \/ \E d \in DroneId : DroneNext(d, now)
  BY DEF Next
<1>2. now \in Nat /\ \A sent \in Time : sent \in Nat
  BY TimeAssumption
<1>3. CASE \E o \in OrderId : OrderNext(o, now)
  BY <1>2, <1>3 DEF OrderNext
<1>4. CASE \E d \in DroneId, o \in OrderId : JobNext(d, o, now)
  BY <1>2, <1>4 DEF JobNext
<1>5. CASE \E d \in DroneId : DroneNext(d, now)
  BY <1>2, <1>5 DEF DroneNext
<1> QED BY <1>1, <1>3, <1>4, <1>5

(***************************************************************************)
(* The empty database satisfies the invariant.                             *)
(***************************************************************************)
LEMMA InitOK == Init => IInv
BY DomainAssumption
   DEF Init, IInv, OrdersOK, DronesOK, Opt, AssignmentAgrees,
       AssignedExactlyWhileUnderway, TimestampsMatchStatus,
       OutboxMirrorsOrders, BrokenDronesCarryNothing, OutboxMirrorsDrones

(***************************************************************************)
(* The invariant is inductive.                                             *)
(***************************************************************************)
LEMMA NextOK == IInv /\ [Next]_vars => IInv'
<1> SUFFICES ASSUME IInv, [Next]_vars PROVE IInv'
  OBVIOUS
<1>1. CASE Next
  BY <1>1, NextCases, SubmitOrderKeeps, WithdrawOrderKeeps,
     AdminUpdateOrderKeeps, DroneReserveJobKeeps, DronePickupKeeps,
     CompleteOrderKeeps, DroneMarkBrokenKeeps, DroneMarkFixedKeeps,
     DroneHeartbeatKeeps
<1>2. CASE UNCHANGED vars
  <2>1. OrdersOK' /\ DronesOK'
    BY <1>2, OrdersUnchanged, DronesUnchanged DEF IInv, vars
  <2>2. AssignmentAgrees'
    BY <1>2 DEF IInv, AssignmentAgrees, vars
  <2> QED BY <2>1, <2>2 DEF IInv
<1> QED BY <1>1, <1>2

(***************************************************************************)
(* The service keeps the invariant for ever.                               *)
(***************************************************************************)
THEOREM Invariance == Spec => []IInv
BY InitOK, NextOK, PTL DEF Spec

(***************************************************************************)
(* Every reachable state of the tables and the outbox is well typed.       *)
(***************************************************************************)
THEOREM TypeCorrect == Spec => []TypeOK
<1>1. IInv => TypeOK
  BY DEF IInv, OrdersOK, DronesOK, TypeOK
<1> QED BY Invariance, <1>1, PTL

(***************************************************************************)
(* The orders and the drones table agree on who works on what: a drone has *)
(* at most one order under way, and an order at most one drone.            *)
(***************************************************************************)
THEOREM AssignmentCorrect == Spec => []AssignmentAgrees
<1>1. IInv => AssignmentAgrees
  BY DEF IInv
<1> QED BY Invariance, <1>1, PTL

(***************************************************************************)
(* The assignment column fits the status: a job can always be found again  *)
(* once its drone is gone.                                                 *)
(***************************************************************************)
THEOREM AssignmentFitsStatus == Spec => []AssignedExactlyWhileUnderway
<1>1. IInv => AssignedExactlyWhileUnderway
  BY DEF IInv, OrdersOK
<1> QED BY Invariance, <1>1, PTL

(***************************************************************************)
(* A broken drone never holds an order.                                    *)
(***************************************************************************)
THEOREM BrokenDronesIdle == Spec => []BrokenDronesCarryNothing
<1>1. IInv => BrokenDronesCarryNothing
  BY DEF IInv, DronesOK
<1> QED BY Invariance, <1>1, PTL

(***************************************************************************)
(* The last outbox row of every order and drone tells its committed state. *)
(***************************************************************************)
THEOREM OutboxTruthful == Spec => []OutboxMirrorsTables
<1>1. IInv => OutboxMirrorsTables
  BY DEF IInv, OrdersOK, DronesOK, OutboxMirrorsTables
<1> QED BY Invariance, <1>1, PTL

(***************************************************************************)
(* The timestamp columns tell how far each order got.                      *)
(***************************************************************************)
THEOREM TimestampsTruthful == Spec => []TimestampsMatchStatus
<1>1. IInv => TimestampsMatchStatus
  BY DEF IInv, OrdersOK
<1> QED BY Invariance, <1>1, PTL

-------------------------------------------------------------------------------
(* Action properties *)

(***************************************************************************)
(* The only order row a step writes is one that is not there yet or not in *)
(* a terminal status.                                                      *)
(***************************************************************************)
LEMMA TerminalStep ==
    ASSUME IInv, Next, NEW o \in OrderId, orders[o] # NULL,
           IsTerminal(orders[o].status)
    PROVE  orders'[o] = orders[o]
<1>1. ASSUME NEW p \in OrderId, NEW row, NEW type, NEW now,
             PutOrder(p, row, type, now), p # o
      PROVE  orders'[o] = orders[o]
  BY <1>1 DEF PutOrder, IInv, OrdersOK
<1>2. PICK now \in Nat :
         \/ \E p \in OrderId, u \in UserId, a, b \in Location :
                SubmitOrder(u, p, a, b, now)
         \/ \E p \in OrderId, u \in UserId : WithdrawOrder(u, p, now)
         \/ \E p \in OrderId, a, b \in Opt(Location) :
                AdminUpdateOrder(p, a, b, now)
         \/ \E d \in DroneId, p \in OrderId :
                \/ DroneReserveJob(d, p, now)
                \/ \E sent \in Nat : DronePickup(d, p, now, sent)
                \/ \E st \in {"DELIVERED", "FAILED"} :
                       CompleteOrderForDrone(d, p, st, now)
         \/ \E d \in DroneId :
                \/ DroneMarkBroken(d, now)
                \/ DroneMarkFixed(d, now)
                \/ \E l \in Location : DroneHeartbeat(d, l)
  BY NextCases
<1>3. CASE \E p \in OrderId, u \in UserId, a, b \in Location :
              SubmitOrder(u, p, a, b, now)
  BY <1>1, <1>3 DEF SubmitOrder
<1>4. CASE \E p \in OrderId, u \in UserId : WithdrawOrder(u, p, now)
  BY <1>1, <1>4 DEF WithdrawOrder, IsTerminal
<1>5. CASE \E p \in OrderId, a, b \in Opt(Location) :
              AdminUpdateOrder(p, a, b, now)
  BY <1>1, <1>5 DEF AdminUpdateOrder
<1>6. CASE \E d \in DroneId, p \in OrderId :
              \/ DroneReserveJob(d, p, now)
              \/ \E sent \in Nat : DronePickup(d, p, now, sent)
              \/ \E st \in {"DELIVERED", "FAILED"} :
                     CompleteOrderForDrone(d, p, st, now)
  BY <1>1, <1>6 DEF DroneReserveJob, DronePickup, CompleteOrderForDrone,
                    IsTerminal, Reservable
<1>7. CASE \E d \in DroneId : DroneMarkBroken(d, now)
  <2>1. PICK d \in DroneId : DroneMarkBroken(d, now)
    BY <1>7
  <2> DEFINE p == GetOrCreateDrone(d).current
  <2>2. p = NULL \/ p \in OrderId
    BY GetOrCreateDroneOK DEF IInv, DroneRow, Opt
  <2> QED BY <1>1, <2>1, <2>2 DEF DroneMarkBroken, IsTerminal, Underway
<1>8. CASE \E d \in DroneId : \/ DroneMarkFixed(d, now)
                              \/ \E l \in Location : DroneHeartbeat(d, l)
  BY <1>8 DEF DroneMarkFixed, DroneHeartbeat
<1> QED BY <1>2, <1>3, <1>4, <1>5, <1>6, <1>7, <1>8

(***************************************************************************)
(* No call ever changes a DELIVERED, FAILED or WITHDRAWN order.            *)
(***************************************************************************)
THEOREM TerminalOrdersAreFinal == Spec => TerminalIsFinal
<1> DEFINE A == \A o \in OrderId :
                   orders[o] # NULL /\ IsTerminal(orders[o].status)
                       => orders'[o] = orders[o]
<1>1. IInv /\ [Next]_vars => [A]_vars
  BY TerminalStep
<1> QED BY Invariance, <1>1, PTL DEF Spec, TerminalIsFinal

(***************************************************************************)
(* A step leaves an assigned order with its drone or without one.          *)
(***************************************************************************)
LEMMA OrderKeepsItsDrone ==
    ASSUME IInv, Next, NEW o \in OrderId, orders[o] # NULL,
           orders[o].assigned # NULL
    PROVE  orders'[o].assigned \in {orders[o].assigned, NULL}
<1>1. ASSUME NEW p \in OrderId, NEW row, NEW type, NEW now,
             PutOrder(p, row, type, now),
             p = o => row.assigned \in {orders[o].assigned, NULL}
      PROVE  orders'[o].assigned \in {orders[o].assigned, NULL}
  BY <1>1 DEF PutOrder, IInv, OrdersOK
<1>2. RowOK(orders[o])
  BY OrderRowOK DEF IInv
<1>3. PICK now \in Nat :
         \/ \E p \in OrderId, u \in UserId, a, b \in Location :
                SubmitOrder(u, p, a, b, now)
         \/ \E p \in OrderId, u \in UserId : WithdrawOrder(u, p, now)
         \/ \E p \in OrderId, a, b \in Opt(Location) :
                AdminUpdateOrder(p, a, b, now)
         \/ \E e \in DroneId, p \in OrderId :
                \/ DroneReserveJob(e, p, now)
                \/ \E sent \in Nat : DronePickup(e, p, now, sent)
                \/ \E st \in {"DELIVERED", "FAILED"} :
                       CompleteOrderForDrone(e, p, st, now)
         \/ \E e \in DroneId :
                \/ DroneMarkBroken(e, now)
                \/ DroneMarkFixed(e, now)
                \/ \E l \in Location : DroneHeartbeat(e, l)
  BY NextCases
<1>4. CASE \E p \in OrderId, u \in UserId, a, b \in Location :
              SubmitOrder(u, p, a, b, now)
  BY <1>1, <1>4 DEF SubmitOrder
<1>5. CASE \E p \in OrderId, u \in UserId : WithdrawOrder(u, p, now)
  <2>1. PICK p \in OrderId, u \in UserId : WithdrawOrder(u, p, now)
    BY <1>5
  <2>2. /\ PutOrder(p, Withdrawn(orders[p]), "order.withdrawn", now)
        /\ orders[p].status \in {"CREATED", "RESERVED"}
    BY <2>1 DEF WithdrawOrder
  <2> QED BY <1>1, <1>2, <2>2, WithdrawnOK
<1>6. CASE \E p \in OrderId, a, b \in Opt(Location) :
              AdminUpdateOrder(p, a, b, now)
  <2>1. PICK p \in OrderId, a \in Opt(Location), b \in Opt(Location) :
           AdminUpdateOrder(p, a, b, now)
    BY <1>6
  <2>2. PutOrder(p, Readdressed(orders[p], a, b), "order.updated", now)
    BY <2>1 DEF AdminUpdateOrder
  <2> QED BY <1>1, <1>2, <2>2, ReaddressedOK
<1>7. CASE \E e \in DroneId, p \in OrderId : DroneReserveJob(e, p, now)
  BY <1>1, <1>7 DEF DroneReserveJob
<1>8. CASE \E e \in DroneId, p \in OrderId, sent \in Nat :
              DronePickup(e, p, now, sent)
  <2>1. PICK e \in DroneId, p \in OrderId, sent \in Nat :
           DronePickup(e, p, now, sent)
    BY <1>8
  <2>2. /\ PutOrder(p, PickedUp(orders[p], now), "order.picked_up", sent)
        /\ orders[p].status \in {"RESERVED", "HANDOFF_REQUESTED"}
    BY <2>1 DEF DronePickup
  <2> QED BY <1>1, <1>2, <2>2, PickedUpOK
<1>9. CASE \E e \in DroneId, p \in OrderId, st \in {"DELIVERED", "FAILED"} :
              CompleteOrderForDrone(e, p, st, now)
  <2>1. PICK e \in DroneId, p \in OrderId, st \in {"DELIVERED", "FAILED"} :
           CompleteOrderForDrone(e, p, st, now)
    BY <1>9
  <2>2. /\ orders[p].status = "PICKED_UP"
        /\ PutOrder(p, Completed(orders[p], st, now),
                    IF st = "FAILED" THEN "order.failed" ELSE "order.delivered",
                    now)
    BY <2>1 DEF CompleteOrderForDrone
  <2> QED BY <1>1, <1>2, <2>2, CompletedOK
<1>10. CASE \E e \in DroneId : DroneMarkBroken(e, now)
  <2>1. PICK e \in DroneId : DroneMarkBroken(e, now)
    BY <1>10
  <2> DEFINE drone == GetOrCreateDrone(e)
             p     == drone.current
  <2>2. (p = NULL \/ p \in OrderId) /\ drone.location \in Opt(Location)
    BY GetOrCreateDroneOK DEF IInv, DroneRow, Opt
  <2>3. CASE p # NULL /\ orders[p].status \in Underway
    <3>1. PutOrder(p, AfterBreakdown(orders[p], drone.location),
                   BreakdownEventType(orders[p]), now)
      BY <2>1, <2>3 DEF DroneMarkBroken
    <3>2. p = o => AfterBreakdown(orders[p], drone.location).assigned = NULL
      BY <1>2, <2>2, <2>3, AfterBreakdownOK
    <3> HIDE DEF drone
    <3> QED BY <1>1, <2>2, <2>3, <3>1, <3>2
  <2>4. CASE ~(p # NULL /\ orders[p].status \in Underway)
    BY <2>1, <2>4 DEF DroneMarkBroken
  <2> QED BY <2>3, <2>4
<1>11. CASE \E e \in DroneId : \/ DroneMarkFixed(e, now)
                               \/ \E l \in Location : DroneHeartbeat(e, l)
  BY <1>11 DEF DroneMarkFixed, DroneHeartbeat
<1> QED BY <1>3, <1>4, <1>5, <1>6, <1>7, <1>8, <1>9, <1>10, <1>11

(***************************************************************************)
(* A step leaves a busy drone with its order or without one.               *)
(***************************************************************************)
LEMMA DroneKeepsItsOrder ==
    ASSUME IInv, Next, NEW d \in DroneId, drones[d] # NULL,
           drones[d].current # NULL
    PROVE  drones'[d].current \in {drones[d].current, NULL}
<1>1. ASSUME NEW e \in DroneId, NEW row, PutDrone(e, row),
             e = d => row.current \in {drones[d].current, NULL}
      PROVE  drones'[d].current \in {drones[d].current, NULL}
  BY <1>1 DEF PutDrone, IInv, DronesOK
<1>2. GetOrCreateDrone(d) = drones[d] /\ drones[d] \in DroneRow
  BY GetOrCreateDroneOK DEF IInv
<1>3. PICK now \in Nat :
         \/ \E p \in OrderId, u \in UserId, a, b \in Location :
                SubmitOrder(u, p, a, b, now)
         \/ \E p \in OrderId, u \in UserId : WithdrawOrder(u, p, now)
         \/ \E p \in OrderId, a, b \in Opt(Location) :
                AdminUpdateOrder(p, a, b, now)
         \/ \E e \in DroneId, p \in OrderId :
                \/ DroneReserveJob(e, p, now)
                \/ \E sent \in Nat : DronePickup(e, p, now, sent)
                \/ \E st \in {"DELIVERED", "FAILED"} :
                       CompleteOrderForDrone(e, p, st, now)
         \/ \E e \in DroneId :
                \/ DroneMarkBroken(e, now)
                \/ DroneMarkFixed(e, now)
                \/ \E l \in Location : DroneHeartbeat(e, l)
  BY NextCases
<1>4. CASE \/ \E p \in OrderId, u \in UserId, a, b \in Location :
                  SubmitOrder(u, p, a, b, now)
           \/ \E p \in OrderId, a, b \in Opt(Location) :
                  AdminUpdateOrder(p, a, b, now)
           \/ \E e \in DroneId, p \in OrderId, sent \in Nat :
                  DronePickup(e, p, now, sent)
  BY <1>4 DEF SubmitOrder, AdminUpdateOrder, DronePickup
<1>5. CASE \E p \in OrderId, u \in UserId : WithdrawOrder(u, p, now)
  <2>1. PICK p \in OrderId, u \in UserId : WithdrawOrder(u, p, now)
    BY <1>5
  <2>2. orders[p] # NULL
    BY <2>1 DEF WithdrawOrder
  <2>3. orders[p].assigned \in Opt(DroneId)
    BY <2>2, OrderRowOK DEF IInv, RowOK, OrderRow
  <2>4. CASE orders[p].status = "RESERVED" /\ orders[p].assigned # NULL
    <3>1. PutDrone(orders[p].assigned, Freed(drones[orders[p].assigned]))
      BY <2>1, <2>4 DEF WithdrawOrder
    <3> QED BY <1>1, <1>2, <2>3, <2>4, <3>1, DroneRowsOK DEF Opt
  <2>5. CASE ~(orders[p].status = "RESERVED" /\ orders[p].assigned # NULL)
    BY <2>1, <2>5 DEF WithdrawOrder
  <2> QED BY <2>4, <2>5
<1>6. CASE \E e \in DroneId, p \in OrderId : DroneReserveJob(e, p, now)
  <2>1. PICK e \in DroneId, p \in OrderId : DroneReserveJob(e, p, now)
    BY <1>6
  <2>2. e # d /\ PutDrone(e, Tasked(GetOrCreateDrone(e), p))
    BY <1>2, <2>1 DEF DroneReserveJob
  <2> QED BY <1>1, <2>2
<1>7. CASE \E e \in DroneId, p \in OrderId, st \in {"DELIVERED", "FAILED"} :
              CompleteOrderForDrone(e, p, st, now)
  BY <1>1, <1>2, <1>7, DroneRowsOK DEF CompleteOrderForDrone
<1>8. CASE \E e \in DroneId : DroneMarkBroken(e, now)
  BY <1>1, <1>2, <1>8, DroneRowsOK DEF DroneMarkBroken
<1>9. CASE \E e \in DroneId : DroneMarkFixed(e, now)
  BY <1>1, <1>2, <1>9, DroneRowsOK DEF DroneMarkFixed
<1>10. CASE \E e \in DroneId, l \in Location : DroneHeartbeat(e, l)
  BY <1>1, <1>2, <1>10, DroneRowsOK DEF DroneHeartbeat
<1> QED BY <1>3, <1>4, <1>5, <1>6, <1>7, <1>8, <1>9, <1>10

(***************************************************************************)
(* No call takes an order from one drone to another or gives a busy drone  *)
(* a second order: both go through the queue of waiting orders.            *)
(***************************************************************************)
THEOREM HandsChangeThroughQueue == Spec => ChangesHandsThroughQueue
<1> DEFINE A == /\ \A o \in OrderId :
                      orders[o] # NULL /\ orders[o].assigned # NULL
                          => orders'[o].assigned \in {orders[o].assigned, NULL}
                /\ \A d \in DroneId :
                      drones[d] # NULL /\ drones[d].current # NULL
                          => drones'[d].current \in {drones[d].current, NULL}
<1>1. IInv /\ [Next]_vars => [A]_vars
  BY OrderKeepsItsDrone, DroneKeepsItsOrder
<1> QED BY Invariance, <1>1, PTL DEF Spec, ChangesHandsThroughQueue
===============================================================================
