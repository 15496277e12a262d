------------------------------ MODULE ViewsProofs ------------------------------
(***************************************************************************)
(* Proofs about Views for any number of readers and any tables: the calls  *)
(* of the read path, which see an order and its drone at different times,  *)
(* never meet a missing row, and the two switches of eta.go agree.         *)
(***************************************************************************)
EXTENDS Views, DeliveryProofs

-------------------------------------------------------------------------------
(* The inductive invariant *)

(* Every drone an order row names, finished orders included, has a row. *)
AssignedDronesExist ==
    \A o \in OrderId :
        orders[o] # NULL /\ orders[o].assigned # NULL
            => drones[orders[o].assigned] # NULL

Calls == [op: {"none", "view", "list", "current", "heartbeat"},
          pc: {"idle", "order", "build", "done"}, speed: Int,
          drone: Opt(DroneId), order: Opt(OrderId),
          todo: SUBSET (OrderId \X OrderRow), views: SUBSET View]

(* A row that has been read leads to a drone of the table ds. *)
LeadsTo(row, ds) ==
    /\ row.status \in Underway => row.assigned # NULL
    /\ row.assigned # NULL => ds[row.assigned] # NULL

(* What a reader has read still leads to rows of the tables os and ds. *)
CallOK(c, os, ds) ==
    /\ c \in Calls
    /\ c.pc = "build" <=> c.todo # {}
    /\ c.pc = "order" =>
          c.drone # NULL /\ c.order # NULL /\ os[c.order] # NULL
          /\ ds[c.drone] # NULL
    /\ \A p \in c.todo : LeadsTo(p[2], ds)
    /\ \A v \in c.views :
          /\ v.from = IF c.speed > 0 THEN v.location ELSE NULL
          /\ v.order.assigned # NULL => v.drone # NULL

ViewInv ==
    /\ IInv
    /\ AssignedDronesExist
    /\ DOMAIN call = Reader
    /\ \A r \in Reader : CallOK(call[r], orders, drones)

-------------------------------------------------------------------------------
(* The tables *)

(* What a step of the service may do to the rows that others refer to. *)
RowsStay ==
    /\ \A o \in OrderId :
          orders'[o] # orders[o] =>
              /\ orders'[o] # NULL
              /\ orders'[o].assigned # NULL =>
                    \/ orders'[o].status \in Underway
                    \/ orders[o] # NULL /\ orders'[o].assigned = orders[o].assigned
    /\ \A d \in DroneId : drones[d] # NULL => drones'[d] # NULL

(***************************************************************************)
(* No method deletes a row, and the only way for an order to get a drone   *)
(* is the reservation by that drone.                                       *)
(***************************************************************************)
LEMMA NextRowsStay ==
    ASSUME IInv, Next
    PROVE  RowsStay
<1> DEFINE OrderStays(o) ==
              orders'[o] # orders[o] =>
                  /\ orders'[o] # NULL
                  /\ orders'[o].assigned # NULL =>
                        \/ orders'[o].status \in Underway
                        \/ orders[o] # NULL /\ orders'[o].assigned = orders[o].assigned
           DroneStays(d) == drones[d] # NULL => drones'[d] # NULL
<1>1. ASSUME NEW p \in OrderId, NEW row, NEW type, NEW now,
             PutOrder(p, row, type, now), RowOK(row),
             row.assigned # NULL =>
                \/ row.status \in Underway
                \/ orders[p] # NULL /\ row.assigned = orders[p].assigned,
             NEW o \in OrderId
      PROVE  OrderStays(o)
  BY <1>1, RowAssumption DEF PutOrder, IInv, OrdersOK, RowOK
<1>2. ASSUME NEW e \in DroneId, NEW row \in DroneRow, PutDrone(e, row),
             NEW d \in DroneId
      PROVE  DroneStays(d)
  BY <1>2, RowAssumption DEF PutDrone, IInv, DronesOK
<1>3. /\ \A o \in OrderId : orders[o] # NULL => RowOK(orders[o])
      /\ \A d \in DroneId : /\ GetOrCreateDrone(d) \in DroneRow
                            /\ drones[d] # NULL => drones[d] \in DroneRow
  BY OrderRowOK, GetOrCreateDroneOK DEF IInv
<1> HIDE DEF OrderStays, DroneStays
<1>4. ASSUME UNCHANGED orders, NEW o \in OrderId
      PROVE  OrderStays(o)
  BY <1>4 DEF OrderStays
<1>5. ASSUME UNCHANGED drones, NEW d \in DroneId
      PROVE  DroneStays(d)
  BY <1>5 DEF DroneStays
<1>6. PICK now \in Nat :
         \/ \E p \in OrderId, u \in UserId, a, b \in Location :
                SubmitOrder(u, p, a, b, now)
         \/ \E p \in OrderId, u \in UserId : WithdrawOrder(u, p, now)
         \/ \E p \in OrderId, a, b \in Opt(Location) :
                AdminUpdateOrder(p, a, b, now)
         \/ \E e \in DroneId, p \in OrderId :
                \/ DroneReserveJob(e, p, now)
                \/ \E sent \in Nat : DronePickup(e, p, now, sent)
                \/ \E st \in {"DELIVERED", "FAILED"} :
                       CompleteOrderForDrone(e, p, st, now)
         \/ \E e \in DroneId :
                \/ DroneMarkBroken(e, now)
                \/ DroneMarkFixed(e, now)
                \/ \E l \in Location : DroneHeartbeat(e, l)
  BY NextCases
<1>7. ASSUME NEW p \in OrderId, NEW u \in UserId, NEW a \in Location,
             NEW b \in Location, SubmitOrder(u, p, a, b, now)
      PROVE  /\ \A o \in OrderId : OrderStays(o)
             /\ \A d \in DroneId : DroneStays(d)
  BY <1>1, <1>5, <1>7, NewOrderOK DEF SubmitOrder
<1>8. ASSUME NEW p \in OrderId, NEW u \in UserId, WithdrawOrder(u, p, now)
      PROVE  /\ \A o \in OrderId : OrderStays(o)
             /\ \A d \in DroneId : DroneStays(d)
  <2>1. /\ PutOrder(p, Withdrawn(orders[p]), "order.withdrawn", now)
        /\ orders[p] # NULL
        /\ orders[p].status \in {"CREATED", "RESERVED"}
    BY <1>8 DEF WithdrawOrder
  <2>2. \A o \in OrderId : OrderStays(o)
    BY <2>1, <1>1, <1>3, WithdrawnOK
  <2>3. CASE orders[p].status = "RESERVED" /\ orders[p].assigned # NULL
    <3>1. /\ drones[orders[p].assigned] # NULL
          /\ PutDrone(orders[p].assigned, Freed(drones[orders[p].assigned]))
      BY <1>8, <2>3 DEF WithdrawOrder
    <3>2. orders[p].assigned \in DroneId
      BY <2>1, <2>3, <1>3 DEF RowOK, OrderRow, Opt
    <3>3. Freed(drones[orders[p].assigned]) \in DroneRow
      BY <3>1, <3>2, <1>3, DroneRowsOK
    <3> QED
      BY <2>2, <3>1, <3>2, <3>3, <1>2 DEF DroneStays
  <2>4. CASE ~(orders[p].status = "RESERVED" /\ orders[p].assigned # NULL)
    BY <2>2, <2>4, <1>5, <1>8 DEF WithdrawOrder
  <2> QED
    BY <2>3, <2>4
<1>9. ASSUME NEW p \in OrderId, NEW a \in Opt(Location), NEW b \in Opt(Location),
             AdminUpdateOrder(p, a, b, now)
      PROVE  /\ \A o \in OrderId : OrderStays(o)
             /\ \A d \in DroneId : DroneStays(d)
  BY <1>1, <1>3, <1>5, <1>9, ReaddressedOK DEF AdminUpdateOrder
<1>10. ASSUME NEW e \in DroneId, NEW p \in OrderId, DroneReserveJob(e, p, now)
       PROVE  /\ \A o \in OrderId : OrderStays(o)
              /\ \A d \in DroneId : DroneStays(d)
  <2>1. \A o \in OrderId : OrderStays(o)
    BY <1>1, <1>3, <1>10, ReservedOK DEF DroneReserveJob, Underway
  <2>2. \A d \in DroneId : DroneStays(d)
    BY <1>2, <1>3, <1>10, DroneRowsOK DEF DroneReserveJob, DroneStays
  <2> QED
    BY <2>1, <2>2
<1>11. ASSUME NEW e \in DroneId, NEW p \in OrderId, NEW sent \in Nat,
              DronePickup(e, p, now, sent)
       PROVE  /\ \A o \in OrderId : OrderStays(o)
              /\ \A d \in DroneId : DroneStays(d)
  <2>1. orders[p].assigned # NULL
    BY <1>11, DomainAssumption DEF DronePickup
  <2> QED
    BY <1>1, <1>3, <1>5, <1>11, <2>1, PickedUpOK DEF DronePickup, Underway
<1>12. ASSUME NEW e \in DroneId, NEW p \in OrderId, NEW st \in {"DELIVERED", "FAILED"},
              CompleteOrderForDrone(e, p, st, now)
       PROVE  /\ \A o \in OrderId : OrderStays(o)
              /\ \A d \in DroneId : DroneStays(d)
  <2>1. \A o \in OrderId : OrderStays(o)
    BY <1>1, <1>3, <1>12, CompletedOK DEF CompleteOrderForDrone
  <2>2. \A d \in DroneId : DroneStays(d)
    BY <1>2, <1>3, <1>12, DroneRowsOK DEF CompleteOrderForDrone, DroneStays
  <2> QED
    BY <2>1, <2>2
<1>13. ASSUME NEW e \in DroneId, DroneMarkBroken(e, now)
       PROVE  /\ \A o \in OrderId : OrderStays(o)
              /\ \A d \in DroneId : DroneStays(d)
  <2> DEFINE drone == GetOrCreateDrone(e)
             p     == drone.current
  <2>1. drone \in DroneRow /\ (p = NULL \/ p \in OrderId) /\ drone.location \in Opt(Location)
    BY <1>3 DEF DroneRow, Opt
  <2>2. PutDrone(e, Broken(drone)) /\ (p # NULL => orders[p] # NULL)
    BY <1>13 DEF DroneMarkBroken
  <2>3. \A d \in DroneId : DroneStays(d)
    BY <1>2, <2>1, <2>2, DroneRowsOK DEF DroneStays
  <2>4. CASE p # NULL /\ orders[p].status \in Underway
    <3>1. PutOrder(p, AfterBreakdown(orders[p], drone.location),
                   BreakdownEventType(orders[p]), now)
      BY <1>13, <2>4 DEF DroneMarkBroken
    <3>2. /\ RowOK(AfterBreakdown(orders[p], drone.location))
          /\ AfterBreakdown(orders[p], drone.location).assigned = NULL
      BY <1>3, <2>1, <2>2, <2>4, AfterBreakdownOK
    <3> HIDE DEF drone
    <3> QED
      BY <1>1, <2>1, <2>3, <2>4, <3>1, <3>2
  <2>5. CASE ~(p # NULL /\ orders[p].status \in Underway)
    BY <1>13, <2>5, <2>3, <1>4 DEF DroneMarkBroken
  <2> QED
    BY <2>4, <2>5
<1>14. ASSUME NEW e \in DroneId,
              DroneMarkFixed(e, now) \/ \E l \in Location : DroneHeartbeat(e, l)
       PROVE  /\ \A o \in OrderId : OrderStays(o)
              /\ \A d \in DroneId : DroneStays(d)
  <2>1. UNCHANGED orders
    BY <1>14 DEF DroneMarkFixed, DroneHeartbeat
  <2>2. \E row \in DroneRow : PutDrone(e, row)
    BY <1>3, <1>14, DroneRowsOK DEF DroneMarkFixed, DroneHeartbeat
  <2> QED
    BY <1>2, <1>4, <2>1, <2>2 DEF DroneStays
<1>15. /\ \A o \in OrderId : OrderStays(o)
       /\ \A d \in DroneId : DroneStays(d)
  BY <1>6, <1>7, <1>8, <1>9, <1>10, <1>11, <1>12, <1>13, <1>14
<1> QED
  BY <1>15 DEF RowsStay, OrderStays, DroneStays

(***************************************************************************)
(* A heartbeat writes the row of its own drone and nothing else.           *)
(***************************************************************************)
LEMMA HeartbeatRowsStay ==
    ASSUME IInv, NEW e \in DroneId, NEW l \in Location, DroneHeartbeat(e, l)
    PROVE  RowsStay
<1>1. Located(GetOrCreateDrone(e), l) \in DroneRow
  BY GetOrCreateDroneOK, DroneRowsOK DEF IInv
<1>2. Located(GetOrCreateDrone(e), l) # NULL
  BY <1>1, RowAssumption
<1> QED
  BY <1>2 DEF RowsStay, DroneHeartbeat, PutDrone, IInv, DronesOK

(***************************************************************************)
(* Rows that stay keep every reference to a drone good.                    *)
(***************************************************************************)
LEMMA DronesStillExist ==
    ASSUME IInv, IInv', AssignedDronesExist, RowsStay
    PROVE  AssignedDronesExist'
<1> SUFFICES ASSUME NEW o \in OrderId, orders'[o] # NULL, orders'[o].assigned # NULL
             PROVE  drones'[orders'[o].assigned] # NULL
  BY DEF AssignedDronesExist
<1>1. orders'[o] \in OrderRow
  BY DEF IInv, OrdersOK, Opt
<1>2. orders'[o].assigned \in DroneId
  BY <1>1 DEF OrderRow, Opt
<1>3. CASE orders'[o].status \in Underway
  BY <1>2, <1>3 DEF IInv, AssignmentAgrees
<1>4. CASE orders[o] # NULL /\ orders'[o].assigned = orders[o].assigned
  BY <1>2, <1>4 DEF AssignedDronesExist, RowsStay
<1>5. CASE orders'[o] = orders[o]
  BY <1>2, <1>5 DEF AssignedDronesExist, RowsStay
<1> QED
  BY <1>3, <1>4, <1>5 DEF RowsStay

(***************************************************************************)
(* And what a reader has read.                                             *)
(***************************************************************************)
LEMMA CallsKept ==
    ASSUME RowsStay, NEW c, CallOK(c, orders, drones)
    PROVE  CallOK(c, orders', drones')
<1>1. c \in Calls /\ c.order \in Opt(OrderId) /\ c.todo \subseteq OrderId \X OrderRow
  BY DEF CallOK, Calls
<1>2. c.pc = "order" => orders'[c.order] # NULL /\ drones'[c.drone] # NULL
  BY <1>1 DEF CallOK, Calls, RowsStay, Opt
<1>3. ASSUME NEW p \in c.todo
      PROVE  LeadsTo(p[2], drones')
  <2>1. p[2] \in OrderRow
    BY <1>1
  <2>2. p[2].assigned # NULL => p[2].assigned \in DroneId
    BY <2>1 DEF OrderRow, Opt
  <2> QED
    BY <2>2 DEF CallOK, RowsStay, LeadsTo
<1> QED
  BY <1>1, <1>2, <1>3 DEF CallOK

-------------------------------------------------------------------------------
(* The calls *)

(***************************************************************************)
(* A reader that is idle has read nothing.                                 *)
(***************************************************************************)
LEMMA NoCallOK ==
    ASSUME NEW os, NEW ds
    PROVE  CallOK(NoCall, os, ds)
BY DEF CallOK, Calls, NoCall, Opt

(***************************************************************************)
(* A call that has just begun has built no view.                           *)
(***************************************************************************)
LEMMA StartOK ==
    ASSUME NEW op \in {"view", "list", "current", "heartbeat"},
           NEW pc \in {"order", "build", "done"},
           NEW d \in Opt(DroneId), NEW o \in Opt(OrderId),
           NEW todo \in SUBSET (OrderId \X OrderRow),
           pc = "build" <=> todo # {},
           NEW os, NEW ds,
           pc = "order" =>
               o # NULL /\ os[o] # NULL /\ d # NULL /\ ds[d] # NULL,
           NEW speed \in Int,
           \A p \in todo : LeadsTo(p[2], ds)
    PROVE  CallOK([NoCall EXCEPT !.op = op, !.pc = pc, !.speed = speed,
                                 !.drone = d, !.order = o, !.todo = todo],
                  os, ds)
<1> DEFINE c == [NoCall EXCEPT !.op = op, !.pc = pc, !.speed = speed,
                               !.drone = d, !.order = o, !.todo = todo]
<1>1. NoCall \in Calls /\ NoCall.views = {}
  BY DEF Calls, NoCall, Opt
<1>2. /\ c \in Calls
      /\ c.pc = pc /\ c.order = o /\ c.todo = todo /\ c.views = {}
      /\ c.drone = d
  BY <1>1 DEF Calls
<1> HIDE DEF c
<1>3. CallOK(c, os, ds)
  BY <1>2 DEF CallOK
<1> QED
  BY <1>3 DEF c

(***************************************************************************)
(* The two switches of eta.go, for any order row and any drone row read    *)
(* with it or not: the same place, if there is a speed.                    *)
(***************************************************************************)
LEMMA SwitchesAgree ==
    ASSUME NEW row \in OrderRow, NEW drone \in Opt(DroneRow), NEW speed \in Int
    PROVE  /\ CurrentLocation(row, drone) \in Opt(Location)
           /\ ComputeETA(row, drone, speed) =
                 IF speed > 0 THEN CurrentLocation(row, drone) ELSE NULL
<1>1. /\ row.status \in OrderStatus
      /\ row.origin \in Location
      /\ row.handoff \in Opt(Location)
  BY DEF OrderRow
<1>2. DroneLocation(drone) \in Opt(Location)
  BY DEF DroneLocation, DroneRow, Opt
<1>3. PickupPlace(row) \in Opt(Location)
  BY <1>1 DEF PickupPlace, Opt
<1> HIDE DEF DroneLocation, PickupPlace
<1> QED
  BY <1>1, <1>2, <1>3 DEF ComputeETA, CurrentLocation, OrderStatus, IsTerminal, Opt

(***************************************************************************)
(* Building a view takes one row and reads its drone, which is there.      *)
(***************************************************************************)
LEMMA BuildOK ==
    ASSUME IInv, NEW c, CallOK(c, orders, drones), NEW p \in c.todo,
           NEW view,
           view = LET row   == p[2]
                      drone == IF row.assigned = NULL THEN NULL
                               ELSE drones[row.assigned]
                  IN  [id |-> p[1], order |-> row, drone |-> drone,
                       location |-> CurrentLocation(row, drone),
                       from |-> ComputeETA(row, drone, c.speed)]
    PROVE  CallOK([c EXCEPT !.views = @ \cup {view}, !.todo = @ \ {p},
                            !.pc = IF c.todo = {p} THEN "done" ELSE @],
                  orders, drones)
<1> DEFINE row   == p[2]
           drone == IF row.assigned = NULL THEN NULL ELSE drones[row.assigned]
<1>1. c \in Calls /\ p[1] \in OrderId /\ row \in OrderRow /\ c.pc = "build"
  BY DEF CallOK, Calls
<1>2. row.assigned = NULL \/ row.assigned \in DroneId
  BY <1>1 DEF OrderRow, Opt
<1>3. drone \in Opt(DroneRow)
  BY <1>2 DEF IInv, DronesOK, Opt
<1>4. row.assigned # NULL => drone # NULL
  BY DEF CallOK, LeadsTo
<1>5. /\ CurrentLocation(row, drone) \in Opt(Location)
      /\ ComputeETA(row, drone, c.speed) =
            IF c.speed > 0 THEN CurrentLocation(row, drone) ELSE NULL
  <2>1. c.speed \in Int
    BY <1>1 DEF Calls
  <2> QED BY <1>1, <1>3, <2>1, SwitchesAgree
<1>6. view = [id |-> p[1], order |-> row, drone |-> drone,
              location |-> CurrentLocation(row, drone),
              from |-> ComputeETA(row, drone, c.speed)]
  OBVIOUS
<1> HIDE DEF row, drone
<1>7. /\ view \in View
      /\ view.from = IF c.speed > 0 THEN view.location ELSE NULL
      /\ view.order.assigned # NULL => view.drone # NULL
  BY <1>1, <1>3, <1>4, <1>5, <1>6 DEF View, Opt
<1> DEFINE new == [c EXCEPT !.views = @ \cup {view}, !.todo = @ \ {p},
                            !.pc = IF c.todo = {p} THEN "done" ELSE @]
<1>8. /\ new \in Calls
      /\ new.views = c.views \cup {view} /\ new.speed = c.speed
      /\ new.todo = c.todo \ {p}
      /\ new.pc = IF c.todo = {p} THEN "done" ELSE c.pc
  BY <1>1, <1>7 DEF Calls
<1> HIDE DEF new
<1>9. CallOK(new, orders, drones)
  BY <1>1, <1>7, <1>8 DEF CallOK
<1> QED
  BY <1>9 DEF new

(***************************************************************************)
(* A step of one reader, with a table step that keeps the rows, keeps the  *)
(* invariant if the reader's own call comes out right.                     *)
(***************************************************************************)
LEMMA ReaderStep ==
    ASSUME ViewInv, IInv', RowsStay, NEW r \in Reader, NEW c,
           call' = [call EXCEPT ![r] = c],
           CallOK(c, orders', drones')
    PROVE  ViewInv'
<1>1. AssignedDronesExist'
  BY DronesStillExist DEF ViewInv
<1>2. DOMAIN call' = Reader
  BY DEF ViewInv
<1>3. \A s \in Reader : call'[s] = IF s = r THEN c ELSE call[s]
  BY DEF ViewInv
<1>4. ASSUME NEW s \in Reader
      PROVE  CallOK(call'[s], orders', drones')
  <2>1. CASE s = r
    BY <1>3, <2>1
  <2>2. CASE s # r
    <3>1. CallOK(call[s], orders', drones')
      BY CallsKept DEF ViewInv
    <3> QED
      BY <1>3, <2>2, <3>1
  <2> QED
    BY <2>1, <2>2
<1> QED
  BY <1>1, <1>2, <1>4 DEF ViewInv

(***************************************************************************)
(* Where the tables do not change, the rows stay.                          *)
(***************************************************************************)
LEMMA QuietTables ==
    ASSUME IInv, UNCHANGED vars
    PROVE  RowsStay /\ IInv' /\ orders' = orders /\ drones' = drones
<1>1. IInv'
  BY NextOK
<1> QED
  BY <1>1 DEF RowsStay, vars

(***************************************************************************)
(* A row that is read now names a drone that is there now.                 *)
(***************************************************************************)
LEMMA RowsReadOK ==
    ASSUME ViewInv, NEW S \in SUBSET OrderId, \A o \in S : orders[o] # NULL
    PROVE  LET todo == {<<o, orders[o]>> : o \in S}
           IN  /\ todo \in SUBSET (OrderId \X OrderRow)
               /\ \A p \in todo : LeadsTo(p[2], drones)
<1>1. \A o \in S : orders[o] \in OrderRow
  BY DEF ViewInv, IInv, OrdersOK, Opt
<1>2. \A o \in S : LeadsTo(orders[o], drones)
  BY DEF ViewInv, IInv, OrdersOK, AssignedExactlyWhileUnderway,
         AssignedDronesExist, LeadsTo
<1> QED
  BY <1>1, <1>2

(***************************************************************************)
(* The calls that begin: GetOrderView, AdminListOrders, DroneCurrentOrder  *)
(* and the answer of DroneHeartbeat.                                       *)
(***************************************************************************)
LEMMA BeginKeeps ==
    ASSUME ViewInv, NEW r \in Reader,
           \/ \E u \in UserId, isAdmin \in BOOLEAN, o \in OrderId :
                  GetOrderView(r, u, isAdmin, o)
           \/ \E st \in Opt(OrderStatus) : AdminListOrders(r, st)
           \/ \E d \in DroneId : DroneCurrentOrder(r, d)
           \/ \E d \in DroneId, l \in Location : HeartbeatAndStatus(r, d, l)
    PROVE  ViewInv'
<1> USE DEF ViewInv
<1>1. ASSUME NEW u \in UserId, NEW isAdmin \in BOOLEAN, NEW o \in OrderId,
             GetOrderView(r, u, isAdmin, o)
      PROVE  ViewInv'
  <2> DEFINE todo == {<<x, orders[x]>> : x \in {o}}
             c(v) == [NoCall EXCEPT !.op = "view", !.pc = "build",
                                    !.speed = v, !.drone = NULL,
                                    !.order = NULL, !.todo = todo]
  <2>1. UNCHANGED vars /\ orders[o] # NULL
    BY <1>1 DEF GetOrderView
  <2>2. todo = {<<o, orders[o]>>}
    OBVIOUS
  <2>3. PICK v \in Speed : call' = [call EXCEPT ![r] = c(v)]
    BY <1>1, <2>2 DEF GetOrderView, Start
  <2>4. /\ todo \in SUBSET (OrderId \X OrderRow)
        /\ todo # {}
        /\ \A p \in todo : LeadsTo(p[2], drones)
    BY <2>1, RowsReadOK
  <2> HIDE DEF todo
  <2>5. CallOK(c(v), orders, drones)
    BY <2>4, StartOK, SpeedAssumption DEF Opt
  <2> HIDE DEF c
  <2> QED
    BY <2>1, <2>3, <2>5, QuietTables, ReaderStep
<1>2. ASSUME NEW st \in Opt(OrderStatus), AdminListOrders(r, st)
      PROVE  ViewInv'
  <2> DEFINE rows == ListOrders(st)
             todo == {<<o, orders[o]>> : o \in rows}
             pc == IF rows = {} THEN "done" ELSE "build"
             c(v) == [NoCall EXCEPT !.op = "list", !.pc = pc,
                                    !.speed = v, !.drone = NULL,
                                    !.order = NULL, !.todo = todo]
  <2>1. UNCHANGED vars
    BY <1>2 DEF AdminListOrders
  <2>2. PICK v \in Speed : call' = [call EXCEPT ![r] = c(v)]
    BY <1>2 DEF AdminListOrders, Start
  <2>3. rows \in SUBSET OrderId /\ \A o \in rows : orders[o] # NULL
    BY DEF ListOrders
  <2> HIDE DEF rows
  <2>4. /\ todo \in SUBSET (OrderId \X OrderRow)
        /\ \A p \in todo : LeadsTo(p[2], drones)
    BY <2>3, RowsReadOK
  <2>5. pc \in {"order", "build", "done"} /\ pc # "order" /\ (pc = "build" <=> todo # {})
    OBVIOUS
  <2> HIDE DEF todo, pc
  <2>6. CallOK(c(v), orders, drones)
    BY <2>4, <2>5, StartOK, SpeedAssumption DEF Opt
  <2> HIDE DEF c
  <2> QED
    BY <2>1, <2>2, <2>6, QuietTables, ReaderStep
<1>3. ASSUME NEW d \in DroneId, DroneCurrentOrder(r, d)
      PROVE  ViewInv'
  <2> DEFINE o == drones[d].current
             c(v) == [NoCall EXCEPT !.op = "current", !.pc = "order",
                                    !.speed = v, !.drone = d,
                                    !.order = o, !.todo = {}]
  <2>1. UNCHANGED vars /\ drones[d] # NULL /\ o # NULL
    BY <1>3 DEF DroneCurrentOrder
  <2>2. PICK v \in Speed : call' = [call EXCEPT ![r] = c(v)]
    BY <1>3 DEF DroneCurrentOrder, Start
  <2>3. o \in OrderId
    BY <2>1 DEF IInv, DronesOK, DroneRow, Opt
  <2>4. orders[o] # NULL
    BY <2>1, <2>3 DEF IInv, AssignmentAgrees
  <2> HIDE DEF o
  <2>5. CallOK(c(v), orders, drones)
    BY <2>1, <2>3, <2>4, StartOK, SpeedAssumption, DomainAssumption DEF Opt
  <2> HIDE DEF c
  <2> QED
    BY <2>1, <2>2, <2>5, QuietTables, ReaderStep
<1>4. ASSUME NEW d \in DroneId, NEW l \in Location, HeartbeatAndStatus(r, d, l)
      PROVE  ViewInv'
  <2> DEFINE o == GetOrCreateDrone(d).current
             pc == IF o = NULL THEN "done" ELSE "order"
             c(v) == [NoCall EXCEPT !.op = "heartbeat", !.pc = pc,
                                    !.speed = v, !.drone = d,
                                    !.order = o, !.todo = {}]
  <2>1. DroneHeartbeat(d, l)
    BY <1>4 DEF HeartbeatAndStatus
  <2>2. PICK v \in Speed : call' = [call EXCEPT ![r] = c(v)]
    BY <1>4 DEF HeartbeatAndStatus, Start
  <2>3. o \in Opt(OrderId) /\ drones'[d] # NULL
    <3>1. Located(GetOrCreateDrone(d), l) \in DroneRow
      BY GetOrCreateDroneOK, DroneRowsOK DEF IInv
    <3> QED BY <2>1, <3>1, GetOrCreateDroneOK, RowAssumption
            DEF IInv, DroneRow, DroneHeartbeat, PutDrone, DronesOK
  <2>4. o # NULL => orders[o] # NULL
    BY <2>3, GetOrCreateDroneOK DEF IInv, AssignmentAgrees, Opt
  <2>5. RowsStay /\ IInv' /\ orders' = orders
    BY <2>1, HeartbeatRowsStay, DroneHeartbeatKeeps DEF DroneHeartbeat
  <2>6. pc \in {"order", "build", "done"} /\ pc # "build" /\ (pc = "order" => o # NULL)
    OBVIOUS
  <2> HIDE DEF o, pc
  <2>7. CallOK(c(v), orders', drones')
    BY <2>3, <2>4, <2>5, <2>6, StartOK, SpeedAssumption, DomainAssumption
       DEF Opt
  <2> HIDE DEF c
  <2> QED
    BY <2>2, <2>5, <2>7, ReaderStep
<1> QED
  BY <1>1, <1>2, <1>3, <1>4

(***************************************************************************)
(* GetOrder finds the order: only the first of its three branches is ever  *)
(* taken.                                                                  *)
(***************************************************************************)
LEMMA ReadOrderKeeps ==
    ASSUME ViewInv, NEW r \in Reader, ReadOrder(r)
    PROVE  ViewInv'
<1> USE DEF ViewInv
<1> DEFINE c == call[r]
           o == c.order
           todo == {<<x, orders[x]>> : x \in {o}}
           new == [c EXCEPT !.pc = "build", !.todo = todo]
<1>1. CallOK(c, orders, drones) /\ c.pc = "order" /\ UNCHANGED vars
  BY DEF ReadOrder
<1>2. c \in Calls /\ o \in OrderId /\ orders[o] # NULL
  BY <1>1 DEF CallOK, Calls, Opt
<1>3. todo = {<<o, orders[o]>>}
  OBVIOUS
<1>4. call' = [call EXCEPT ![r] = new]
  BY <1>2, <1>3 DEF ReadOrder
<1>5. /\ todo \in SUBSET (OrderId \X OrderRow)
      /\ todo # {}
      /\ \A p \in todo : LeadsTo(p[2], drones)
  BY <1>2, RowsReadOK
<1> HIDE DEF c, todo
<1>6. /\ new \in Calls
      /\ new.pc = "build" /\ new.todo = todo /\ new.views = c.views
      /\ new.speed = c.speed
  BY <1>2, <1>5 DEF Calls
<1> HIDE DEF new
<1>7. CallOK(new, orders, drones)
  BY <1>1, <1>5, <1>6 DEF CallOK
<1> QED
  BY <1>1, <1>4, <1>7, QuietTables, ReaderStep

(***************************************************************************)
(* buildOrderView, and the answer.                                         *)
(***************************************************************************)
LEMMA BuildKeeps ==
    ASSUME ViewInv, NEW r \in Reader, BuildOrderView(r) \/ Return(r)
    PROVE  ViewInv'
<1> USE DEF ViewInv
<1>1. CASE BuildOrderView(r)
  <2> DEFINE c == call[r]
             row(p) == p[2]
             drone(p) == IF row(p).assigned = NULL THEN NULL
                         ELSE drones[row(p).assigned]
             view(p) == [id |-> p[1], order |-> row(p), drone |-> drone(p),
                         location |-> CurrentLocation(row(p), drone(p)),
                         from |-> ComputeETA(row(p), drone(p), c.speed)]
             new(p) == [c EXCEPT !.views = @ \cup {view(p)}, !.todo = @ \ {p},
                                 !.pc = IF c.todo = {p} THEN "done" ELSE @]
  <2>1. UNCHANGED vars
    BY <1>1 DEF BuildOrderView
  <2>2. PICK p \in c.todo : call' = [call EXCEPT ![r] = new(p)]
    BY <1>1 DEF BuildOrderView
  <2>3. CallOK(c, orders, drones)
    OBVIOUS
  <2>4. CallOK(new(p), orders, drones)
    <3> HIDE DEF c
    <3> QED
      BY <2>2, <2>3, BuildOK
  <2> HIDE DEF new
  <2> QED
    BY <2>1, <2>2, <2>4, QuietTables, ReaderStep
<1>2. CASE Return(r)
  <2>1. UNCHANGED vars /\ call' = [call EXCEPT ![r] = NoCall]
    BY <1>2 DEF Return
  <2> QED
    BY <2>1, NoCallOK, QuietTables, ReaderStep
<1> QED
  BY <1>1, <1>2

(***************************************************************************)
(* The invariant holds at the start and is kept by every step.             *)
(***************************************************************************)
LEMMA ViewInductive ==
    /\ ViewInit => ViewInv
    /\ ViewInv /\ [ViewNext]_viewVars => ViewInv'
<1>1. ASSUME ViewInit
      PROVE  ViewInv
  <2>1. IInv /\ AssignedDronesExist
    BY <1>1, InitOK DEF ViewInit, Init, AssignedDronesExist
  <2>2. DOMAIN call = Reader /\ \A r \in Reader : call[r] = NoCall
    BY <1>1 DEF ViewInit
  <2> QED
    BY <2>1, <2>2, NoCallOK DEF ViewInv
<1>2. ASSUME ViewInv, RowsStay, IInv', UNCHANGED call
      PROVE  ViewInv'
  BY <1>2, DronesStillExist, CallsKept DEF ViewInv
<1>3. ASSUME ViewInv, [ViewNext]_viewVars
      PROVE  ViewInv'
  <2>1. CASE UNCHANGED viewVars
    <3>1. UNCHANGED vars /\ UNCHANGED call
      BY <2>1 DEF viewVars
    <3> QED
      BY <1>2, <1>3, <3>1, QuietTables DEF ViewInv
  <2>2. CASE Next /\ UNCHANGED call
    BY <1>2, <1>3, <2>2, NextRowsStay, NextOK DEF ViewInv
  <2>3. ASSUME NEW r \in Reader, Read(r)
        PROVE  ViewInv'
    BY <1>3, <2>3, BeginKeeps, ReadOrderKeeps, BuildKeeps DEF Read
  <2> QED
    BY <1>3, <2>1, <2>2, <2>3 DEF ViewNext
<1> QED
  BY <1>1, <1>3

-------------------------------------------------------------------------------
(* The theorems *)

(***************************************************************************)
(* The invariant of the tables and of all calls in progress.               *)
(***************************************************************************)
THEOREM ViewsKeepInvariant == ViewSpec => []ViewInv
BY ViewInductive, PTL DEF ViewSpec

(***************************************************************************)
(* The calls of the read path are well formed, and the tables stay well    *)
(* typed under the heartbeats they begin with.                             *)
(***************************************************************************)
THEOREM ViewsTypeCorrect == ViewSpec => []ViewTypeOK
<1>1. ASSUME ViewInv
      PROVE  ViewTypeOK
  <2>1. TypeOK
    BY <1>1 DEF ViewInv, IInv, OrdersOK, DronesOK, TypeOK
  <2>2. \A r \in Reader : IsCall(call[r])
    BY <1>1 DEF ViewInv, CallOK, Calls, IsCall
  <2> QED
    BY <1>1, <2>1, <2>2 DEF ViewTypeOK, ViewInv
<1> QED
  BY <1>1, ViewsKeepInvariant, PTL

(***************************************************************************)
(* An ETA starts from the place that is shown, for every pair of an order  *)
(* row and a drone row; a server whose speed is not positive gives none.   *)
(***************************************************************************)
THEOREM ETAFromShownPlace == ViewSpec => []ETAStartsAtLocation
<1>1. ViewInv => ETAStartsAtLocation
  BY DEF ViewInv, CallOK, ETAStartsAtLocation
<1> QED
  BY <1>1, ViewsKeepInvariant, PTL

(***************************************************************************)
(* No read call meets a missing row, whatever commits between its          *)
(* statements: the tolerant branches of eta.go and service.go are dead.    *)
(***************************************************************************)
THEOREM NoDanglingReads == ViewSpec => []ReferencesResolve
<1>1. ViewInv => ReferencesResolve
  BY DEF ViewInv, CallOK, ReferencesResolve
<1> QED
  BY <1>1, ViewsKeepInvariant, PTL

(***************************************************************************)
(* Whatever commits between the statements of a read call, the drone row   *)
(* of a view tells whether the order is still that drone's, and a drone    *)
(* that asks for its order reads its own row or has lost the order: at the *)
(* second read the two tables agree, and the first row is where the second *)
(* read went.                                                              *)
(***************************************************************************)
THEOREM TornReadsAreVisible == ViewSpec => TornReadsShow
<1> DEFINE BuildOf(r) ==
              \A v \in call'[r].views \ call[r].views :
                  v.order.status \in Underway =>
                      (v.drone.current = v.id <=> WorksOn(v.order.assigned, v.id))
           ReadOf(r) ==
              call[r].pc = "order" /\ call'[r].pc # "order" =>
                  (WorksOn(call[r].drone, call[r].order) <=>
                      drones[call[r].drone].current = call[r].order)
<1>1. ASSUME ViewInv, NEW r \in Reader
      PROVE  ReadOf(r)
  <2>1. CallOK(call[r], orders, drones)
    BY <1>1 DEF ViewInv
  <2>2. ASSUME call[r].pc = "order"
        PROVE  /\ call[r].drone \in DroneId /\ drones[call[r].drone] # NULL
               /\ call[r].order \in OrderId
    BY <2>1, <2>2 DEF CallOK, Calls, Opt
  <2> QED
    BY <1>1, <2>2 DEF ViewInv, IInv, AssignmentAgrees, WorksOn
<1>2. ASSUME ViewInv, NEW r \in Reader, [ViewNext]_viewVars
      PROVE  BuildOf(r)
  <2> SUFFICES ASSUME NEW v \in call'[r].views \ call[r].views,
                      v.order.status \in Underway
               PROVE  v.drone.current = v.id <=> WorksOn(v.order.assigned, v.id)
    OBVIOUS
  <2>1. CallOK(call[r], orders, drones) /\ DOMAIN call = Reader
    BY <1>2 DEF ViewInv
  <2>2. BuildOrderView(r)
    <3>1. PICK q \in Reader : Read(q)
      BY <1>2 DEF ViewNext, viewVars
    <3>2. CASE ~BuildOrderView(q)
      <4>1. \E c : call' = [call EXCEPT ![q] = c] /\ c.views \subseteq call[q].views
        <5>1. NoCall.views = {} /\ CallOK(call[q], orders, drones)
          BY <1>2 DEF NoCall, ViewInv
        <5>2. ASSUME NEW op, NEW d, NEW o, NEW todo, NEW pc,
                     Start(q, op, d, o, todo, pc)
              PROVE  \E c : call' = [call EXCEPT ![q] = c] /\ c.views = {}
          BY <5>1, <5>2 DEF Start, NoCall
        <5>3. ASSUME ReadOrder(q)
              PROVE  \E c : /\ call' = [call EXCEPT ![q] = c]
                            /\ c.views \subseteq call[q].views
          BY <5>1, <5>3 DEF ReadOrder, CallOK, Calls, NoCall
        <5>4. ASSUME Return(q)
              PROVE  call' = [call EXCEPT ![q] = NoCall]
          BY <5>4 DEF Return
        <5> QED
          BY <3>1, <3>2, <5>1, <5>2, <5>3, <5>4
          DEF Read, GetOrderView, AdminListOrders, DroneCurrentOrder,
              HeartbeatAndStatus
      <4> QED
        BY <2>1, <4>1
    <3>3. CASE BuildOrderView(q) /\ q # r
      BY <2>1, <3>3 DEF BuildOrderView
    <3> QED
      BY <3>1, <3>2, <3>3
  <2>3. PICK p \in call[r].todo :
           /\ v.id = p[1] /\ v.order = p[2]
           /\ v.drone = IF p[2].assigned = NULL THEN NULL
                        ELSE drones[p[2].assigned]
    BY <2>1, <2>2 DEF BuildOrderView, CallOK, Calls
  <2>4. p[1] \in OrderId /\ p[2] \in OrderRow
    BY <2>1 DEF CallOK, Calls
  <2>5. p[2].assigned \in DroneId /\ drones[p[2].assigned] # NULL
    BY <2>1, <2>3, <2>4 DEF CallOK, LeadsTo, OrderRow, Opt
  <2> QED
    BY <1>2, <2>3, <2>4, <2>5, DomainAssumption
    DEF ViewInv, IInv, AssignmentAgrees, WorksOn
<1>3. ViewInv /\ [ViewNext]_viewVars =>
         [\A r \in Reader :
             /\ \A v \in call'[r].views \ call[r].views :
                   v.order.status \in Underway =>
                       (v.drone.current = v.id <=> WorksOn(v.order.assigned, v.id))
             /\ call[r].pc = "order" /\ call'[r].pc # "order" =>
                   (WorksOn(call[r].drone, call[r].order) <=>
                       drones[call[r].drone].current = call[r].order)]_viewVars
  BY <1>1, <1>2
<1> QED
  BY <1>3, ViewsKeepInvariant, PTL DEF ViewSpec, TornReadsShow

(***************************************************************************)
(* Reading adds no behaviour to the tables: a step of a read call changes  *)
(* nothing, or is the commit of the heartbeat it begins with.  The         *)
(* theorems about Delivery hold while views are built.                     *)
(***************************************************************************)
THEOREM ViewsImplementDelivery == ViewSpec => Spec
<1>1. ViewInit => Init
  BY DEF ViewInit
<1>2. ASSUME NEW d \in DroneId, NEW l \in Location, DroneHeartbeat(d, l)
      PROVE  Next
  <2>1. PICK now \in Time : TRUE
    BY TimeAssumption
  <2>2. DroneNext(d, now)
    BY <1>2 DEF DroneNext
  <2> QED
    BY <2>1, <2>2 DEF Next
<1>3. ASSUME NEW r \in Reader, Read(r)
      PROVE  Next \/ UNCHANGED vars
  BY <1>2, <1>3
  DEF Read, GetOrderView, AdminListOrders, DroneCurrentOrder, HeartbeatAndStatus,
      ReadOrder, BuildOrderView, Return
<1>4. [ViewNext]_viewVars => [Next]_vars
  BY <1>3 DEF ViewNext, viewVars
<1> QED
  BY <1>1, <1>4, PTL DEF ViewSpec, Spec
===============================================================================
