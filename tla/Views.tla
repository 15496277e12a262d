-------------------------------- MODULE Views --------------------------------
(***************************************************************************)
(* The read path: GetOrderView, AdminListOrders, DroneCurrentOrder and the *)
(* answer of DroneHeartbeat.  They run outside any transaction, one        *)
(* statement after the other, while the methods of Delivery commit in      *)
(* between: an order and its drone are read at different times.            *)
(*                                                                         *)
(* The distance behind an ETA is left out; what is kept is the place it is *)
(* computed from, NULL when there is no ETA.  Paging (limit and offset) is *)
(* left out too.                                                           *)
(***************************************************************************)
EXTENDS Delivery, Integers

CONSTANTS
    Reader,         \* read calls in progress
    Speed           \* what DRONE_SPEED_MPS is, on one server or another

(* Nothing keeps DRONE_SPEED_MPS above zero. *)
ASSUME SpeedAssumption == Speed \subseteq Int /\ Speed # {}

VARIABLE call       \* each reader's call

viewVars == <<vars, call>>

View == [id: OrderId, order: OrderRow, drone: Opt(DroneRow),
         location: Opt(Location), from: Opt(Location)]

NoCall == [op |-> "none", pc |-> "idle", speed |-> 0, drone |-> NULL,
           order |-> NULL, todo |-> {}, views |-> {}]

(* The state of one reader's call: its server's speed, the drone that asks *)
(* and its current order when it asked, the rows that have no view yet,    *)
(* the views built.                                                        *)
IsCall(c) ==
    /\ c.op \in {"none", "view", "list", "current", "heartbeat"}
    /\ c.pc \in {"idle", "order", "build", "done"}
    /\ c.speed \in Int
    /\ c.drone \in Opt(DroneId)
    /\ c.order \in Opt(OrderId)
    /\ c.pc = "build" <=> c.todo # {}
    /\ \A p \in c.todo : p \in OrderId \X OrderRow
    /\ \A v \in c.views : v \in View

ViewTypeOK == TypeOK /\ DOMAIN call = Reader /\ \A r \in Reader : IsCall(call[r])

ViewInit == Init /\ call = [r \in Reader |-> NoCall]

-------------------------------------------------------------------------------
(* eta.go *)

(* Where a reserved parcel waits. *)
PickupPlace(row) == IF row.handoff # NULL THEN row.handoff ELSE row.origin

DroneLocation(drone) == IF drone = NULL THEN NULL ELSE drone.location

CurrentLocation(row, drone) ==
    CASE row.status = "CREATED" -> row.origin
      [] row.status = "RESERVED" -> PickupPlace(row)
      [] row.status = "PICKED_UP" -> DroneLocation(drone)
      [] row.status = "HANDOFF_REQUESTED" -> row.handoff
      [] OTHER -> NULL

(* Forgets the hand-off point of a reserved order. *)
ComputeETABug(row, drone, speedMPS) ==
    IF IsTerminal(row.status) \/ speedMPS <= 0 THEN NULL
    ELSE CASE row.status \in {"CREATED", "RESERVED"} -> row.origin
           [] row.status = "PICKED_UP" -> DroneLocation(drone)
           [] row.status = "HANDOFF_REQUESTED" -> row.handoff

(* The start of the way whose ETA is computed. *)
ComputeETA(row, drone, speedMPS) ==
    IF IsTerminal(row.status) \/ speedMPS <= 0 THEN NULL
    ELSE CASE row.status = "CREATED" -> row.origin
           [] row.status = "RESERVED" -> PickupPlace(row)
           [] row.status = "PICKED_UP" -> DroneLocation(drone)
           [] row.status = "HANDOFF_REQUESTED" -> row.handoff

-------------------------------------------------------------------------------
(* Calls *)

Start(r, op, d, o, todo, pc) ==
    /\ call[r].pc = "idle"
    /\ \E speed \in Speed :
          call' = [call EXCEPT ![r] =
                      [NoCall EXCEPT !.op = op, !.pc = pc, !.speed = speed,
                                     !.drone = d, !.order = o, !.todo = todo]]

(* A view is for the owner of the order and for admins. *)
GetOrderView(r, user, isAdmin, o) ==
    /\ orders[o] # NULL
    /\ isAdmin \/ orders[o].user = user
    /\ Start(r, "view", NULL, NULL, {<<o, orders[o]>>}, "build")
    /\ UNCHANGED vars

(* NULL stands for no filter. *)
ListOrders(status) ==
    {o \in OrderId : orders[o] # NULL /\ status \in {NULL, orders[o].status}}

(* Forgets that no row may match. *)
AdminListOrdersBug(r, status) ==
    LET rows == ListOrders(status)
    IN  /\ Start(r, "list", NULL, NULL, {<<o, orders[o]>> : o \in rows}, "build")
        /\ UNCHANGED vars

AdminListOrders(r, status) ==
    LET rows == ListOrders(status)
    IN  /\ Start(r, "list", NULL, NULL, {<<o, orders[o]>> : o \in rows},
                 IF rows = {} THEN "done" ELSE "build")
        /\ UNCHANGED vars

(* Without a current order the call ends with ErrNotFound. *)
DroneCurrentOrder(r, d) ==
    /\ drones[d] # NULL
    /\ drones[d].current # NULL
    /\ Start(r, "current", d, drones[d].current, {}, "order")
    /\ UNCHANGED vars

(* The answer to a heartbeat goes on with the row that was committed. *)
HeartbeatAndStatus(r, d, loc) ==
    LET current == GetOrCreateDrone(d).current
    IN  /\ DroneHeartbeat(d, loc)
        /\ Start(r, "heartbeat", d, current, {},
                 IF current = NULL THEN "done" ELSE "order")

(* GetOrder.  A heartbeat answers without the order if it is not there. *)
ReadOrder(r) ==
    LET c == call[r]
    IN  /\ c.pc = "order"
        /\ call' = [call EXCEPT ![r] =
                       IF orders[c.order] # NULL
                       THEN [c EXCEPT !.pc = "build",
                                      !.todo = {<<c.order, orders[c.order]>>}]
                       ELSE IF c.op = "heartbeat" THEN [c EXCEPT !.pc = "done"]
                       ELSE NoCall]
        /\ UNCHANGED vars

(* buildOrderView for one of the rows: reads the row's drone, if it has    *)
(* one, and computes the view from both.                                   *)
BuildOrderView(r) ==
    LET c == call[r]
    IN  /\ c.pc = "build"
        /\ \E p \in c.todo :
              LET row   == p[2]
                  drone == IF row.assigned = NULL THEN NULL
                           ELSE drones[row.assigned]
                  view  == [id |-> p[1], order |-> row, drone |-> drone,
                            location |-> CurrentLocation(row, drone),
                            from |-> ComputeETA(row, drone, c.speed)]
              IN  call' = [call EXCEPT ![r] =
                              [c EXCEPT !.views = @ \cup {view},
                                        !.todo = @ \ {p},
                                        !.pc = IF c.todo = {p} THEN "done"
                                               ELSE @]]
        /\ UNCHANGED vars

(* The answer is sent. *)
Return(r) ==
    /\ call[r].pc = "done"
    /\ call' = [call EXCEPT ![r] = NoCall]
    /\ UNCHANGED vars

Read(r) ==
    \/ \E u \in UserId, isAdmin \in BOOLEAN, o \in OrderId :
           GetOrderView(r, u, isAdmin, o)
    \/ \E st \in Opt(OrderStatus) : AdminListOrders(r, st)
    \/ \E d \in DroneId : DroneCurrentOrder(r, d)
    \/ \E d \in DroneId, l \in Location : HeartbeatAndStatus(r, d, l)
    \/ ReadOrder(r) \/ BuildOrderView(r) \/ Return(r)

ViewNext == (Next /\ UNCHANGED call) \/ \E r \in Reader : Read(r)

ViewSpec == ViewInit /\ [][ViewNext]_viewVars

-------------------------------------------------------------------------------
(* Properties *)

(***************************************************************************)
(* The two switches of eta.go agree on every pair of rows a view is built  *)
(* from: an ETA starts from the location that is shown, and there is one   *)
(* exactly when a location is shown and the server has a speed.            *)
(***************************************************************************)
ETAStartsAtLocation ==
    \A r \in Reader : \A v \in call[r].views :
        v.from = IF call[r].speed > 0 THEN v.location ELSE NULL

(***************************************************************************)
(* No id read in one statement dangles in the next: the branches of        *)
(* buildOrderView, DroneHeartbeat and DroneCurrentOrder that tolerate a    *)
(* missing row are never taken.  No foreign key guarantees it.             *)
(***************************************************************************)
ReferencesResolve ==
    \A r \in Reader :
        /\ call[r].pc = "order" => orders[call[r].order] # NULL
        /\ \A v \in call[r].views : v.order.assigned # NULL => v.drone # NULL

(* The order is the drone's to carry out now. *)
WorksOn(d, o) ==
    /\ orders[o] # NULL
    /\ orders[o].status \in Underway
    /\ orders[o].assigned = d

(***************************************************************************)
(* A torn read shows.  An order read under way is shown with a drone row   *)
(* that names it exactly if it is still that drone's when the view is      *)
(* built: the place of a drone that has lost the parcel never comes with a *)
(* row that claims it.  And a drone that asks for its own order is given a *)
(* row of its own exactly if it has not lost the order since it asked.     *)
(***************************************************************************)
TornReadsShow ==
    [][\A r \in Reader :
          /\ \A v \in call'[r].views \ call[r].views :
                v.order.status \in Underway =>
                    (v.drone.current = v.id <=> WorksOn(v.order.assigned, v.id))
          /\ call[r].pc = "order" /\ call'[r].pc # "order" =>
                (WorksOn(call[r].drone, call[r].order) <=>
                    drones[call[r].drone].current = call[r].order)
      ]_viewVars
===============================================================================
