----------------------------- MODULE GatewayProofs -----------------------------
(***************************************************************************)
(* Proofs about Gateway and ThriftGateway for any names, tables and number *)
(* of requests, and whatever the Thrift readers do: the three transports   *)
(* lead every method to the same action of Delivery, with the name of the  *)
(* token as its drone or its user, so that everything proved of Delivery   *)
(* holds behind them, a repeated request is refused, nobody changes what   *)
(* is another's, the transports say the same, and not_found is true.        *)
(***************************************************************************)
EXTENDS ThriftGateway, DeliveryProofs

-------------------------------------------------------------------------------
(* The routes *)

UserMethod == {"SubmitOrder", "WithdrawOrder"}
DroneMethod == {"ReserveJob", "PickupOrder", "DeliverOrder", "FailOrder",
                "MarkBroken", "Heartbeat"}
AdminMethod == {"UpdateOrder", "MarkDroneBroken", "MarkDroneFixed"}

(* The methods that change the tables, and what they call. *)
OperationOf ==
    [SubmitOrder |-> "SubmitOrder", WithdrawOrder |-> "WithdrawOrder",
     ReserveJob |-> "DroneReserveJob", PickupOrder |-> "DronePickup",
     DeliverOrder |-> "DroneDeliver", FailOrder |-> "DroneFail",
     MarkBroken |-> "DroneMarkBroken", Heartbeat |-> "DroneHeartbeat",
     UpdateOrder |-> "AdminUpdateOrder",
     MarkDroneBroken |-> "AdminMarkDroneBroken",
     MarkDroneFixed |-> "AdminMarkDroneFixed"]

RoleOf(m) ==
    IF m \in UserMethod THEN "enduser"
    ELSE IF m \in DroneMethod THEN "drone" ELSE "admin"

WriteMethod == UserMethod \cup DroneMethod \cup AdminMethod

(* The methods that read.  Who may read an order differs. *)
ReadRouted(h, m) ==
    /\ m = "IssueToken" => h = Handler(Anyone, "IssueToken")
    /\ m = "CurrentOrder" => h = Handler({"drone"}, "DroneCurrentOrder")
    /\ m = "ListOrders" => h = Handler({"admin"}, "AdminListOrders")
    /\ m = "ListDrones" => h = Handler({"admin"}, "AdminListDrones")
    /\ m = "GetOrder" => \E roles \in {{"enduser"}, Role} :
                             h = Handler(roles, "GetOrderView")

(* What a handler has to be, and a group of routes for the methods ms. *)
Routed(h, m) ==
    /\ m \in WriteMethod => h = Handler({RoleOf(m)}, OperationOf[m])
    /\ ReadRouted(h, m)

GroupOK(g, ms) == DOMAIN g = ms /\ \A m \in ms : Routed(g[m], m)

(* Two groups of right routes make one.                                    *)
LEMMA JoinedOK ==
    ASSUME NEW f, NEW g, NEW A, NEW B, GroupOK(f, A), GroupOK(g, B)
    PROVE  GroupOK(Joined(f, g), A \cup B)
BY DEF GroupOK, Joined

(* The groups of the services, in the order of the descriptors, have every *)
(* method.                                                                 *)
LEMMA Methods ==
    {"IssueToken"} \cup ((UserMethod \cup {"GetOrder"})
        \cup ((DroneMethod \cup {"CurrentOrder"})
              \cup (AdminMethod \cup {"ListOrders", "ListDrones"}))) = Method
BY DEF Method, UserMethod, DroneMethod, AdminMethod

(* The same, in the order of the groups of routes.                         *)
LEMMA RestMethods ==
    {"IssueToken"} \cup ((DroneMethod \cup {"CurrentOrder"})
        \cup ((UserMethod \cup {"GetOrder"})
              \cup (AdminMethod \cup {"ListOrders", "ListDrones"}))) = Method
BY Methods

(* IssueToken changes nothing.                                             *)
LEMMA PublicRoutes ==
    /\ GroupOK(RestPublic, {"IssueToken"})
    /\ GroupOK(ThriftAuth, {"IssueToken"})
BY DEF GroupOK, Routed, ReadRouted, WriteMethod, UserMethod, DroneMethod,
       AdminMethod, RestPublic, ThriftAuth

(* The routes of the drones, over REST and Thrift.                         *)
LEMMA DroneRoutes ==
    /\ GroupOK(RestDrone, DroneMethod \cup {"CurrentOrder"})
    /\ GroupOK(ThriftDrone, DroneMethod \cup {"CurrentOrder"})
<1>1. DOMAIN RestDrone = DroneMethod \cup {"CurrentOrder"}
  BY DEF RestDrone, DroneMethod
<1>2. \A m \in DroneMethod : RestDrone[m] = Handler({RoleOf(m)}, OperationOf[m])
  BY DEF RestDrone, DroneMethod, UserMethod, RoleOf, OperationOf
<1>3. RestDrone["CurrentOrder"] = Handler({"drone"}, "DroneCurrentOrder")
  BY DEF RestDrone
<1>4. RestDrone = ThriftDrone
  BY DEF RestDrone, ThriftDrone
<1> QED
  BY <1>1, <1>2, <1>3, <1>4
  DEF GroupOK, Routed, ReadRouted, WriteMethod, DroneMethod, UserMethod,
      AdminMethod

(* The routes of the users.  Who may read an order differs.                *)
LEMMA OrderRoutes ==
    /\ GroupOK(RestOrders, UserMethod \cup {"GetOrder"})
    /\ GroupOK(ThriftOrder, UserMethod \cup {"GetOrder"})
<1> USE DEF WriteMethod, UserMethod, DroneMethod, AdminMethod
<1>1. ASSUME NEW g \in {RestOrders, ThriftOrder}
      PROVE  /\ DOMAIN g = UserMethod \cup {"GetOrder"}
             /\ \A m \in UserMethod : g[m] = Handler({RoleOf(m)}, OperationOf[m])
             /\ \E roles \in {{"enduser"}, Role} :
                    g["GetOrder"] = Handler(roles, "GetOrderView")
  BY DEF RoleOf, OperationOf, RestOrders, ThriftOrder
<1> QED
  BY <1>1 DEF GroupOK, Routed, ReadRouted

(* The routes of the admins.                                               *)
LEMMA AdminRoutes ==
    /\ GroupOK(RestAdmin, AdminMethod \cup {"ListOrders", "ListDrones"})
    /\ GroupOK(ThriftAdmin, AdminMethod \cup {"ListOrders", "ListDrones"})
<1>1. DOMAIN RestAdmin = AdminMethod \cup {"ListOrders", "ListDrones"}
  BY DEF RestAdmin, AdminMethod
<1>2. \A m \in AdminMethod : RestAdmin[m] = Handler({RoleOf(m)}, OperationOf[m])
  BY DEF RestAdmin, AdminMethod, DroneMethod, UserMethod, RoleOf, OperationOf
<1>3. /\ RestAdmin["ListOrders"] = Handler({"admin"}, "AdminListOrders")
      /\ RestAdmin["ListDrones"] = Handler({"admin"}, "AdminListDrones")
  BY DEF RestAdmin
<1>4. RestAdmin = ThriftAdmin
  BY DEF RestAdmin, ThriftAdmin
<1> QED
  BY <1>1, <1>2, <1>3, <1>4
  DEF GroupOK, Routed, ReadRouted, WriteMethod, DroneMethod, UserMethod,
      AdminMethod

(* gRPC: the method desc gives for m has a handler for m in server. *)
DescOK(desc, ms, server) ==
    /\ DOMAIN desc = ms
    /\ \A m \in ms : desc[m] \in DOMAIN server /\ Routed(server[desc[m]], m)

(* A method of one service is found among those of all, provided that no   *)
(* other service has one of the same name.                                 *)
LEMMA JoinedServers ==
    ASSUME NEW desc, NEW ms, NEW f, NEW g
    PROVE  /\ DescOK(desc, ms, f) => DescOK(desc, ms, Joined(f, g))
           /\ DescOK(desc, ms, g) /\ DOMAIN f \cap DOMAIN g = {}
                  => DescOK(desc, ms, Joined(f, g))
BY DEF DescOK, Joined

(* The descriptors of two services.                                        *)
LEMMA JoinedDescs ==
    ASSUME NEW e, NEW f, NEW A, NEW B, NEW server,
           DescOK(e, A, server), DescOK(f, B, server)
    PROVE  DescOK(Joined(e, f), A \cup B, server)
BY DEF DescOK, Joined

(* Each descriptor names the methods of its own service.                   *)
LEMMA GrpcServices ==
    /\ DescOK(AuthServiceDesc, {"IssueToken"}, AuthServer)
    /\ DescOK(OrderServiceDesc, UserMethod \cup {"GetOrder"}, OrderServer)
    /\ DescOK(DroneServiceDesc, DroneMethod \cup {"CurrentOrder"}, DroneServer)
    /\ DescOK(AdminServiceDesc, AdminMethod \cup {"ListOrders", "ListDrones"},
              AdminServer)
<1> USE DEF WriteMethod, UserMethod, DroneMethod, AdminMethod
<1>1. DescOK(AuthServiceDesc, {"IssueToken"}, AuthServer)
  BY DEF DescOK, Routed, ReadRouted, AuthServiceDesc, AuthServer
<1>2. DescOK(OrderServiceDesc, UserMethod \cup {"GetOrder"}, OrderServer)
  <2>1. /\ DOMAIN OrderServiceDesc = UserMethod \cup {"GetOrder"}
        /\ \A m \in UserMethod \cup {"GetOrder"} :
              OrderServiceDesc[m] \in DOMAIN OrderServer
    BY DEF OrderServiceDesc, OrderServer
  <2>2. \A m \in UserMethod :
           OrderServer[OrderServiceDesc[m]] = Handler({RoleOf(m)}, OperationOf[m])
    BY DEF OrderServiceDesc, OrderServer, RoleOf, OperationOf
  <2>3. OrderServer[OrderServiceDesc["GetOrder"]] = Handler(Role, "GetOrderView")
    BY DEF OrderServiceDesc, OrderServer
  <2> QED
    BY <2>1, <2>2, <2>3 DEF DescOK, Routed, ReadRouted
<1>3. DescOK(DroneServiceDesc, DroneMethod \cup {"CurrentOrder"}, DroneServer)
  <2>1. /\ DOMAIN DroneServiceDesc = DroneMethod \cup {"CurrentOrder"}
        /\ \A m \in DroneMethod \cup {"CurrentOrder"} :
              DroneServiceDesc[m] \in DOMAIN DroneServer
    BY DEF DroneServiceDesc, DroneServer
  <2>2. \A m \in DroneMethod :
           DroneServer[DroneServiceDesc[m]] = Handler({RoleOf(m)}, OperationOf[m])
    BY DEF DroneServiceDesc, DroneServer, RoleOf, OperationOf
  <2>3. DroneServer[DroneServiceDesc["CurrentOrder"]]
            = Handler({"drone"}, "DroneCurrentOrder")
    BY DEF DroneServiceDesc, DroneServer
  <2> QED
    BY <2>1, <2>2, <2>3 DEF DescOK, Routed, ReadRouted
<1>4. DescOK(AdminServiceDesc, AdminMethod \cup {"ListOrders", "ListDrones"},
             AdminServer)
  <2>1. /\ DOMAIN AdminServiceDesc = AdminMethod \cup {"ListOrders", "ListDrones"}
        /\ \A m \in AdminMethod \cup {"ListOrders", "ListDrones"} :
              AdminServiceDesc[m] \in DOMAIN AdminServer
    BY DEF AdminServiceDesc, AdminServer
  <2>2. \A m \in AdminMethod :
           AdminServer[AdminServiceDesc[m]] = Handler({RoleOf(m)}, OperationOf[m])
    BY DEF AdminServiceDesc, AdminServer, RoleOf, OperationOf
  <2>3. /\ AdminServer[AdminServiceDesc["ListOrders"]]
               = Handler({"admin"}, "AdminListOrders")
        /\ AdminServer[AdminServiceDesc["ListDrones"]]
               = Handler({"admin"}, "AdminListDrones")
    BY DEF AdminServiceDesc, AdminServer
  <2> QED
    BY <2>1, <2>2, <2>3 DEF DescOK, Routed, ReadRouted
<1> QED
  BY <1>1, <1>2, <1>3, <1>4

(* MarkBroken of the drones and MarkDroneBroken of the admins go to        *)
(* different methods of Server.                                            *)
LEMMA GrpcRoutes == DescOK(GrpcDescs, Method, GrpcServer)
<1>1. /\ DOMAIN AuthServer = {"IssueToken"}
      /\ DOMAIN OrderServer = {"SubmitOrder", "WithdrawOrder", "GetOrder"}
      /\ DOMAIN DroneServer = {"ReserveJob", "PickupOrder", "DeliverOrder",
             "FailOrder", "MarkDroneBroken", "Heartbeat", "CurrentOrder"}
      /\ DOMAIN AdminServer = {"AdminListOrders", "AdminUpdateOrder",
             "AdminListDrones", "AdminMarkDroneBroken", "AdminMarkDroneFixed"}
  BY DEF AuthServer, OrderServer, DroneServer, AdminServer
<1>2. /\ DOMAIN Joined(DroneServer, AdminServer)
             = DOMAIN DroneServer \cup DOMAIN AdminServer
      /\ DOMAIN Joined(OrderServer, Joined(DroneServer, AdminServer))
             = DOMAIN OrderServer \cup DOMAIN Joined(DroneServer, AdminServer)
  BY DEF Joined
<1>3. /\ DOMAIN DroneServer \cap DOMAIN AdminServer = {}
      /\ DOMAIN OrderServer \cap DOMAIN Joined(DroneServer, AdminServer) = {}
      /\ DOMAIN AuthServer
             \cap DOMAIN Joined(OrderServer, Joined(DroneServer, AdminServer)) = {}
  BY <1>1, <1>2
<1>4. DescOK(AuthServiceDesc, {"IssueToken"}, GrpcServer)
  BY GrpcServices, JoinedServers DEF GrpcServer
<1>5. DescOK(OrderServiceDesc, UserMethod \cup {"GetOrder"}, GrpcServer)
  BY <1>3, GrpcServices, JoinedServers DEF GrpcServer
<1>6. DescOK(DroneServiceDesc, DroneMethod \cup {"CurrentOrder"}, GrpcServer)
  BY <1>3, GrpcServices, JoinedServers DEF GrpcServer
<1>7. DescOK(AdminServiceDesc, AdminMethod \cup {"ListOrders", "ListDrones"},
             GrpcServer)
  BY <1>3, GrpcServices, JoinedServers DEF GrpcServer
<1> QED
  BY <1>4, <1>5, <1>6, <1>7, Methods, JoinedDescs DEF GrpcDescs

(***************************************************************************)
(* The three transports agree: each has a handler for every method, which  *)
(* calls the same method of the service for the same role.  Only who may   *)
(* read an order differs.                                                  *)
(***************************************************************************)
LEMMA Routes ==
    \A t \in Transport, m \in Method : Routed(HandlerOf(t, m), m)
<1>1. GroupOK(RestHandlers, Method)
  BY RestMethods, JoinedOK, PublicRoutes, DroneRoutes, OrderRoutes, AdminRoutes
  DEF RestHandlers
<1>2. GroupOK(ThriftHandlers, Method)
  BY Methods, JoinedOK, PublicRoutes, DroneRoutes, OrderRoutes, AdminRoutes
  DEF ThriftHandlers
<1> QED
  BY <1>1, <1>2, GrpcRoutes DEF HandlerOf, Transport, GroupOK, DescOK

-------------------------------------------------------------------------------
(* What a request does *)

(* A write gets past authorize only with a token of the method's role. *)
LEMMA WriteAuthorized ==
    ASSUME NEW t \in Transport, NEW m \in WriteMethod, NEW claims \in Opt(Claims),
           NEW q, Respond(t, m, claims, q) = "ok"
    PROVE  /\ claims \in Claims
           /\ claims.role = RoleOf(m)
           /\ HandlerOf(t, m).operation = OperationOf[m]
           /\ OperationResult(OperationOf[m], claims.sub, claims.role, q) = "ok"
<1>1. m \in Method
  BY DEF Method, WriteMethod, UserMethod, DroneMethod, AdminMethod
<1>2. HandlerOf(t, m) = Handler({RoleOf(m)}, OperationOf[m])
  BY <1>1, Routes DEF Routed
<1>3. /\ HandlerOf(t, m).roles = {RoleOf(m)}
      /\ HandlerOf(t, m).operation = OperationOf[m]
  BY <1>2 DEF Handler
<1>4. RoleOf(m) \in Role
  BY DEF RoleOf, Role
<1>5. NULL \notin HandlerOf(t, m).roles
  BY <1>3, <1>4, ClaimsAssumption
<1>6. Authorize(HandlerOf(t, m), claims) = "ok"
  BY DEF Respond, Authorize
<1>7. claims # NULL /\ claims.role = RoleOf(m)
  BY <1>3, <1>5, <1>6 DEF Authorize
<1> QED
  BY <1>3, <1>6, <1>7 DEF Respond, Opt

(* A read changes nothing. *)
LEMMA ReadStep ==
    ASSUME NEW op \in ReadOperation, NEW name, NEW q, OperationStep(op, name, q)
    PROVE  UNCHANGED vars
BY DEF OperationStep, ReadOperation

(* What a client repeats is a write.                                       *)
LEMMA ReadsAreNotRepeated == Repeated \subseteq WriteMethod
BY DEF Repeated, WriteMethod, UserMethod, DroneMethod, AdminMethod

(* The request of a write by claims was carried out. *)
Served(m, claims, q) ==
    /\ m \in WriteMethod
    /\ claims \in Claims
    /\ claims.role = RoleOf(m)
    /\ OperationStep(OperationOf[m], claims.sub, q)
    /\ pending' \in {StillPending(claims)}
          \cup (IF m \in Repeated THEN {ThisRequest(m, claims, q)} ELSE {})

(* A request is refused, reads, or is a write by its role that is carried  *)
(* out.                                                                    *)
LEMMA RequestCases ==
    ASSUME NEW t \in Transport, NEW m \in Method, NEW claims \in Opt(Claims),
           NEW q \in Query(m), Request(t, m, claims, q)
    PROVE  /\ caller' = claims
           /\ \/ UNCHANGED vars /\ pending' = StillPending(claims)
              \/ Served(m, claims, q)
<1>1. CASE Respond(t, m, claims, q) # "ok"
  BY <1>1 DEF Request
<1>2. CASE Respond(t, m, claims, q) = "ok" /\ m \in WriteMethod
  <2>1. /\ claims \in Claims
        /\ claims.role = RoleOf(m)
        /\ HandlerOf(t, m).operation = OperationOf[m]
    BY <1>2, WriteAuthorized
  <2>2. claims # NULL
    BY <2>1, ClaimsAssumption
  <2> QED
    BY <1>2, <2>1, <2>2 DEF Request, Served
<1>3. CASE Respond(t, m, claims, q) = "ok" /\ m \notin WriteMethod
  <2>1. HandlerOf(t, m).operation \in ReadOperation
    <3>1. m \in {"IssueToken", "CurrentOrder", "ListOrders", "ListDrones", "GetOrder"}
      BY <1>3 DEF Method, WriteMethod, UserMethod, DroneMethod, AdminMethod
    <3> QED
      BY <3>1, Routes DEF Routed, ReadRouted, Handler, ReadOperation
  <2>2. UNCHANGED vars
    BY <1>3, <2>1, ReadStep DEF Request
  <2> QED
    BY <1>3, <2>2, ReadsAreNotRepeated DEF Request
<1> QED
  BY <1>1, <1>2, <1>3

(* One under which the database fails was not carried out, or was and its  *)
(* client may repeat it.                                                   *)
LEMMA FailsCases ==
    ASSUME NEW t \in Transport, NEW m \in Method, NEW claims \in Opt(Claims),
           NEW q \in Query(m), Fails(t, m, claims, q)
    PROVE  /\ caller' = claims
           /\ \/ UNCHANGED vars /\ pending' = StillPending(claims)
              \/ Served(m, claims, q)
<1> DEFINE op == HandlerOf(t, m).operation
<1>1. /\ caller' = claims
      /\ \/ UNCHANGED vars /\ pending' = StillPending(claims)
         \/ /\ Respond(t, m, claims, q) = "ok"
            /\ OperationStep(op, claims.sub, q)
            /\ pending' = IF m \in Repeated THEN ThisRequest(m, claims, q)
                          ELSE StillPending(claims)
  BY DEF Fails
<1>2. CASE /\ Respond(t, m, claims, q) = "ok" /\ m \in WriteMethod
           /\ OperationStep(op, claims.sub, q)
           /\ pending' = IF m \in Repeated THEN ThisRequest(m, claims, q)
                         ELSE StillPending(claims)
  BY <1>1, <1>2, WriteAuthorized DEF Served
<1>3. CASE /\ m \notin WriteMethod /\ OperationStep(op, claims.sub, q)
           /\ pending' = IF m \in Repeated THEN ThisRequest(m, claims, q)
                         ELSE StillPending(claims)
  <2>1. m \in {"IssueToken", "CurrentOrder", "ListOrders", "ListDrones", "GetOrder"}
    BY <1>3 DEF Method, WriteMethod, UserMethod, DroneMethod, AdminMethod
  <2>2. op \in ReadOperation
    BY <2>1, Routes DEF Routed, ReadRouted, Handler, ReadOperation
  <2> QED
    BY <1>1, <1>3, <2>2, ReadStep, ReadsAreNotRepeated
<1> QED
  BY <1>1, <1>2, <1>3

(* The action of Delivery that carries the write m of name out. *)
Action(m, name, q, now) ==
    \/ /\ m = "SubmitOrder"
       /\ q.from \in Location /\ q.to \in Location
       /\ \E o \in OrderId : SubmitOrder(name, o, q.from, q.to, now)
    \/ /\ m = "WithdrawOrder" /\ q.order \in OrderId
       /\ WithdrawOrder(name, q.order, now)
    \/ /\ m = "UpdateOrder" /\ q.order \in OrderId
       /\ q.from \in Opt(Location) /\ q.to \in Opt(Location)
       /\ AdminUpdateOrder(q.order, q.from, q.to, now)
    \/ m = "ReserveJob" /\ \E o \in OrderId : DroneReserveJob(name, o, now)
    \/ /\ m = "PickupOrder" /\ q.order \in OrderId
       /\ \E sent \in Time : DronePickup(name, q.order, now, sent)
    \/ /\ m = "DeliverOrder" /\ q.order \in OrderId
       /\ CompleteOrderForDrone(name, q.order, "DELIVERED", now)
    \/ /\ m = "FailOrder" /\ q.order \in OrderId
       /\ CompleteOrderForDrone(name, q.order, "FAILED", now)
    \/ m = "MarkBroken" /\ DroneMarkBroken(name, now)
    \/ m = "MarkDroneBroken" /\ q.drone \in DroneId /\ DroneMarkBroken(q.drone, now)
    \/ m = "MarkDroneFixed" /\ q.drone \in DroneId /\ DroneMarkFixed(q.drone, now)
    \/ m = "Heartbeat" /\ q.to \in Location /\ DroneHeartbeat(name, q.to)

(* The operation behind a write is that action, on arguments that Query    *)
(* gives.                                                                  *)
LEMMA WriteStep ==
    ASSUME NEW m \in WriteMethod, NEW q \in Query(m), NEW name,
           OperationStep(OperationOf[m], name, q)
    PROVE  \E now \in Time : Action(m, name, q, now)
<1>1. PICK now \in Time :
        \/ /\ OperationOf[m] = "SubmitOrder"
           /\ \E o \in OrderId : SubmitOrder(name, o, q.from, q.to, now)
        \/ OperationOf[m] = "WithdrawOrder" /\ WithdrawOrder(name, q.order, now)
        \/ /\ OperationOf[m] = "AdminUpdateOrder"
           /\ AdminUpdateOrder(q.order, q.from, q.to, now)
        \/ /\ OperationOf[m] = "DroneReserveJob"
           /\ \E o \in OrderId : DroneReserveJob(name, o, now)
        \/ /\ OperationOf[m] = "DronePickup"
           /\ \E sent \in Time : DronePickup(name, q.order, now, sent)
        \/ /\ OperationOf[m] = "DroneDeliver"
           /\ CompleteOrderForDrone(name, q.order, "DELIVERED", now)
        \/ /\ OperationOf[m] = "DroneFail"
           /\ CompleteOrderForDrone(name, q.order, "FAILED", now)
        \/ OperationOf[m] = "DroneMarkBroken" /\ DroneMarkBroken(name, now)
        \/ OperationOf[m] = "AdminMarkDroneBroken" /\ DroneMarkBroken(q.drone, now)
        \/ OperationOf[m] = "AdminMarkDroneFixed" /\ DroneMarkFixed(q.drone, now)
        \/ OperationOf[m] = "DroneHeartbeat" /\ DroneHeartbeat(name, q.to)
        \/ OperationOf[m] \in ReadOperation
  BY DEF OperationStep
<1>2. OperationOf[m] \notin ReadOperation
  BY DEF OperationOf, ReadOperation, WriteMethod, UserMethod, DroneMethod, AdminMethod
<1>3. /\ OperationOf[m] = "SubmitOrder" => m = "SubmitOrder"
      /\ OperationOf[m] = "WithdrawOrder" => m = "WithdrawOrder"
      /\ OperationOf[m] = "AdminUpdateOrder" => m = "UpdateOrder"
      /\ OperationOf[m] = "DroneReserveJob" => m = "ReserveJob"
      /\ OperationOf[m] = "DronePickup" => m = "PickupOrder"
      /\ OperationOf[m] = "DroneDeliver" => m = "DeliverOrder"
      /\ OperationOf[m] = "DroneFail" => m = "FailOrder"
      /\ OperationOf[m] = "DroneMarkBroken" => m = "MarkBroken"
      /\ OperationOf[m] = "AdminMarkDroneBroken" => m = "MarkDroneBroken"
      /\ OperationOf[m] = "AdminMarkDroneFixed" => m = "MarkDroneFixed"
      /\ OperationOf[m] = "DroneHeartbeat" => m = "Heartbeat"
  BY DEF OperationOf, WriteMethod, UserMethod, DroneMethod, AdminMethod
<1>4. /\ m \in {"WithdrawOrder", "UpdateOrder", "PickupOrder", "DeliverOrder",
                "FailOrder"} => q.order \in OrderId
      /\ m \in {"MarkDroneBroken", "MarkDroneFixed"} => q.drone \in DroneId
      /\ m = "SubmitOrder" => q.from \in Location /\ q.to \in Location
      /\ m = "UpdateOrder" => q.from \in Opt(Location) /\ q.to \in Opt(Location)
      /\ m = "Heartbeat" => q.to \in Location
  BY DEF Query
<1> QED
  BY <1>1, <1>2, <1>3, <1>4 DEF Action

(* A name is a user and a drone, so the action is a step of Delivery.      *)
LEMMA ActionIsNext ==
    ASSUME NEW m, NEW name \in Name, NEW q, NEW now \in Time,
           Action(m, name, q, now)
    PROVE  Next
<1>1. name \in UserId /\ name \in DroneId
  BY NameAssumption DEF Name
<1> QED
  BY <1>1 DEF Action, Next, OrderNext, JobNext, DroneNext

-------------------------------------------------------------------------------
(* Who writes what *)

(* The write of an order by the request m of name, from old to new. *)
OrderWrite(m, name, old, new) ==
    \/ /\ m = "SubmitOrder" /\ old = NULL
       /\ new.user = name /\ new.assigned = NULL
    \/ /\ m = "WithdrawOrder" /\ old # NULL
       /\ new.user = name /\ new.assigned = NULL
    \/ /\ m = "UpdateOrder" /\ old # NULL
       /\ new.status = old.status /\ new.assigned = old.assigned
    \/ m = "ReserveJob" /\ old # NULL /\ new.assigned = name
    \/ /\ m \in {"PickupOrder", "DeliverOrder", "FailOrder"} /\ old # NULL
       /\ old.assigned = name
       /\ new.status \in {"PICKED_UP", "DELIVERED", "FAILED"}
    \/ /\ m \in {"MarkBroken", "MarkDroneBroken"} /\ old # NULL
       /\ m = "MarkBroken" => old.assigned = name
       /\ new.assigned = NULL

(***************************************************************************)
(* A drone's breakdown reaches its order through current_order_id: that    *)
(* the order is the drone's own is AssignmentAgrees.                       *)
(***************************************************************************)
LEMMA OrderWrites ==
    ASSUME IInv, NEW m, NEW name \in Name, NEW q, NEW now \in Time,
           Action(m, name, q, now), NEW o \in OrderId, orders'[o] # orders[o]
    PROVE  OrderWrite(m, name, orders[o], orders'[o])
<1>1. ASSUME NEW p \in OrderId, NEW row, NEW type, NEW at,
             PutOrder(p, row, type, at)
      PROVE  p = o /\ orders'[o] = row
  BY <1>1 DEF PutOrder, IInv, OrdersOK
<1>2. name \in UserId /\ name \in DroneId /\ now \in Nat
  BY NameAssumption, TimeAssumption DEF Name
<1>3. ASSUME NEW p \in OrderId, orders[p] # NULL
      PROVE  RowOK(orders[p]) /\ orders[p] \in OrderRow
  BY <1>3, OrderRowOK DEF IInv, RowOK
<1>4. CASE m = "SubmitOrder" /\ q.from \in Location /\ q.to \in Location
           /\ \E p \in OrderId : SubmitOrder(name, p, q.from, q.to, now)
  <2>1. PICK p \in OrderId : SubmitOrder(name, p, q.from, q.to, now)
    BY <1>4
  <2>2. p = o /\ orders'[o] = NewOrder(name, q.from, q.to, now) /\ orders[p] = NULL
    BY <2>1, <1>1 DEF SubmitOrder
  <2>3. orders'[o].user = name /\ orders'[o].assigned = NULL
    BY <2>2 DEF NewOrder
  <2> QED
    BY <1>4, <2>2, <2>3 DEF OrderWrite
<1>5. CASE m = "WithdrawOrder" /\ q.order \in OrderId
           /\ WithdrawOrder(name, q.order, now)
  <2>1. /\ q.order = o /\ orders'[o] = Withdrawn(orders[o])
        /\ orders[o] # NULL /\ orders[o].user = name
    BY <1>5, <1>1 DEF WithdrawOrder
  <2>2. orders'[o].user = orders[o].user /\ orders'[o].assigned = NULL
    BY <2>1, <1>3 DEF Withdrawn, OrderRow
  <2> QED
    BY <1>5, <2>1, <2>2 DEF OrderWrite
<1>6. CASE m = "UpdateOrder" /\ q.order \in OrderId
           /\ q.from \in Opt(Location) /\ q.to \in Opt(Location)
           /\ AdminUpdateOrder(q.order, q.from, q.to, now)
  <2>1. /\ q.order = o /\ orders'[o] = Readdressed(orders[o], q.from, q.to)
        /\ orders[o] # NULL
    BY <1>6, <1>1 DEF AdminUpdateOrder
  <2> QED
    BY <1>6, <2>1, <1>3, ReaddressedOK DEF OrderWrite
<1>7. CASE m = "ReserveJob" /\ \E p \in OrderId : DroneReserveJob(name, p, now)
  <2>1. PICK p \in OrderId : DroneReserveJob(name, p, now)
    BY <1>7
  <2>2. /\ p = o /\ orders'[o] = Reserved(orders[o], name, now)
        /\ orders[o] # NULL /\ orders[o].status \in Reservable
    BY <2>1, <1>1 DEF DroneReserveJob
  <2> QED
    BY <1>7, <2>2, <1>2, <1>3, ReservedOK DEF OrderWrite
<1>8. CASE m = "PickupOrder" /\ q.order \in OrderId
           /\ \E sent \in Time : DronePickup(name, q.order, now, sent)
  <2>1. /\ q.order = o /\ orders'[o] = PickedUp(orders[o], now)
        /\ orders[o] # NULL /\ orders[o].assigned = name
        /\ orders[o].status \in {"RESERVED", "HANDOFF_REQUESTED"}
    BY <1>8, <1>1 DEF DronePickup
  <2>2. orders'[o].status = "PICKED_UP"
    BY <2>1, <1>2, <1>3, PickedUpOK, DomainAssumption
  <2> QED
    BY <1>8, <2>1, <2>2 DEF OrderWrite
<1>9. ASSUME NEW st \in {"DELIVERED", "FAILED"}, q.order \in OrderId,
             CompleteOrderForDrone(name, q.order, st, now)
      PROVE  /\ orders[o] # NULL /\ orders[o].assigned = name
             /\ orders'[o].status = st
  <2>1. /\ q.order = o /\ orders'[o] = Completed(orders[o], st, now)
        /\ orders[o] # NULL /\ orders[o].assigned = name
        /\ orders[o].status = "PICKED_UP"
    BY <1>9, <1>1 DEF CompleteOrderForDrone
  <2> QED
    BY <2>1, <1>2, <1>3, CompletedOK
<1>10. CASE m = "DeliverOrder" /\ q.order \in OrderId
            /\ CompleteOrderForDrone(name, q.order, "DELIVERED", now)
  BY <1>9, <1>10 DEF OrderWrite
<1>11. CASE m = "FailOrder" /\ q.order \in OrderId
            /\ CompleteOrderForDrone(name, q.order, "FAILED", now)
  BY <1>9, <1>11 DEF OrderWrite
<1>12. ASSUME NEW d \in DroneId, DroneMarkBroken(d, now)
       PROVE  /\ orders[o] # NULL /\ orders[o].assigned = d
              /\ orders'[o].assigned = NULL
  <2> DEFINE drone == GetOrCreateDrone(d)
             p     == drone.current
  <2>1. /\ p = NULL \/ p \in OrderId
        /\ drone.location \in Opt(Location)
        /\ drones[d] # NULL => drone = drones[d]
        /\ drones[d] = NULL => p = NULL
    BY GetOrCreateDroneOK DEF IInv, DroneRow, Opt
  <2>2. /\ p # NULL /\ orders[p] # NULL /\ orders[p].status \in Underway
        /\ PutOrder(p, AfterBreakdown(orders[p], drone.location),
                    BreakdownEventType(orders[p]), now)
    BY <1>12 DEF DroneMarkBroken
  <2>3. p = o /\ orders'[o] = AfterBreakdown(orders[o], drone.location)
    BY <2>1, <2>2, <1>1
  <2>4. drones[d] # NULL /\ drones[d].current = o
    BY <2>1, <2>2, <2>3
  <2>5. orders[o].assigned = d
    BY <2>4 DEF IInv, AssignmentAgrees
  <2> QED
    BY <2>1, <2>2, <2>3, <2>5, <1>3, AfterBreakdownOK
<1>13. CASE m = "MarkBroken" /\ DroneMarkBroken(name, now)
  BY <1>2, <1>12, <1>13 DEF OrderWrite
<1>14. CASE m = "MarkDroneBroken" /\ q.drone \in DroneId
            /\ DroneMarkBroken(q.drone, now)
  BY <1>12, <1>14 DEF OrderWrite
<1>15. CASE \/ m = "MarkDroneFixed" /\ DroneMarkFixed(q.drone, now)
            \/ m = "Heartbeat" /\ DroneHeartbeat(name, q.to)
  BY <1>15 DEF DroneMarkFixed, DroneHeartbeat
<1> QED
  BY <1>4, <1>5, <1>6, <1>7, <1>8, <1>10, <1>11, <1>13, <1>14, <1>15 DEF Action

(***************************************************************************)
(* The owner of an order reaches a drone by withdrawing the order it was   *)
(* reserved for, which by AssignmentAgrees is the drone's current order.   *)
(***************************************************************************)
LEMMA DroneWrites ==
    ASSUME IInv, NEW m, NEW name \in Name, NEW q, NEW now \in Time,
           Action(m, name, q, now), NEW d \in DroneId, drones'[d] # drones[d]
    PROVE  \/ m \in {"MarkDroneBroken", "MarkDroneFixed"}
           \/ m \in DroneMethod /\ name = d
           \/ /\ m = "WithdrawOrder"
              /\ \E o \in OrderId : /\ drones[d] # NULL /\ drones[d].current = o
                                    /\ orders[o].user = name
<1>1. ASSUME NEW e \in DroneId, NEW row, PutDrone(e, row)
      PROVE  e = d
  BY <1>1 DEF PutDrone, IInv, DronesOK
<1>2. name \in DroneId
  BY NameAssumption DEF Name
<1>3. CASE m = "WithdrawOrder" /\ q.order \in OrderId
           /\ WithdrawOrder(name, q.order, now)
  <2> DEFINE o == q.order
  <2>1. /\ orders[o] # NULL /\ orders[o].user = name
        /\ orders[o].status = "RESERVED" /\ orders[o].assigned # NULL
        /\ PutDrone(orders[o].assigned, Freed(drones[orders[o].assigned]))
    BY <1>3 DEF WithdrawOrder
  <2>2. orders[o].assigned \in DroneId
    BY <1>3, <2>1, OrderRowOK DEF IInv, RowOK, OrderRow, Opt
  <2>3. orders[o].assigned = d
    BY <1>1, <2>1, <2>2
  <2>4. drones[d] # NULL /\ drones[d].current = o
    BY <1>3, <2>1, <2>3 DEF IInv, AssignmentAgrees, Underway
  <2> QED
    BY <1>3, <2>1, <2>4
<1>4. CASE \/ m = "ReserveJob" /\ \E o \in OrderId : DroneReserveJob(name, o, now)
           \/ /\ m = "DeliverOrder"
              /\ CompleteOrderForDrone(name, q.order, "DELIVERED", now)
           \/ /\ m = "FailOrder"
              /\ CompleteOrderForDrone(name, q.order, "FAILED", now)
           \/ m = "MarkBroken" /\ DroneMarkBroken(name, now)
           \/ m = "Heartbeat" /\ DroneHeartbeat(name, q.to)
  <2>1. \E row : PutDrone(name, row)
    BY <1>4 DEF DroneReserveJob, CompleteOrderForDrone, DroneMarkBroken,
                DroneHeartbeat
  <2>2. name = d
    BY <1>1, <1>2, <2>1
  <2> QED
    BY <1>4, <2>2 DEF DroneMethod
<1>5. CASE \/ m = "SubmitOrder"
              /\ \E o \in OrderId : SubmitOrder(name, o, q.from, q.to, now)
           \/ m = "UpdateOrder" /\ AdminUpdateOrder(q.order, q.from, q.to, now)
           \/ m = "PickupOrder"
              /\ \E sent \in Time : DronePickup(name, q.order, now, sent)
  BY <1>5 DEF SubmitOrder, AdminUpdateOrder, DronePickup
<1>6. CASE m \in {"MarkDroneBroken", "MarkDroneFixed"}
  BY <1>6
<1> QED
  BY <1>3, <1>4, <1>5, <1>6 DEF Action

-------------------------------------------------------------------------------
(* The inductive invariant *)

(***************************************************************************)
(* A request p that was carried out, in the orders table os: the order is  *)
(* finished for good, or, for a pickup, no longer waits for this drone.    *)
(***************************************************************************)
WaitsFor(row, d) ==
    /\ row # NULL
    /\ row.assigned = d
    /\ row.status \in {"RESERVED", "HANDOFF_REQUESTED"}

PendingOK(p, os) ==
    p # NULL =>
        /\ p.method \in Repeated
        /\ p.claims \in Claims
        /\ p.claims.role = RoleOf(p.method)
        /\ p.query \in Query(p.method)
        /\ IF p.method = "PickupOrder"
           THEN ~WaitsFor(os[p.query.order], p.claims.sub)
           ELSE /\ os[p.query.order] # NULL
                /\ IsTerminal(os[p.query.order].status)

GatewayInv ==
    /\ IInv
    /\ caller \in Opt(Claims)
    /\ PendingOK(pending, orders)

(* A request that is carried out leaves the order as PendingOK says. *)
LEMMA ServedOK ==
    ASSUME IInv, NEW m \in Repeated, NEW claims \in Claims, NEW q \in Query(m),
           claims.role = RoleOf(m), NEW now \in Time,
           Action(m, claims.sub, q, now)
    PROVE  PendingOK(ThisRequest(m, claims, q), orders')
<1> DEFINE p == ThisRequest(m, claims, q)
           o == q.order
<1>1. p.method = m /\ p.claims = claims /\ p.query = q
  BY DEF ThisRequest
<1>2. o \in OrderId /\ now \in Nat
  BY TimeAssumption DEF Action, Repeated
<1>3. ASSUME NEW row, NEW type, NEW at, PutOrder(o, row, type, at)
      PROVE  orders'[o] = row
  BY <1>2, <1>3 DEF PutOrder, IInv, OrdersOK
<1>4. ASSUME orders[o] # NULL
      PROVE  RowOK(orders[o])
  BY <1>2, <1>4, OrderRowOK DEF IInv
<1>5. ASSUME NEW row, RowOK(row)
      PROVE  row # NULL
  BY <1>5, RowAssumption DEF RowOK
<1>6. CASE m = "WithdrawOrder"
  <2>1. WithdrawOrder(claims.sub, o, now)
    BY <1>6 DEF Action
  <2>2. /\ orders'[o] = Withdrawn(orders[o]) /\ RowOK(orders[o])
        /\ orders[o].status \in {"CREATED", "RESERVED"}
    BY <2>1, <1>3, <1>4 DEF WithdrawOrder
  <2>3. orders'[o] # NULL /\ orders'[o].status = "WITHDRAWN"
    BY <2>2, <1>5, WithdrawnOK
  <2> QED
    BY <1>1, <1>6, <2>3 DEF PendingOK, IsTerminal
<1>7. CASE m = "PickupOrder"
  <2>1. PICK sent \in Time : DronePickup(claims.sub, o, now, sent)
    BY <1>7 DEF Action
  <2>2. claims.sub \in DroneId
    BY NameAssumption DEF Claims, Name
  <2>3. /\ orders'[o] = PickedUp(orders[o], now) /\ RowOK(orders[o])
        /\ orders[o].status \in {"RESERVED", "HANDOFF_REQUESTED"}
        /\ orders[o].assigned # NULL
    BY <2>1, <2>2, <1>3, <1>4, DomainAssumption DEF DronePickup
  <2>4. orders'[o].status = "PICKED_UP"
    BY <2>3, <1>2, PickedUpOK
  <2> QED
    BY <1>1, <1>7, <2>4 DEF PendingOK, WaitsFor
<1>8. ASSUME NEW st \in {"DELIVERED", "FAILED"}, m # "PickupOrder",
             CompleteOrderForDrone(claims.sub, o, st, now)
      PROVE  PendingOK(p, orders')
  <2>1. /\ orders'[o] = Completed(orders[o], st, now) /\ RowOK(orders[o])
        /\ orders[o].status = "PICKED_UP"
    BY <1>8, <1>3, <1>4 DEF CompleteOrderForDrone
  <2>2. orders'[o] # NULL /\ orders'[o].status = st
    BY <2>1, <1>2, <1>5, CompletedOK
  <2> QED
    BY <1>1, <1>8, <2>2 DEF PendingOK, IsTerminal
<1>9. CASE m \in {"DeliverOrder", "FailOrder"}
  BY <1>8, <1>9 DEF Action
<1> QED
  BY <1>6, <1>7, <1>9 DEF Repeated

(***************************************************************************)
(* No step of another client undoes that: a finished order stays, and an   *)
(* order comes to wait for a drone only when that drone reserves it.       *)
(***************************************************************************)
LEMMA PendingStays ==
    ASSUME IInv, PendingOK(pending, orders), pending # NULL,
           NEW m, NEW claims \in Claims, claims.role = RoleOf(m),
           pending.claims # claims, NEW q, NEW now \in Time,
           Action(m, claims.sub, q, now)
    PROVE  PendingOK(pending, orders')
<1> DEFINE o == pending.query.order
<1>1. /\ pending.method \in Repeated /\ pending.claims \in Claims
      /\ pending.claims.role = RoleOf(pending.method)
      /\ pending.query \in Query(pending.method)
  BY DEF PendingOK
<1>2. o \in OrderId
  BY <1>1 DEF Query, Repeated
<1>3. CASE orders'[o] = orders[o]
  BY <1>3 DEF PendingOK
<1>4. CASE pending.method # "PickupOrder"
  <2>1. orders[o] # NULL /\ IsTerminal(orders[o].status)
    BY <1>4 DEF PendingOK
  <2>2. Next
    BY ActionIsNext DEF Claims
  <2> QED
    BY <1>1, <1>2, <1>3, <2>1, <2>2, TerminalStep
<1>5. CASE pending.method = "PickupOrder" /\ orders'[o] # orders[o]
  <2>1. OrderWrite(m, claims.sub, orders[o], orders'[o])
    BY <1>2, <1>5, OrderWrites DEF Claims
  <2>2. pending.claims.role = "drone" /\ pending.claims.sub # NULL
    BY <1>1, <1>5, DomainAssumption
    DEF RoleOf, UserMethod, DroneMethod, Claims, Name
  <2>3. ~WaitsFor(orders[o], pending.claims.sub)
    BY <1>5 DEF PendingOK
  <2>4. ~(m = "ReserveJob" /\ claims.sub = pending.claims.sub)
    <3>1. m = "ReserveJob" => claims.role = "drone"
      BY DEF RoleOf, UserMethod, DroneMethod
    <3> QED
      BY <1>1, <2>2, <3>1 DEF Claims
  <2>5. ~WaitsFor(orders'[o], pending.claims.sub)
    BY <2>1, <2>2, <2>3, <2>4 DEF OrderWrite, WaitsFor
  <2> QED
    BY <1>1, <1>5, <2>5 DEF PendingOK
<1> QED
  BY <1>3, <1>4, <1>5

(* A step is that of a client whose request is read, or not; it may be     *)
(* carried out.                                                            *)
LEMMA GatewayCases ==
    ASSUME GatewayNext
    PROVE  \E claims \in Opt(Claims) :
               /\ caller' = claims
               /\ \/ UNCHANGED vars /\ pending' = StillPending(claims)
                  \/ \E m \in Method : \E q \in Query(m) : Served(m, claims, q)
<1>1. PICK claims \in Opt(Claims) :
         \/ Unread(claims)
         \/ \E t \in Transport, m \in Method :
                \E q \in Query(m) : Request(t, m, claims, q) \/ Fails(t, m, claims, q)
  BY DEF GatewayNext
<1>2. CASE Unread(claims)
  BY <1>2 DEF Unread
<1>3. ASSUME NEW t \in Transport, NEW m \in Method, NEW q \in Query(m),
             Request(t, m, claims, q) \/ Fails(t, m, claims, q)
      PROVE  /\ caller' = claims
             /\ \/ UNCHANGED vars /\ pending' = StillPending(claims)
                \/ Served(m, claims, q)
  BY <1>3, RequestCases, FailsCases
<1> QED
  BY <1>1, <1>2, <1>3

(* A request that is carried out is an action of Delivery. *)
LEMMA ServedAction ==
    ASSUME NEW m \in Method, NEW claims, NEW q \in Query(m), Served(m, claims, q)
    PROVE  /\ Next
           /\ \E now \in Time : Action(m, claims.sub, q, now)
<1>1. m \in WriteMethod /\ OperationStep(OperationOf[m], claims.sub, q)
  BY DEF Served
<1>2. PICK now \in Time : Action(m, claims.sub, q, now)
  BY <1>1, WriteStep
<1>3. claims.sub \in Name
  BY DEF Served, Claims
<1> QED
  BY <1>2, <1>3, ActionIsNext

(* Nothing is pending on empty tables.                                     *)
LEMMA GatewayInitOK == GatewayInit => GatewayInv
BY InitOK DEF GatewayInit, GatewayInv, PendingOK, Opt

(* Every request keeps the invariant.                                      *)
LEMMA GatewayNextOK == GatewayInv /\ [GatewayNext]_gatewayVars => GatewayInv'
<1> SUFFICES ASSUME GatewayInv, [GatewayNext]_gatewayVars
             PROVE  GatewayInv'
  OBVIOUS
<1>1. IInv /\ caller \in Opt(Claims) /\ PendingOK(pending, orders)
  BY DEF GatewayInv
<1>2. CASE UNCHANGED gatewayVars
  <2>1. IInv'
    BY <1>1, <1>2, NextOK DEF gatewayVars
  <2> QED
    BY <1>1, <1>2, <2>1 DEF GatewayInv, gatewayVars, vars
<1>3. CASE GatewayNext
  <2>1. PICK claims \in Opt(Claims) :
           /\ caller' = claims
           /\ \/ UNCHANGED vars /\ pending' = StillPending(claims)
              \/ \E m \in Method : \E q \in Query(m) : Served(m, claims, q)
    BY <1>3, GatewayCases
  <2>2. CASE UNCHANGED vars /\ pending' = StillPending(claims)
    <3>1. IInv'
      BY <1>1, <2>2, NextOK
    <3>2. PendingOK(pending', orders')
      <4>1. orders' = orders /\ pending' \in {NULL, pending}
        BY <2>2 DEF vars, StillPending
      <4> QED
        BY <1>1, <4>1 DEF PendingOK
    <3> QED
      BY <2>1, <3>1, <3>2 DEF GatewayInv
  <2>3. ASSUME NEW m \in Method, NEW q \in Query(m), Served(m, claims, q)
        PROVE  GatewayInv'
    <3>1. PICK now \in Time : Action(m, claims.sub, q, now)
      BY <2>3, ServedAction
    <3>2. IInv'
      BY <1>1, <2>3, ServedAction, NextOK
    <3>3. claims \in Claims /\ claims.role = RoleOf(m)
      BY <2>3 DEF Served
    <3>4. PendingOK(pending', orders')
      <4>1. CASE pending' = ThisRequest(m, claims, q) /\ m \in Repeated
        BY <1>1, <3>1, <3>3, <4>1, ServedOK
      <4>2. CASE pending' = StillPending(claims)
        <5>1. CASE pending' = NULL
          BY <5>1 DEF PendingOK
        <5>2. CASE pending' # NULL
          <6>1. pending' = pending /\ pending # NULL /\ pending.claims # claims
            BY <4>2, <5>2 DEF StillPending
          <6> QED
            BY <1>1, <3>1, <3>3, <6>1, PendingStays
        <5> QED
          BY <5>1, <5>2
      <4> QED
        BY <2>3, <4>1, <4>2 DEF Served
    <3> QED
      BY <2>1, <3>2, <3>4 DEF GatewayInv
  <2> QED
    BY <2>1, <2>2, <2>3
<1> QED
  BY <1>2, <1>3

(***************************************************************************)
(* The invariant of Delivery holds behind the three transports, whoever    *)
(* calls what, and what a request with a lost reply has done is not undone *)
(* before its client is back.                                              *)
(***************************************************************************)
THEOREM GatewayKeepsInvariant == GatewaySpec => []GatewayInv
BY GatewayInitOK, GatewayNextOK, PTL DEF GatewaySpec

-------------------------------------------------------------------------------
(* The properties *)

(***************************************************************************)
(* The tables, the caller and a pending request are always well typed.     *)
(***************************************************************************)
THEOREM GatewayTypeCorrect == GatewaySpec => []GatewayTypeOK
<1>1. GatewayInv => GatewayTypeOK
  BY DEF GatewayInv, IInv, OrdersOK, DronesOK, PendingOK, GatewayTypeOK, TypeOK
<1> QED
  BY <1>1, GatewayKeepsInvariant, PTL

(***************************************************************************)
(* A withdrawal, pickup, delivery or failure that was carried out and is   *)
(* sent again, because its reply was lost or was an internal error, is     *)
(* refused, through any transport and after any calls of others.           *)
(***************************************************************************)
THEOREM RepeatsRefused == GatewaySpec => []RepeatsActOnce
<1>1. GatewayInv => RepeatsActOnce
  <2> SUFFICES ASSUME GatewayInv, pending # NULL, NEW t \in Transport,
                      Respond(t, pending.method, pending.claims, pending.query)
                          = "ok"
               PROVE  FALSE
    BY DEF RepeatsActOnce
  <2> DEFINE m == pending.method
             d == pending.claims.sub
             q == pending.query
             o == pending.query.order
             r == OperationResult(OperationOf[m], d, pending.claims.role, q)
  <2>1. /\ m \in Repeated /\ pending.claims \in Claims
        /\ IF m = "PickupOrder" THEN ~WaitsFor(orders[o], d)
           ELSE orders[o] # NULL /\ IsTerminal(orders[o].status)
    BY DEF GatewayInv, PendingOK
  <2>2. r = "ok"
    BY <2>1, WriteAuthorized, ReadsAreNotRepeated DEF Opt
  <2>3. CASE m = "WithdrawOrder"
    <3>1. r = WithdrawResult(d, o)
      BY <2>3 DEF OperationResult, OperationOf
    <3> QED
      BY <2>1, <2>2, <2>3, <3>1 DEF WithdrawResult, IsTerminal
  <2>4. CASE m = "PickupOrder"
    <3>1. r = PickupResult(d, o)
      BY <2>4 DEF OperationResult, OperationOf
    <3> QED
      BY <2>1, <2>2, <2>4, <3>1 DEF PickupResult, WaitsFor
  <2>5. CASE m \in {"DeliverOrder", "FailOrder"}
    <3>1. r = CompleteResult(d, o) \/ r = FailResult(d, o, q.reason)
      BY <2>5 DEF OperationResult, OperationOf
    <3>2. CompleteResult(d, o) = "ok"
      BY <2>2, <3>1 DEF FailResult
    <3> QED
      BY <2>1, <2>5, <3>2 DEF CompleteResult, IsTerminal
  <2> QED
    BY <2>1, <2>3, <2>4, <2>5 DEF Repeated
<1> QED
  BY <1>1, GatewayKeepsInvariant, PTL

(***************************************************************************)
(* Nobody changes what is another's: an order changes by its owner, by its *)
(* drone or by an admin, a drone by itself, by the owner of its order or   *)
(* by an admin, through whichever transport.                               *)
(***************************************************************************)
THEOREM EachActsForItself == GatewaySpec => NobodyActsForAnother
<1> DEFINE OrdersKept ==
              \A o \in OrderId :
                 orders'[o] # orders[o] =>
                     \/ ByAdmin
                     \/ By("enduser", orders'[o].user)
                     \/ orders[o] # NULL /\ By("drone", orders[o].assigned)
                     \/ By("drone", orders'[o].assigned)
           DronesKept ==
              \A d \in DroneId :
                 drones'[d] # drones[d] =>
                     \/ ByAdmin
                     \/ By("drone", d)
                     \/ \E o \in OrderId :
                            /\ drones[d] # NULL /\ drones[d].current = o
                            /\ By("enduser", orders[o].user)
<1>1. ASSUME GatewayInv, GatewayNext
      PROVE  OrdersKept /\ DronesKept
  <2>1. PICK claims \in Opt(Claims) :
           /\ caller' = claims
           /\ \/ UNCHANGED vars /\ pending' = StillPending(claims)
              \/ \E m \in Method : \E q \in Query(m) : Served(m, claims, q)
    BY <1>1, GatewayCases
  <2>2. CASE UNCHANGED vars
    BY <2>2 DEF vars
  <2>3. ASSUME NEW m \in Method, NEW q \in Query(m), Served(m, claims, q)
        PROVE  OrdersKept /\ DronesKept
    <3>1. PICK now \in Time : Action(m, claims.sub, q, now)
      BY <2>3, ServedAction
    <3>2. /\ claims \in Claims /\ claims.sub \in Name
          /\ claims.role = RoleOf(m)
      BY <2>3 DEF Served, Claims
    <3>3. By(RoleOf(m), claims.sub)
      BY <2>1, <3>2 DEF By, Claims
    <3>4. m \in AdminMethod => ByAdmin
      BY <3>2, <3>3 DEF ByAdmin, RoleOf, AdminMethod, UserMethod, DroneMethod
    <3>5. /\ m \in UserMethod => By("enduser", claims.sub)
          /\ m \in DroneMethod => By("drone", claims.sub)
      BY <3>3 DEF RoleOf, UserMethod, DroneMethod
    <3>6. OrdersKept
      <4> SUFFICES ASSUME NEW o \in OrderId, orders'[o] # orders[o]
                   PROVE  \/ ByAdmin
                          \/ By("enduser", orders'[o].user)
                          \/ orders[o] # NULL /\ By("drone", orders[o].assigned)
                          \/ By("drone", orders'[o].assigned)
        OBVIOUS
      <4>1. OrderWrite(m, claims.sub, orders[o], orders'[o])
        BY <1>1, <3>1, <3>2, OrderWrites DEF GatewayInv
      <4> QED
        BY <3>4, <3>5, <4>1
        DEF OrderWrite, AdminMethod, UserMethod, DroneMethod
    <3>7. DronesKept
      <4> SUFFICES ASSUME NEW d \in DroneId, drones'[d] # drones[d]
                   PROVE  \/ ByAdmin
                          \/ By("drone", d)
                          \/ \E o \in OrderId :
                                 /\ drones[d] # NULL /\ drones[d].current = o
                                 /\ By("enduser", orders[o].user)
        OBVIOUS
      <4>1. \/ m \in {"MarkDroneBroken", "MarkDroneFixed"}
            \/ m \in DroneMethod /\ claims.sub = d
            \/ /\ m = "WithdrawOrder"
               /\ \E o \in OrderId :
                      /\ drones[d] # NULL /\ drones[d].current = o
                      /\ orders[o].user = claims.sub
        BY <1>1, <3>1, <3>2, DroneWrites DEF GatewayInv
      <4> QED
        BY <3>4, <3>5, <4>1 DEF AdminMethod, UserMethod
    <3> QED
      BY <3>6, <3>7
  <2> QED
    BY <2>1, <2>2, <2>3
<1>2. GatewayInv /\ [GatewayNext]_gatewayVars
          => [OrdersKept /\ DronesKept]_gatewayVars
  BY <1>1
<1> QED
  BY <1>2, GatewayKeepsInvariant, PTL DEF GatewaySpec, NobodyActsForAnother

-------------------------------------------------------------------------------
(* What a client makes of an answer *)

(* reply is what the transport writes for r, as a result of the method or  *)
(* of the check of the token.                                              *)
Written(t, m, r, reply) ==
    \/ Reply(t, m, r) = reply
    \/ r \in {"unauthorized", "forbidden"} /\ Refusal(t, r) = reply

(* The result a message, or a code of REST, stands for; every result has a *)
(* message of its own.                                                     *)
ResultOf(text) ==
    CASE text = "" -> "ok"
      [] text \in {"unauthorized", "missing token"} -> "unauthorized"
      [] text = "forbidden" -> "forbidden"
      [] text \in {"not_found", "not found"} -> "not_found"
      [] text = "conflict" -> "conflict"
      [] text \in {"invalid", "invalid request"} -> "invalid"
      [] text \in {"precondition_failed", "precondition failed"}
             -> "precondition_failed"
      [] text \in {"no_job", "no job", "no job available"} -> "no_job"
      [] text \in {"internal", "internal error"} -> "internal"

(* The messages of the gRPC and Thrift error tables.                       *)
LEMMA Texts ==
    /\ ResultOf("unauthorized") = "unauthorized"
    /\ ResultOf("forbidden") = "forbidden"
    /\ ResultOf("not found") = "not_found"
    /\ ResultOf("conflict") = "conflict"
    /\ ResultOf("invalid request") = "invalid"
    /\ ResultOf("precondition failed") = "precondition_failed"
    /\ ResultOf("no job") = "no_job"
    /\ ResultOf("no job available") = "no_job"
    /\ ResultOf("internal error") = "internal"
BY DEF ResultOf

(* REST: the code in the body tells not_found from no_job, and conflict    *)
(* from precondition_failed, which share a status.                         *)
LEMMA RestReplies ==
    ASSUME NEW m, NEW r \in Result, NEW reply, Written("rest", m, r, reply)
    PROVE  r = ResultOf(reply[2])
<1>1. \A x \in Result \ {"ok"} : WriteError(x)[2] = x
  BY DEF WriteError, Result
<1>2. RespondJSON(m)[2] = ""
  BY DEF RespondJSON
<1>3. reply[2] = IF r = "ok" THEN "" ELSE r
  BY <1>1, <1>2 DEF Written, Reply, Refusal, Result
<1> QED
  BY <1>3 DEF ResultOf, Result

(* gRPC: the message tells not_found from no_job; a missing token has two  *)
(* messages, and they stand for nothing else.                              *)
LEMMA GrpcReplies ==
    ASSUME NEW m, NEW r \in Result, NEW reply, Written("grpc", m, r, reply)
    PROVE  r = ResultOf(reply[2])
<1>1. \A x \in Result \ {"ok"} : x = ResultOf(MapServiceError(x)[2])
  <2>1. /\ MapServiceError("unauthorized")[2] = "unauthorized"
        /\ MapServiceError("forbidden")[2] = "forbidden"
        /\ MapServiceError("not_found")[2] = "not found"
        /\ MapServiceError("conflict")[2] = "conflict"
        /\ MapServiceError("invalid")[2] = "invalid request"
        /\ MapServiceError("precondition_failed")[2] = "precondition failed"
        /\ MapServiceError("no_job")[2] = "no job available"
        /\ MapServiceError("internal")[2] = "internal error"
    BY DEF MapServiceError
  <2> QED
    BY <2>1, Texts DEF Result
<1>2. \A x \in {"unauthorized", "forbidden"} : x = ResultOf(Refusal("grpc", x)[2])
  BY DEF Refusal, ResultOf
<1>3. "ok" = ResultOf(<<"OK", "">>[2])
  BY DEF ResultOf
<1> QED
  BY <1>1, <1>2, <1>3 DEF Written, Reply, Result

(* Thrift: an error is an exception, told by its message.                  *)
LEMMA ThriftReplies ==
    ASSUME NEW m, NEW r \in Result, NEW reply, Written("thrift", m, r, reply)
    PROVE  r = ResultOf(reply[2])
<1>1. \A x \in Result \ {"ok"} : x = ResultOf(MapError(x)[2])
  <2>1. /\ MapError("unauthorized")[2] = "unauthorized"
        /\ MapError("forbidden")[2] = "forbidden"
        /\ MapError("not_found")[2] = "not found"
        /\ MapError("conflict")[2] = "conflict"
        /\ MapError("invalid")[2] = "invalid request"
        /\ MapError("precondition_failed")[2] = "precondition failed"
        /\ MapError("no_job")[2] = "no job"
        /\ MapError("internal")[2] = "internal error"
    BY DEF MapError
  <2> QED
    BY <2>1, Texts DEF Result
<1>3. "ok" = ResultOf(<<"REPLY", "">>[2])
  BY DEF ResultOf
<1> QED
  BY <1>1, <1>3 DEF Written, Reply, Refusal, Result

(* So a client gets from a reply the result it was written for.            *)
LEMMA MeaningOfWritten ==
    ASSUME NEW t \in Transport, NEW m, NEW r \in Result, NEW reply,
           Written(t, m, r, reply)
    PROVE  Meaning(t, m, reply) = r
<1>1. Meaning(t, m, reply) = CHOOSE s \in Result : Written(t, m, s, reply)
  BY DEF Meaning, Written
<1>2. /\ Meaning(t, m, reply) \in Result
      /\ Written(t, m, Meaning(t, m, reply), reply)
  BY <1>1
<1> QED
  BY <1>2, RestReplies, GrpcReplies, ThriftReplies DEF Transport

(* The operations handlers call. *)
Operation ==
    {"IssueToken", "SubmitOrder", "WithdrawOrder", "GetOrderView",
     "DroneReserveJob", "DronePickup", "DroneDeliver", "DroneFail",
     "DroneMarkBroken", "DroneHeartbeat", "DroneCurrentOrder",
     "AdminUpdateOrder", "AdminMarkDroneBroken", "AdminMarkDroneFixed",
     "AdminListOrders", "AdminListDrones"}

(* Every method of the service returns nil or one of the domain's errors.  *)
LEMMA OperationResults ==
    ASSUME NEW op \in Operation, NEW name, NEW role, NEW q
    PROVE  OperationResult(op, name, role, q) \in Result
<1>1. /\ \A x : TokenResult(x) \in Result
      /\ \A x, y : SubmitResult(x, y) \in Result
      /\ \A x : HeartbeatResult(x) \in Result
  BY DEF TokenResult, SubmitResult, HeartbeatResult, Result
<1>2. /\ \A x, y : WithdrawResult(x, y) \in Result
      /\ \A x, y, z : GetOrderResult(x, y, z) \in Result
      /\ \A x, y, z : UpdateResult(x, y, z) \in Result
  BY DEF WithdrawResult, GetOrderResult, UpdateResult, Result
<1>3. /\ \A x : ReserveResult(x) \in Result
      /\ \A x, y : PickupResult(x, y) \in Result
      /\ \A x, y : CompleteResult(x, y) \in Result
  BY DEF ReserveResult, PickupResult, CompleteResult, Result
<1>4. \A x, y, z : FailResult(x, y, z) \in Result
  BY <1>3 DEF FailResult, Result
<1>5. /\ \A x : BrokenResult(x) \in Result
      /\ \A x : CurrentOrderResult(x) \in Result
      /\ "ok" \in Result
  BY DEF BrokenResult, CurrentOrderResult, Result
<1> QED
  BY <1>1, <1>2, <1>3, <1>4, <1>5 DEF OperationResult, Operation

(* Every route leads to one of them.                                       *)
LEMMA RoutedOperation ==
    ASSUME NEW t \in Transport, NEW m \in Method
    PROVE  HandlerOf(t, m).operation \in Operation
<1>1. Routed(HandlerOf(t, m), m)
  BY Routes
<1>2. CASE m \in WriteMethod
  <2>1. OperationOf[m] \in Operation
    BY <1>2 DEF OperationOf, Operation, WriteMethod, UserMethod, DroneMethod,
                AdminMethod
  <2> QED
    BY <1>1, <1>2, <2>1 DEF Routed, Handler
<1>3. CASE m \notin WriteMethod
  <2>1. m \in {"IssueToken", "CurrentOrder", "ListOrders", "ListDrones", "GetOrder"}
    BY <1>3 DEF Method, WriteMethod, UserMethod, DroneMethod, AdminMethod
  <2> QED
    BY <1>1, <2>1 DEF Routed, ReadRouted, Handler, Operation
<1> QED
  BY <1>2, <1>3

(* A client reads from its answer the result of its request.               *)
LEMMA AnswersTellTheResult ==
    ASSUME NEW t \in Transport, NEW m \in Method, NEW claims, NEW q
    PROVE  /\ Respond(t, m, claims, q) \in Result
           /\ Meaning(t, m, Answer(t, m, claims, q)) = Respond(t, m, claims, q)
<1> DEFINE auth == Authorize(HandlerOf(t, m), claims)
<1>1. auth \in {"ok", "unauthorized", "forbidden"}
  BY DEF Authorize
<1>2. Respond(t, m, claims, q) \in Result
  BY <1>1, RoutedOperation, OperationResults DEF Respond, Result
<1>3. Written(t, m, Respond(t, m, claims, q), Answer(t, m, claims, q))
  BY <1>1 DEF Written, Answer, Respond
<1> QED
  BY <1>2, <1>3, MeaningOfWritten

(* A failure of the database is read as such.                              *)
LEMMA FailuresTold ==
    ASSUME NEW t \in Transport, NEW m
    PROVE  Meaning(t, m, Reply(t, m, "internal")) = "internal"
BY MeaningOfWritten DEF Written, Result

(* The transports ask the same of the claims and call the same method.     *)
LEMMA SameResponse ==
    ASSUME NEW t \in Transport, NEW m \in Method, NEW claims \in Opt(Claims), NEW q,
           m # "GetOrder" \/ claims = NULL \/ claims.role = "enduser"
    PROVE  Respond(t, m, claims, q) = Respond("rest", m, claims, q)
<1>1. Routed(HandlerOf(t, m), m) /\ Routed(HandlerOf("rest", m), m)
  BY Routes DEF Transport
<1>2. CASE m # "GetOrder"
  <2>1. HandlerOf(t, m) = HandlerOf("rest", m)
    BY <1>1, <1>2
    DEF Routed, ReadRouted, Method, WriteMethod, UserMethod, DroneMethod, AdminMethod
  <2> QED
    BY <2>1 DEF Respond
<1>3. CASE m = "GetOrder"
  <2>1. ASSUME NEW h, ReadRouted(h, "GetOrder")
        PROVE  /\ Authorize(h, claims) = IF claims = NULL THEN "unauthorized" ELSE "ok"
               /\ h.operation = "GetOrderView"
    <3>1. NULL \notin h.roles /\ "enduser" \in h.roles /\ h.operation = "GetOrderView"
      BY <2>1, ClaimsAssumption DEF ReadRouted, Handler, Role
    <3> QED
      BY <1>3, <3>1 DEF Authorize
  <2> QED
    BY <1>1, <1>3, <2>1 DEF Routed, Respond
<1> QED
  BY <1>2, <1>3

(***************************************************************************)
(* The transports are thin: in every state, the same request with the same *)
(* token is told the same through REST, gRPC and Thrift, but for who may   *)
(* read an order.                                                          *)
(***************************************************************************)
THEOREM TransportsAreThin == GatewaySpec => []TransportsAgree
<1>1. TransportsAgree
  BY AnswersTellTheResult, FailuresTold, SameResponse DEF TransportsAgree
<1> QED
  BY <1>1, PTL

-------------------------------------------------------------------------------
(* What the results of the methods say *)

(* The requests whose operation works on an order, or on a drone, name it. *)
LEMMA OperationArguments ==
    ASSUME NEW t \in Transport, NEW m \in Method, NEW q \in Query(m)
    PROVE  LET op == HandlerOf(t, m).operation
           IN  /\ op \in {"WithdrawOrder", "GetOrderView", "AdminUpdateOrder",
                          "DronePickup", "DroneDeliver", "DroneFail"}
                      => q.order \in OrderId
               /\ op \in {"AdminMarkDroneBroken", "AdminMarkDroneFixed"}
                      => q.drone \in DroneId
<1>1. Routed(HandlerOf(t, m), m)
  BY Routes
<1>2. CASE m \in WriteMethod
  <2>1. HandlerOf(t, m).operation = OperationOf[m]
    BY <1>1, <1>2 DEF Routed, Handler
  <2>2. /\ OperationOf[m] \in {"WithdrawOrder", "GetOrderView", "AdminUpdateOrder",
                               "DronePickup", "DroneDeliver", "DroneFail"}
               => m \in {"WithdrawOrder", "UpdateOrder", "PickupOrder",
                         "DeliverOrder", "FailOrder"}
        /\ OperationOf[m] \in {"AdminMarkDroneBroken", "AdminMarkDroneFixed"}
               => m \in {"MarkDroneBroken", "MarkDroneFixed"}
    BY <1>2 DEF OperationOf, WriteMethod, UserMethod, DroneMethod, AdminMethod
  <2>3. /\ m \in {"WithdrawOrder", "UpdateOrder", "PickupOrder",
                  "DeliverOrder", "FailOrder"} => q.order \in OrderId
        /\ m \in {"MarkDroneBroken", "MarkDroneFixed"} => q.drone \in DroneId
    BY DEF Query
  <2> QED
    BY <2>1, <2>2, <2>3
<1>3. CASE m \notin WriteMethod
  <2>1. m \in {"IssueToken", "CurrentOrder", "ListOrders", "ListDrones", "GetOrder"}
    BY <1>3 DEF Method, WriteMethod, UserMethod, DroneMethod, AdminMethod
  <2>2. m = "GetOrder" => q.order \in OrderId
    BY DEF Query
  <2> QED
    BY <1>1, <2>1, <2>2 DEF Routed, ReadRouted, Handler
<1> QED
  BY <1>2, <1>3

(* The order of a drone is in the table, and the drone of an order under   *)
(* way is: no foreign key says so, AssignmentAgrees does.                  *)
LEMMA FollowedRows ==
    ASSUME IInv
    PROVE  /\ \A d \in DroneId :
                 drones[d] # NULL /\ drones[d].current # NULL
                     => orders[drones[d].current] # NULL
           /\ \A o \in OrderId :
                 orders[o] # NULL /\ orders[o].status \in Underway
                                  /\ orders[o].assigned # NULL
                     => drones[orders[o].assigned] # NULL
<1>1. ASSUME NEW d \in DroneId, drones[d] # NULL, drones[d].current # NULL
      PROVE  orders[drones[d].current] # NULL
  <2>1. drones[d].current \in OrderId
    BY <1>1 DEF IInv, DronesOK, DroneRow, Opt
  <2> QED
    BY <1>1, <2>1 DEF IInv, AssignmentAgrees
<1>2. ASSUME NEW o \in OrderId, orders[o] # NULL, orders[o].status \in Underway,
             orders[o].assigned # NULL
      PROVE  drones[orders[o].assigned] # NULL
  <2>1. orders[o].assigned \in DroneId
    BY <1>2 DEF IInv, OrdersOK, OrderRow, Opt
  <2> QED
    BY <1>2, <2>1 DEF IInv, AssignmentAgrees
<1> QED
  BY <1>1, <1>2

(* A breakdown finds the order of its drone.                               *)
LEMMA BrokenFindsItsOrder ==
    ASSUME IInv, NEW d \in DroneId
    PROVE  BrokenResult(d) = "ok"
BY GetOrCreateDroneOK, FollowedRows DEF IInv, BrokenResult

(* not_found, method by method. *)
LEMMA NotFoundMeansMissing ==
    ASSUME IInv, NEW t \in Transport, NEW m \in Method, NEW q \in Query(m),
           NEW name \in Name, NEW role,
           OperationResult(HandlerOf(t, m).operation, name, role, q) = "not_found"
    PROVE  AskedForIsMissing(HandlerOf(t, m).operation, name, q)
<1> DEFINE op == HandlerOf(t, m).operation
<1>1. op \in Operation
  BY RoutedOperation
<1>2. /\ op \in {"WithdrawOrder", "GetOrderView", "AdminUpdateOrder",
                 "DronePickup", "DroneDeliver", "DroneFail"} => q.order \in OrderId
      /\ op \in {"AdminMarkDroneBroken", "AdminMarkDroneFixed"} => q.drone \in DroneId
  BY OperationArguments
<1>3. name \in DroneId /\ name # NULL
  BY NameAssumption, DomainAssumption DEF Name
<1>4. CASE op = "WithdrawOrder"
  <2>1. WithdrawResult(name, q.order) = "not_found"
    BY <1>4 DEF OperationResult
  <2> QED
    BY <1>2, <1>4, <2>1, FollowedRows DEF WithdrawResult, AskedForIsMissing, Underway
<1>5. CASE op = "GetOrderView"
  <2>1. GetOrderResult(name, role, q.order) = "not_found"
    BY <1>5 DEF OperationResult
  <2> QED
    BY <1>5, <2>1 DEF GetOrderResult, AskedForIsMissing
<1>6. CASE op = "AdminUpdateOrder"
  <2>1. UpdateResult(q.order, q.from, q.to) = "not_found"
    BY <1>6 DEF OperationResult
  <2> QED
    BY <1>6, <2>1 DEF UpdateResult, AskedForIsMissing
<1>7. CASE op = "DronePickup"
  <2>1. PickupResult(name, q.order) = "not_found"
    BY <1>7 DEF OperationResult
  <2> QED
    BY <1>7, <2>1 DEF PickupResult, AskedForIsMissing
<1>8. CASE op \in {"DroneDeliver", "DroneFail"}
  <2>1. \/ CompleteResult(name, q.order) = "not_found"
        \/ FailResult(name, q.order, q.reason) = "not_found"
    BY <1>8 DEF OperationResult
  <2>2. CompleteResult(name, q.order) = "not_found"
    BY <2>1 DEF FailResult
  <2> QED
    BY <1>2, <1>3, <1>8, <2>2, FollowedRows
    DEF CompleteResult, AskedForIsMissing, Underway
<1>9. op # "DroneMarkBroken" /\ op # "AdminMarkDroneBroken"
  <2>1. op = "DroneMarkBroken" => BrokenResult(name) = "not_found"
    BY DEF OperationResult
  <2>2. op = "AdminMarkDroneBroken" => BrokenResult(q.drone) = "not_found"
    BY DEF OperationResult
  <2> QED
    BY <1>2, <1>3, <2>1, <2>2, BrokenFindsItsOrder
<1>10. CASE op = "DroneCurrentOrder"
  <2>1. CurrentOrderResult(name) = "not_found"
    BY <1>10 DEF OperationResult
  <2> QED
    BY <1>3, <1>10, <2>1, FollowedRows DEF CurrentOrderResult, AskedForIsMissing
<1>11. op \notin {"IssueToken", "SubmitOrder", "DroneReserveJob", "DroneHeartbeat",
                  "AdminMarkDroneFixed", "AdminListOrders", "AdminListDrones"}
  <2>1. /\ op = "IssueToken" => TokenResult(q.token) = "not_found"
        /\ op = "SubmitOrder" => SubmitResult(q.from, q.to) = "not_found"
        /\ op = "DroneReserveJob" => ReserveResult(name) = "not_found"
        /\ op = "DroneHeartbeat" => HeartbeatResult(q.to) = "not_found"
        /\ op \notin {"AdminMarkDroneFixed", "AdminListOrders", "AdminListDrones"}
    BY DEF OperationResult
  <2> QED
    BY <2>1 DEF TokenResult, SubmitResult, ReserveResult, HeartbeatResult
<1> QED
  BY <1>1, <1>4, <1>5, <1>6, <1>7, <1>8, <1>9, <1>10, <1>11 DEF Operation

(***************************************************************************)
(* not_found always speaks of what the caller asked for: after any calls   *)
(* of anybody, a method that follows an id from an order to its drone or   *)
(* from a drone to its order finds the row.                                *)
(***************************************************************************)
THEOREM NotFoundTellsTheTruth == GatewaySpec => []NotFoundIsTrue
<1>1. GatewayInv => NotFoundIsTrue
  BY NotFoundMeansMissing DEF GatewayInv, NotFoundIsTrue, Transport
<1> QED
  BY <1>1, GatewayKeepsInvariant, PTL

-------------------------------------------------------------------------------
(* The layers *)

(***************************************************************************)
(* Behind the transports there is nothing but Delivery: each request is an *)
(* action of the service, or changes no table.  So every theorem about     *)
(* Delivery!Spec is one about the service as its clients reach it.         *)
(***************************************************************************)
THEOREM GatewayImplementsDelivery == GatewaySpec => Spec
<1>1. GatewayInit => Init
  BY DEF GatewayInit
<1>2. ASSUME GatewayNext
      PROVE  Next \/ UNCHANGED vars
  BY <1>2, GatewayCases, ServedAction
<1>3. [GatewayNext]_gatewayVars => [Next]_vars
  BY <1>2 DEF gatewayVars
<1> QED
  BY <1>1, <1>3, PTL DEF GatewaySpec, Spec

(* An exchange, over whichever transport, is a request, one under which    *)
(* the database fails, or one the server cannot read.                      *)
LEMMA ExchangeCases ==
    ASSUME TransportNext
    PROVE  GatewayNext
<1>1. PICK m \in Method, claims \in Opt(Claims) :
         \E q \in Query(m) :
            \/ \E t \in Transport : Exchange(t, m, claims, q)
            \/ \E program \in Programs(m) :
                   \E omitted \in Omitted(m, q) :
                       LET outcome == RequestRead[m][program][omitted]
                       IN  \/ ThriftMalformed(claims, outcome)
                           \/ ThriftExchange(program, m, claims, q, outcome)
                           \/ ThriftFails(m, claims, q, outcome)
  BY DEF TransportNext
<1>2. PICK q \in Query(m) :
            \/ \E t \in Transport : Exchange(t, m, claims, q)
            \/ \E program, outcome : \/ ThriftMalformed(claims, outcome)
                                     \/ ThriftExchange(program, m, claims, q, outcome)
                                     \/ ThriftFails(m, claims, q, outcome)
  BY <1>1
<1>3. ASSUME NEW t \in Transport, Request(t, m, claims, q) \/ Fails(t, m, claims, q)
      PROVE  GatewayNext
  BY <1>3 DEF GatewayNext
<1>4. ASSUME NEW t \in Transport, Exchange(t, m, claims, q)
      PROVE  GatewayNext
  BY <1>3, <1>4 DEF Exchange
<1>5. ASSUME NEW outcome, ThriftMalformed(claims, outcome)
      PROVE  GatewayNext
  BY <1>5 DEF ThriftMalformed, GatewayNext
<1>6. ASSUME NEW program, NEW outcome,
             \/ ThriftExchange(program, m, claims, q, outcome)
             \/ ThriftFails(m, claims, q, outcome)
      PROVE  GatewayNext
  <2>1. /\ "thrift" \in Transport
        /\ Request("thrift", m, claims, q) \/ Fails("thrift", m, claims, q)
    BY <1>6 DEF ThriftExchange, ThriftFails, Transport
  <2> QED
    BY <1>3, <2>1
<1> QED
  BY <1>2, <1>4, <1>5, <1>6

(***************************************************************************)
(* Writing and reading the messages of Thrift adds no behaviour: whatever  *)
(* the codecs of the two sides do, what reaches the service is a request   *)
(* of Gateway or nothing.  The theorems about GatewaySpec hold of the      *)
(* system with its wire, which is what the gateway run explores.           *)
(***************************************************************************)
THEOREM TransportImplementsGateway == TransportSpec => GatewaySpec
<1>1. TransportInit => GatewayInit
  BY DEF TransportInit
<1>2. [TransportNext]_transportVars => [GatewayNext]_gatewayVars
  BY ExchangeCases DEF transportVars
<1> QED
  BY <1>1, <1>2, PTL DEF TransportSpec, GatewaySpec
===============================================================================
