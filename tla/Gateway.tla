------------------------------- MODULE Gateway -------------------------------
(***************************************************************************)
(* The REST, gRPC and Thrift transports in front of the service layer: who *)
(* may call what through which of them, which method of the service a call *)
(* ends in, which error it answers with, and how each transport writes     *)
(* that error.                                                             *)
(*                                                                         *)
(* A request is one step here: authorisation, the method (an action of     *)
(* Delivery) and the answer.  Tokens are self-contained and are given to   *)
(* anybody for any name and role, so no state is kept for them: a request  *)
(* comes with the claims of some token, or with NULL when ParseToken finds *)
(* no token or a forged or expired one.  The reply of a request that was   *)
(* carried out may be lost; pending is such a request until its client,    *)
(* which makes one request at a time, comes back.  Where the database or   *)
(* the connection to it fails, the answer is an internal error, whatever   *)
(* was done (see Fails; DeliveryTx has the statements).                    *)
(***************************************************************************)
EXTENDS Delivery

(* The name in a token is the id of a user or of a drone, as the role says. *)
ASSUME NameAssumption == UserId = DroneId

VARIABLES
    caller,     \* the claims of the last request
    pending     \* a request that was carried out and whose client was not told

gatewayVars == <<vars, caller, pending>>

Transport == {"rest", "grpc", "thrift"}

Role == {"admin", "enduser", "drone"}

Name == UserId

(* The methods, by the names the gRPC and Thrift services give them. *)
Method == {"IssueToken", "SubmitOrder", "WithdrawOrder", "GetOrder",
           "ReserveJob", "PickupOrder", "DeliverOrder", "FailOrder",
           "MarkBroken", "Heartbeat", "CurrentOrder", "ListOrders",
           "UpdateOrder", "ListDrones", "MarkDroneBroken", "MarkDroneFixed"}

(* nil, the errors of package domain, and every other error. *)
Result == {"ok", "unauthorized", "forbidden", "not_found", "conflict",
           "invalid", "precondition_failed", "no_job", "internal"}

(* What IssueToken signs; ValidateRole admits no other role. *)
Claims == [sub: Name, role: Role]

(* No claims and no role are nil. *)
ASSUME ClaimsAssumption == NULL \notin Claims \cup Role

-------------------------------------------------------------------------------
(* The handlers: the roles a handler admits (NULL among them when it asks  *)
(* for no token) and the method of Service, or of Authenticator, it calls. *)

Handler(roles, operation) == [roles |-> roles, operation |-> operation]

Anyone == Opt(Role)

(* REST: each group of routes is behind requireRole. *)
RestPublic == [IssueToken |-> Handler(Anyone, "IssueToken")]

RestDrone ==
    [ReserveJob |-> Handler({"drone"}, "DroneReserveJob"),
     PickupOrder |-> Handler({"drone"}, "DronePickup"),
     DeliverOrder |-> Handler({"drone"}, "DroneDeliver"),
     FailOrder |-> Handler({"drone"}, "DroneFail"),
     MarkBroken |-> Handler({"drone"}, "DroneMarkBroken"),
     Heartbeat |-> Handler({"drone"}, "DroneHeartbeat"),
     CurrentOrder |-> Handler({"drone"}, "DroneCurrentOrder")]

RestOrders ==
    [SubmitOrder |-> Handler({"enduser"}, "SubmitOrder"),
     WithdrawOrder |-> Handler({"enduser"}, "WithdrawOrder"),
     GetOrder |-> Handler({"enduser"}, "GetOrderView")]

(* A route of the admins is in the group of the drones. *)
RestAdminBug ==
    [ListOrders |-> Handler({"admin"}, "AdminListOrders"),
     UpdateOrder |-> Handler({"admin"}, "AdminUpdateOrder"),
     ListDrones |-> Handler({"admin"}, "AdminListDrones"),
     MarkDroneBroken |-> Handler({"drone"}, "AdminMarkDroneBroken"),
     MarkDroneFixed |-> Handler({"admin"}, "AdminMarkDroneFixed")]

RestAdmin ==
    [ListOrders |-> Handler({"admin"}, "AdminListOrders"),
     UpdateOrder |-> Handler({"admin"}, "AdminUpdateOrder"),
     ListDrones |-> Handler({"admin"}, "AdminListDrones"),
     MarkDroneBroken |-> Handler({"admin"}, "AdminMarkDroneBroken"),
     MarkDroneFixed |-> Handler({"admin"}, "AdminMarkDroneFixed")]

(* gRPC: the method of Server that the handler of a MethodName calls ...   *)
AuthServiceDesc == [IssueToken |-> "IssueToken"]

OrderServiceDesc ==
    [SubmitOrder |-> "SubmitOrder", WithdrawOrder |-> "WithdrawOrder",
     GetOrder |-> "GetOrder"]

DroneServiceDesc ==
    [ReserveJob |-> "ReserveJob", PickupOrder |-> "PickupOrder",
     DeliverOrder |-> "DeliverOrder", FailOrder |-> "FailOrder",
     MarkBroken |-> "MarkDroneBroken", Heartbeat |-> "Heartbeat",
     CurrentOrder |-> "CurrentOrder"]

(* The admins' handler calls the drones' method of nearly the same name. *)
AdminServiceDescBug ==
    [ListOrders |-> "AdminListOrders", UpdateOrder |-> "AdminUpdateOrder",
     ListDrones |-> "AdminListDrones",
     MarkDroneBroken |-> "MarkDroneBroken",
     MarkDroneFixed |-> "AdminMarkDroneFixed"]

AdminServiceDesc ==
    [ListOrders |-> "AdminListOrders", UpdateOrder |-> "AdminUpdateOrder",
     ListDrones |-> "AdminListDrones",
     MarkDroneBroken |-> "AdminMarkDroneBroken",
     MarkDroneFixed |-> "AdminMarkDroneFixed"]

(* ... and what that method asks of the claims and calls.  authInterceptor *)
(* lets only IssueToken pass without a token.                              *)
AuthServer == [IssueToken |-> Handler(Anyone, "IssueToken")]

OrderServer ==
    [SubmitOrder |-> Handler({"enduser"}, "SubmitOrder"),
     WithdrawOrder |-> Handler({"enduser"}, "WithdrawOrder"),
     GetOrder |-> Handler(Role, "GetOrderView")]

DroneServer ==
    [ReserveJob |-> Handler({"drone"}, "DroneReserveJob"),
     PickupOrder |-> Handler({"drone"}, "DronePickup"),
     DeliverOrder |-> Handler({"drone"}, "DroneDeliver"),
     FailOrder |-> Handler({"drone"}, "DroneFail"),
     MarkDroneBroken |-> Handler({"drone"}, "DroneMarkBroken"),
     Heartbeat |-> Handler({"drone"}, "DroneHeartbeat"),
     CurrentOrder |-> Handler({"drone"}, "DroneCurrentOrder")]

AdminServer ==
    [AdminListOrders |-> Handler({"admin"}, "AdminListOrders"),
     AdminUpdateOrder |-> Handler({"admin"}, "AdminUpdateOrder"),
     AdminListDrones |-> Handler({"admin"}, "AdminListDrones"),
     AdminMarkDroneBroken |-> Handler({"admin"}, "AdminMarkDroneBroken"),
     AdminMarkDroneFixed |-> Handler({"admin"}, "AdminMarkDroneFixed")]

(* Thrift: the calls of authorize, and of authorizeAny in handleGetOrder. *)
ThriftAuth == [IssueToken |-> Handler(Anyone, "IssueToken")]

ThriftOrder ==
    [SubmitOrder |-> Handler({"enduser"}, "SubmitOrder"),
     WithdrawOrder |-> Handler({"enduser"}, "WithdrawOrder"),
     GetOrder |-> Handler(Role, "GetOrderView")]

ThriftDrone ==
    [ReserveJob |-> Handler({"drone"}, "DroneReserveJob"),
     PickupOrder |-> Handler({"drone"}, "DronePickup"),
     DeliverOrder |-> Handler({"drone"}, "DroneDeliver"),
     FailOrder |-> Handler({"drone"}, "DroneFail"),
     MarkBroken |-> Handler({"drone"}, "DroneMarkBroken"),
     Heartbeat |-> Handler({"drone"}, "DroneHeartbeat"),
     CurrentOrder |-> Handler({"drone"}, "DroneCurrentOrder")]

ThriftAdmin ==
    [ListOrders |-> Handler({"admin"}, "AdminListOrders"),
     UpdateOrder |-> Handler({"admin"}, "AdminUpdateOrder"),
     ListDrones |-> Handler({"admin"}, "AdminListDrones"),
     MarkDroneBroken |-> Handler({"admin"}, "AdminMarkDroneBroken"),
     MarkDroneFixed |-> Handler({"admin"}, "AdminMarkDroneFixed")]

(* The routes of two groups.  (As @@ of module TLC, which the provers      *)
(* cannot expand.)                                                         *)
Joined(f, g) ==
    [m \in DOMAIN f \cup DOMAIN g |-> IF m \in DOMAIN f THEN f[m] ELSE g[m]]

RestHandlers ==
    Joined(RestPublic, Joined(RestDrone, Joined(RestOrders, RestAdmin)))

GrpcDescs ==
    Joined(AuthServiceDesc,
           Joined(OrderServiceDesc, Joined(DroneServiceDesc, AdminServiceDesc)))

GrpcServer ==
    Joined(AuthServer, Joined(OrderServer, Joined(DroneServer, AdminServer)))

ThriftHandlers ==
    Joined(ThriftAuth, Joined(ThriftOrder, Joined(ThriftDrone, ThriftAdmin)))

HandlerOf(t, m) ==
    CASE t = "rest" -> RestHandlers[m]
      [] t = "grpc" -> GrpcServer[GrpcDescs[m]]
      [] t = "thrift" -> ThriftHandlers[m]

Authorize(handler, claims) ==
    IF NULL \in handler.roles THEN "ok"
    ELSE IF claims = NULL THEN "unauthorized"
    ELSE IF claims.role \notin handler.roles THEN "forbidden"
    ELSE "ok"

-------------------------------------------------------------------------------
(* The error each method returns, in the order of its checks.  (Errors of  *)
(* the database, which may come at any statement, are in Fails.)           *)

SubmitResult(origin, dest) ==
    IF ValidateLocation(origin) /\ ValidateLocation(dest) THEN "ok" ELSE "invalid"

WithdrawResult(user, o) ==
    IF orders[o] = NULL THEN "not_found"
    ELSE IF orders[o].user # user THEN "forbidden"
    ELSE IF orders[o].status \notin {"CREATED", "RESERVED"}
         THEN "precondition_failed"
    ELSE IF orders[o].status = "RESERVED" /\ orders[o].assigned # NULL
            /\ drones[orders[o].assigned] = NULL THEN "not_found"
    ELSE "ok"

GetOrderResult(name, role, o) ==
    IF orders[o] = NULL THEN "not_found"
    ELSE IF role # "admin" /\ orders[o].user # name THEN "forbidden"
    ELSE "ok"

UpdateResult(o, origin, dest) ==
    IF orders[o] = NULL THEN "not_found"
    ELSE IF IsTerminal(orders[o].status) THEN "precondition_failed"
    ELSE IF \E l \in {origin, dest} \ {NULL} : ~ValidateLocation(l) THEN "invalid"
    ELSE "ok"

ReserveResult(d) ==
    LET drone == GetOrCreateDrone(d)
    IN  IF drone.status = "BROKEN" THEN "precondition_failed"
        ELSE IF drone.current # NULL THEN "conflict"
        ELSE IF \A o \in OrderId :
                    orders[o] = NULL \/ orders[o].status \notin Reservable
                                     \/ orders[o].assigned # NULL
             THEN "no_job"
        ELSE "ok"

(* Takes a second pickup for the first. *)
PickupResultBug(d, o) ==
    IF orders[o] = NULL THEN "not_found"
    ELSE IF orders[o].assigned # d THEN "forbidden"
    ELSE IF orders[o].status \notin {"RESERVED", "HANDOFF_REQUESTED", "PICKED_UP"}
         THEN "precondition_failed"
    ELSE "ok"

PickupResult(d, o) ==
    IF orders[o] = NULL THEN "not_found"
    ELSE IF orders[o].assigned # d THEN "forbidden"
    ELSE IF orders[o].status \notin {"RESERVED", "HANDOFF_REQUESTED"}
         THEN "precondition_failed"
    ELSE "ok"

CompleteResult(d, o) ==
    IF orders[o] = NULL THEN "not_found"
    ELSE IF orders[o].assigned # d THEN "forbidden"
    ELSE IF orders[o].status # "PICKED_UP" THEN "precondition_failed"
    ELSE IF drones[d] = NULL THEN "not_found"
    ELSE "ok"

FailResult(d, o, reason) ==
    IF reason THEN CompleteResult(d, o) ELSE "invalid"

BrokenResult(d) ==
    LET o == GetOrCreateDrone(d).current
    IN  IF o # NULL /\ orders[o] = NULL THEN "not_found" ELSE "ok"

(* The order of the drone is read after the commit; an order that is not   *)
(* there is left out of the answer, and any other error is returned.       *)
HeartbeatResult(loc) == IF ValidateLocation(loc) THEN "ok" ELSE "invalid"

CurrentOrderResult(d) ==
    IF drones[d] = NULL \/ drones[d].current = NULL THEN "not_found"
    ELSE IF orders[drones[d].current] = NULL THEN "not_found"
    ELSE "ok"

(* The transports check a request for a token; sub is NULL for no name. *)
TokenResult(token) ==
    IF token.sub # NULL /\ token.role \in Role THEN "ok" ELSE "invalid"

-------------------------------------------------------------------------------
(* How a transport writes a result: REST's status and code, gRPC's code    *)
(* and message, Thrift's message type or exception type and its message.   *)
WriteError(r) ==
    CASE r = "unauthorized" -> <<401, "unauthorized">>
      [] r = "forbidden" -> <<403, "forbidden">>
      [] r = "not_found" -> <<404, "not_found">>
      [] r = "conflict" -> <<409, "conflict">>
      [] r = "invalid" -> <<422, "invalid">>
      [] r = "precondition_failed" -> <<409, "precondition_failed">>
      [] r = "no_job" -> <<404, "no_job">>
      [] r = "internal" -> <<500, "internal">>

RespondJSON(m) == <<IF m = "SubmitOrder" THEN 201 ELSE 200, "">>

MapServiceError(r) ==
    CASE r = "unauthorized" -> <<"Unauthenticated", "unauthorized">>
      [] r = "forbidden" -> <<"PermissionDenied", "forbidden">>
      [] r = "not_found" -> <<"NotFound", "not found">>
      [] r = "conflict" -> <<"Aborted", "conflict">>
      [] r = "invalid" -> <<"InvalidArgument", "invalid request">>
      [] r = "precondition_failed" -> <<"FailedPrecondition", "precondition failed">>
      [] r = "no_job" -> <<"NotFound", "no job available">>
      [] r = "internal" -> <<"Internal", "internal error">>

MapError(r) ==
    CASE r = "unauthorized" -> <<"PROTOCOL_ERROR", "unauthorized">>
      [] r = "forbidden" -> <<"PROTOCOL_ERROR", "forbidden">>
      [] r = "not_found" -> <<"PROTOCOL_ERROR", "not found">>
      [] r = "conflict" -> <<"PROTOCOL_ERROR", "conflict">>
      [] r = "invalid" -> <<"PROTOCOL_ERROR", "invalid request">>
      [] r = "precondition_failed" -> <<"PROTOCOL_ERROR", "precondition failed">>
      [] r = "no_job" -> <<"PROTOCOL_ERROR", "no job">>
      [] r = "internal" -> <<"INTERNAL_ERROR", "internal error">>

(* Failed checks of the token; authInterceptor has messages of its own. *)
Refusal(t, r) ==
    CASE t = "rest" -> WriteError(r)
      [] t = "grpc" -> IF r = "unauthorized" THEN <<"Unauthenticated", "missing token">>
                       ELSE <<"PermissionDenied", "forbidden">>
      [] t = "thrift" -> MapError(r)

Reply(t, m, r) ==
    CASE t = "rest" -> IF r = "ok" THEN RespondJSON(m) ELSE WriteError(r)
      [] t = "grpc" -> IF r = "ok" THEN <<"OK", "">> ELSE MapServiceError(r)
      [] t = "thrift" -> IF r = "ok" THEN <<"REPLY", "">> ELSE MapError(r)

(* What a client makes of a reply. *)
Meaning(t, m, reply) ==
    CHOOSE r \in Result :
        \/ Reply(t, m, r) = reply
        \/ r \in {"unauthorized", "forbidden"} /\ Refusal(t, r) = reply

-------------------------------------------------------------------------------
(* Requests *)

(* The arguments of a method; reason: the reason of a failure is given. *)
Query(m) ==
    [order: IF m \in {"WithdrawOrder", "GetOrder", "PickupOrder",
                      "DeliverOrder", "FailOrder", "UpdateOrder"}
            THEN OrderId ELSE {NULL},
     drone: IF m \in {"MarkDroneBroken", "MarkDroneFixed"}
            THEN DroneId ELSE {NULL},
     from: CASE m = "SubmitOrder" -> Location
             [] m = "UpdateOrder" -> Opt(Location)
             [] OTHER -> {NULL},
     to: CASE m \in {"SubmitOrder", "Heartbeat"} -> Location
           [] m = "UpdateOrder" -> Opt(Location)
           [] OTHER -> {NULL},
     reason: IF m = "FailOrder" THEN BOOLEAN ELSE {FALSE},
     token: IF m = "IssueToken"
            THEN [sub: Opt(Name), role: Role \cup {"other"}] ELSE {NULL}]

OperationResult(op, name, role, q) ==
    CASE op = "IssueToken" -> TokenResult(q.token)
      [] op = "SubmitOrder" -> SubmitResult(q.from, q.to)
      [] op = "WithdrawOrder" -> WithdrawResult(name, q.order)
      [] op = "GetOrderView" -> GetOrderResult(name, role, q.order)
      [] op = "DroneReserveJob" -> ReserveResult(name)
      [] op = "DronePickup" -> PickupResult(name, q.order)
      [] op = "DroneDeliver" -> CompleteResult(name, q.order)
      [] op = "DroneFail" -> FailResult(name, q.order, q.reason)
      [] op = "DroneMarkBroken" -> BrokenResult(name)
      [] op = "DroneHeartbeat" -> HeartbeatResult(q.to)
      [] op = "DroneCurrentOrder" -> CurrentOrderResult(name)
      [] op = "AdminUpdateOrder" -> UpdateResult(q.order, q.from, q.to)
      [] op = "AdminMarkDroneBroken" -> BrokenResult(q.drone)
      [] op \in {"AdminMarkDroneFixed", "AdminListOrders", "AdminListDrones"} -> "ok"

ReadOperation == {"IssueToken", "GetOrderView", "DroneCurrentOrder",
                  "AdminListOrders", "AdminListDrones"}

OperationStep(op, name, q) ==
    \E now \in Time :
        \/ /\ op = "SubmitOrder"
           /\ \E o \in OrderId : SubmitOrder(name, o, q.from, q.to, now)
        \/ op = "WithdrawOrder" /\ WithdrawOrder(name, q.order, now)
        \/ op = "AdminUpdateOrder" /\ AdminUpdateOrder(q.order, q.from, q.to, now)
        \/ op = "DroneReserveJob" /\ \E o \in OrderId : DroneReserveJob(name, o, now)
        \/ /\ op = "DronePickup"
           /\ \E sent \in Time : DronePickup(name, q.order, now, sent)
        \/ /\ op = "DroneDeliver"
           /\ CompleteOrderForDrone(name, q.order, "DELIVERED", now)
        \/ /\ op = "DroneFail"
           /\ q.reason
           /\ CompleteOrderForDrone(name, q.order, "FAILED", now)
        \/ op = "DroneMarkBroken" /\ DroneMarkBroken(name, now)
        \/ op = "AdminMarkDroneBroken" /\ DroneMarkBroken(q.drone, now)
        \/ op = "AdminMarkDroneFixed" /\ DroneMarkFixed(q.drone, now)
        \/ op = "DroneHeartbeat" /\ DroneHeartbeat(name, q.to)
        \/ op \in ReadOperation /\ UNCHANGED vars

Respond(t, m, claims, q) ==
    LET handler == HandlerOf(t, m)
        auth == Authorize(handler, claims)
    IN  IF auth # "ok" THEN auth
        ELSE IF claims = NULL THEN OperationResult(handler.operation, NULL, NULL, q)
        ELSE OperationResult(handler.operation, claims.sub, claims.role, q)

(* What goes back to the client. *)
Answer(t, m, claims, q) ==
    LET auth == Authorize(HandlerOf(t, m), claims)
    IN  IF auth # "ok" THEN Refusal(t, auth)
        ELSE Reply(t, m, Respond(t, m, claims, q))

(* The ids of new orders are bounded by OrderId. *)
HasRoom(m) == m = "SubmitOrder" => \E o \in OrderId : orders[o] = NULL

(* Methods a client repeats when it is not told that they were carried out. *)
Repeated == {"WithdrawOrder", "PickupOrder", "DeliverOrder", "FailOrder"}

ThisRequest(m, claims, q) == [method |-> m, claims |-> claims, query |-> q]

(* Its client comes back: nothing is pending any more. *)
StillPending(claims) ==
    IF pending # NULL /\ pending.claims = claims THEN NULL ELSE pending

Request(t, m, claims, q) ==
    LET r == Respond(t, m, claims, q)
    IN  /\ HasRoom(m)
        /\ caller' = claims
        /\ IF r = "ok" /\ m \in Repeated
           THEN pending' \in {StillPending(claims), ThisRequest(m, claims, q)}
           ELSE pending' = StillPending(claims)
        /\ IF r # "ok" THEN UNCHANGED vars
           ELSE OperationStep(HandlerOf(t, m).operation,
                              IF claims = NULL THEN NULL ELSE claims.sub, q)

(* What a method checks before it turns to the database. *)
ArgumentsPass(op, q) ==
    /\ op = "SubmitOrder" => SubmitResult(q.from, q.to) = "ok"
    /\ op = "DroneHeartbeat" => HeartbeatResult(q.to) = "ok"
    /\ op = "DroneFail" => q.reason

(***************************************************************************)
(* The database, or the connection to it, fails under a request, which is  *)
(* answered with an internal error.  Before the commit nothing was done.   *)
(* But the commit itself may have taken effect when its error comes, and   *)
(* DroneHeartbeat reads on after it: then the request was carried out, and *)
(* its client is told otherwise.                                           *)
(***************************************************************************)
Fails(t, m, claims, q) ==
    LET handler == HandlerOf(t, m)
    IN  /\ HasRoom(m)
        /\ Authorize(handler, claims) = "ok"
        /\ handler.operation # "IssueToken"
        /\ ArgumentsPass(handler.operation, q)
        /\ caller' = claims
        /\ \/ UNCHANGED vars /\ pending' = StillPending(claims)
           \/ /\ Respond(t, m, claims, q) = "ok"
              /\ OperationStep(handler.operation, claims.sub, q)
              /\ pending' = IF m \in Repeated THEN ThisRequest(m, claims, q)
                            ELSE StillPending(claims)

(* A request the server cannot read is answered with an error, and nothing *)
(* is done.                                                                *)
Unread(claims) ==
    /\ caller' = claims
    /\ pending' = StillPending(claims)
    /\ UNCHANGED vars

GatewayInit == Init /\ caller = NULL /\ pending = NULL

GatewayNext ==
    \E claims \in Opt(Claims) :
        \/ Unread(claims)
        \/ \E t \in Transport, m \in Method :
               \E q \in Query(m) : Request(t, m, claims, q) \/ Fails(t, m, claims, q)

GatewaySpec == GatewayInit /\ [][GatewayNext]_gatewayVars

-------------------------------------------------------------------------------
(* Properties *)

(* The rows have their types, and a pending request is one of a client.    *)
GatewayTypeOK ==
    /\ TypeOK
    /\ caller \in Opt(Claims)
    /\ pending # NULL =>
           /\ pending.method \in Repeated
           /\ pending.claims \in Claims
           /\ pending.query \in Query(pending.method)

(* What the caller asks for, by its id or as the order it has, is not there. *)
AskedForIsMissing(op, name, q) ==
    \/ /\ op \in {"WithdrawOrder", "GetOrderView", "AdminUpdateOrder",
                  "DronePickup", "DroneDeliver", "DroneFail"}
       /\ orders[q.order] = NULL
    \/ /\ op = "DroneCurrentOrder"
       /\ drones[name] = NULL \/ drones[name].current = NULL

(***************************************************************************)
(* A method that follows an id to a second row (from an order to the drone *)
(* that has it when it is withdrawn or delivered, from a drone to its      *)
(* order when it breaks down or asks for it) finds that row: not_found     *)
(* always means that what the caller itself asked for is missing.          *)
(***************************************************************************)
NotFoundIsTrue ==
    \A m \in Method, name \in Name, role \in Role :
        LET op == HandlerOf("rest", m).operation
        IN  \A q \in Query(m) :
                OperationResult(op, name, role, q) = "not_found"
                    => AskedForIsMissing(op, name, q)

(***************************************************************************)
(* "REST/gRPC/Thrift are thin transports over the same business logic":    *)
(* the same request with the same token means the same through each of     *)
(* them, the errors included, and a failure of the database is told as     *)
(* such.  GetOrder is the one exception, for tokens of drones and admins:  *)
(* the REST route is for end users only, although the method serves        *)
(* admins.                                                                 *)
(***************************************************************************)
TransportsAgree ==
    \A m \in Method, claims \in Opt(Claims) :
        (m # "GetOrder" \/ claims = NULL \/ claims.role = "enduser")
        => \A q \in Query(m), t \in Transport :
               /\ Meaning(t, m, Answer(t, m, claims, q)) = Respond("rest", m, claims, q)
               /\ Meaning(t, m, Reply(t, m, "internal")) = "internal"

(***************************************************************************)
(* A client whose connection breaks, or that is told of an internal error, *)
(* may have been served.  When it sends the same withdrawal, pickup,       *)
(* delivery or failure again, it is refused, whatever the others (the      *)
(* owner, admins, other drones) did to the order since: the request takes  *)
(* effect once.                                                            *)
(***************************************************************************)
RepeatsActOnce ==
    pending # NULL =>
        \A t \in Transport :
            Respond(t, pending.method, pending.claims, pending.query) # "ok"

(* The request of this step came from name in that role. *)
By(role, name) == caller' = [sub |-> name, role |-> role]

ByAdmin == \E name \in Name : By("admin", name)

(***************************************************************************)
(* Nobody changes what is another's.  An order changes only by its owner,  *)
(* by the drone that has it or gets it, or by an admin; a drone only by    *)
(* itself, by the owner of its order, or by an admin.  For a breakdown,    *)
(* which goes from the drone to the order, this rests on the agreement of  *)
(* the two tables.                                                         *)
(***************************************************************************)
NobodyActsForAnother ==
    [][/\ \A o \in OrderId :
             orders'[o] # orders[o] =>
                 \/ ByAdmin
                 \/ By("enduser", orders'[o].user)
                 \/ orders[o] # NULL /\ By("drone", orders[o].assigned)
                 \/ By("drone", orders'[o].assigned)
       /\ \A d \in DroneId :
             drones'[d] # drones[d] =>
                 \/ ByAdmin
                 \/ By("drone", d)
                 \/ \E o \in OrderId :
                        /\ drones[d] # NULL /\ drones[d].current = o
                        /\ By("enduser", orders[o].user)]_gatewayVars
===============================================================================
