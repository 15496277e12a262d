----------------------------- MODULE ThriftGateway -----------------------------
(***************************************************************************)
(* Gateway with the Thrift messages: a request that comes over Thrift is   *)
(* written by a client, generated or the hand-written one, read by the     *)
(* server, carried out, and its answer written by the server and read by   *)
(* the client.  REST and gRPC use encoding/json on both sides, with the    *)
(* same structs, and are taken to read what was written.                   *)
(*                                                                         *)
(* What the readers make of the messages is a parameter, so that what does *)
(* not depend on it can be proved; ThriftWire computes it and every run    *)
(* takes it from there.                                                    *)
(***************************************************************************)
EXTENDS Gateway

LOCAL INSTANCE FiniteSets

CONSTANTS
    Programs(_),            \* the programs that call a method over Thrift
    OptionalFields(_),      \* the optional fields of its request
    RequestRead,            \* by method, program and the fields left out: what
                            \* the server's reader makes of the request
    AnswerRead(_, _, _)     \* what the client's reader makes of an answer

VARIABLE heard      \* what the client of the last request made of the answer

transportVars == <<gatewayVars, heard>>

(* malformed: an exception, because the server could not read the request; *)
(* hangs: the client waits for the rest of an answer; misread: one side    *)
(* took a message for another.                                             *)
Heard == Result \cup {"malformed", "hangs", "misread"}

(* The optional fields that a request leaves out.  A list of orders may be *)
(* asked for with any of its three filters.                                *)
Omitted(m, q) ==
    IF m = "UpdateOrder"
    THEN {(IF q.from = NULL THEN {"origin"} ELSE {})
              \cup (IF q.to = NULL THEN {"destination"} ELSE {})}
    ELSE SUBSET OptionalFields(m)

-------------------------------------------------------------------------------
(* What an answer leaves out of a row.  The failure's reason is set with   *)
(* its time and a drone's heartbeat with its location.                     *)

OrderAbsent(row) ==
    (IF row.assigned = NULL THEN {"assignedDroneId"} ELSE {})
        \cup (IF row.handoff = NULL THEN {"handoffOrigin"} ELSE {})
        \cup (IF row.reservedAt = NULL THEN {"reservedAt"} ELSE {})
        \cup (IF row.pickedUpAt = NULL THEN {"pickedUpAt"} ELSE {})
        \cup (IF row.deliveredAt = NULL THEN {"deliveredAt"} ELSE {})
        \cup (IF row.failedAt = NULL THEN {"failedAt", "failureReason"} ELSE {})

DroneAbsent(row) ==
    (IF row.location = NULL THEN {"lastLocation", "lastHeartbeatAt"} ELSE {})
        \cup (IF row.current = NULL THEN {"currentOrderId"} ELSE {})

(* A view may lack the parcel's place and the time of arrival. *)
ViewAbsent(row) ==
    {OrderAbsent(row) \cup a : a \in SUBSET {"currentLocation", "etaSeconds"}}

Rows(table) == {table[k] : k \in DOMAIN table} \ {NULL}

(* The answers to a request that was carried out, in the tables after it.  *)
(* Where the order is not named in the request it is one of the table; the *)
(* elements of a list leave out the same fields.                           *)
Answers(m, name, q) ==
    LET Single(absents) == {[absent |-> a, size |-> 0] : a \in absents}
        List(rows, absents) ==
            {[absent |-> a, size |-> Cardinality(rows)] : a \in absents}
    IN  CASE m = "IssueToken" -> Single({{}})
          [] m \in {"WithdrawOrder", "PickupOrder", "DeliverOrder", "FailOrder",
                    "UpdateOrder"} -> Single({OrderAbsent(orders'[q.order])})
          [] m \in {"SubmitOrder", "ReserveJob"} ->
                 Single({OrderAbsent(row) : row \in Rows(orders')})
          [] m = "GetOrder" -> Single(ViewAbsent(orders'[q.order]))
          [] m = "CurrentOrder" -> Single(ViewAbsent(orders'[drones'[name].current]))
          [] m = "MarkBroken" -> Single({DroneAbsent(drones'[name])})
          [] m \in {"MarkDroneBroken", "MarkDroneFixed"} ->
                 Single({DroneAbsent(drones'[q.drone])})
          [] m = "Heartbeat" ->
                 LET drone == drones'[name]
                 IN  Single(IF drone.current = NULL
                            THEN {DroneAbsent(drone) \cup {"currentOrder"}}
                            ELSE {DroneAbsent(drone) \cup a :
                                      a \in ViewAbsent(orders'[drone.current])})
          [] m = "ListOrders" ->
                 LET rows == Rows(orders')
                 IN  List(rows, {{}} \cup UNION {ViewAbsent(row) : row \in rows})
          [] m = "ListDrones" ->
                 LET rows == Rows(drones')
                 IN  List(rows, {{}} \cup {DroneAbsent(row) : row \in rows})

-------------------------------------------------------------------------------
(* A request and what comes back *)

Exchange(t, m, claims, q) ==
    /\ t # "thrift"
    /\ \/ /\ Request(t, m, claims, q)
          /\ heard' = Meaning(t, m, Answer(t, m, claims, q))
       \/ /\ Fails(t, m, claims, q)
          /\ heard' = Meaning(t, m, Reply(t, m, "internal"))

(* The server's reader returns an error: writeException, nothing else. *)
ThriftMalformed(claims, outcome) ==
    /\ outcome # "understood"
    /\ heard' = IF outcome = "failed" THEN "malformed" ELSE "misread"
    /\ Unread(claims)

HeardFrom(program, m, answer) ==
    LET outcome == AnswerRead(program, m, answer)
    IN  CASE outcome = "understood" -> "ok"
          [] outcome = "starved" -> "hangs"
          [] OTHER -> "misread"

ThriftExchange(program, m, claims, q, outcome) ==
    /\ outcome = "understood"
    /\ Request("thrift", m, claims, q)
    /\ IF Respond("thrift", m, claims, q) = "ok"
       THEN \E answer \in Answers(m, IF claims = NULL THEN NULL ELSE claims.sub, q) :
                heard' = HeardFrom(program, m, answer)
       ELSE heard' = Meaning("thrift", m, Answer("thrift", m, claims, q))

(* An exception is written the same way for every program. *)
ThriftFails(m, claims, q, outcome) ==
    /\ outcome = "understood"
    /\ Fails("thrift", m, claims, q)
    /\ heard' = Meaning("thrift", m, Reply("thrift", m, "internal"))

TransportInit == GatewayInit /\ heard = "ok"

TransportNext ==
    \E m \in Method, claims \in Opt(Claims) :
        \E q \in Query(m) :
            \/ \E t \in Transport : Exchange(t, m, claims, q)
            \/ \E program \in Programs(m) :
                   \E omitted \in Omitted(m, q) :
                       LET outcome == RequestRead[m][program][omitted]
                       IN  \/ ThriftMalformed(claims, outcome)
                           \/ ThriftExchange(program, m, claims, q, outcome)
                           \/ ThriftFails(m, claims, q, outcome)

TransportSpec == TransportInit /\ [][TransportNext]_transportVars

-------------------------------------------------------------------------------
(* Properties *)

(***************************************************************************)
(* No message is taken for another: the server's hand-written readers and  *)
(* the client's generated ones, which number the fields each on their own, *)
(* get what was written, or fail, or wait for more.                        *)
(***************************************************************************)
NothingMisread == [][heard' # "misread"]_transportVars

(***************************************************************************)
(* The README and docs_api.md give thrift/drone_delivery.thrift as the     *)
(* interface of the Thrift server: a client generated from it gets its     *)
(* calls read and its answers to the end.                                  *)
(***************************************************************************)
IDLIsServed == [][heard' \notin {"malformed", "hangs"}]_transportVars
===============================================================================
