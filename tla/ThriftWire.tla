------------------------------ MODULE ThriftWire ------------------------------
(***************************************************************************)
(* The Thrift messages between a client and the server: the structs as the *)
(* generated client code writes and reads them, the readers and writers    *)
(* the server has by hand for the same structs, and what a reader makes of *)
(* what a writer wrote.                                                    *)
(*                                                                         *)
(* A message is the sequence of what TBinaryProtocol puts into the frame:  *)
(* field headers, list headers, values and the stop byte that ends a       *)
(* struct (the begin and end of a struct write nothing).  A value stands   *)
(* for the place it has in the struct, its path, so a message was          *)
(* understood when every value is read to the place it was written from.   *)
(*                                                                         *)
(* A codec is a sequence of fields, whether its writer ends with the stop  *)
(* byte, and the fields whose type its reader compares with the header.    *)
(***************************************************************************)
EXTENDS Naturals, Sequences, TLC

LOCAL INSTANCE SequencesExt

Leaf(type, id, name) == [type |-> type, id |-> id, name |-> name, of |-> {}]

Nested(id, name, codec) ==
    [type |-> "struct", id |-> id, name |-> name, of |-> {codec}]

ListOf(id, name, codec) ==
    [type |-> "list", id |-> id, name |-> name, of |-> {codec}]

(* The codec of a struct or of the elements of a list. *)
Inner(field) == CHOOSE codec \in field.of : TRUE

Text(id, name) == Leaf("string", id, name)

Ids(fields) == {fields[i].id : i \in DOMAIN fields}

(* Generated code ends a struct and skips a field of an unexpected type. *)
Generated(fields) == [fields |-> fields, stop |-> TRUE, checked |-> Ids(fields)]

(* The server's writers return WriteStructEnd without WriteFieldStop. *)
Unstopped(fields) == [fields |-> fields, stop |-> FALSE, checked |-> {}]

Stopped(fields) == [fields |-> fields, stop |-> TRUE, checked |-> {}]

(* The server's readers look at the field's number only. *)
Unchecked(fields) == [fields |-> fields, stop |-> TRUE, checked |-> {}]

-------------------------------------------------------------------------------
(* The structs of the generated code *)

LocationStruct == Generated(<<Leaf("double", 1, "lat"), Leaf("double", 2, "lng")>>)

OrderStruct == Generated(<<
    Text(1, "id"), Text(2, "userId"),
    Nested(3, "origin", LocationStruct), Nested(4, "destination", LocationStruct),
    Text(5, "status"), Text(6, "assignedDroneId"),
    Nested(7, "handoffOrigin", LocationStruct),
    Leaf("i64", 8, "createdAt"), Leaf("i64", 9, "updatedAt"),
    Leaf("i64", 10, "reservedAt"), Leaf("i64", 11, "pickedUpAt"),
    Leaf("i64", 12, "deliveredAt"), Leaf("i64", 13, "failedAt"),
    Text(14, "failureReason")>>)

OrderViewStruct == Generated(<<
    Nested(1, "order", OrderStruct), Nested(2, "currentLocation", LocationStruct),
    Leaf("i64", 3, "etaSeconds")>>)

DroneStruct == Generated(<<
    Text(1, "id"), Text(2, "status"), Nested(3, "lastLocation", LocationStruct),
    Leaf("i64", 4, "lastHeartbeatAt"), Text(5, "currentOrderId"),
    Leaf("i64", 6, "createdAt"), Leaf("i64", 7, "updatedAt")>>)

DroneStatusStruct == Generated(<<
    Nested(1, "drone", DroneStruct), Nested(2, "currentOrder", OrderViewStruct)>>)

TokenRequest == Generated(<<Text(1, "name"), Text(2, "role")>>)

TokenResponse == Generated(<<Text(1, "token"), Leaf("i64", 2, "expiresAt")>>)

SubmitOrderRequest == Generated(<<
    Text(1, "authToken"), Nested(2, "origin", LocationStruct),
    Nested(3, "destination", LocationStruct)>>)

OrderIDRequest == Generated(<<Text(1, "authToken"), Text(2, "orderId")>>)

AuthRequest == Generated(<<Text(1, "authToken")>>)

FailOrderRequest == Generated(<<
    Text(1, "authToken"), Text(2, "orderId"), Text(3, "reason")>>)

HeartbeatRequest == Generated(<<
    Text(1, "authToken"), Nested(2, "location", LocationStruct)>>)

ListOrdersRequest == Generated(<<
    Text(1, "authToken"), Text(2, "status"), Leaf("i32", 3, "limit"),
    Leaf("i32", 4, "offset")>>)

UpdateOrderRequest == Generated(<<
    Text(1, "authToken"), Text(2, "orderId"), Nested(3, "origin", LocationStruct),
    Nested(4, "destination", LocationStruct)>>)

DroneIDRequest == Generated(<<Text(1, "authToken"), Text(2, "droneId")>>)

-------------------------------------------------------------------------------
(* The <Method>Args and <Method>Result structs around them *)

Call(request, success) ==
    [args |-> Generated(<<Nested(1, "request", request)>>),
     result |-> Generated(<<success>>)]

Success(codec) == Nested(0, "success", codec)

AuthServiceIssueToken == Call(TokenRequest, Success(TokenResponse))
OrderServiceSubmitOrder == Call(SubmitOrderRequest, Success(OrderStruct))
OrderServiceWithdrawOrder == Call(OrderIDRequest, Success(OrderStruct))
OrderServiceGetOrder == Call(OrderIDRequest, Success(OrderViewStruct))
DroneServiceReserveJob == Call(AuthRequest, Success(OrderStruct))
DroneServicePickupOrder == Call(OrderIDRequest, Success(OrderStruct))
DroneServiceDeliverOrder == Call(OrderIDRequest, Success(OrderStruct))
DroneServiceFailOrder == Call(FailOrderRequest, Success(OrderStruct))
DroneServiceMarkBroken == Call(AuthRequest, Success(DroneStruct))
DroneServiceHeartbeat == Call(HeartbeatRequest, Success(DroneStatusStruct))
DroneServiceCurrentOrder == Call(AuthRequest, Success(OrderViewStruct))
AdminServiceListOrders == Call(ListOrdersRequest, ListOf(0, "success", OrderViewStruct))
AdminServiceUpdateOrder == Call(UpdateOrderRequest, Success(OrderStruct))
AdminServiceListDrones == Call(AuthRequest, ListOf(0, "success", DroneStruct))
AdminServiceMarkDroneBroken == Call(DroneIDRequest, Success(DroneStruct))
AdminServiceMarkDroneFixed == Call(DroneIDRequest, Success(DroneStruct))

(* The generated clients: the message name each method sends. *)
AuthServiceClient == [IssueToken |-> AuthServiceIssueToken]

OrderServiceClient ==
    [SubmitOrder |-> OrderServiceSubmitOrder,
     WithdrawOrder |-> OrderServiceWithdrawOrder,
     GetOrder |-> OrderServiceGetOrder]

DroneServiceClient ==
    [ReserveJob |-> DroneServiceReserveJob,
     PickupOrder |-> DroneServicePickupOrder,
     DeliverOrder |-> DroneServiceDeliverOrder,
     FailOrder |-> DroneServiceFailOrder,
     MarkBroken |-> DroneServiceMarkBroken,
     Heartbeat |-> DroneServiceHeartbeat,
     CurrentOrder |-> DroneServiceCurrentOrder]

AdminServiceClient ==
    [ListOrders |-> AdminServiceListOrders,
     UpdateOrder |-> AdminServiceUpdateOrder,
     ListDrones |-> AdminServiceListDrones,
     MarkDroneBroken |-> AdminServiceMarkDroneBroken,
     MarkDroneFixed |-> AdminServiceMarkDroneFixed]

Client == AuthServiceClient @@ OrderServiceClient @@ DroneServiceClient
              @@ AdminServiceClient

(* tmp_thrift_raw_client.go asks for a token with a codec of its own. *)
RawIssueToken ==
    [args |-> Stopped(<<Nested(1, "request",
                               Stopped(<<Text(1, "name"), Text(2, "role")>>))>>),
     result |-> [Unchecked(<<Success(Unchecked(<<Text(1, "token"),
                                                 Leaf("i64", 2, "expiresAt")>>))>>)
                 EXCEPT !.checked = {0}]]

-------------------------------------------------------------------------------
(* The server's readers *)

(* The loop over <Method>_args, which takes field 1 only when it is a      *)
(* struct, around the loop over the request.                               *)
Wrapped(codec) == [Unchecked(<<Nested(1, "request", codec)>>) EXCEPT !.checked = {1}]

ReadLocation == Unchecked(<<Leaf("double", 1, "lat"), Leaf("double", 2, "lng")>>)

ReadTokenRequest == Wrapped(Unchecked(<<Text(1, "name"), Text(2, "role")>>))

ReadAuthRequest == Wrapped(Unchecked(<<Text(1, "authToken")>>))

ReadOrderIDRequest == Wrapped(Unchecked(<<Text(1, "authToken"), Text(2, "orderId")>>))

(* readOrderIDRequest, with its result taken for the drone's id. *)
ReadDroneIDRequest == Wrapped(Unchecked(<<Text(1, "authToken"), Text(2, "droneId")>>))

(* The reason is taken from the field of the order. *)
ReadFailOrderRequestBug ==
    Wrapped(Unchecked(<<Text(1, "authToken"), Text(3, "orderId"), Text(2, "reason")>>))

ReadFailOrderRequest ==
    Wrapped(Unchecked(<<Text(1, "authToken"), Text(2, "orderId"), Text(3, "reason")>>))

ReadHeartbeatRequest ==
    Wrapped([Unchecked(<<Text(1, "authToken"), Nested(2, "location", ReadLocation)>>)
             EXCEPT !.checked = {2}])

(* These three look for the request's fields in <Method>_args itself. *)
ReadSubmitOrderRequest ==
    Unchecked(<<Text(1, "authToken"), Nested(2, "origin", ReadLocation),
                Nested(3, "destination", ReadLocation)>>)

ReadListOrdersRequest ==
    Unchecked(<<Text(1, "authToken"), Text(2, "status"), Leaf("i32", 3, "limit"),
                Leaf("i32", 4, "offset")>>)

ReadUpdateOrderRequest ==
    Unchecked(<<Text(1, "authToken"), Text(2, "orderId"),
                Nested(3, "origin", ReadLocation),
                Nested(4, "destination", ReadLocation)>>)

-------------------------------------------------------------------------------
(* The server's writers *)

WriteLocation == Unstopped(<<Leaf("double", 1, "lat"), Leaf("double", 2, "lng")>>)

WriteOrder == Unstopped(<<
    Text(1, "id"), Text(2, "userId"),
    Nested(3, "origin", WriteLocation), Nested(4, "destination", WriteLocation),
    Text(5, "status"), Text(6, "assignedDroneId"),
    Nested(7, "handoffOrigin", WriteLocation),
    Leaf("i64", 8, "createdAt"), Leaf("i64", 9, "updatedAt"),
    Leaf("i64", 10, "reservedAt"), Leaf("i64", 11, "pickedUpAt"),
    Leaf("i64", 12, "deliveredAt"), Leaf("i64", 13, "failedAt"),
    Text(14, "failureReason")>>)

WriteOrderView == Unstopped(<<
    Nested(1, "order", WriteOrder), Nested(2, "currentLocation", WriteLocation),
    Leaf("i64", 3, "etaSeconds")>>)

WriteDrone == Unstopped(<<
    Text(1, "id"), Text(2, "status"), Nested(3, "lastLocation", WriteLocation),
    Leaf("i64", 4, "lastHeartbeatAt"), Text(5, "currentOrderId"),
    Leaf("i64", 6, "createdAt"), Leaf("i64", 7, "updatedAt")>>)

WriteDroneStatus == Unstopped(<<
    Nested(1, "drone", WriteDrone), Nested(2, "currentOrder", WriteOrderView)>>)

WriteOrderViewList == ListOf(0, "success", WriteOrderView)

WriteDroneList == ListOf(0, "success", WriteDrone)

WriteTokenResponse == Stopped(<<Text(1, "token"), Leaf("i64", 2, "expiresAt")>>)

WriteReply(success) == Stopped(<<success>>)

-------------------------------------------------------------------------------
(* The handlers: which reader takes the request and which writer answers *)

Handles(reader, success) == [reads |-> reader, writes |-> WriteReply(success)]

HandleIssueToken == Handles(ReadTokenRequest, Success(WriteTokenResponse))
HandleSubmitOrder == Handles(ReadSubmitOrderRequest, Success(WriteOrder))
HandleWithdrawOrder == Handles(ReadOrderIDRequest, Success(WriteOrder))
HandleGetOrder == Handles(ReadOrderIDRequest, Success(WriteOrderView))
HandleReserveJob == Handles(ReadAuthRequest, Success(WriteOrder))
HandlePickupOrder == Handles(ReadOrderIDRequest, Success(WriteOrder))
HandleDeliverOrder == Handles(ReadOrderIDRequest, Success(WriteOrder))
HandleFailOrder == Handles(ReadFailOrderRequest, Success(WriteOrder))
HandleMarkBroken == Handles(ReadAuthRequest, Success(WriteDrone))
HandleHeartbeat == Handles(ReadHeartbeatRequest, Success(WriteDroneStatus))
HandleCurrentOrder == Handles(ReadAuthRequest, Success(WriteOrderView))
HandleAdminListOrders == Handles(ReadListOrdersRequest, WriteOrderViewList)
HandleAdminUpdateOrder == Handles(ReadUpdateOrderRequest, Success(WriteOrder))
HandleAdminListDrones == Handles(ReadAuthRequest, WriteDroneList)
HandleAdminMarkDroneBroken == Handles(ReadDroneIDRequest, Success(WriteDrone))
HandleAdminMarkDroneFixed == Handles(ReadDroneIDRequest, Success(WriteDrone))

ProcessorMap ==
    [IssueToken |-> HandleIssueToken,
     SubmitOrder |-> HandleSubmitOrder,
     WithdrawOrder |-> HandleWithdrawOrder,
     GetOrder |-> HandleGetOrder,
     ReserveJob |-> HandleReserveJob,
     PickupOrder |-> HandlePickupOrder,
     DeliverOrder |-> HandleDeliverOrder,
     FailOrder |-> HandleFailOrder,
     MarkBroken |-> HandleMarkBroken,
     Heartbeat |-> HandleHeartbeat,
     CurrentOrder |-> HandleCurrentOrder,
     ListOrders |-> HandleAdminListOrders,
     UpdateOrder |-> HandleAdminUpdateOrder,
     ListDrones |-> HandleAdminListDrones,
     MarkDroneBroken |-> HandleAdminMarkDroneBroken,
     MarkDroneFixed |-> HandleAdminMarkDroneFixed]

-------------------------------------------------------------------------------
(* Writing.  A message content is the optional fields it leaves out and    *)
(* the length of its lists.                                                *)

HeaderToken(field) == [kind |-> "field", type |-> field.type, id |-> field.id]
StopToken == [kind |-> "stop"]
ListToken(size) == [kind |-> "list", size |-> size]
ValueToken(path) == [kind |-> "value", path |-> path]

Element == <<"#1", "#2">>

RECURSIVE Write(_, _, _)
Write(codec, path, content) ==
    LET Body(f, at) ==
            CASE f.type = "struct" -> Write(Inner(f), at, content)
              [] f.type = "list" ->
                     <<ListToken(content.size)>>
                         \o FlattenSeq([i \in 1..content.size |->
                                          Write(Inner(f), Append(at, Element[i]), content)])
              [] OTHER -> <<ValueToken(at)>>
        WriteField(f) ==
            IF f.name \in content.absent THEN <<>>
            ELSE <<HeaderToken(f)>> \o Body(f, Append(path, f.name))
    IN  FlattenSeq([i \in DOMAIN codec.fields |-> WriteField(codec.fields[i])])
            \o (IF codec.stop THEN <<StopToken>> ELSE <<>>)

(* Where the values of a content are. *)
Paths(codec, content) ==
    {t.path : t \in {u \in Range(Write(codec, <<>>, content)) : u.kind = "value"}}

-------------------------------------------------------------------------------
(* Reading.  A reader has the tokens that are left, what it has read, as   *)
(* pairs of the place read to and the place written from, and a state:     *)
(* reading, failed (an error) or starved: it wants more than the frame     *)
(* has, and TFramedTransport waits for the next frame.                     *)

Starved(in) == [in EXCEPT !.state = "starved"]
Failed(in) == [in EXCEPT !.state = "failed"]
Rest(in) == [in EXCEPT !.toks = Tail(@)]

RECURSIVE Skip(_, _), SkipStruct(_), SkipList(_, _)
SkipStruct(in) ==
    IF in.state # "reading" THEN in
    ELSE IF in.toks = <<>> THEN Starved(in)
    ELSE IF Head(in.toks).kind = "stop" THEN Rest(in)
    ELSE SkipStruct(Skip(Head(in.toks).type, Rest(in)))
SkipList(n, in) == IF n = 0 THEN in ELSE SkipList(n - 1, SkipStruct(in))
Skip(type, in) ==
    CASE type = "struct" -> SkipStruct(in)
      [] type = "list" -> SkipList(Head(in.toks).size, Rest(in))
      [] OTHER -> Rest(in)

(* A value that is read under a header of another type: every such case is *)
(* a string whose length is read from the header of an inner field, over   *)
(* the limit of the protocol.                                              *)
RECURSIVE ReadStruct(_, _, _), ReadList(_, _, _, _)
ReadStruct(codec, path, in) ==
    IF in.state # "reading" THEN in
    ELSE IF in.toks = <<>> THEN Starved(in)
    ELSE IF Head(in.toks).kind = "stop" THEN Rest(in)
    ELSE LET header == Head(in.toks)
             known == {f \in Range(codec.fields) :
                           /\ f.id = header.id
                           /\ f.id \in codec.checked => f.type = header.type}
             Value(f) ==
                 LET at == Append(path, f.name) IN
                 CASE f.type # header.type -> Failed(in)
                   [] f.type = "struct" -> ReadStruct(Inner(f), at, Rest(in))
                   [] f.type = "list" ->
                          ReadList(Inner(f), at, in.toks[2].size, Rest(Rest(in)))
                   [] OTHER -> [Rest(Rest(in)) EXCEPT
                                   !.got = @ \cup {<<at, in.toks[2].path>>}]
         IN  ReadStruct(codec, path,
                 IF known = {} THEN Skip(header.type, Rest(in))
                 ELSE Value(CHOOSE f \in known : TRUE))
ReadList(codec, path, n, in) ==
    IF n = 0 THEN in
    ELSE LET before == ReadList(codec, path, n - 1, in)
         IN  ReadStruct(codec, Append(path, Element[n]), before)

(* Read a frame: the values that came, or why they did not. *)
Read(codec, toks) ==
    ReadStruct(codec, <<>>, [toks |-> toks, got |-> {}, state |-> "reading"])

(* What came of a message that writer wrote and reader read, when meant is *)
(* the codec of both sides.                                                *)
Outcome(writer, reader, meant, content) ==
    LET in == Read(reader, Write(writer, <<>>, content))
    IN  IF in.state # "reading" THEN in.state
        ELSE IF /\ in.got = {<<p, p>> : p \in Paths(meant, content)}
                /\ in.toks = <<>>
             THEN "understood"
        ELSE "misread"

(* The programs that call the server: clients made of the generated code,  *)
(* and tmp_thrift_raw_client.go, which only asks for a token.              *)
Program(m) == IF m = "IssueToken" THEN {"generated", "raw"} ELSE {"generated"}

CodecOf(program, m) == IF program = "raw" THEN RawIssueToken ELSE Client[m]

(* The server reads a call of method m. *)
ServerReads(program, m, content) ==
    Outcome(CodecOf(program, m).args, ProcessorMap[m].reads, Client[m].args, content)

(* The client reads the answer. *)
ClientReads(program, m, content) ==
    Outcome(ProcessorMap[m].writes, CodecOf(program, m).result, Client[m].result, content)

(* The optional fields of the requests. *)
Optional(m) ==
    CASE m = "UpdateOrder" -> {"origin", "destination"}
      [] m = "ListOrders" -> {"status", "limit", "offset"}
      [] OTHER -> {}

(* ServerReads for every request there is. *)
RequestOutcome ==
    [m \in DOMAIN ProcessorMap |->
        [program \in Program(m) |->
            [omitted \in SUBSET Optional(m) |->
                ServerReads(program, m, [absent |-> omitted, size |-> 0])]]]
===============================================================================
