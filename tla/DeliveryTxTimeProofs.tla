------------------------- MODULE DeliveryTxTimeProofs -------------------------
(***************************************************************************)
(* Proofs about the clock readings of DeliveryTx: every stamp a call       *)
(* writes into an order was read after the order was locked, so it is no   *)
(* earlier than any stamp the row or its last event has.                   *)
(***************************************************************************)
EXTENDS DeliveryTxProofs

-------------------------------------------------------------------------------
(* The invariant of the stamps, relative to TxInv *)

(* No stamp of the row is later than n. *)
Before(row, n) ==
    /\ row.createdAt <= n
    /\ row.reservedAt # NULL => row.reservedAt <= n
    /\ row.pickedUpAt # NULL => row.pickedUpAt <= n
    /\ row.deliveredAt # NULL => row.deliveredAt <= n
    /\ row.failedAt # NULL => row.failedAt <= n

(* TimestampsOrdered for one row. *)
Ordered(row) ==
    /\ row.reservedAt # NULL => row.createdAt <= row.reservedAt
    /\ row.pickedUpAt # NULL => row.createdAt <= row.pickedUpAt
    /\ row.status = "RESERVED" /\ row.pickedUpAt # NULL
           => row.pickedUpAt <= row.reservedAt
    /\ row.status \notin {"CREATED", "RESERVED", "WITHDRAWN"}
           => row.reservedAt <= row.pickedUpAt
    /\ row.deliveredAt # NULL => row.pickedUpAt <= row.deliveredAt
    /\ row.failedAt # NULL => row.pickedUpAt <= row.failedAt

OrderTimes(o) ==
    /\ orders[o] # NULL => Before(orders[o], clock) /\ Ordered(orders[o])
    /\ orderEvents[o] # NULL => orderEvents[o].at <= clock

DroneTimes(d) == droneEvents[d] # NULL => droneEvents[d].at <= clock

(* Calls that have locked their order, and then read the clock. *)
StampsOrder(t) ==
    \/ t.op \in {"withdraw", "update", "reserve", "pickup"} /\ t.pc = "commit"
    \/ t.op \in {"deliver", "fail"} /\ t.pc \in {"drone", "commit"}

(* Calls that have locked their drone, and then read the clock. *)
StampsDrone(t) ==
    \/ t.op = "broken" /\ t.pc \in {"order", "commit"}
    \/ t.op = "fixed" /\ t.pc = "commit"

StampOK(s) ==
    /\ StampsOrder(tx[s]) =>
          /\ Before(tx[s].ord, tx[s].stamp)
          /\ orderEvents[tx[s].order] # NULL =>
                orderEvents[tx[s].order].at <= tx[s].stamp
    /\ StampsDrone(tx[s]) /\ droneEvents[tx[s].drone] # NULL =>
          droneEvents[tx[s].drone].at <= tx[s].stamp

TimeInv ==
    /\ \A o \in OrderId : OrderTimes(o)
    /\ \A d \in DroneId : DroneTimes(d)
    /\ \A s \in Session : StampOK(s)

-------------------------------------------------------------------------------
(* Rows *)

(* TimestampsMatchStatus for one row. *)
Matching(row) ==
    /\ (row.deliveredAt # NULL) <=> (row.status = "DELIVERED")
    /\ (row.failedAt # NULL) <=> (row.status = "FAILED")
    /\ row.status \notin {"CREATED", "WITHDRAWN"} => row.reservedAt # NULL
    /\ row.status \notin {"CREATED", "RESERVED", "WITHDRAWN"}
           => row.pickedUpAt # NULL

(***************************************************************************)
(* A later bound is a bound.                                               *)
(***************************************************************************)
LEMMA BeforeLater ==
    ASSUME NEW row \in OrderRow, NEW m \in Nat, NEW n \in Nat, m <= n,
           Before(row, m)
    PROVE  Before(row, n)
BY DEF Before, OrderRow, Opt

(***************************************************************************)
(* A new order, and what the first owner and an administrator do to it,    *)
(* respect the order of the stamps.                                        *)
(***************************************************************************)
LEMMA CustomerTimes ==
    ASSUME NEW row \in OrderRow, Matching(row), Ordered(row),
           NEW n \in Nat, Before(row, n), NEW u, NEW a, NEW b
    PROVE  /\ Before(NewOrder(u, a, b, n), n) /\ Ordered(NewOrder(u, a, b, n))
           /\ row.status \in {"CREATED", "RESERVED"} =>
                 Before(Withdrawn(row), n) /\ Ordered(Withdrawn(row))
           /\ Before(Readdressed(row, a, b), n)
           /\ Ordered(Readdressed(row, a, b))
<1>1. Before(NewOrder(u, a, b, n), n) /\ Ordered(NewOrder(u, a, b, n))
  BY DomainAssumption DEF Before, Ordered, NewOrder
<1>2. row.status \in {"CREATED", "RESERVED"} =>
         Before(Withdrawn(row), n) /\ Ordered(Withdrawn(row))
  BY DEF Before, Ordered, Matching, Withdrawn, OrderRow
<1>3. Before(Readdressed(row, a, b), n) /\ Ordered(Readdressed(row, a, b))
  BY DEF Before, Ordered, Readdressed, OrderRow
<1> QED BY <1>1, <1>2, <1>3

(***************************************************************************)
(* What a drone does to an order respects the order of the stamps.         *)
(***************************************************************************)
LEMMA DroneTimesOfRow ==
    ASSUME NEW row \in OrderRow, Matching(row), Ordered(row),
           NEW n \in Nat, Before(row, n), NEW d
    PROVE  /\ row.status \in Reservable =>
                 Before(Reserved(row, d, n), n) /\ Ordered(Reserved(row, d, n))
           /\ row.status \in {"RESERVED", "HANDOFF_REQUESTED"} =>
                 Before(PickedUp(row, n), n) /\ Ordered(PickedUp(row, n))
           /\ row.status = "PICKED_UP" =>
                 \A st \in {"DELIVERED", "FAILED"} :
                     /\ Before(Completed(row, st, n), n)
                     /\ Ordered(Completed(row, st, n))
<1>1. row.status \in Reservable =>
         Before(Reserved(row, d, n), n) /\ Ordered(Reserved(row, d, n))
  BY DEF Before, Ordered, Matching, Reserved, Reservable, OrderRow, Opt
<1>2. row.status \in {"RESERVED", "HANDOFF_REQUESTED"} =>
         Before(PickedUp(row, n), n) /\ Ordered(PickedUp(row, n))
  BY DEF Before, Ordered, Matching, PickedUp, OrderRow, Opt
<1>3. ASSUME row.status = "PICKED_UP", NEW st \in {"DELIVERED", "FAILED"}
      PROVE  Before(Completed(row, st, n), n) /\ Ordered(Completed(row, st, n))
  <2>1. CASE st = "DELIVERED"
    BY <1>3, <2>1 DEF Before, Ordered, Matching, Completed, OrderRow, Opt
  <2>2. CASE st = "FAILED"
    BY <1>3, <2>2 DEF Before, Ordered, Matching, Completed, OrderRow, Opt
  <2> QED BY <2>1, <2>2
<1> QED BY <1>1, <1>2, <1>3

(***************************************************************************)
(* A breakdown respects the order of the stamps.                           *)
(***************************************************************************)
LEMMA BreakdownTimes ==
    ASSUME NEW row \in OrderRow, Matching(row), Ordered(row),
           NEW n \in Nat, Before(row, n), NEW l
    PROVE  /\ Before(AfterBreakdown(row, l), n)
           /\ Ordered(AfterBreakdown(row, l))
<1>1. CASE row.status = "PICKED_UP"
  BY <1>1 DEF Before, Ordered, AfterBreakdown, HandedOff, OrderRow
<1>2. CASE row.status = "RESERVED"
  BY <1>2 DEF Before, Ordered, Matching, AfterBreakdown, Requeued, OrderRow
<1>3. CASE row.status \notin {"PICKED_UP", "RESERVED"}
  BY <1>3 DEF AfterBreakdown
<1> QED BY <1>1, <1>2, <1>3

(***************************************************************************)
(* The rows of the orders table have the stamps of their status.           *)
(***************************************************************************)
LEMMA RowsMatch ==
    ASSUME TxInv, NEW o \in OrderId, orders[o] # NULL
    PROVE  orders[o] \in OrderRow /\ Matching(orders[o])
<1>1. orders[o] \in OrderRow
  BY TablesTyped DEF TxInv, Opt
<1>2. Matching(orders[o])
  BY DEF TxInv, P!IInv, P!OrdersOK, P!TimestampsMatchStatus, Matching
<1> QED BY <1>1, <1>2

-------------------------------------------------------------------------------
(* Steps that leave the tables alone *)

(***************************************************************************)
(* What is not later than the clock stays so.                              *)
(***************************************************************************)
LEMMA ClockGrows ==
    ASSUME TxInv, TimeInv, UNCHANGED tables, clock' \in Nat, clock <= clock'
    PROVE  /\ \A o \in OrderId : OrderTimes(o)'
           /\ \A d \in DroneId : DroneTimes(d)'
<1>1. clock \in Nat
  BY SessionAssumption DEF TxInv
<1>2. ASSUME NEW o \in OrderId PROVE OrderTimes(o)'
  <2>1. OrderTimes(o)
    BY DEF TimeInv
  <2>2. orders[o] # NULL => Before(orders[o], clock')
    BY <1>1, <2>1, BeforeLater, RowsMatch DEF OrderTimes
  <2>3. orderEvents[o] # NULL => orderEvents[o].at \in Nat
    BY TablesTyped DEF TxInv, OrderEvent, Opt
  <2> QED BY <1>1, <2>1, <2>2, <2>3 DEF OrderTimes, Before, Ordered, tables
<1>3. ASSUME NEW d \in DroneId PROVE DroneTimes(d)'
  <2>1. DroneTimes(d)
    BY DEF TimeInv
  <2>2. droneEvents[d] # NULL => droneEvents[d].at \in Nat
    BY TablesTyped DEF TxInv, DroneEvent, Opt
  <2> QED BY <1>1, <2>1, <2>2 DEF DroneTimes, tables
<1> QED BY <1>2, <1>3

(***************************************************************************)
(* A session's stamp is fine as long as its record and the tables stay.    *)
(***************************************************************************)
LEMMA StampStays ==
    ASSUME TimeInv, NEW s \in Session, UNCHANGED tables,
           \/ tx'[s] = tx[s]
           \/ ~StampsOrder(tx'[s]) /\ ~StampsDrone(tx'[s])
           \/ /\ StampsOrder(tx[s]) /\ ~StampsDrone(tx'[s])
              /\ tx'[s].ord = tx[s].ord /\ tx'[s].order = tx[s].order
              /\ tx'[s].stamp = tx[s].stamp
           \/ /\ StampsDrone(tx[s]) /\ ~StampsOrder(tx'[s])
              /\ tx'[s].drone = tx[s].drone
              /\ tx'[s].stamp = tx[s].stamp
    PROVE  StampOK(s)'
<1>1. StampOK(s)
  BY DEF TimeInv
<1> QED BY <1>1 DEF StampOK, Before, tables, StampsOrder, StampsDrone

(***************************************************************************)
(* A step of s that leaves the tables alone keeps the invariant if it      *)
(* sees to its own stamp.                                                  *)
(***************************************************************************)
LEMMA QuietKeeps ==
    ASSUME TxInv, TimeInv, NEW s \in Session, UNCHANGED <<tables, clock>>,
           \A u \in Session \ {s} : tx'[u] = tx[u], StampOK(s)'
    PROVE  TimeInv'
<1>1. clock' \in Nat /\ clock <= clock'
  BY SessionAssumption DEF TxInv
<1>2. \A u \in Session : StampOK(u)'
  BY StampStays
<1> QED BY <1>1, <1>2, ClockGrows DEF TimeInv

(***************************************************************************)
(* A free session has no stamp.                                            *)
(***************************************************************************)
LEMMA FreeHasNoStamp == ~StampsOrder(NoTx) /\ ~StampsDrone(NoTx)
<1>1. NoTx.pc = "idle"
  BY DEF NoTx
<1> QED BY <1>1 DEF StampsOrder, StampsDrone

(***************************************************************************)
(* A rollback leaves no stamp.                                             *)
(***************************************************************************)
LEMMA RollbackTimes ==
    ASSUME TxInv, TimeInv, NEW s \in Session, Rollback(s)
    PROVE  TimeInv'
<1>1. tx'[s] = NoTx /\ \A u \in Session \ {s} : tx'[u] = tx[u]
  BY DEF Rollback, Release, TxInv
<1>2. StampOK(s)'
  BY <1>1, FreeHasNoStamp, StampStays DEF Rollback
<1> QED BY <1>1, <1>2, QuietKeeps DEF Rollback, Release

(***************************************************************************)
(* A call has no stamp before its first statement.                         *)
(***************************************************************************)
LEMMA CallTimes ==
    ASSUME TxInv, TimeInv, NEW s \in Session, Call(s)
    PROVE  TimeInv'
<1>1. PICK op, user, o, d, a, b : op \in Op /\ Begin(s, op, user, o, d, a, b)
  BY DEF Call, CallSubmit, CallOrder, CallDrone, Op, OrderOp, DroneOp
<1>2. /\ tx'[s].op = op /\ tx'[s].pc = FirstStep(op)
      /\ \A u \in Session \ {s} : tx'[u] = tx[u]
      /\ UNCHANGED <<tables, clock>>
  BY <1>1 DEF Begin, TxInv, NoTx
<1>3. ~StampsOrder(tx'[s]) /\ ~StampsDrone(tx'[s])
  BY <1>2 DEF StampsOrder, StampsDrone, FirstStep, OrderOp
<1>4. StampOK(s)'
  BY <1>2, <1>3, StampStays
<1> QED BY <1>2, <1>4, QuietKeeps

(***************************************************************************)
(* A refused call gives no stamp to anything.                              *)
(***************************************************************************)
LEMMA RefusalTimes ==
    ASSUME TxInv, TimeInv, NEW s \in Session, NEW r,
           tx' = [tx EXCEPT ![s] = Refusal(r)], UNCHANGED <<tables, clock>>
    PROVE  TimeInv'
<1>1. tx'[s].pc = "refused" /\ \A u \in Session \ {s} : tx'[u] = tx[u]
  BY DEF TxInv, Refusal, NoTx
<1>2. ~StampsOrder(tx'[s]) /\ ~StampsDrone(tx'[s])
  BY <1>1 DEF StampsOrder, StampsDrone
<1>3. StampOK(s)'
  BY <1>2, StampStays
<1> QED BY <1>1, <1>3, QuietKeeps

(***************************************************************************)
(* Locking a row after the clock was read changes neither stamp nor row.   *)
(***************************************************************************)
LEMMA LockTimes ==
    ASSUME TxInv, TimeInv, NEW s \in Session,
           \/ LockOrder(s) \/ LockDrone(s) \/ InsertDrone(s)
           \/ MissDrone(s) /\ tx[s].op \in DroneOp
           \/ ReserveNextOrder(s)
    PROVE  TimeInv'
<1> DEFINE t == tx[s]
<1>1. t \in Tx /\ CallOK(t)
  BY DEF TxInv, SessionOK
<1>6. CASE LockOrder(s) /\ ~Admissible(t, orders[t.order])
  BY <1>6, RefusalTimes DEF LockOrder, WithOrder
<1>2. CASE LockOrder(s) /\ Admissible(t, orders[t.order])
  <2>1. /\ tx'[s] = [t EXCEPT !.pc = AfterOrder(t, orders[t.order]),
                              !.ord = orders[t.order],
                              !.drone = IF t.op = "withdraw"
                                             /\ HasDrone(orders[t.order])
                                        THEN orders[t.order].assigned ELSE @]
        /\ \A u \in Session \ {s} : tx'[u] = tx[u]
        /\ UNCHANGED <<tables, clock>> /\ t.pc = "order"
    BY <1>2 DEF LockOrder, WithOrder, TxInv
  <2>2. /\ tx'[s].op = t.op /\ tx'[s].stamp = t.stamp
        /\ tx'[s].pc = AfterOrder(t, orders[t.order])
        /\ t.op = "broken" => tx'[s].drone = t.drone
    BY <1>1, <2>1 DEF Tx
  <2>3. ~StampsOrder(tx'[s])
    BY <2>1, <2>2 DEF StampsOrder, AfterOrder
  <2>4. \/ ~StampsDrone(tx'[s])
        \/ StampsDrone(t) /\ tx'[s].drone = t.drone
    BY <2>1, <2>2 DEF StampsDrone, AfterOrder
  <2>5. StampOK(s)'
    BY <2>1, <2>2, <2>3, <2>4, StampStays
  <2> QED BY <2>1, <2>5, QuietKeeps
<1>7. CASE LockDrone(s) /\ ~MayFly(t, drones[t.drone])
  BY <1>7, RefusalTimes DEF LockDrone, WithDrone
<1>3. CASE (LockDrone(s) /\ MayFly(t, drones[t.drone])) \/ InsertDrone(s)
  <2>1. PICK row : /\ tx'[s] = [t EXCEPT !.pc = AfterDrone(t), !.drn = row]
                   /\ \A u \in Session \ {s} : tx'[u] = tx[u]
                   /\ UNCHANGED <<tables, clock>>
                   /\ t.pc \in {"drone", "insert"}
    <3>1. MayFly(t, NewDrone)
      BY DEF MayFly, NewDrone
    <3> QED BY <1>3, <3>1 DEF LockDrone, InsertDrone, WithDrone, TxInv
  <2>2. /\ tx'[s].op = t.op /\ tx'[s].stamp = t.stamp
        /\ tx'[s].pc = AfterDrone(t)
        /\ tx'[s].ord = t.ord /\ tx'[s].order = t.order
    BY <1>1, <2>1 DEF Tx
  <2>3. ~StampsDrone(tx'[s])
    BY <2>2 DEF StampsDrone, AfterDrone
  <2>4. ~StampsOrder(tx'[s]) \/ StampsOrder(t)
    <3>1. t.op \in {"deliver", "fail"} => t.pc = "drone"
      BY <1>1, <2>1 DEF CallOK, OrderOp, ForOrder
    <3> QED BY <2>2, <3>1 DEF StampsOrder, AfterDrone
  <2>5. StampOK(s)'
    BY <2>1, <2>2, <2>3, <2>4, StampStays
  <2> QED BY <2>1, <2>5, QuietKeeps
<1>4. CASE MissDrone(s) /\ t.op \in DroneOp
  <2>1. /\ tx'[s] = [t EXCEPT !.pc = "insert"]
        /\ \A u \in Session \ {s} : tx'[u] = tx[u]
        /\ UNCHANGED <<tables, clock>>
    BY <1>4 DEF MissDrone, TxInv
  <2>2. tx'[s].op = t.op /\ tx'[s].pc = "insert"
    BY <1>1, <2>1 DEF Tx
  <2>3. StampOK(s)'
    BY <2>1, <2>2, StampStays DEF StampsOrder, StampsDrone
  <2> QED BY <2>1, <2>3, QuietKeeps
<1>5. CASE ReserveNextOrder(s)
  <2>1. PICK o : /\ tx'[s] = [t EXCEPT !.pc = "now", !.order = o,
                                       !.ord = orders[o]]
                 /\ \A u \in Session \ {s} : tx'[u] = tx[u]
                 /\ UNCHANGED <<tables, clock>>
    BY <1>5 DEF ReserveNextOrder, TxInv
  <2>2. tx'[s].op = t.op /\ tx'[s].pc = "now"
    BY <1>1, <2>1 DEF Tx
  <2>3. StampOK(s)'
    BY <2>1, <2>2, StampStays DEF StampsOrder, StampsDrone
  <2> QED BY <2>1, <2>3, QuietKeeps
<1> QED BY <1>2, <1>3, <1>4, <1>5, <1>6, <1>7

(***************************************************************************)
(* The clock, read now, is not earlier than what the locked rows show.     *)
(***************************************************************************)
LEMMA NowTimes ==
    ASSUME TxInv, TimeInv, NEW s \in Session, Now(s)
    PROVE  TimeInv'
<1> DEFINE t == tx[s]
<1>1. t \in Tx /\ CallOK(t) /\ CopiesOK(s) /\ t.pc = "now"
  BY DEF TxInv, SessionOK, Now
<1>2. /\ tx'[s] = Stamped(t)
      /\ \A u \in Session \ {s} : tx'[u] = tx[u]
      /\ UNCHANGED <<tables, clock>>
  BY DEF Now, TxInv
<1>3. /\ tx'[s].op = t.op /\ tx'[s].pc = AfterNow(t)
      /\ tx'[s].stamp = clock /\ tx'[s].ord = t.ord
      /\ tx'[s].drone = t.drone
      /\ t.op # "broken" => tx'[s].order = t.order
  BY <1>1, <1>2 DEF Stamped, Tx
<1>4. ASSUME StampsOrder(tx'[s])
      PROVE  /\ t.ord # NULL /\ t.order \in OrderId /\ t.op # "broken"
  <2>1. t.op \in OrderOp \/ t.op = "reserve"
    BY <1>3, <1>4 DEF StampsOrder, OrderOp
  <2>2. t.ord # NULL
    BY <1>1, <2>1 DEF CallOK, ForOrder, ForDrone, DroneOp
  <2> QED BY <1>1, <2>1, <2>2, CopiesHaveIds DEF OrderOp
<1>5. ASSUME StampsOrder(tx'[s])
      PROVE  /\ Before(t.ord, clock)
             /\ orderEvents[t.order] # NULL => orderEvents[t.order].at <= clock
  <2>1. orders[t.order] = t.ord /\ OrderTimes(t.order)
    BY <1>1, <1>4, <1>5 DEF CopiesOK, TimeInv
  <2> QED BY <1>4, <1>5, <2>1 DEF OrderTimes
<1>6. ASSUME StampsDrone(tx'[s]), droneEvents[t.drone] # NULL
      PROVE  droneEvents[t.drone].at <= clock
  <2>1. t.op \in DroneOp
    BY <1>3, <1>6 DEF StampsDrone, DroneOp
  <2>2. t.drone \in DroneId
    BY <1>1, <2>1 DEF CallOK, ForDrone
  <2> QED BY <1>6, <2>2 DEF TimeInv, DroneTimes
<1>7. StampOK(s)'
  BY <1>2, <1>3, <1>4, <1>5, <1>6 DEF StampOK, Before, tables
<1> QED BY <1>2, <1>7, QuietKeeps

(***************************************************************************)
(* No statement disturbs the stamps.                                       *)
(***************************************************************************)
LEMMA StatementTimes ==
    ASSUME TxInv, TimeInv, NEW s \in Session, Statement(s)
    PROVE  TimeInv'
<1>1. \/ LockOrder(s) \/ LockDrone(s) \/ InsertDrone(s)
      \/ MissDrone(s) /\ tx[s].op \in DroneOp
      \/ ReserveNextOrder(s)
      \/ Now(s)
      \/ Rollback(s) \/ Refuse(s)
  BY DEF Statement, MissOrder, MissDrone, DuplicateDrone, NoJob, Refused
<1>2. CASE Refuse(s)
  BY <1>2, RefusalTimes DEF Refuse
<1> QED BY <1>1, <1>2, LockTimes, NowTimes, RollbackTimes

-------------------------------------------------------------------------------
(* Commits *)

(* The events of a step are later than the ones they follow, but for those *)
(* of a breakdown.                                                         *)
OrderEventFollows(o) ==
    orderEvents[o] # NULL /\ orderEvents'[o] # orderEvents[o] =>
        \/ orderEvents[o].at <= orderEvents'[o].at
        \/ /\ orderEvents[o].drone # NULL /\ orderEvents'[o].drone = NULL
           /\ orderEvents'[o].status \in Reservable

DroneEventFollows(d) ==
    droneEvents[d] # NULL => droneEvents[d].at <= droneEvents'[d].at

EventsFollow ==
    /\ \A o \in OrderId : OrderEventFollows(o)
    /\ \A d \in DroneId : DroneEventFollows(d)

(***************************************************************************)
(* Where the drones' events stay they follow themselves.                   *)
(***************************************************************************)
LEMMA SameDroneEvents ==
    ASSUME TxInv, TimeInv, UNCHANGED <<droneEvents, clock>>
    PROVE  \A d \in DroneId : DroneTimes(d)' /\ DroneEventFollows(d)
<1> SUFFICES ASSUME NEW d \in DroneId
             PROVE  DroneTimes(d)' /\ DroneEventFollows(d)
  OBVIOUS
<1>1. droneEvents[d] # NULL => droneEvents[d].at \in Nat
  BY TablesTyped DEF TxInv, DroneEvent, Opt
<1> QED BY <1>1 DEF TimeInv, DroneTimes, DroneEventFollows

(***************************************************************************)
(* A session with a stamp has the row it is for.                           *)
(***************************************************************************)
LEMMA StampsHaveRows ==
    ASSUME NEW t, CallOK(t)
    PROVE  /\ StampsOrder(t) => t.ord # NULL /\ t.order \in OrderId
           /\ StampsDrone(t) => t.drn # NULL /\ t.drone \in DroneId
<1>1. ASSUME StampsOrder(t) PROVE t.ord # NULL
  BY <1>1 DEF StampsOrder, CallOK, OrderOp, DroneOp, ForOrder, ForDrone
<1>2. ASSUME StampsDrone(t) PROVE t.drn # NULL
  BY <1>2 DEF StampsDrone, CallOK, DroneOp, ForDrone
<1> QED BY <1>1, <1>2, CopiesHaveIds

(***************************************************************************)
(* The end of a transaction that has only written events of its own rows   *)
(* does not disturb the stamps of the others.                              *)
(***************************************************************************)
LEMMA ReleaseTimes ==
    ASSUME TxInv, TimeInv, NEW s \in Session, Release(s),
           \A o \in OrderId : orderEvents'[o] # orderEvents[o] =>
               orderLock[o] = s \/ (tx[s].op = "submit" /\ tx[s].order = o),
           \A d \in DroneId : droneEvents'[d] # droneEvents[d] =>
               droneLock[d] = s,
           \A o \in OrderId : OrderTimes(o)',
           \A d \in DroneId : DroneTimes(d)'
    PROVE  TimeInv'
<1>1. tx'[s] = NoTx /\ \A u \in Session \ {s} : tx'[u] = tx[u]
  BY DEF Release, TxInv
<1>2. StampOK(s)'
  BY <1>1, FreeHasNoStamp DEF StampOK
<1>3. ASSUME NEW u \in Session \ {s} PROVE StampOK(u)'
  <2>1. CallOK(tx[u]) /\ CopiesOK(u) /\ CopiesOK(s) /\ StampOK(u)
    BY DEF TxInv, SessionOK, TimeInv
  <2>2. ASSUME StampsOrder(tx[u])
        PROVE  orderEvents'[tx[u].order] = orderEvents[tx[u].order]
    <3>1. /\ tx[u].ord # NULL /\ tx[u].order \in OrderId
          /\ orderLock[tx[u].order] = u /\ orders[tx[u].order] # NULL
      BY <2>1, <2>2, StampsHaveRows DEF CopiesOK
    <3>2. ~(tx[s].op = "submit" /\ tx[s].order = tx[u].order)
      BY <2>1, <3>1 DEF CopiesOK
    <3> QED BY <3>1, <3>2
  <2>3. ASSUME StampsDrone(tx[u])
        PROVE  droneEvents'[tx[u].drone] = droneEvents[tx[u].drone]
    BY <2>1, <2>3, StampsHaveRows DEF CopiesOK
  <2> QED BY <1>1, <2>1, <2>2, <2>3 DEF StampOK, Before
<1> QED BY <1>2, <1>3 DEF TimeInv

(***************************************************************************)
(* The write of an order with a stamp that has come.                       *)
(***************************************************************************)
LEMMA PutOrderTimes ==
    ASSUME TxInv, TimeInv, UNCHANGED clock,
           NEW i \in OrderId, NEW row, NEW type, NEW now,
           Abs!PutOrder(i, row, type, now), Before(row, clock), Ordered(row),
           now <= clock
    PROVE  /\ \A o \in OrderId : OrderTimes(o)'
           /\ \A o \in OrderId : o # i => orderEvents'[o] = orderEvents[o]
           /\ orderEvents'[i].at = now
           /\ orderEvents'[i].drone = row.assigned
           /\ orderEvents'[i].status = row.status
<1>1. orders \in [OrderId -> Opt(OrderRow)] /\ orderEvents \in [OrderId -> Opt(OrderEvent)]
  BY TablesTyped DEF TxInv
<1>2. /\ orders'[i] = row
      /\ orderEvents'[i] = [type |-> type, status |-> row.status,
                            drone |-> row.assigned, at |-> now]
      /\ \A o \in OrderId : o # i =>
            orders'[o] = orders[o] /\ orderEvents'[o] = orderEvents[o]
  BY <1>1 DEF Abs!PutOrder, Abs!NewOrderEvent
<1>3. OrderTimes(i)'
  BY <1>2 DEF OrderTimes, Before, Ordered
<1>4. ASSUME NEW o \in OrderId, o # i PROVE OrderTimes(o)'
  BY <1>2, <1>4 DEF TimeInv, OrderTimes, Before, Ordered
<1> QED BY <1>2, <1>3, <1>4

(***************************************************************************)
(* The same for a drone's event.                                           *)
(***************************************************************************)
LEMMA PutDroneEventTimes ==
    ASSUME TxInv, TimeInv, UNCHANGED clock,
           NEW i \in DroneId, NEW row, NEW type, NEW now,
           Abs!PutDroneEvent(i, type, row, now), now <= clock,
           droneEvents[i] # NULL => droneEvents[i].at <= now
    PROVE  /\ \A d \in DroneId : DroneTimes(d)' /\ DroneEventFollows(d)
           /\ \A d \in DroneId : d # i => droneEvents'[d] = droneEvents[d]
<1>1. droneEvents \in [DroneId -> Opt(DroneEvent)]
  BY TablesTyped DEF TxInv
<1>2. /\ droneEvents'[i] = [type |-> type, status |-> row.status, at |-> now]
      /\ \A d \in DroneId : d # i => droneEvents'[d] = droneEvents[d]
  BY <1>1 DEF Abs!PutDroneEvent, Abs!NewDroneEvent
<1>3. DroneTimes(i)' /\ DroneEventFollows(i)
  BY <1>2 DEF DroneTimes, DroneEventFollows
<1>4. ASSUME NEW d \in DroneId, d # i PROVE DroneTimes(d)' /\ DroneEventFollows(d)
  <2>1. droneEvents[d] # NULL => droneEvents[d].at \in Nat
    BY <1>1 DEF DroneEvent, Opt
  <2> QED BY <1>2, <1>4, <2>1 DEF TimeInv, DroneTimes, DroneEventFollows
<1> QED BY <1>2, <1>3, <1>4

(***************************************************************************)
(* SubmitOrder: the first event of an order follows none.                  *)
(***************************************************************************)
LEMMA SubmitTimes ==
    ASSUME TxInv, TimeInv, NEW s \in Session, CommitSubmit(s)
    PROVE  TimeInv' /\ EventsFollow
<1> DEFINE t == tx[s]
           row == NewOrder(t.user, t.origin, t.dest, t.stamp)
<1>1. /\ t.op = "submit" /\ Release(s) /\ UNCHANGED droneEvents
      /\ Abs!PutOrder(t.order, row, "order.created", t.stamp)
  BY DEF CommitSubmit, Committing
<1>2. t.order \in OrderId /\ orders[t.order] = NULL
  BY <1>1 DEF TxInv, SessionOK, CallOK, ForNewOrder, CopiesOK
<1>3. t.stamp \in Nat /\ t.stamp <= clock /\ UNCHANGED clock
  BY <1>1 DEF TxInv, SessionOK, CallOK, Tx, Release
<1>4. Before(row, clock) /\ Ordered(row)
  BY <1>3, DomainAssumption DEF Before, Ordered, NewOrder
<1> HIDE DEF t, row
<1>5. /\ \A o \in OrderId : OrderTimes(o)'
      /\ \A o \in OrderId : o # t.order => orderEvents'[o] = orderEvents[o]
  BY <1>1, <1>2, <1>3, <1>4, PutOrderTimes
<1>6. \A d \in DroneId : DroneTimes(d)' /\ DroneEventFollows(d)
  BY <1>1, <1>3, SameDroneEvents
<1>7. orderEvents[t.order] = NULL
  BY <1>2 DEF TxInv, P!IInv, P!OrdersOK, P!OutboxMirrorsOrders
<1>8. EventsFollow
  BY <1>5, <1>6, <1>7 DEF EventsFollow, OrderEventFollows
<1>9. \A o \in OrderId : orderEvents'[o] # orderEvents[o] =>
          orderLock[o] = s \/ (tx[s].op = "submit" /\ tx[s].order = o)
  BY <1>1, <1>5 DEF t
<1>10. TimeInv'
  BY <1>1, <1>5, <1>6, <1>9, ReleaseTimes
<1> QED BY <1>8, <1>10

(***************************************************************************)
(* A call that has stamped its order writes it back with that stamp, and   *)
(* an event with that or a later one.                                      *)
(***************************************************************************)
LEMMA StampedCommitTimes ==
    ASSUME TxInv, TimeInv, NEW s \in Session, Release(s),
           StampsOrder(tx[s]), UNCHANGED droneEvents,
           NEW row, NEW type, NEW now \in {tx[s].stamp, clock},
           Abs!PutOrder(tx[s].order, row, type, now),
           Before(row, tx[s].stamp), Ordered(row), row \in OrderRow
    PROVE  TimeInv' /\ EventsFollow
<1> DEFINE t == tx[s]
<1>1. CallOK(t) /\ CopiesOK(s) /\ StampOK(s) /\ clock \in Nat
  BY SessionAssumption DEF TxInv, SessionOK, TimeInv
<1>2. t.ord # NULL /\ t.order \in OrderId /\ orderLock[t.order] = s
  BY <1>1, StampsHaveRows DEF CopiesOK
<1>3. t.stamp \in Nat /\ t.stamp <= clock /\ UNCHANGED clock
  BY <1>1 DEF CallOK, Tx, Release
<1>4. now \in Nat /\ t.stamp <= now /\ now <= clock
  BY <1>1, <1>3
<1>5. Before(row, clock)
  BY <1>1, <1>3, BeforeLater
<1>6. orderEvents[t.order] # NULL => orderEvents[t.order].at <= now
  <2>1. orderEvents[t.order] # NULL => orderEvents[t.order].at \in Nat
    BY <1>2, TablesTyped DEF TxInv, OrderEvent, Opt
  <2> QED BY <1>1, <1>3, <1>4, <2>1 DEF StampOK
<1> HIDE DEF t
<1>7. /\ \A o \in OrderId : OrderTimes(o)'
      /\ \A o \in OrderId : o # t.order => orderEvents'[o] = orderEvents[o]
      /\ orderEvents'[t.order].at = now
  BY <1>2, <1>3, <1>4, <1>5, PutOrderTimes DEF t
<1>8. \A d \in DroneId : DroneTimes(d)' /\ DroneEventFollows(d)
  BY <1>3, SameDroneEvents
<1>9. EventsFollow
  BY <1>6, <1>7, <1>8 DEF EventsFollow, OrderEventFollows
<1>10. TimeInv'
  BY <1>2, <1>7, <1>8, ReleaseTimes
<1> QED BY <1>9, <1>10

(***************************************************************************)
(* A session's copy of an order has the stamps of its status, in order.    *)
(***************************************************************************)
LEMMA CopyMatches ==
    ASSUME TxInv, TimeInv, NEW s \in Session, StampsOrder(tx[s])
    PROVE  /\ tx[s].ord \in OrderRow /\ tx[s].order \in OrderId
           /\ Matching(tx[s].ord) /\ Ordered(tx[s].ord)
           /\ Before(tx[s].ord, tx[s].stamp) /\ tx[s].stamp \in Nat
<1>1. CallOK(tx[s]) /\ CopiesOK(s) /\ StampOK(s)
  BY DEF TxInv, SessionOK, TimeInv
<1>2. /\ tx[s].ord # NULL /\ tx[s].order \in OrderId
      /\ orders[tx[s].order] = tx[s].ord
  BY <1>1, StampsHaveRows DEF CopiesOK
<1>3. tx[s].ord \in OrderRow /\ Matching(tx[s].ord)
  BY <1>2, RowsMatch
<1>4. Ordered(tx[s].ord)
  BY <1>2 DEF TimeInv, OrderTimes
<1> QED BY <1>1, <1>2, <1>3, <1>4 DEF StampOK, CallOK, Tx

(***************************************************************************)
(* WithdrawOrder and AdminUpdateOrder.                                     *)
(***************************************************************************)
LEMMA CustomerCommitTimes ==
    ASSUME TxInv, TimeInv, NEW s \in Session,
           CommitWithdraw(s) \/ CommitUpdate(s)
    PROVE  TimeInv' /\ EventsFollow
<1> DEFINE t == tx[s]
<1>1. /\ t.op \in {"withdraw", "update"} /\ t.pc = "commit" /\ Release(s)
      /\ UNCHANGED droneEvents
  BY DEF CommitWithdraw, CommitUpdate, Committing
<1>2. StampsOrder(t)
  BY <1>1 DEF StampsOrder
<1>3. /\ t.ord \in OrderRow /\ Matching(t.ord) /\ Ordered(t.ord)
      /\ Before(t.ord, t.stamp) /\ t.stamp \in Nat
  BY <1>2, CopyMatches
<1>4. CallOK(t) /\ Admissible(t, t.ord)
  BY <1>1 DEF TxInv, SessionOK, CallOK, OrderOp, ForOrder
<1>5. CASE CommitWithdraw(s)
  <2>1. /\ Abs!PutOrder(t.order, Withdrawn(t.ord), "order.withdrawn", t.stamp)
        /\ t.op = "withdraw"
    BY <1>5 DEF CommitWithdraw, Committing
  <2>2. Before(Withdrawn(t.ord), t.stamp) /\ Ordered(Withdrawn(t.ord))
    BY <1>3, <1>4, <2>1, CustomerTimes DEF Admissible, MayWithdraw
  <2>3. Withdrawn(t.ord) \in OrderRow
    BY <1>3 DEF Withdrawn, OrderRow, OrderStatus, Opt
  <2> HIDE DEF t
  <2> QED BY <1>1, <1>2, <2>1, <2>2, <2>3, StampedCommitTimes DEF t
<1>6. CASE CommitUpdate(s)
  <2> DEFINE row == Readdressed(t.ord, t.origin, t.dest)
  <2>1. Abs!PutOrder(t.order, row, "order.updated", t.stamp)
    BY <1>6 DEF CommitUpdate
  <2>2. Before(row, t.stamp) /\ Ordered(row)
    BY <1>3, CustomerTimes
  <2>3. t.origin \in Opt(Location) /\ t.dest \in Opt(Location)
    BY <1>4 DEF CallOK, Tx
  <2>4. row \in OrderRow
    <3> DEFINE a == IF t.origin = NULL THEN t.ord.origin ELSE t.origin
               b == IF t.dest = NULL THEN t.ord.dest ELSE t.dest
    <3>1. a \in Location /\ b \in Location
      BY <1>3, <2>3 DEF OrderRow, Opt
    <3>2. row = [t.ord EXCEPT !.origin = a, !.dest = b]
      BY <1>3 DEF Readdressed, OrderRow
    <3> HIDE DEF a, b, row
    <3> QED BY <1>3, <3>1, <3>2 DEF OrderRow
  <2> HIDE DEF t, row
  <2> QED BY <1>1, <1>2, <2>1, <2>2, <2>4, StampedCommitTimes DEF t
<1> QED BY <1>5, <1>6

(***************************************************************************)
(* DroneReserveJob, DronePickup, DroneDeliver and DroneFail.               *)
(***************************************************************************)
LEMMA DroneCommitTimes ==
    ASSUME TxInv, TimeInv, NEW s \in Session,
           \/ CommitReserve(s) \/ CommitPickup(s)
           \/ CommitDeliver(s) \/ CommitFail(s)
    PROVE  TimeInv' /\ EventsFollow
<1> DEFINE t == tx[s]
<1>1. /\ t.op \in {"reserve", "pickup", "deliver", "fail"} /\ t.pc = "commit"
      /\ Release(s) /\ UNCHANGED droneEvents
  BY DEF CommitReserve, CommitPickup, CommitDeliver, CommitFail,
         CommitComplete, Committing
<1>2. StampsOrder(t)
  BY <1>1 DEF StampsOrder
<1>3. /\ t.ord \in OrderRow /\ Matching(t.ord) /\ Ordered(t.ord)
      /\ Before(t.ord, t.stamp) /\ t.stamp \in Nat
  BY <1>2, CopyMatches
<1>4. CallOK(t)
  BY DEF TxInv, SessionOK
<1>5. CASE CommitReserve(s)
  <2> DEFINE row == Reserved(t.ord, t.drone, t.stamp)
  <2>1. Abs!PutOrder(t.order, row, "order.reserved", t.stamp) /\ t.op = "reserve"
    BY <1>5 DEF CommitReserve, Committing
  <2>2. t.ord.status \in Reservable /\ t.drone \in DroneId
    BY <1>1, <1>4, <2>1 DEF CallOK, ForDrone, DroneOp
  <2>3. Before(row, t.stamp) /\ Ordered(row)
    BY <1>3, <2>2, DroneTimesOfRow
  <2>4. row \in OrderRow
    BY <1>3, <2>2 DEF Reserved, OrderRow, OrderStatus, Opt
  <2> HIDE DEF t, row
  <2> QED BY <1>1, <1>2, <2>1, <2>3, <2>4, StampedCommitTimes DEF t
<1>6. CASE CommitPickup(s)
  <2> DEFINE row == PickedUp(t.ord, t.stamp)
  <2>1. Abs!PutOrder(t.order, row, "order.picked_up", clock) /\ t.op = "pickup"
    BY <1>6 DEF CommitPickup, Committing
  <2>2. t.ord.status \in {"RESERVED", "HANDOFF_REQUESTED"}
    BY <1>1, <1>4, <2>1 DEF CallOK, ForOrder, OrderOp, Admissible, MayPickup
  <2>3. Before(row, t.stamp) /\ Ordered(row)
    BY <1>3, <2>2, DroneTimesOfRow
  <2>4. row \in OrderRow
    BY <1>3 DEF PickedUp, OrderRow, OrderStatus, Opt
  <2> HIDE DEF t, row
  <2> QED BY <1>1, <1>2, <2>1, <2>3, <2>4, StampedCommitTimes DEF t
<1>7. CASE CommitDeliver(s) \/ CommitFail(s)
  <2>1. PICK st, type :
           /\ st \in {"DELIVERED", "FAILED"}
           /\ Abs!PutOrder(t.order, Completed(t.ord, st, t.stamp), type, t.stamp)
           /\ t.op \in {"deliver", "fail"}
    BY <1>7 DEF CommitDeliver, CommitFail, CommitComplete, Committing
  <2> DEFINE row == Completed(t.ord, st, t.stamp)
  <2>2. t.ord.status = "PICKED_UP"
    BY <1>1, <1>4, <2>1 DEF CallOK, ForOrder, OrderOp, Admissible, MayComplete
  <2>3. Before(row, t.stamp) /\ Ordered(row)
    BY <1>3, <2>1, <2>2, DroneTimesOfRow
  <2>4. row \in OrderRow
    BY <1>3, <2>1 DEF Completed, OrderRow, OrderStatus, Opt
  <2> HIDE DEF t, row
  <2> QED BY <1>1, <1>2, <2>1, <2>3, <2>4, StampedCommitTimes DEF t, row
<1> QED BY <1>5, <1>6, <1>7

(***************************************************************************)
(* DroneMarkBroken: the drone's event follows its last one; the order's    *)
(* may be older, but takes the order away from the drone.                  *)
(***************************************************************************)
LEMMA BrokenTimes ==
    ASSUME TxInv, TimeInv, NEW s \in Session, CommitBroken(s)
    PROVE  TimeInv' /\ EventsFollow
<1> DEFINE t == tx[s]
           o == t.drn.current
           row == AfterBreakdown(t.ord, t.drn.location)
<1>1. /\ t.op = "broken" /\ t.pc = "commit" /\ Release(s)
      /\ IF o # NULL /\ t.ord.status \in Underway
         THEN Abs!PutOrder(o, row, BreakdownEventType(t.ord), t.stamp)
         ELSE UNCHANGED <<orders, orderEvents>>
      /\ Abs!PutDroneEvent(t.drone, "drone.broken", Broken(t.drn), t.stamp)
  BY DEF CommitBroken, Committing
<1>2. CallOK(t) /\ CopiesOK(s) /\ StampOK(s) /\ clock \in Nat
  BY SessionAssumption DEF TxInv, SessionOK, TimeInv
<1>3. StampsDrone(t) /\ ForDrone(t)
  BY <1>1, <1>2 DEF StampsDrone, CallOK, DroneOp
<1>4. t.drn # NULL /\ t.drone \in DroneId /\ droneLock[t.drone] = s
  BY <1>2, <1>3, StampsHaveRows DEF CopiesOK
<1>5. t.stamp \in Nat /\ t.stamp <= clock /\ UNCHANGED clock
  BY <1>1, <1>2 DEF CallOK, Tx, Release
<1>6. droneEvents[t.drone] # NULL => droneEvents[t.drone].at <= t.stamp
  BY <1>2, <1>3 DEF StampOK
<1>7. /\ \A d \in DroneId : DroneTimes(d)' /\ DroneEventFollows(d)
      /\ \A d \in DroneId : d # t.drone => droneEvents'[d] = droneEvents[d]
  <2> HIDE DEF t
  <2> QED BY <1>1, <1>4, <1>5, <1>6, PutDroneEventTimes
<1>8. /\ \A p \in OrderId : OrderTimes(p)' /\ OrderEventFollows(p)
      /\ \A p \in OrderId : orderEvents'[p] # orderEvents[p] => orderLock[p] = s
  <2>1. CASE o # NULL /\ t.ord.status \in Underway
    <3>1. t.ord # NULL /\ t.order = o
      BY <1>1, <1>3, <2>1 DEF ForDrone
    <3>2. o \in OrderId /\ orders[o] = t.ord /\ orderLock[o] = s
      BY <1>2, <3>1, CopiesHaveIds DEF CopiesOK
    <3>3. /\ t.ord \in OrderRow /\ Matching(t.ord) /\ Ordered(t.ord)
          /\ Before(t.ord, clock)
      BY <3>1, <3>2, RowsMatch DEF TimeInv, OrderTimes
    <3>4. Before(row, clock) /\ Ordered(row)
      BY <1>2, <3>3, BreakdownTimes
    <3>5. row.assigned = NULL /\ row.status \in Reservable
      BY <2>1, <3>3 DEF AfterBreakdown, HandedOff, Requeued, Underway,
                        Reservable, OrderRow
    <3>6. orderEvents[o].drone # NULL
      <4>1. orderEvents[o].drone = orders[o].assigned /\ orders[o].assigned # NULL
        BY <2>1, <3>1, <3>2
           DEF TxInv, P!IInv, P!OrdersOK, P!OutboxMirrorsOrders,
               P!AssignedExactlyWhileUnderway, P!Underway, Underway
      <4> QED BY <4>1
    <3> HIDE DEF t, row, o
    <3>7. /\ \A p \in OrderId : OrderTimes(p)'
          /\ \A p \in OrderId : p # o => orderEvents'[p] = orderEvents[p]
          /\ orderEvents'[o].drone = row.assigned
          /\ orderEvents'[o].status = row.status
      BY <1>1, <1>5, <2>1, <3>2, <3>4, PutOrderTimes
    <3> QED BY <3>2, <3>5, <3>6, <3>7 DEF OrderEventFollows
  <2>2. CASE ~(o # NULL /\ t.ord.status \in Underway)
    BY <1>1, <1>5, <2>2 DEF TimeInv, OrderTimes, Before, Ordered,
                            OrderEventFollows
  <2> QED BY <2>1, <2>2
<1>9. TimeInv'
  BY <1>1, <1>4, <1>7, <1>8, ReleaseTimes
<1> QED BY <1>7, <1>8, <1>9 DEF EventsFollow

(***************************************************************************)
(* DroneMarkFixed and DroneHeartbeat.                                      *)
(***************************************************************************)
LEMMA FixedTimes ==
    ASSUME TxInv, TimeInv, NEW s \in Session,
           CommitFixed(s) \/ CommitHeartbeat(s)
    PROVE  TimeInv' /\ EventsFollow
<1> DEFINE t == tx[s]
<1>1. Release(s) /\ UNCHANGED <<orders, orderEvents>>
  BY DEF CommitFixed, CommitHeartbeat, Committing
<1>2. CallOK(t) /\ CopiesOK(s) /\ StampOK(s) /\ UNCHANGED clock
  BY <1>1 DEF TxInv, SessionOK, TimeInv, Release
<1>3. \A o \in OrderId : OrderTimes(o)' /\ OrderEventFollows(o)
  BY <1>1, <1>2 DEF TimeInv, OrderTimes, Before, Ordered, OrderEventFollows
<1>4. CASE CommitFixed(s)
  <2>1. /\ t.op = "fixed" /\ t.pc = "commit"
        /\ Abs!PutDroneEvent(t.drone, "drone.fixed", Fixed(t.drn), t.stamp)
    BY <1>4 DEF CommitFixed, Committing
  <2>2. StampsDrone(t)
    BY <2>1 DEF StampsDrone
  <2>3. t.drn # NULL /\ t.drone \in DroneId /\ droneLock[t.drone] = s
    BY <1>2, <2>2, StampsHaveRows DEF CopiesOK
  <2>4. /\ t.stamp <= clock
        /\ droneEvents[t.drone] # NULL => droneEvents[t.drone].at <= t.stamp
    BY <1>2, <2>2 DEF CallOK, StampOK
  <2> HIDE DEF t
  <2>5. /\ \A d \in DroneId : DroneTimes(d)' /\ DroneEventFollows(d)
        /\ \A d \in DroneId : d # t.drone => droneEvents'[d] = droneEvents[d]
    BY <1>2, <2>1, <2>3, <2>4, PutDroneEventTimes
  <2>6. TimeInv'
    BY <1>1, <1>3, <2>3, <2>5, ReleaseTimes
  <2> QED BY <1>3, <2>5, <2>6 DEF EventsFollow
<1>5. CASE CommitHeartbeat(s)
  <2>1. UNCHANGED droneEvents
    BY <1>5 DEF CommitHeartbeat
  <2>2. \A d \in DroneId : DroneTimes(d)' /\ DroneEventFollows(d)
    BY <1>2, <2>1, SameDroneEvents
  <2>3. TimeInv'
    BY <1>1, <1>3, <2>1, <2>2, ReleaseTimes
  <2> QED BY <1>3, <2>2, <2>3 DEF EventsFollow
<1> QED BY <1>4, <1>5

-------------------------------------------------------------------------------
(* The results *)

(***************************************************************************)
(* At the start nothing has a stamp.                                       *)
(***************************************************************************)
LEMMA TimeInitOK == Init => TimeInv
BY FreeHasNoStamp
   DEF Init, Abs!Init, TimeInv, OrderTimes, DroneTimes, StampOK

(***************************************************************************)
(* A step that writes no event keeps their order.                          *)
(***************************************************************************)
LEMMA NoEventsFollow ==
    ASSUME TxInv, UNCHANGED tables
    PROVE  EventsFollow
<1>1. \A d \in DroneId : droneEvents[d] # NULL => droneEvents[d].at \in Nat
  BY TablesTyped DEF TxInv, DroneEvent, Opt
<1> QED BY <1>1 DEF tables, EventsFollow, OrderEventFollows, DroneEventFollows

(***************************************************************************)
(* Every step keeps the invariant of the stamps, and the order of events.  *)
(***************************************************************************)
LEMMA TimeNextOK ==
    ASSUME TxInv, TimeInv, [Next]_vars
    PROVE  TimeInv' /\ EventsFollow
<1>1. ASSUME UNCHANGED <<tables, tx>>, clock' \in Nat, clock <= clock'
      PROVE  TimeInv' /\ EventsFollow
  <2>1. \A s \in Session : StampOK(s)'
    BY <1>1, StampStays
  <2> QED BY <1>1, <2>1, ClockGrows, NoEventsFollow DEF TimeInv
<1>2. CASE UNCHANGED vars
  BY <1>1, <1>2, SessionAssumption DEF vars, TxInv
<1>3. CASE Tick
  BY <1>1, <1>3, SessionAssumption DEF Tick, TxInv
<1>4. ASSUME NEW s \in Session, Call(s) PROVE TimeInv' /\ UNCHANGED tables
  BY <1>4, CallTimes DEF Call, CallSubmit, CallOrder, CallDrone, Begin
<1>5. ASSUME NEW s \in Session, Statement(s) PROVE TimeInv' /\ UNCHANGED tables
  BY <1>5, StatementTimes DEF Statement, LockOrder, MissOrder, LockDrone,
     MissDrone, InsertDrone, DuplicateDrone, ReserveNextOrder, NoJob, Now,
     Refuse, Refused, Rollback
<1>6. ASSUME NEW s \in Session, Abort(s) \/ DeadlockAbort(s)
      PROVE  TimeInv' /\ UNCHANGED tables
  BY <1>6, RollbackTimes DEF Abort, DeadlockAbort, Rollback
<1>7. ASSUME NEW s \in Session, Commit(s) PROVE TimeInv' /\ EventsFollow
  BY <1>7, SubmitTimes, CustomerCommitTimes, DroneCommitTimes, BrokenTimes,
     FixedTimes DEF Commit
<1> QED BY <1>2, <1>3, <1>4, <1>5, <1>6, <1>7, NoEventsFollow DEF Next

(***************************************************************************)
(* No stamp is in the future, and every stamp about to be written is no    *)
(* earlier than those of the row it goes to.                               *)
(***************************************************************************)
THEOREM StampsKeepInvariant == Spec => []TimeInv
<1>1. Init => TimeInv
  BY TimeInitOK
<1>2. TxInv /\ TimeInv /\ [Next]_vars => TimeInv'
  BY TimeNextOK
<1> QED BY <1>1, <1>2, TransactionsKeepInvariant, PTL DEF Spec

(***************************************************************************)
(* The timestamps of every row are in the order of the order's life,       *)
(* however long the calls that wrote them waited for their locks.          *)
(***************************************************************************)
THEOREM TimestampsInOrder == Spec => []TimestampsOrdered
<1>1. TimeInv => TimestampsOrdered
  BY DEF TimeInv, OrderTimes, Ordered, TimestampsOrdered
<1> QED BY <1>1, StampsKeepInvariant, PTL

(***************************************************************************)
(* Each event of an order or a drone is no older than the one committed    *)
(* before it, but for the order's event of a breakdown.                    *)
(***************************************************************************)
THEOREM EventsInOrder == Spec => EventTimesFollowCommits
<1>1. TxInv /\ TimeInv /\ [Next]_vars => EventsFollow
  BY TimeNextOK
<1>2. EventsFollow =>
         /\ \A o \in OrderId :
               LET old == orderEvents[o]
                   new == orderEvents'[o]
               IN  old # NULL /\ new # old =>
                     \/ old.at <= new.at
                     \/ old.drone # NULL /\ new.drone = NULL
                        /\ new.status \in Reservable
         /\ \A d \in DroneId :
               droneEvents[d] # NULL => droneEvents[d].at <= droneEvents'[d].at
  BY DEF EventsFollow, OrderEventFollows, DroneEventFollows
<1> QED BY <1>1, <1>2, TransactionsKeepInvariant, StampsKeepInvariant, PTL
        DEF Spec, EventTimesFollowCommits
===============================================================================
