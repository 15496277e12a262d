--------------------------- MODULE DeliveryTxProofs ---------------------------
(***************************************************************************)
(* Proofs about DeliveryTx for any number of sessions, orders, drones,     *)
(* users and locations: the row locks make the transactions implement      *)
(* Delivery, so that everything proved of Delivery holds of the committed  *)
(* tables, and they bound deadlocks and the answer no_job.                 *)
(***************************************************************************)
EXTENDS DeliveryTx, TLAPS

(* Delivery with the results of DeliveryProofs. *)
P == INSTANCE DeliveryProofs WITH Time <- 0 .. MaxClock

-------------------------------------------------------------------------------
(* The inductive invariant *)

(* What a call that works on an order knows at each of its statements. *)
ForOrder(t) ==
    /\ t.pc \in {"order", "now", "drone", "commit"}
    /\ t.order \in OrderId
    /\ t.ord = NULL <=> t.pc = "order"
    /\ t.pc # "order" => Admissible(t, t.ord)
    /\ t.op = "withdraw" =>
          /\ t.user \in UserId
          /\ t.pc = "order" => t.drn = NULL
          /\ t.pc = "drone" => HasDrone(t.ord) /\ t.drn = NULL
          /\ t.pc \in {"now", "commit"} => (HasDrone(t.ord) <=> t.drn # NULL)
          /\ t.pc # "order" /\ HasDrone(t.ord) => t.drone = t.ord.assigned
    /\ t.op \in {"update", "pickup"} => t.pc # "drone" /\ t.drn = NULL
    /\ t.op \in {"pickup", "deliver", "fail"} => t.drone \in DroneId
    /\ t.op \in {"deliver", "fail"} => (t.drn # NULL <=> t.pc = "commit")

(* The same for a call that starts from a drone. *)
ForDrone(t) ==
    /\ t.pc \in {"drone", "insert", "now", "commit"} \cup
                  (IF t.op = "reserve" THEN {"reserve"} ELSE {}) \cup
                  (IF t.op = "broken" THEN {"order"} ELSE {})
    /\ t.drone \in DroneId
    /\ t.drn = NULL <=> t.pc \in {"drone", "insert"}
    /\ t.op = "reserve" =>
          /\ t.pc \in {"drone", "insert", "reserve"} => t.ord = NULL
          /\ t.drn # NULL => MayFly(t, t.drn)
          /\ t.pc \in {"now", "commit"} =>
                /\ t.order \in OrderId
                /\ t.ord # NULL
                /\ t.ord.status \in Reservable
                /\ t.ord.assigned = NULL
    /\ t.op = "broken" =>
          /\ t.pc \in {"drone", "insert", "now", "order"} => t.ord = NULL
          /\ t.pc = "order" => t.drn.current # NULL
          /\ t.pc \in {"order", "commit"} => t.order = t.drn.current
          /\ t.pc = "commit" => (t.ord # NULL <=> t.drn.current # NULL)
    /\ t.op \in {"fixed", "heartbeat"} => t.ord = NULL
    /\ t.op = "heartbeat" => t.origin \in ValidLocation

ForNewOrder(t) ==
    /\ t.pc \in {"now", "commit"}
    /\ t.user \in UserId
    /\ t.order \in OrderId
    /\ t.origin \in ValidLocation
    /\ t.dest \in ValidLocation
    /\ t.ord = NULL
    /\ t.drn = NULL

(* A refused call has at most the row its method locks first. *)
ForRefused(t) ==
    /\ t.op \in OrderOp \cup DroneOp
    /\ t.ord # NULL => t.op \in OrderOp /\ t.order \in OrderId
    /\ t.drn # NULL => t.op \in DroneOp /\ t.drone \in DroneId

(* A session's record fits its operation and its next statement. *)
CallOK(t) ==
    /\ t \in Tx
    /\ t.stamp <= clock
    /\ t.pc = "idle" <=> t.op = NULL
    /\ t.op = NULL => t.ord = NULL /\ t.drn = NULL
    /\ t.op = "submit" => ForNewOrder(t)
    /\ t.pc = "refused" => ForRefused(t)
    /\ t.pc # "refused" =>
          /\ t.op \in OrderOp => ForOrder(t)
          /\ t.op \in DroneOp => ForDrone(t)

(* Its copies are locked and fresh, its new rows are nobody else's.  A     *)
(* drone it has inserted is still the new one.                             *)
CopiesOK(s) ==
    /\ tx[s].ord # NULL =>
          /\ orderLock[tx[s].order] = s
          /\ orders[tx[s].order] = tx[s].ord
    /\ tx[s].drn # NULL =>
          /\ droneLock[tx[s].drone] = s
          /\ \/ drones[tx[s].drone] = tx[s].drn
             \/ /\ drones[tx[s].drone] = NULL
                /\ tx[s].op \in DroneOp
                /\ tx[s].drn = NewDrone
    /\ tx[s].op = "submit" =>
          /\ orders[tx[s].order] = NULL
          /\ \A u \in Session \ {s} :
                ~(tx[u].op = "submit" /\ tx[u].order = tx[s].order)

(* A lock is held by a session for its copy of that row. *)
OrderLockOK(o) ==
    orderLock[o] # NULL =>
        /\ orderLock[o] \in Session
        /\ tx[orderLock[o]].ord # NULL
        /\ tx[orderLock[o]].order = o

DroneLockOK(d) ==
    droneLock[d] # NULL =>
        /\ droneLock[d] \in Session
        /\ tx[droneLock[d]].drn # NULL
        /\ tx[droneLock[d]].drone = d

SessionOK(s) == CallOK(tx[s]) /\ CopiesOK(s)

LocksOK ==
    /\ orderLock \in [OrderId -> Opt(Session)]
    /\ droneLock \in [DroneId -> Opt(Session)]
    /\ \A o \in OrderId : OrderLockOK(o)
    /\ \A d \in DroneId : DroneLockOK(d)

TxInv ==
    /\ P!IInv
    /\ LocksOK
    /\ clock \in 0 .. MaxClock
    /\ tx \in [Session -> Tx]
    /\ \A s \in Session : SessionOK(s)

-------------------------------------------------------------------------------
(* The two views of Domain's definitions *)

(***************************************************************************)
(* Delivery, instantiated, has the rows and events of Domain.              *)
(***************************************************************************)
LEMMA SameRows ==
    /\ P!OrderRow = OrderRow
    /\ P!DroneRow = DroneRow
    /\ P!OrderEvent = OrderEvent
    /\ P!DroneEvent = DroneEvent
BY DEF OrderRow, DroneRow, OrderEvent, DroneEvent, Opt, OrderStatus,
       DroneStatus, OrderEventType, DroneEventType,
       P!OrderRow, P!DroneRow, P!OrderEvent, P!DroneEvent, P!Opt,
       P!OrderStatus, P!DroneStatus, P!OrderEventType, P!DroneEventType

(***************************************************************************)
(* A step of Delivery on the committed tables keeps what is proved of it.  *)
(***************************************************************************)
LEMMA PromiseKept ==
    ASSUME P!IInv, [P!Next]_(P!vars)
    PROVE  P!IInv'
BY P!NextOK, SessionAssumption, DomainAssumption, RowAssumption, SameRows

(***************************************************************************)
(* The committed tables hold rows and events.                              *)
(***************************************************************************)
LEMMA TablesTyped ==
    ASSUME P!IInv
    PROVE  /\ orders \in [OrderId -> Opt(OrderRow)]
           /\ drones \in [DroneId -> Opt(DroneRow)]
           /\ orderEvents \in [OrderId -> Opt(OrderEvent)]
           /\ droneEvents \in [DroneId -> Opt(DroneEvent)]
BY SameRows DEF P!IInv, P!OrdersOK, P!DronesOK, P!Opt, Opt

(***************************************************************************)
(* A session that has a copy has the id of its row.                        *)
(***************************************************************************)
LEMMA CopiesHaveIds ==
    ASSUME NEW t, CallOK(t)
    PROVE  /\ t.ord # NULL => t.order \in OrderId /\ t.ord \in OrderRow
           /\ t.drn # NULL => t.drone \in DroneId /\ t.drn \in DroneRow
           /\ t.op \in Opt(Op)
<1>1. /\ t.ord \in Opt(OrderRow) /\ t.drn \in Opt(DroneRow)
      /\ t.order \in Opt(OrderId) /\ t.drone \in Opt(DroneId)
      /\ t.op \in Opt(Op)
  BY DEF CallOK, Tx
<1>2. CASE t.op = NULL \/ t.op = "submit"
  BY <1>1, <1>2 DEF CallOK, ForNewOrder, Opt
<1>5. CASE t.pc = "refused"
  BY <1>1, <1>5 DEF CallOK, ForRefused, Opt
<1>3. CASE t.op \in OrderOp /\ t.pc # "refused"
  <2>1. ForOrder(t)
    BY <1>3 DEF CallOK
  <2>2. t.order \in OrderId
    BY <2>1 DEF ForOrder
  <2>3. ASSUME t.drn # NULL PROVE t.drone \in DroneId
    <3>1. CASE t.op = "withdraw"
      BY <1>1, <2>1, <2>3, <3>1 DEF ForOrder, HasDrone, Opt
    <3>2. CASE t.op \in {"update", "pickup"}
      BY <2>1, <2>3, <3>2 DEF ForOrder
    <3>3. CASE t.op \in {"deliver", "fail"}
      BY <2>1, <3>3 DEF ForOrder
    <3> QED BY <1>3, <3>1, <3>2, <3>3 DEF OrderOp
  <2> QED BY <1>1, <2>2, <2>3 DEF Opt
<1>4. CASE t.op \in DroneOp /\ t.pc # "refused"
  <2>1. ForDrone(t)
    BY <1>4 DEF CallOK
  <2>2. t.drone \in DroneId
    BY <2>1 DEF ForDrone
  <2>3. ASSUME t.ord # NULL PROVE t.order \in OrderId
    BY <1>1, <1>4, <2>1, <2>3 DEF ForDrone, DroneOp, Opt
  <2> QED BY <1>1, <2>2, <2>3 DEF Opt
<1> QED BY <1>1, <1>2, <1>3, <1>4, <1>5 DEF Op, Opt

-------------------------------------------------------------------------------
(* What the steps of one session leave of the others *)

(***************************************************************************)
(* A step of session s: it changes no lock and no row of another session.  *)
(***************************************************************************)
StepOf(s) ==
    /\ \A u \in Session \ {s} : tx'[u] = tx[u]
    /\ \A o \in OrderId :
          orderLock'[o] # orderLock[o] =>
              {orderLock[o], orderLock'[o]} \subseteq {s, NULL}
    /\ \A d \in DroneId :
          droneLock'[d] # droneLock[d] =>
              {droneLock[d], droneLock'[d]} \subseteq {s, NULL}
    /\ \A o \in OrderId :
          orders'[o] # orders[o] =>
              \/ orderLock[o] = s
              \/ tx[s].op = "submit" /\ tx[s].order = o
    /\ \A d \in DroneId : drones'[d] # drones[d] => droneLock[d] = s
    /\ clock' = clock

(* What s itself has to see to. *)
OwnLocksOK(s) ==
    /\ orderLock \in [OrderId -> Opt(Session)]
    /\ droneLock \in [DroneId -> Opt(Session)]
    /\ \A o \in OrderId :
          orderLock[o] = s => tx[s].ord # NULL /\ tx[s].order = o
    /\ \A d \in DroneId :
          droneLock[d] = s => tx[s].drn # NULL /\ tx[s].drone = d

(***************************************************************************)
(* The copies of the other sessions stay fresh.                            *)
(***************************************************************************)
LEMMA OthersKeep ==
    ASSUME TxInv, NEW s \in Session, NEW u \in Session \ {s}, StepOf(s),
           tx'[s].op = "submit" =>
               ~(tx[u].op = "submit" /\ tx[u].order = tx'[s].order)
    PROVE  SessionOK(u)'
<1>1. tx'[u] = tx[u] /\ clock' = clock
  BY DEF StepOf
<1>2. SessionOK(u) /\ SessionOK(s) /\ u # NULL /\ s # NULL
  BY SessionAssumption DEF TxInv
<1>3. CallOK(tx[u])'
  BY <1>1, <1>2 DEF SessionOK, CallOK
<1>4. ASSUME tx[u].ord # NULL
      PROVE  orderLock'[tx[u].order] = u /\ orders'[tx[u].order] = tx[u].ord
  <2>1. tx[u].order \in OrderId /\ orderLock[tx[u].order] = u
    BY <1>2, <1>4, CopiesHaveIds DEF SessionOK, CopiesOK
  <2>2. orders[tx[u].order] = tx[u].ord
    BY <1>2, <1>4 DEF SessionOK, CopiesOK
  <2>3. ~(tx[s].op = "submit" /\ tx[s].order = tx[u].order)
    BY <1>2, <1>4, <2>2 DEF SessionOK, CopiesOK
  <2> QED BY <1>2, <2>1, <2>2, <2>3 DEF StepOf
<1>5. ASSUME tx[u].drn # NULL
      PROVE  /\ droneLock'[tx[u].drone] = u
             /\ drones'[tx[u].drone] = drones[tx[u].drone]
  BY <1>2, <1>5, CopiesHaveIds DEF SessionOK, CopiesOK, StepOf
<1>6. ASSUME tx[u].op = "submit"
      PROVE  /\ orders'[tx[u].order] = NULL
             /\ \A v \in Session \ {u} :
                   ~(tx'[v].op = "submit" /\ tx'[v].order = tx[u].order)
  <2>1. /\ tx[u].order \in OrderId
        /\ orders[tx[u].order] = NULL
        /\ \A v \in Session \ {u} :
              ~(tx[v].op = "submit" /\ tx[v].order = tx[u].order)
    BY <1>2, <1>6 DEF SessionOK, CallOK, ForNewOrder, CopiesOK
  <2>2. orderLock[tx[u].order] # s
    BY <1>2, <2>1 DEF TxInv, LocksOK, OrderLockOK, SessionOK, CopiesOK
  <2>3. orders'[tx[u].order] = NULL
    BY <2>1, <2>2 DEF StepOf
  <2> QED BY <1>6, <2>1, <2>3 DEF StepOf
<1>7. CopiesOK(u)'
  BY <1>1, <1>2, <1>4, <1>5, <1>6 DEF SessionOK, CopiesOK
<1> QED BY <1>3, <1>7 DEF SessionOK

(***************************************************************************)
(* The invariant is kept by a step of s that sees to its own record and    *)
(* locks.                                                                  *)
(***************************************************************************)
LEMMA StepKeeps ==
    ASSUME TxInv, NEW s \in Session, StepOf(s), P!IInv', SessionOK(s)',
           tx' \in [Session -> Tx], OwnLocksOK(s)',
           \A u \in Session \ {s} :
               tx'[s].op = "submit" =>
                   ~(tx[u].op = "submit" /\ tx[u].order = tx'[s].order)
    PROVE  TxInv'
<1>1. \A u \in Session : SessionOK(u)'
  BY OthersKeep
<1>2. s # NULL
  BY SessionAssumption
<1>3. \A o \in OrderId : OrderLockOK(o)'
  <2> SUFFICES ASSUME NEW o \in OrderId, orderLock'[o] # NULL
               PROVE  /\ orderLock'[o] \in Session
                      /\ tx'[orderLock'[o]].ord # NULL
                      /\ tx'[orderLock'[o]].order = o
    BY DEF OrderLockOK
  <2>1. CASE orderLock'[o] = s
    BY <2>1 DEF OwnLocksOK
  <2>2. CASE orderLock'[o] # s
    <3>1. orderLock'[o] = orderLock[o]
      BY <2>2 DEF StepOf
    <3> QED BY <2>2, <3>1 DEF TxInv, LocksOK, OrderLockOK, StepOf
  <2> QED BY <2>1, <2>2
<1>4. \A d \in DroneId : DroneLockOK(d)'
  <2> SUFFICES ASSUME NEW d \in DroneId, droneLock'[d] # NULL
               PROVE  /\ droneLock'[d] \in Session
                      /\ tx'[droneLock'[d]].drn # NULL
                      /\ tx'[droneLock'[d]].drone = d
    BY DEF DroneLockOK
  <2>1. CASE droneLock'[d] = s
    BY <2>1 DEF OwnLocksOK
  <2>2. CASE droneLock'[d] # s
    <3>1. droneLock'[d] = droneLock[d]
      BY <2>2 DEF StepOf
    <3> QED BY <2>2, <3>1 DEF TxInv, LocksOK, DroneLockOK, StepOf
  <2> QED BY <2>1, <2>2
<1>5. LocksOK'
  BY <1>3, <1>4 DEF LocksOK, OwnLocksOK
<1>6. clock' \in 0 .. MaxClock
  BY DEF TxInv, StepOf
<1> QED BY <1>1, <1>5, <1>6 DEF TxInv

-------------------------------------------------------------------------------
(* Steps that leave the tables alone *)

(***************************************************************************)
(* The invariant is kept by a step of s that only changes its record and   *)
(* takes free locks.                                                       *)
(***************************************************************************)
LEMMA MoveKeeps ==
    ASSUME TxInv, NEW s \in Session, UNCHANGED <<tables, clock>>,
           NEW t, CallOK(t), tx' = [tx EXCEPT ![s] = t],
           \A o \in OrderId : orderLock'[o] # orderLock[o] =>
               orderLock[o] = NULL /\ orderLock'[o] = s,
           \A d \in DroneId : droneLock'[d] # droneLock[d] =>
               droneLock[d] = NULL /\ droneLock'[d] = s,
           OwnLocksOK(s)', CopiesOK(s)'
    PROVE  TxInv'
<1>1. tx'[s] = t /\ \A u \in Session \ {s} : tx'[u] = tx[u]
  BY DEF TxInv
<1>2. tx' \in [Session -> Tx]
  BY DEF TxInv, CallOK
<1>3. SessionOK(s)'
  BY <1>1 DEF SessionOK, CallOK
<1>4. StepOf(s)
  BY <1>1 DEF StepOf, tables
<1>5. P!IInv'
  BY PromiseKept DEF TxInv, P!vars, tables
<1>6. \A u \in Session \ {s} :
         tx'[s].op = "submit" =>
             ~(tx[u].op = "submit" /\ tx[u].order = tx'[s].order)
  BY <1>1 DEF CopiesOK
<1> QED BY <1>2, <1>3, <1>4, <1>5, <1>6, StepKeeps

(***************************************************************************)
(* A session that has no copy of a row has no lock.                        *)
(***************************************************************************)
LEMMA NoCopyNoLock ==
    ASSUME TxInv, NEW s \in Session
    PROVE  /\ \A o \in OrderId :
                 orderLock[o] = s => tx[s].ord # NULL /\ tx[s].order = o
           /\ \A d \in DroneId :
                 droneLock[d] = s => tx[s].drn # NULL /\ tx[s].drone = d
<1>1. s # NULL
  BY SessionAssumption
<1> QED BY <1>1 DEF TxInv, LocksOK, OrderLockOK, DroneLockOK

(***************************************************************************)
(* A call begins with the arguments its method takes.                      *)
(***************************************************************************)
LEMMA BeginKeeps ==
    ASSUME TxInv, NEW s \in Session, NEW op \in Op, NEW user \in Opt(UserId),
           NEW o \in Opt(OrderId), NEW d \in Opt(DroneId),
           NEW a \in Opt(Location), NEW b \in Opt(Location),
           Begin(s, op, user, o, d, a, b),
           op = "submit" =>
               /\ user \in UserId /\ o \in OrderId
               /\ a \in ValidLocation /\ b \in ValidLocation
               /\ orders[o] = NULL
               /\ \A u \in Session : ~(tx[u].op = "submit" /\ tx[u].order = o),
           op \in OrderOp => o \in OrderId,
           op = "withdraw" => user \in UserId,
           op \in {"pickup", "deliver", "fail"} \cup DroneOp => d \in DroneId,
           op = "heartbeat" => a \in ValidLocation
    PROVE  TxInv'
<1> DEFINE t == [NoTx EXCEPT !.op = op, !.pc = FirstStep(op), !.user = user,
                             !.order = o, !.drone = d, !.origin = a, !.dest = b]
<1>1. /\ t.op = op /\ t.pc = FirstStep(op) /\ t.user = user /\ t.order = o
      /\ t.drone = d /\ t.origin = a /\ t.dest = b
      /\ t.ord = NULL /\ t.drn = NULL /\ t.stamp = 0
  BY DEF NoTx
<1>2. FirstStep(op) \in Step
  BY DEF FirstStep, Step
<1>3. t \in Tx
  BY <1>2 DEF NoTx, Tx, Opt
<1>4. tx' = [tx EXCEPT ![s] = t] /\ tx[s].pc = "idle"
      /\ UNCHANGED <<tables, orderLock, droneLock, clock>>
  BY DEF Begin
<1> HIDE DEF t
<1>5. op # NULL /\ t.pc # "idle" /\ t.pc # "refused"
  BY <1>1, OpAssumption DEF FirstStep
<1>6. CallOK(t)
  <2>1. t.stamp <= clock
    BY <1>1, SessionAssumption DEF TxInv
  <2>2. CASE op = "submit"
    BY <1>1, <1>3, <1>5, <2>1, <2>2
       DEF CallOK, ForNewOrder, FirstStep, OrderOp, DroneOp
  <2>3. CASE op \in OrderOp
    <3>1. ForOrder(t)
      BY <1>1, <2>3 DEF ForOrder, FirstStep, OrderOp
    <3> QED BY <1>1, <1>3, <1>5, <2>1, <2>3, <3>1 DEF CallOK, OrderOp, DroneOp
  <2>4. CASE op \in DroneOp
    <3>1. ForDrone(t)
      BY <1>1, <2>4 DEF ForDrone, FirstStep, OrderOp, DroneOp
    <3> QED BY <1>1, <1>3, <1>5, <2>1, <2>4, <3>1 DEF CallOK, OrderOp, DroneOp
  <2> QED BY <2>2, <2>3, <2>4 DEF Op
<1>7. tx[s].ord = NULL /\ tx[s].drn = NULL /\ tx[s].op = NULL
  BY <1>4 DEF TxInv, SessionOK, CallOK
<1>8. tx'[s] = t /\ \A u \in Session \ {s} : tx'[u] = tx[u]
  BY <1>4 DEF TxInv
<1>9. OwnLocksOK(s)'
  BY <1>4, <1>7, NoCopyNoLock DEF OwnLocksOK, TxInv, LocksOK
<1>10. CopiesOK(s)'
  BY <1>1, <1>4, <1>8 DEF CopiesOK, tables
<1> QED BY <1>4, <1>6, <1>9, <1>10, MoveKeeps

(***************************************************************************)
(* The calls of clients keep the invariant.                                *)
(***************************************************************************)
LEMMA CallKeeps ==
    ASSUME TxInv, NEW s \in Session, Call(s)
    PROVE  TxInv'
<1>1. CASE CallSubmit(s)
  <2>1. PICK u \in UserId, o \in OrderId, a \in Location, b \in Location :
           /\ ValidateLocation(a) /\ ValidateLocation(b)
           /\ orders[o] = NULL
           /\ \A v \in Session : ~(tx[v].op = "submit" /\ tx[v].order = o)
           /\ Begin(s, "submit", u, o, NULL, a, b)
    BY <1>1 DEF CallSubmit
  <2> QED BY <2>1, BeginKeeps DEF ValidateLocation, Op, OrderOp, DroneOp, Opt
<1>2. CASE CallOrder(s)
  <2>1. PICK o \in OrderId :
           \/ \E u \in UserId : Begin(s, "withdraw", u, o, NULL, NULL, NULL)
           \/ \E a, b \in Opt(Location) : Begin(s, "update", NULL, o, NULL, a, b)
           \/ \E d \in DroneId, op \in {"pickup", "deliver", "fail"} :
                  Begin(s, op, NULL, o, d, NULL, NULL)
    BY <1>2 DEF CallOrder
  <2>2. CASE \E u \in UserId : Begin(s, "withdraw", u, o, NULL, NULL, NULL)
    BY <2>2, BeginKeeps DEF Op, OrderOp, DroneOp, Opt
  <2>3. CASE \E a, b \in Opt(Location) : Begin(s, "update", NULL, o, NULL, a, b)
    BY <2>3, BeginKeeps DEF Op, OrderOp, DroneOp, Opt
  <2>4. CASE \E d \in DroneId, op \in {"pickup", "deliver", "fail"} :
                Begin(s, op, NULL, o, d, NULL, NULL)
    BY <2>4, BeginKeeps DEF Op, OrderOp, DroneOp, Opt
  <2> QED BY <2>1, <2>2, <2>3, <2>4
<1>3. CASE CallDrone(s)
  <2>1. PICK d \in DroneId :
           \/ \E op \in {"reserve", "broken", "fixed"} :
                  Begin(s, op, NULL, NULL, d, NULL, NULL)
           \/ \E l \in Location :
                  /\ ValidateLocation(l)
                  /\ Begin(s, "heartbeat", NULL, NULL, d, l, NULL)
    BY <1>3 DEF CallDrone
  <2>2. CASE \E op \in {"reserve", "broken", "fixed"} :
                Begin(s, op, NULL, NULL, d, NULL, NULL)
    BY <2>2, BeginKeeps DEF Op, OrderOp, DroneOp, Opt
  <2>3. CASE \E l \in Location :
                /\ ValidateLocation(l)
                /\ Begin(s, "heartbeat", NULL, NULL, d, l, NULL)
    BY <2>3, BeginKeeps DEF ValidateLocation, Op, OrderOp, DroneOp, Opt
  <2> QED BY <2>1, <2>2, <2>3
<1> QED BY <1>1, <1>2, <1>3 DEF Call

(* s is refused with the copies of record r, the last of which it may have *)
(* locked in this step.                                                    *)
RefusedWith(s, r) ==
    /\ r \in Tx
    /\ r.op \in OrderOp \cup DroneOp
    /\ r.ord # NULL => /\ r.op \in OrderOp /\ r.order \in OrderId
                       /\ orderLock'[r.order] = s
                       /\ orders[r.order] = r.ord
    /\ r.drn # NULL => /\ r.op \in DroneOp /\ r.drone \in DroneId
                       /\ droneLock'[r.drone] = s
                       /\ \/ drones[r.drone] = r.drn
                          \/ drones[r.drone] = NULL /\ r.drn = NewDrone
    /\ tx' = [tx EXCEPT ![s] = Refusal(r)]
    /\ UNCHANGED <<tables, clock>>
    /\ orderLock' \in [OrderId -> Opt(Session)]
    /\ droneLock' \in [DroneId -> Opt(Session)]
    /\ \A o \in OrderId :
          /\ orderLock'[o] # orderLock[o] =>
                orderLock[o] = NULL /\ orderLock'[o] = s
          /\ orderLock'[o] = s => r.ord # NULL /\ r.order = o
    /\ \A d \in DroneId :
          /\ droneLock'[d] # droneLock[d] =>
                droneLock[d] = NULL /\ droneLock'[d] = s
          /\ droneLock'[d] = s => r.drn # NULL /\ r.drone = d

(***************************************************************************)
(* A call that is refused has its locks, for the copies it has.            *)
(***************************************************************************)
LEMMA RefusalKeeps ==
    ASSUME TxInv, NEW s \in Session, NEW r, RefusedWith(s, r)
    PROVE  TxInv'
<1> DEFINE t == Refusal(r)
<1>1. /\ t.op = r.op /\ t.pc = "refused" /\ t.ord = r.ord /\ t.drn = r.drn
      /\ t.stamp = 0
      /\ t.ord # NULL => t.order = r.order
      /\ t.drn # NULL => t.drone = r.drone
  BY DEF RefusedWith, Refusal, NoTx
<1>2. t \in Tx
  <2>1. /\ NoTx \in Tx /\ "refused" \in Step
        /\ (IF r.ord = NULL THEN NULL ELSE r.order) \in Opt(OrderId)
        /\ (IF r.drn = NULL THEN NULL ELSE r.drone) \in Opt(DroneId)
        /\ r.op \in Opt(Op) /\ r.ord \in Opt(OrderRow)
        /\ r.drn \in Opt(DroneRow)
    BY DEF RefusedWith, NoTx, Tx, Opt, Step
  <2> QED BY <2>1 DEF Refusal, Tx
<1>3. tx'[s] = t /\ tx' = [tx EXCEPT ![s] = t]
  BY DEF TxInv, RefusedWith
<1> HIDE DEF t
<1>4. CallOK(t)
  <2>1. t.stamp <= clock /\ t.op # NULL /\ t.op # "submit"
    BY <1>1, OpAssumption, SessionAssumption
       DEF RefusedWith, TxInv, Op, OrderOp, DroneOp
  <2>2. ForRefused(t)
    BY <1>1 DEF RefusedWith, ForRefused
  <2> QED BY <1>1, <1>2, <2>1, <2>2 DEF CallOK
<1>5. OwnLocksOK(s)'
  BY <1>1, <1>3 DEF RefusedWith, OwnLocksOK
<1>6. CopiesOK(s)'
  <2>1. t.op # "submit"
    BY <1>1 DEF RefusedWith, OrderOp, DroneOp
  <2> QED BY <1>1, <1>3, <2>1 DEF RefusedWith, CopiesOK, tables
<1> QED BY <1>3, <1>4, <1>5, <1>6, MoveKeeps DEF RefusedWith

(***************************************************************************)
(* GetOrderForUpdate takes the lock and a copy; an admissible call goes    *)
(* on.                                                                     *)
(***************************************************************************)
LEMMA LockOrderKeeps ==
    ASSUME TxInv, NEW s \in Session, LockOrder(s)
    PROVE  TxInv'
<1> DEFINE r == tx[s]
           o == r.order
           row == orders[o]
           drone == IF r.op = "withdraw" /\ HasDrone(row) THEN row.assigned
                    ELSE r.drone
           t == [r EXCEPT !.pc = AfterOrder(r, row), !.ord = row, !.drone = drone]
<1>1. /\ r.pc = "order" /\ row # NULL /\ orderLock[o] = NULL
      /\ orderLock' = [orderLock EXCEPT ![o] = s]
      /\ tx' = [tx EXCEPT ![s] = WithOrder(r, row)]
      /\ UNCHANGED <<tables, droneLock, clock>>
  BY DEF LockOrder
<1>2. r \in Tx /\ CallOK(r) /\ CopiesOK(s)
  BY DEF TxInv, SessionOK
<1>3. /\ r.op \in OrderOp \cup {"broken"} /\ o \in OrderId /\ r.ord = NULL
      /\ r.op \in OrderOp => ForOrder(r) /\ r.drn = NULL
      /\ r.op = "broken" => ForDrone(r) /\ r.drn # NULL /\ o = r.drn.current
  <2>1. r.op \in Op /\ r.op # "submit"
    BY <1>1, <1>2 DEF CallOK, ForNewOrder, Tx, Opt
  <2>2. CASE r.op \in OrderOp
    BY <1>1, <1>2, <2>2 DEF CallOK, ForOrder, OrderOp, DroneOp
  <2>3. CASE r.op \in DroneOp
    <3>1. ForDrone(r) /\ r.op = "broken" /\ r.order \in Opt(OrderId)
      BY <1>1, <1>2, <2>3 DEF CallOK, ForDrone, Tx
    <3> QED BY <1>1, <3>1 DEF ForDrone, DroneOp, OrderOp, Opt
  <2> QED BY <2>1, <2>2, <2>3 DEF Op
<1>4. row \in OrderRow
  BY <1>1, <1>3, TablesTyped DEF TxInv, Opt
<1>9. \A p \in OrderId : orderLock'[p] = IF p = o THEN s ELSE orderLock[p]
  BY <1>1 DEF TxInv, LocksOK
<1>13. /\ orderLock' \in [OrderId -> Opt(Session)]
       /\ droneLock' \in [DroneId -> Opt(Session)]
  BY <1>1 DEF TxInv, LocksOK, Opt
<1>14. CASE ~Admissible(r, row)
  <2> DEFINE q == [r EXCEPT !.ord = row]
  <2>1. r.op \in OrderOp
    BY <1>3, <1>14 DEF Admissible, OrderOp
  <2>2. /\ q.op = r.op /\ q.order = o /\ q.ord = row /\ q.drn = NULL
        /\ q \in Tx
    <3>1. row \in Opt(OrderRow)
      BY <1>4 DEF Opt
    <3> HIDE DEF row
    <3> QED BY <1>2, <1>3, <2>1, <3>1 DEF Tx
  <2>3. tx' = [tx EXCEPT ![s] = Refusal(q)]
    BY <1>1, <1>14 DEF WithOrder
  <2>4. \A p \in OrderId : orderLock'[p] = s => p = o
    BY <1>3, <1>9, NoCopyNoLock
  <2>5. \A d \in DroneId : droneLock'[d] # s
    BY <1>1, <1>3, <2>1, NoCopyNoLock
  <2>6. orderLock'[o] = s /\ row # NULL
    BY <1>1, <1>3, <1>9
  <2>7. UNCHANGED <<tables, clock>> /\ UNCHANGED droneLock
    BY <1>1
  <2>8. \A p \in OrderId : orderLock'[p] # orderLock[p] =>
           orderLock[p] = NULL /\ orderLock'[p] = s
    BY <1>1, <1>9
  <2> HIDE DEF q
  <2>9. RefusedWith(s, q)
    BY <1>3, <1>13, <2>1, <2>2, <2>3, <2>4, <2>5, <2>6, <2>7, <2>8
       DEF RefusedWith
  <2> QED BY <2>9, RefusalKeeps
<1> SUFFICES ASSUME Admissible(r, row) PROVE TxInv'
  BY <1>14
<1>15. tx' = [tx EXCEPT ![s] = t]
  BY <1>1 DEF WithOrder
<1>5. AfterOrder(r, row) \in {"drone", "now", "commit"} /\ drone \in Opt(DroneId)
  BY <1>2, <1>4 DEF AfterOrder, OrderRow, Tx
<1> HIDE DEF drone
<1>6. /\ t \in Tx
      /\ t.op = r.op /\ t.pc = AfterOrder(r, row) /\ t.user = r.user
      /\ t.order = o /\ t.drone = drone /\ t.origin = r.origin
      /\ t.dest = r.dest /\ t.ord = row /\ t.drn = r.drn /\ t.stamp = r.stamp
  <2>1. AfterOrder(r, row) \in Step /\ row \in Opt(OrderRow)
    BY <1>4, <1>5 DEF Step, Opt
  <2> HIDE DEF row
  <2> QED BY <1>2, <1>5, <2>1 DEF Tx
<1> HIDE DEF t
<1> USE DEF drone
<1>7. CallOK(t)
  <2>1. CASE r.op \in OrderOp
    <3>1. Admissible(t, row)
      BY <1>1, <1>6, <2>1
         DEF Admissible, MayWithdraw, MayUpdate, MayPickup, MayComplete,
             OrderOp
    <3>2. ForOrder(t)
      BY <1>1, <1>3, <1>5, <1>6, <2>1, <3>1
         DEF ForOrder, AfterOrder, HasDrone, OrderOp
    <3> QED BY <1>1, <1>2, <1>6, <1>5, <2>1, <3>2
            DEF CallOK, OrderOp, DroneOp
  <2>2. CASE r.op = "broken"
    <3>1. ForDrone(t)
      BY <1>1, <1>3, <1>6, <2>2 DEF ForDrone, AfterOrder
    <3> QED BY <1>1, <1>2, <1>6, <1>5, <2>2, <3>1
            DEF CallOK, OrderOp, DroneOp
  <2> QED BY <1>3, <2>1, <2>2
<1>8. tx'[s] = t
  BY <1>15 DEF TxInv
<1>10. t.drn # NULL => t.drone = r.drone
  BY <1>3, <1>6 DEF OrderOp
<1>11. OwnLocksOK(s)'
  <2>2. \A p \in OrderId : orderLock'[p] = s => t.ord # NULL /\ t.order = p
    BY <1>1, <1>3, <1>6, <1>9, NoCopyNoLock
  <2>3. \A d \in DroneId : droneLock'[d] = s => t.drn # NULL /\ t.drone = d
    BY <1>1, <1>6, <1>10, NoCopyNoLock
  <2> QED BY <1>8, <1>13, <2>2, <2>3 DEF OwnLocksOK
<1>12. CopiesOK(s)'
  BY <1>1, <1>2, <1>3, <1>6, <1>8, <1>9, <1>10 DEF CopiesOK, tables, OrderOp
<1> QED BY <1>1, <1>7, <1>9, <1>11, <1>12, <1>15, MoveKeeps

(***************************************************************************)
(* GetDroneForUpdate, or the INSERT of getOrCreateDrone, takes the lock    *)
(* and a copy.                                                             *)
(***************************************************************************)
LEMMA TakeDroneKeeps ==
    ASSUME TxInv, NEW s \in Session, NEW row \in DroneRow,
           tx[s].pc \in {"drone", "insert"},
           MayFly(tx[s], row),
           droneLock[tx[s].drone] = NULL,
           \/ drones[tx[s].drone] = row
           \/ /\ drones[tx[s].drone] = NULL
              /\ row = NewDrone
              /\ tx[s].pc = "insert",
           droneLock' = [droneLock EXCEPT ![tx[s].drone] = s],
           tx' = [tx EXCEPT ![s] = [tx[s] EXCEPT !.pc = AfterDrone(tx[s]),
                                                 !.drn = row]],
           UNCHANGED <<tables, orderLock, clock>>
    PROVE  TxInv'
<1> DEFINE r == tx[s]
           d == r.drone
           t == [r EXCEPT !.pc = AfterDrone(r), !.drn = row]
<1>1. row # NULL
  BY RowAssumption
<1>2. r \in Tx /\ CallOK(r) /\ CopiesOK(s)
  BY DEF TxInv, SessionOK
<1>3. /\ r.op \in {"withdraw", "deliver", "fail"} \cup DroneOp
      /\ d \in DroneId /\ r.drn = NULL
      /\ r.op \in OrderOp => ForOrder(r) /\ r.pc = "drone"
      /\ r.op \in DroneOp => ForDrone(r)
  <2>1. r.op \in Op /\ r.op # "submit"
    BY <1>2 DEF CallOK, ForNewOrder, Tx, Opt
  <2>2. CASE r.op \in OrderOp
    <3>1. ForOrder(r) /\ r.drone \in Opt(DroneId)
      BY <1>2, <2>2 DEF CallOK, Tx
    <3> QED BY <2>2, <3>1 DEF ForOrder, OrderOp, DroneOp, HasDrone, Opt
  <2>3. CASE r.op \in DroneOp
    BY <1>2, <2>3 DEF CallOK, ForDrone, DroneOp, OrderOp
  <2> QED BY <2>1, <2>2, <2>3 DEF Op
<1>4. /\ t \in Tx
      /\ t.op = r.op /\ t.pc = AfterDrone(r) /\ t.user = r.user
      /\ t.order = r.order /\ t.drone = d /\ t.origin = r.origin
      /\ t.dest = r.dest /\ t.ord = r.ord /\ t.drn = row /\ t.stamp = r.stamp
  <2>1. AfterDrone(r) \in Step
    BY DEF AfterDrone, Step
  <2> QED BY <1>2, <2>1 DEF Tx, Opt
<1>5. tx' = [tx EXCEPT ![s] = t]
  OBVIOUS
<1> HIDE DEF t
<1>6. CallOK(t)
  <2>1. CASE r.op \in OrderOp
    <3>1. r.op \in {"withdraw", "deliver", "fail"} /\ ForOrder(r) /\ r.pc = "drone"
      BY <1>3, <2>1 DEF OrderOp, DroneOp
    <3>2. Admissible(t, r.ord)
      BY <1>4, <3>1 DEF ForOrder, Admissible, MayWithdraw, MayUpdate,
                        MayPickup, MayComplete
    <3>3. ForOrder(t)
      BY <1>1, <1>4, <3>1, <3>2 DEF ForOrder, AfterDrone
    <3> QED BY <1>2, <1>4, <3>1, <3>3
            DEF CallOK, AfterDrone, OrderOp, DroneOp
  <2>2. CASE r.op \in DroneOp
    <3>1. MayFly(t, row)
      BY <1>4 DEF MayFly
    <3>2. ForDrone(t)
      BY <1>1, <1>3, <1>4, <2>2, <3>1 DEF ForDrone, AfterDrone, DroneOp
    <3> QED BY <1>2, <1>4, <2>2, <3>2 DEF CallOK, AfterDrone, OrderOp, DroneOp
  <2> QED BY <1>3, <2>1, <2>2 DEF OrderOp
<1>7. tx'[s] = t
  BY <1>5 DEF TxInv
<1>8. \A e \in DroneId : droneLock'[e] = IF e = d THEN s ELSE droneLock[e]
  BY DEF TxInv, LocksOK
<1>9. OwnLocksOK(s)'
  <2>1. /\ orderLock' \in [OrderId -> Opt(Session)]
        /\ droneLock' \in [DroneId -> Opt(Session)]
    BY DEF TxInv, LocksOK, Opt
  <2>2. \A o \in OrderId : orderLock'[o] = s => t.ord # NULL /\ t.order = o
    BY <1>4, NoCopyNoLock
  <2>3. \A e \in DroneId : droneLock'[e] = s => t.drn # NULL /\ t.drone = e
    BY <1>1, <1>3, <1>4, <1>8, NoCopyNoLock
  <2> QED BY <1>7, <2>1, <2>2, <2>3 DEF OwnLocksOK
<1>10. CopiesOK(s)'
  <2>1. t.op # "submit"
    BY <1>3, <1>4 DEF DroneOp
  <2>2. drones[d] = NULL => t.op \in DroneOp
    BY <1>1, <1>3, <1>4 DEF OrderOp
  <2>3. /\ t.ord # NULL => orderLock[t.order] = s /\ orders[t.order] = t.ord
        /\ droneLock'[d] = s
    BY <1>2, <1>3, <1>4, <1>8 DEF CopiesOK
  <2> QED BY <1>1, <1>4, <1>7, <2>1, <2>2, <2>3 DEF CopiesOK, tables
<1> QED BY <1>5, <1>6, <1>8, <1>9, <1>10, MoveKeeps

(***************************************************************************)
(* The two ways to a drone row.                                            *)
(***************************************************************************)
LEMMA LockDroneKeeps ==
    ASSUME TxInv, NEW s \in Session, LockDrone(s) \/ InsertDrone(s)
    PROVE  TxInv'
<1>1. CASE LockDrone(s)
  <2> DEFINE r == tx[s]
             d == r.drone
             row == drones[d]
  <2>1. r \in Tx /\ CallOK(r) /\ r.pc = "drone"
    BY <1>1 DEF TxInv, SessionOK, LockDrone
  <2>2. d \in DroneId /\ row \in DroneRow
    <3>1. r.op \in OrderOp \cup DroneOp /\ r.drone \in Opt(DroneId)
      BY <2>1 DEF CallOK, ForNewOrder, Tx, Opt, Op
    <3>2. r.drone \in DroneId
      BY <2>1, <3>1 DEF CallOK, ForOrder, ForDrone, OrderOp, HasDrone, Opt
    <3> QED BY <1>1, <3>2, TablesTyped DEF LockDrone, TxInv, Opt
  <2>3. /\ droneLock[d] = NULL
        /\ droneLock' = [droneLock EXCEPT ![d] = s]
        /\ tx' = [tx EXCEPT ![s] = WithDrone(r, row)]
        /\ UNCHANGED <<tables, orderLock, clock>>
    BY <1>1 DEF LockDrone
  <2>4. CASE MayFly(r, row)
    BY <2>1, <2>2, <2>3, <2>4, TakeDroneKeeps DEF WithDrone
  <2>5. CASE ~MayFly(r, row)
    <3> DEFINE q == [r EXCEPT !.drn = row]
    <3>1. r.op = "reserve" /\ r.ord = NULL /\ r.drn = NULL
      BY <2>1, <2>5 DEF MayFly, CallOK, ForDrone, DroneOp
    <3>2. /\ q.op = r.op /\ q.drone = d /\ q.ord = NULL /\ q.drn = row
          /\ q \in Tx
      <4>1. row \in Opt(DroneRow)
        BY <2>2 DEF Opt
      <4> HIDE DEF row
      <4> QED BY <2>1, <3>1, <4>1 DEF Tx
    <3>3. tx' = [tx EXCEPT ![s] = Refusal(q)]
      BY <2>3, <2>5 DEF WithDrone
    <3>4. \A e \in DroneId : droneLock'[e] = IF e = d THEN s ELSE droneLock[e]
      BY <2>3 DEF TxInv, LocksOK
    <3>5. /\ \A e \in DroneId : droneLock'[e] = s => e = d
          /\ \A o \in OrderId : orderLock'[o] # s
          /\ droneLock'[d] = s
      BY <2>2, <2>3, <3>1, <3>4, NoCopyNoLock
    <3>6. /\ orderLock' \in [OrderId -> Opt(Session)]
          /\ droneLock' \in [DroneId -> Opt(Session)]
      BY <2>3 DEF TxInv, LocksOK, Opt
    <3>7. q.op \in DroneOp /\ row # NULL
      BY <2>2, <3>1, <3>2, RowAssumption DEF DroneOp
    <3>8. UNCHANGED <<tables, clock>> /\ UNCHANGED orderLock
      BY <2>3
    <3>9. \A e \in DroneId : droneLock'[e] # droneLock[e] =>
             droneLock[e] = NULL /\ droneLock'[e] = s
      BY <2>3, <3>4
    <3> HIDE DEF q
    <3>10. RefusedWith(s, q)
      BY <2>2, <3>2, <3>3, <3>5, <3>6, <3>7, <3>8, <3>9 DEF RefusedWith
    <3> QED BY <3>10, RefusalKeeps
  <2> QED BY <2>4, <2>5
<1>2. CASE InsertDrone(s)
  <2>1. NewDrone \in DroneRow /\ MayFly(tx[s], NewDrone)
    BY DEF NewDrone, DroneRow, DroneStatus, MayFly, Opt
  <2> QED BY <1>2, <2>1, TakeDroneKeeps DEF InsertDrone, WithDrone
<1> QED BY <1>1, <1>2

(***************************************************************************)
(* A row that is not there and an empty queue refuse a call that has one   *)
(* row at most.                                                            *)
(***************************************************************************)
LEMMA RefuseKeeps ==
    ASSUME TxInv, NEW s \in Session, Refuse(s),
           \/ tx[s].pc = "order"
           \/ tx[s].pc = "drone" /\ tx[s].op \notin DroneOp
           \/ tx[s].pc = "reserve"
    PROVE  TxInv'
<1> DEFINE r == tx[s]
<1>1. r \in Tx /\ CallOK(r) /\ CopiesOK(s)
  BY DEF TxInv, SessionOK
<1>2. r.op \in OrderOp \cup DroneOp
  BY <1>1 DEF CallOK, ForNewOrder, Tx, Opt, Op
<1>3. r.ord # NULL => r.op \in OrderOp /\ r.order \in OrderId
  <2>1. CASE r.op \in OrderOp
    BY <1>1, <2>1, CopiesHaveIds
  <2>2. CASE r.op \in DroneOp
    BY <1>1, <2>2 DEF CallOK, ForDrone, DroneOp
  <2> QED BY <1>2, <2>1, <2>2
<1>4. r.drn # NULL => r.op \in DroneOp /\ r.drone \in DroneId
  <2>1. CASE r.op \in OrderOp
    BY <1>1, <2>1 DEF CallOK, ForOrder, OrderOp, DroneOp
  <2>2. CASE r.op \in DroneOp
    BY <1>1, <2>2, CopiesHaveIds
  <2> QED BY <1>2, <2>1, <2>2
<1>5. /\ tx' = [tx EXCEPT ![s] = Refusal(r)]
      /\ UNCHANGED <<tables, orderLock, droneLock, clock>>
  BY DEF Refuse, TxInv
<1>6. /\ r.ord # NULL => orderLock[r.order] = s /\ orders[r.order] = r.ord
      /\ r.drn # NULL =>
            /\ droneLock[r.drone] = s
            /\ \/ drones[r.drone] = r.drn
               \/ drones[r.drone] = NULL /\ r.drn = NewDrone
  BY <1>1 DEF CopiesOK
<1>7. /\ orderLock \in [OrderId -> Opt(Session)]
      /\ droneLock \in [DroneId -> Opt(Session)]
  BY DEF TxInv, LocksOK
<1> HIDE DEF r
<1>8. /\ \A o \in OrderId : orderLock[o] = s => r.ord # NULL /\ r.order = o
      /\ \A d \in DroneId : droneLock[d] = s => r.drn # NULL /\ r.drone = d
  BY NoCopyNoLock DEF r
<1>9. UNCHANGED <<tables, clock>> /\ UNCHANGED <<orderLock, droneLock>>
  BY <1>5
<1>10. RefusedWith(s, r)
  BY <1>1, <1>2, <1>3, <1>4, <1>5, <1>6, <1>7, <1>8, <1>9 DEF RefusedWith
<1> QED BY <1>10, RefusalKeeps

(***************************************************************************)
(* getOrCreateDrone finds no committed row and goes on to insert one.      *)
(***************************************************************************)
LEMMA MissKeeps ==
    ASSUME TxInv, NEW s \in Session, tx[s].pc = "drone", tx[s].op \in DroneOp,
           tx' = [tx EXCEPT ![s].pc = "insert"],
           UNCHANGED <<tables, orderLock, droneLock, clock>>
    PROVE  TxInv'
<1> DEFINE r == tx[s]
           t == [r EXCEPT !.pc = "insert"]
<1>1. r \in Tx /\ CallOK(r) /\ CopiesOK(s)
  BY DEF TxInv, SessionOK
<1>2. /\ t \in Tx
      /\ t.op = r.op /\ t.pc = "insert" /\ t.user = r.user /\ t.order = r.order
      /\ t.drone = r.drone /\ t.origin = r.origin /\ t.dest = r.dest
      /\ t.ord = r.ord /\ t.drn = r.drn /\ t.stamp = r.stamp
  BY <1>1 DEF Tx, Step
<1>3. tx' = [tx EXCEPT ![s] = t]
  OBVIOUS
<1> HIDE DEF t
<1>4. CallOK(t)
  <2>1. ForDrone(t)
    BY <1>1, <1>2 DEF CallOK, ForDrone, DroneOp, MayFly
  <2> QED BY <1>1, <1>2, <2>1 DEF CallOK, OrderOp, DroneOp
<1>5. tx'[s] = t
  BY <1>3 DEF TxInv
<1>6. OwnLocksOK(s)'
  BY <1>2, <1>5, NoCopyNoLock DEF OwnLocksOK, TxInv, LocksOK
<1>7. CopiesOK(s)'
  BY <1>1, <1>2, <1>5 DEF CopiesOK, tables, DroneOp
<1> QED BY <1>3, <1>4, <1>6, <1>7, MoveKeeps

(***************************************************************************)
(* ReserveNextOrder takes the lock of a waiting order and a copy.          *)
(***************************************************************************)
LEMMA ReserveNextKeeps ==
    ASSUME TxInv, NEW s \in Session, ReserveNextOrder(s)
    PROVE  TxInv'
<1> DEFINE r == tx[s]
<1>1. PICK o \in Candidates :
         /\ orderLock' = [orderLock EXCEPT ![o] = s]
         /\ tx' = [tx EXCEPT ![s] = [r EXCEPT !.pc = "now", !.order = o,
                                              !.ord = orders[o]]]
  BY DEF ReserveNextOrder
<1>2. r.pc = "reserve" /\ UNCHANGED <<tables, droneLock, clock>>
  BY DEF ReserveNextOrder
<1> DEFINE row == orders[o]
           t == [r EXCEPT !.pc = "now", !.order = o, !.ord = row]
<1>3. /\ o \in OrderId /\ row # NULL /\ row.status \in Reservable
      /\ row.assigned = NULL /\ orderLock[o] = NULL
  BY DEF Candidates
<1>4. row \in OrderRow
  BY <1>3, TablesTyped DEF TxInv, Opt
<1>5. r \in Tx /\ CallOK(r) /\ CopiesOK(s)
  BY DEF TxInv, SessionOK
<1>6. r.op = "reserve" /\ ForDrone(r) /\ r.ord = NULL
  <2>1. r.op \in Op
    BY <1>2, <1>5 DEF CallOK, Tx, Opt
  <2>2. r.op \in DroneOp
    BY <1>2, <1>5, <2>1 DEF CallOK, ForOrder, ForNewOrder, Op
  <2> QED BY <1>2, <1>5, <2>2 DEF CallOK, ForDrone
<1>7. tx' = [tx EXCEPT ![s] = t]
  BY <1>1
<1>8. /\ t \in Tx
      /\ t.op = r.op /\ t.pc = "now" /\ t.user = r.user /\ t.order = o
      /\ t.drone = r.drone /\ t.origin = r.origin /\ t.dest = r.dest
      /\ t.ord = row /\ t.drn = r.drn /\ t.stamp = r.stamp
  <2>1. row \in Opt(OrderRow) /\ o \in Opt(OrderId) /\ "now" \in Step
    BY <1>3, <1>4 DEF Opt, Step
  <2> HIDE DEF row
  <2> QED BY <1>5, <2>1 DEF Tx
<1> HIDE DEF t
<1>9. CallOK(t)
  <2>1. ForDrone(t)
    BY <1>2, <1>3, <1>6, <1>8 DEF ForDrone, MayFly
  <2> QED BY <1>2, <1>5, <1>6, <1>8, <2>1 DEF CallOK, OrderOp, DroneOp
<1>10. tx'[s] = t
  BY <1>7 DEF TxInv
<1>11. \A p \in OrderId : orderLock'[p] = IF p = o THEN s ELSE orderLock[p]
  BY <1>1 DEF TxInv, LocksOK
<1>12. OwnLocksOK(s)'
  <2>1. /\ orderLock' \in [OrderId -> Opt(Session)]
        /\ droneLock' \in [DroneId -> Opt(Session)]
    BY <1>1, <1>2 DEF TxInv, LocksOK, Opt
  <2>2. \A p \in OrderId : orderLock'[p] = s => t.ord # NULL /\ t.order = p
    BY <1>3, <1>6, <1>8, <1>11, NoCopyNoLock
  <2>3. \A d \in DroneId : droneLock'[d] = s => t.drn # NULL /\ t.drone = d
    BY <1>2, <1>8, NoCopyNoLock
  <2> QED BY <1>10, <2>1, <2>2, <2>3 DEF OwnLocksOK
<1>13. CopiesOK(s)'
  BY <1>2, <1>3, <1>5, <1>6, <1>8, <1>10, <1>11 DEF CopiesOK, tables
<1> QED BY <1>2, <1>3, <1>7, <1>9, <1>11, <1>12, <1>13, MoveKeeps

(***************************************************************************)
(* s.now() gives the call a stamp; a breakdown goes on to its drone's      *)
(* order.                                                                  *)
(***************************************************************************)
LEMMA NowKeeps ==
    ASSUME TxInv, NEW s \in Session, Now(s)
    PROVE  TxInv'
<1> DEFINE r == tx[s]
           o == IF r.op = "broken" THEN r.drn.current ELSE r.order
           t == [r EXCEPT !.pc = AfterNow(r), !.stamp = clock, !.order = o]
<1>1. /\ r.pc = "now"
      /\ tx' = [tx EXCEPT ![s] = t]
      /\ UNCHANGED <<tables, orderLock, droneLock, clock>>
  BY DEF Now, Stamped
<1>2. r \in Tx /\ CallOK(r) /\ CopiesOK(s) /\ r.op \in Op
  <2>1. r \in Tx /\ CallOK(r) /\ CopiesOK(s)
    BY DEF TxInv, SessionOK
  <2> QED BY <1>1, <2>1 DEF CallOK, Tx, Opt
<1>3. r.op = "broken" => r.drn \in DroneRow /\ r.ord = NULL
  BY <1>1, <1>2 DEF CallOK, ForDrone, DroneOp, Tx, Opt
<1>4. o \in Opt(OrderId)
  BY <1>2, <1>3 DEF DroneRow, Tx
<1>5. AfterNow(r) \in Step /\ AfterNow(r) \in {"drone", "order", "commit"}
  BY DEF AfterNow, Step
<1>6. clock \in Nat
  BY SessionAssumption DEF TxInv
<1> HIDE DEF o
<1>7. /\ t \in Tx
      /\ t.op = r.op /\ t.pc = AfterNow(r) /\ t.user = r.user /\ t.order = o
      /\ t.drone = r.drone /\ t.origin = r.origin /\ t.dest = r.dest
      /\ t.ord = r.ord /\ t.drn = r.drn /\ t.stamp = clock
  BY <1>2, <1>4, <1>5, <1>6 DEF Tx
<1> HIDE DEF t
<1>8. CallOK(t)
  <2>1. CASE r.op = "submit"
    BY <1>1, <1>2, <1>6, <1>7, <2>1, OpAssumption
       DEF CallOK, ForNewOrder, AfterNow, OrderOp, DroneOp, o, Op
  <2>2. CASE r.op \in OrderOp
    <3>1. Admissible(t, r.ord)
      BY <1>1, <1>2, <1>7, <2>2
         DEF CallOK, ForOrder, Admissible, MayWithdraw, MayUpdate, MayPickup,
             MayComplete
    <3>2. ForOrder(t)
      BY <1>1, <1>2, <1>7, <2>2, <3>1
         DEF CallOK, ForOrder, AfterNow, OrderOp, o
    <3> QED BY <1>2, <1>5, <1>6, <1>7, <2>2, <3>2, OpAssumption
            DEF CallOK, OrderOp, DroneOp, Op
  <2>3. CASE r.op \in DroneOp
    <3>1. ForDrone(t)
      BY <1>1, <1>2, <1>3, <1>7, <2>3
         DEF CallOK, ForDrone, AfterNow, DroneOp, MayFly, o
    <3> QED BY <1>2, <1>5, <1>6, <1>7, <2>3, <3>1, OpAssumption
            DEF CallOK, OrderOp, DroneOp, Op
  <2> QED BY <1>2, <2>1, <2>2, <2>3 DEF Op
<1>9. tx'[s] = t
  BY <1>1 DEF TxInv
<1>10. t.ord # NULL \/ t.op = "submit" => t.order = r.order
  BY <1>3, <1>7 DEF o
<1>11. OwnLocksOK(s)'
  BY <1>1, <1>7, <1>9, <1>10, NoCopyNoLock DEF OwnLocksOK, TxInv, LocksOK
<1>12. CopiesOK(s)'
  BY <1>1, <1>2, <1>7, <1>9, <1>10 DEF CopiesOK, tables, TxInv
<1> QED BY <1>1, <1>8, <1>11, <1>12, MoveKeeps

-------------------------------------------------------------------------------
(* The end of a transaction *)

(***************************************************************************)
(* The end of a transaction keeps the invariant, if it has written only    *)
(* rows it had locked or created and the tables keep theirs.               *)
(***************************************************************************)
LEMMA ReleaseKeeps ==
    ASSUME TxInv, NEW s \in Session, Release(s), [P!Next]_(P!vars),
           \A o \in OrderId :
               orders'[o] # orders[o] =>
                   \/ orderLock[o] = s
                   \/ tx[s].op = "submit" /\ tx[s].order = o,
           \A d \in DroneId : drones'[d] # drones[d] => droneLock[d] = s
    PROVE  TxInv'
<1>1. tx' = [tx EXCEPT ![s] = NoTx] /\ clock' = clock
  BY DEF Release
<1>2. tx'[s] = NoTx /\ \A u \in Session \ {s} : tx'[u] = tx[u]
  BY <1>1 DEF TxInv
<1>3. NoTx \in Tx
  BY DEF NoTx, Tx, Opt, Step
<1>4. tx' \in [Session -> Tx]
  BY <1>1, <1>3 DEF TxInv
<1>5. s # NULL
  BY SessionAssumption
<1>6. SessionOK(s)'
  <2>1. /\ NoTx.op = NULL /\ NoTx.pc = "idle" /\ NoTx.ord = NULL
        /\ NoTx.drn = NULL /\ NoTx.stamp = 0
    BY DEF NoTx
  <2>2. NoTx.op \notin Op /\ clock' \in Nat
    BY <1>1, <2>1, OpAssumption, SessionAssumption DEF TxInv
  <2> QED BY <1>2, <1>3, <2>1, <2>2
          DEF SessionOK, CallOK, CopiesOK, Op, OrderOp, DroneOp
<1>7. /\ \A o \in OrderId : orderLock'[o] = IF orderLock[o] = s THEN NULL
                                            ELSE orderLock[o]
      /\ \A d \in DroneId : droneLock'[d] = IF droneLock[d] = s THEN NULL
                                            ELSE droneLock[d]
  BY DEF Release
<1>8. OwnLocksOK(s)'
  <2>1. /\ orderLock' \in [OrderId -> Opt(Session)]
        /\ droneLock' \in [DroneId -> Opt(Session)]
    BY DEF Release, TxInv, LocksOK, Opt
  <2> QED BY <1>5, <1>7, <2>1 DEF OwnLocksOK
<1>9. StepOf(s)
  BY <1>1, <1>2, <1>7 DEF StepOf
<1>10. P!IInv'
  BY PromiseKept DEF TxInv
<1>11. tx'[s].op # "submit"
  BY <1>2, OpAssumption DEF NoTx, Op
<1> QED BY <1>4, <1>6, <1>8, <1>9, <1>10, <1>11, StepKeeps

(***************************************************************************)
(* A rollback keeps the invariant: errors, failures and deadlock victims.  *)
(***************************************************************************)
LEMMA RollbackKeeps ==
    ASSUME TxInv, NEW s \in Session, Rollback(s)
    PROVE  TxInv'
BY ReleaseKeeps DEF Rollback, tables, P!vars

(***************************************************************************)
(* Every statement keeps the invariant.                                    *)
(***************************************************************************)
LEMMA StatementKeeps ==
    ASSUME TxInv, NEW s \in Session, Statement(s)
    PROVE  TxInv'
<1>1. CASE LockOrder(s)
  BY <1>1, LockOrderKeeps
<1>2. CASE LockDrone(s) \/ InsertDrone(s)
  BY <1>2, LockDroneKeeps
<1>3. CASE MissDrone(s)
  <2>1. CASE tx[s].op \in DroneOp
    BY <1>3, <2>1, MissKeeps DEF MissDrone
  <2>2. CASE tx[s].op \notin DroneOp
    BY <1>3, <2>2, RefuseKeeps DEF MissDrone
  <2> QED BY <2>1, <2>2
<1>4. CASE ReserveNextOrder(s)
  BY <1>4, ReserveNextKeeps
<1>5. CASE Now(s)
  BY <1>5, NowKeeps
<1>6. CASE MissOrder(s) \/ NoJob(s)
  BY <1>6, RefuseKeeps DEF MissOrder, NoJob
<1>7. CASE DuplicateDrone(s) \/ Refused(s)
  BY <1>7, RollbackKeeps DEF DuplicateDrone, Refused
<1> QED BY <1>1, <1>2, <1>3, <1>4, <1>5, <1>6, <1>7 DEF Statement

-------------------------------------------------------------------------------
(* Commits: each is the method of Delivery *)

(***************************************************************************)
(* What Domain's operations do to a row is the same in all instances.      *)
(***************************************************************************)
LEMMA SameOperations ==
    ASSUME NEW row, NEW x, NEW y, NEW z, NEW v
    PROVE  /\ P!NewOrder(x, y, z, v) = NewOrder(x, y, z, v)
           /\ P!Withdrawn(row) = Withdrawn(row)
           /\ P!Readdressed(row, x, y) = Readdressed(row, x, y)
           /\ P!Reserved(row, x, y) = Reserved(row, x, y)
           /\ P!PickedUp(row, x) = PickedUp(row, x)
           /\ P!Completed(row, x, y) = Completed(row, x, y)
           /\ P!AfterBreakdown(row, x) = AfterBreakdown(row, x)
           /\ P!BreakdownEventType(row) = BreakdownEventType(row)
           /\ P!Tasked(row, x) = Tasked(row, x)
           /\ P!Freed(row) = Freed(row)
           /\ P!Broken(row) = Broken(row)
           /\ P!Fixed(row) = Fixed(row)
           /\ P!Located(row, x) = Located(row, x)
BY DEF NewOrder, Withdrawn, Readdressed, Reserved, PickedUp, Completed,
       AfterBreakdown, HandedOff, Requeued, BreakdownEventType, Tasked, Freed,
       Broken, Fixed, Located,
       P!NewOrder, P!Withdrawn, P!Readdressed, P!Reserved, P!PickedUp,
       P!Completed, P!AfterBreakdown, P!HandedOff, P!Requeued,
       P!BreakdownEventType, P!Tasked, P!Freed, P!Broken, P!Fixed, P!Located

(***************************************************************************)
(* So are the writes of rows and events.                                   *)
(***************************************************************************)
LEMMA SameWrites ==
    ASSUME NEW i, NEW row, NEW type, NEW now
    PROVE  /\ Abs!PutOrder(i, row, type, now) => P!PutOrder(i, row, type, now)
           /\ Abs!PutDrone(i, row) => P!PutDrone(i, row)
           /\ Abs!PutDroneEvent(i, type, row, now)
                  => P!PutDroneEvent(i, type, row, now)
BY DEF Abs!PutOrder, Abs!PutDrone, Abs!PutDroneEvent, Abs!NewOrderEvent,
       Abs!NewDroneEvent, P!PutOrder, P!PutDrone, P!PutDroneEvent,
       P!NewOrderEvent, P!NewDroneEvent

(***************************************************************************)
(* The stamp of a call is an instant of Delivery, and so is the clock.     *)
(***************************************************************************)
LEMMA StampsAreTimes ==
    ASSUME TxInv, NEW s \in Session
    PROVE  tx[s].stamp \in 0 .. MaxClock /\ clock \in 0 .. MaxClock
<1>1. CallOK(tx[s]) /\ clock \in 0 .. MaxClock
  BY DEF TxInv, SessionOK
<1>2. tx[s].stamp \in Nat /\ tx[s].stamp <= clock
  BY <1>1 DEF CallOK, Tx
<1> QED BY <1>1, <1>2, SessionAssumption

(***************************************************************************)
(* The write of one order changes no other order.                          *)
(***************************************************************************)
LEMMA WritesOneOrder ==
    ASSUME TxInv, NEW i, NEW row, NEW type, NEW now,
           Abs!PutOrder(i, row, type, now)
    PROVE  \A o \in OrderId : o # i => orders'[o] = orders[o]
<1>1. orders \in [OrderId -> Opt(OrderRow)]
  BY TablesTyped DEF TxInv
<1> QED BY <1>1 DEF Abs!PutOrder

(***************************************************************************)
(* The write of one drone changes no other drone.                          *)
(***************************************************************************)
LEMMA WritesOneDrone ==
    ASSUME TxInv, NEW i, NEW row, Abs!PutDrone(i, row)
    PROVE  \A d \in DroneId : d # i => drones'[d] = drones[d]
<1>1. drones \in [DroneId -> Opt(DroneRow)]
  BY TablesTyped DEF TxInv
<1> QED BY <1>1 DEF Abs!PutDrone

(***************************************************************************)
(* SubmitOrder: nobody has created the id in the meantime.                 *)
(***************************************************************************)
LEMMA CommitSubmitKeeps ==
    ASSUME TxInv, NEW s \in Session, CommitSubmit(s)
    PROVE  TxInv' /\ P!Next
<1> DEFINE t == tx[s]
<1>1. /\ t.op = "submit" /\ Release(s) /\ UNCHANGED <<drones, droneEvents>>
      /\ Abs!PutOrder(t.order, NewOrder(t.user, t.origin, t.dest, t.stamp),
                      "order.created", t.stamp)
  BY DEF CommitSubmit, Committing
<1>2. /\ t.user \in UserId /\ t.order \in OrderId /\ orders[t.order] = NULL
      /\ t.origin \in ValidLocation /\ t.dest \in ValidLocation
  BY <1>1 DEF TxInv, SessionOK, CallOK, ForNewOrder, CopiesOK
<1>3. t.stamp \in 0 .. MaxClock
  BY StampsAreTimes
<1> HIDE DEF t
<1>4. P!SubmitOrder(t.user, t.order, t.origin, t.dest, t.stamp)
  BY <1>1, <1>2, SameOperations, SameWrites
     DEF P!SubmitOrder, P!ValidateLocation
<1>5. P!Next
  BY <1>2, <1>3, <1>4, DomainAssumption DEF P!Next, P!OrderNext
<1>6. \A o \in OrderId : o # t.order => orders'[o] = orders[o]
  BY <1>1, WritesOneOrder, WritesOneDrone
<1> QED BY <1>1, <1>5, <1>6, ReleaseKeeps DEF t

(***************************************************************************)
(* WithdrawOrder: the order and its drone are as they were read.           *)
(***************************************************************************)
LEMMA CommitWithdrawKeeps ==
    ASSUME TxInv, NEW s \in Session, CommitWithdraw(s)
    PROVE  TxInv' /\ P!Next
<1> DEFINE t == tx[s]
<1>1. /\ t.op = "withdraw" /\ t.pc = "commit" /\ Release(s)
      /\ UNCHANGED droneEvents
      /\ Abs!PutOrder(t.order, Withdrawn(t.ord), "order.withdrawn", t.stamp)
      /\ IF HasDrone(t.ord) THEN Abs!PutDrone(t.drone, Freed(t.drn))
         ELSE UNCHANGED drones
  BY DEF CommitWithdraw, Committing
<1>2. CallOK(t) /\ ForOrder(t) /\ CopiesOK(s)
  BY <1>1 DEF TxInv, SessionOK, CallOK, OrderOp
<1>3. /\ t.order \in OrderId /\ t.user \in UserId
      /\ t.ord # NULL /\ orders[t.order] = t.ord /\ orderLock[t.order] = s
      /\ t.ord.user = t.user /\ t.ord.status \in {"CREATED", "RESERVED"}
  BY <1>1, <1>2 DEF ForOrder, CopiesOK, Admissible, MayWithdraw
<1>4. HasDrone(t.ord) =>
         /\ t.drn # NULL /\ t.drone = t.ord.assigned
         /\ drones[t.drone] = t.drn /\ droneLock[t.drone] = s
  BY <1>1, <1>2 DEF ForOrder, CopiesOK, DroneOp
<1>5. t.stamp \in 0 .. MaxClock
  BY StampsAreTimes
<1> HIDE DEF t
<1>6. P!WithdrawOrder(t.user, t.order, t.stamp)
  BY <1>1, <1>3, <1>4, SameOperations, SameWrites
     DEF P!WithdrawOrder, HasDrone
<1>7. P!Next
  BY <1>3, <1>5, <1>6 DEF P!Next, P!OrderNext
<1>8. /\ \A o \in OrderId : o # t.order => orders'[o] = orders[o]
      /\ \A d \in DroneId : drones'[d] # drones[d] => droneLock[d] = s
  BY <1>1, <1>4, WritesOneOrder, WritesOneDrone
<1> QED BY <1>1, <1>3, <1>7, <1>8, ReleaseKeeps

(***************************************************************************)
(* AdminUpdateOrder: the order is as it was read.                          *)
(***************************************************************************)
LEMMA CommitUpdateKeeps ==
    ASSUME TxInv, NEW s \in Session, CommitUpdate(s)
    PROVE  TxInv' /\ P!Next
<1> DEFINE t == tx[s]
<1>1. /\ t.op = "update" /\ t.pc = "commit" /\ Release(s)
      /\ UNCHANGED <<drones, droneEvents>>
      /\ Abs!PutOrder(t.order, Readdressed(t.ord, t.origin, t.dest),
                      "order.updated", t.stamp)
  BY DEF CommitUpdate, Committing
<1>2. CallOK(t) /\ ForOrder(t) /\ CopiesOK(s)
  BY <1>1 DEF TxInv, SessionOK, CallOK, OrderOp
<1>3. /\ t.order \in OrderId /\ t.ord # NULL
      /\ orders[t.order] = t.ord /\ orderLock[t.order] = s
      /\ MayUpdate(t, t.ord)
      /\ t.origin \in Opt(Location) /\ t.dest \in Opt(Location)
  BY <1>1, <1>2 DEF CallOK, Tx, ForOrder, CopiesOK, Admissible
<1>4. t.stamp \in 0 .. MaxClock
  BY StampsAreTimes
<1> HIDE DEF t
<1>5. P!AdminUpdateOrder(t.order, t.origin, t.dest, t.stamp)
  BY <1>1, <1>3, SameOperations, SameWrites
     DEF P!AdminUpdateOrder, MayUpdate, IsTerminal, P!IsTerminal,
         ValidateLocation, P!ValidateLocation
<1>6. P!Next
  BY <1>3, <1>4, <1>5 DEF P!Next, P!OrderNext, P!Opt, Opt
<1>7. \A o \in OrderId : o # t.order => orders'[o] = orders[o]
  BY <1>1, WritesOneOrder, WritesOneDrone
<1> QED BY <1>1, <1>3, <1>6, <1>7, ReleaseKeeps

(***************************************************************************)
(* A copy of a drone is what getOrCreateDrone returns on the committed     *)
(* tables.                                                                 *)
(***************************************************************************)
LEMMA CopyIsDrone ==
    ASSUME TxInv, NEW s \in Session, tx[s].drn # NULL
    PROVE  /\ tx[s].drn = P!GetOrCreateDrone(tx[s].drone)
           /\ tx[s].drn.current # NULL => drones[tx[s].drone] = tx[s].drn
           /\ droneLock[tx[s].drone] = s
           /\ tx[s].drone \in DroneId
<1>1. CallOK(tx[s]) /\ CopiesOK(s)
  BY DEF TxInv, SessionOK
<1>2. NewDrone = P!NewDrone /\ NewDrone.current = NULL
  BY DEF NewDrone, P!NewDrone
<1> QED BY <1>1, <1>2, CopiesHaveIds DEF CopiesOK, P!GetOrCreateDrone

(***************************************************************************)
(* DroneReserveJob: the order still waits and the drone is still free.     *)
(***************************************************************************)
LEMMA CommitReserveKeeps ==
    ASSUME TxInv, NEW s \in Session, CommitReserve(s)
    PROVE  TxInv' /\ P!Next
<1> DEFINE t == tx[s]
<1>1. /\ t.op = "reserve" /\ t.pc = "commit" /\ Release(s)
      /\ UNCHANGED droneEvents
      /\ Abs!PutOrder(t.order, Reserved(t.ord, t.drone, t.stamp),
                      "order.reserved", t.stamp)
      /\ Abs!PutDrone(t.drone, Tasked(t.drn, t.order))
  BY DEF CommitReserve, Committing
<1>2. CallOK(t) /\ ForDrone(t) /\ CopiesOK(s)
  BY <1>1 DEF TxInv, SessionOK, CallOK, DroneOp
<1>3. /\ t.order \in OrderId /\ t.ord # NULL
      /\ orders[t.order] = t.ord /\ orderLock[t.order] = s
      /\ t.ord.status \in Reservable /\ t.ord.assigned = NULL
      /\ t.drn # NULL /\ t.drn.status # "BROKEN" /\ t.drn.current = NULL
  BY <1>1, <1>2 DEF ForDrone, CopiesOK, MayFly
<1>4. /\ t.drn = P!GetOrCreateDrone(t.drone) /\ droneLock[t.drone] = s
      /\ t.drone \in DroneId
  BY <1>3, CopyIsDrone
<1>5. t.stamp \in 0 .. MaxClock
  BY StampsAreTimes
<1> HIDE DEF t
<1>6. P!DroneReserveJob(t.drone, t.order, t.stamp)
  BY <1>1, <1>3, <1>4, SameOperations, SameWrites
     DEF P!DroneReserveJob, Reservable, P!Reservable
<1>7. P!Next
  BY <1>3, <1>4, <1>5, <1>6 DEF P!Next, P!JobNext
<1>8. /\ \A o \in OrderId : o # t.order => orders'[o] = orders[o]
      /\ \A d \in DroneId : d # t.drone => drones'[d] = drones[d]
  BY <1>1, WritesOneOrder, WritesOneDrone
<1> QED BY <1>1, <1>3, <1>4, <1>7, <1>8, ReleaseKeeps

(***************************************************************************)
(* DronePickup: the order is still the drone's.                            *)
(***************************************************************************)
LEMMA CommitPickupKeeps ==
    ASSUME TxInv, NEW s \in Session, CommitPickup(s)
    PROVE  TxInv' /\ P!Next
<1> DEFINE t == tx[s]
<1>1. /\ t.op = "pickup" /\ t.pc = "commit" /\ Release(s)
      /\ UNCHANGED <<drones, droneEvents>>
      /\ Abs!PutOrder(t.order, PickedUp(t.ord, t.stamp), "order.picked_up", clock)
  BY DEF CommitPickup, Committing
<1>2. CallOK(t) /\ ForOrder(t) /\ CopiesOK(s)
  BY <1>1 DEF TxInv, SessionOK, CallOK, OrderOp
<1>3. /\ t.order \in OrderId /\ t.ord # NULL /\ t.drone \in DroneId
      /\ orders[t.order] = t.ord /\ orderLock[t.order] = s
      /\ MayPickup(t, t.ord)
  BY <1>1, <1>2 DEF ForOrder, CopiesOK, Admissible
<1>4. t.stamp \in 0 .. MaxClock /\ clock \in 0 .. MaxClock
  BY StampsAreTimes
<1> HIDE DEF t
<1>5. P!DronePickup(t.drone, t.order, t.stamp, clock)
  BY <1>1, <1>3, SameOperations, SameWrites DEF P!DronePickup, MayPickup
<1>6. P!Next
  BY <1>3, <1>4, <1>5 DEF P!Next, P!JobNext
<1>7. \A o \in OrderId : o # t.order => orders'[o] = orders[o]
  BY <1>1, WritesOneOrder, WritesOneDrone
<1> QED BY <1>1, <1>3, <1>6, <1>7, ReleaseKeeps

(***************************************************************************)
(* DroneDeliver and DroneFail: order and drone are as they were read.      *)
(***************************************************************************)
LEMMA CommitCompleteKeeps ==
    ASSUME TxInv, NEW s \in Session, CommitDeliver(s) \/ CommitFail(s)
    PROVE  TxInv' /\ P!Next
<1> DEFINE t == tx[s]
<1>1. PICK st \in {"DELIVERED", "FAILED"} :
         /\ t.op \in {"deliver", "fail"} /\ t.pc = "commit" /\ Release(s)
         /\ UNCHANGED droneEvents
         /\ Abs!PutOrder(t.order, Completed(t.ord, st, t.stamp),
                         IF st = "FAILED" THEN "order.failed"
                         ELSE "order.delivered", t.stamp)
         /\ Abs!PutDrone(t.drone, Freed(t.drn))
  BY DEF CommitDeliver, CommitFail, CommitComplete, Committing
<1>2. CallOK(t) /\ ForOrder(t) /\ CopiesOK(s)
  BY <1>1 DEF TxInv, SessionOK, CallOK, OrderOp
<1>3. /\ t.order \in OrderId /\ t.ord # NULL
      /\ orders[t.order] = t.ord /\ orderLock[t.order] = s
      /\ t.drone \in DroneId /\ t.drn # NULL
      /\ drones[t.drone] = t.drn /\ droneLock[t.drone] = s
      /\ MayComplete(t, t.ord)
  BY <1>1, <1>2 DEF ForOrder, CopiesOK, Admissible, DroneOp
<1>4. t.stamp \in 0 .. MaxClock
  BY StampsAreTimes
<1> HIDE DEF t
<1>5. P!CompleteOrderForDrone(t.drone, t.order, st, t.stamp)
  BY <1>1, <1>3, SameOperations, SameWrites
     DEF P!CompleteOrderForDrone, MayComplete
<1>6. P!Next
  BY <1>1, <1>3, <1>4, <1>5 DEF P!Next, P!JobNext
<1>7. /\ \A o \in OrderId : o # t.order => orders'[o] = orders[o]
      /\ \A d \in DroneId : d # t.drone => drones'[d] = drones[d]
  BY <1>1, WritesOneOrder, WritesOneDrone
<1> QED BY <1>1, <1>3, <1>6, <1>7, ReleaseKeeps

(***************************************************************************)
(* DroneMarkBroken: the drone is as it was read, and so is its order.      *)
(***************************************************************************)
LEMMA CommitBrokenKeeps ==
    ASSUME TxInv, NEW s \in Session, CommitBroken(s)
    PROVE  TxInv' /\ P!Next
<1> DEFINE t == tx[s]
           o == t.drn.current
<1>1. /\ t.op = "broken" /\ t.pc = "commit" /\ Release(s)
      /\ IF o # NULL /\ t.ord.status \in Underway
         THEN Abs!PutOrder(o, AfterBreakdown(t.ord, t.drn.location),
                           BreakdownEventType(t.ord), t.stamp)
         ELSE UNCHANGED <<orders, orderEvents>>
      /\ Abs!PutDrone(t.drone, Broken(t.drn))
      /\ Abs!PutDroneEvent(t.drone, "drone.broken", Broken(t.drn), t.stamp)
  BY DEF CommitBroken, Committing
<1>2. CallOK(t) /\ ForDrone(t) /\ CopiesOK(s)
  BY <1>1 DEF TxInv, SessionOK, CallOK, DroneOp
<1>3. t.drn # NULL
  BY <1>1, <1>2 DEF ForDrone
<1>4. /\ t.drn = P!GetOrCreateDrone(t.drone) /\ droneLock[t.drone] = s
      /\ t.drone \in DroneId
  BY <1>3, CopyIsDrone
<1>5. o # NULL => t.ord # NULL /\ orders[o] = t.ord /\ orderLock[o] = s
  BY <1>1, <1>2 DEF ForDrone, CopiesOK
<1>6. t.stamp \in 0 .. MaxClock
  BY StampsAreTimes
<1> HIDE DEF t
<1>7. P!DroneMarkBroken(t.drone, t.stamp)
  BY <1>1, <1>4, <1>5, SameOperations, SameWrites
     DEF P!DroneMarkBroken, Underway, P!Underway
<1>8. P!Next
  BY <1>4, <1>6, <1>7 DEF P!Next, P!DroneNext
<1>9. /\ \A p \in OrderId : orders'[p] # orders[p] => orderLock[p] = s
      /\ \A d \in DroneId : d # t.drone => drones'[d] = drones[d]
  BY <1>1, <1>5, WritesOneOrder, WritesOneDrone
<1> QED BY <1>1, <1>4, <1>8, <1>9, ReleaseKeeps

(***************************************************************************)
(* DroneMarkFixed and DroneHeartbeat: the drone is as it was read.         *)
(***************************************************************************)
LEMMA CommitDroneKeeps ==
    ASSUME TxInv, NEW s \in Session, CommitFixed(s) \/ CommitHeartbeat(s)
    PROVE  TxInv' /\ P!Next
<1> DEFINE t == tx[s]
<1>1. /\ t.op \in {"fixed", "heartbeat"} /\ t.pc = "commit" /\ Release(s)
      /\ UNCHANGED <<orders, orderEvents>>
  BY DEF CommitFixed, CommitHeartbeat, Committing
<1>2. CallOK(t) /\ ForDrone(t) /\ CopiesOK(s)
  BY <1>1 DEF TxInv, SessionOK, CallOK, DroneOp
<1>3. t.drn # NULL
  BY <1>1, <1>2 DEF ForDrone
<1>4. /\ t.drn = P!GetOrCreateDrone(t.drone) /\ droneLock[t.drone] = s
      /\ t.drone \in DroneId
  BY <1>3, CopyIsDrone
<1>5. t.stamp \in 0 .. MaxClock
  BY StampsAreTimes
<1>6. CASE CommitFixed(s)
  <2>1. /\ Abs!PutDrone(t.drone, Fixed(t.drn))
        /\ Abs!PutDroneEvent(t.drone, "drone.fixed", Fixed(t.drn), t.stamp)
    BY <1>6 DEF CommitFixed
  <2> HIDE DEF t
  <2>2. P!DroneMarkFixed(t.drone, t.stamp)
    BY <1>1, <1>4, <2>1, SameOperations, SameWrites DEF P!DroneMarkFixed
  <2>3. P!Next
    BY <1>4, <1>5, <2>2 DEF P!Next, P!DroneNext
  <2>4. \A d \in DroneId : d # t.drone => drones'[d] = drones[d]
    BY <2>1, WritesOneOrder, WritesOneDrone
  <2> QED BY <1>1, <1>4, <2>3, <2>4, ReleaseKeeps
<1>7. CASE CommitHeartbeat(s)
  <2>1. /\ Abs!PutDrone(t.drone, Located(t.drn, t.origin))
        /\ UNCHANGED droneEvents
        /\ t.origin \in ValidLocation
    BY <1>2, <1>7 DEF CommitHeartbeat, Committing, ForDrone
  <2> HIDE DEF t
  <2>2. P!DroneHeartbeat(t.drone, t.origin)
    BY <1>1, <1>4, <2>1, SameOperations, SameWrites
       DEF P!DroneHeartbeat, P!ValidateLocation
  <2>3. P!Next
    BY <1>4, <1>5, <2>1, <2>2, DomainAssumption DEF P!Next, P!DroneNext
  <2>4. \A d \in DroneId : d # t.drone => drones'[d] = drones[d]
    BY <2>1, WritesOneOrder, WritesOneDrone
  <2> QED BY <1>1, <1>4, <2>3, <2>4, ReleaseKeeps
<1> QED BY <1>6, <1>7

(***************************************************************************)
(* Every commit keeps the invariant and is a step of Delivery.             *)
(***************************************************************************)
LEMMA CommitKeeps ==
    ASSUME TxInv, NEW s \in Session, Commit(s)
    PROVE  TxInv' /\ P!Next
BY CommitSubmitKeeps, CommitWithdrawKeeps, CommitUpdateKeeps,
   CommitReserveKeeps, CommitPickupKeeps, CommitCompleteKeeps,
   CommitBrokenKeeps, CommitDroneKeeps DEF Commit
-------------------------------------------------------------------------------
(* The invariant holds *)

(***************************************************************************)
(* The tables are empty and nobody has called.                             *)
(***************************************************************************)
LEMMA TxInitOK == Init => TxInv
<1> SUFFICES ASSUME Init PROVE TxInv
  OBVIOUS
<1>1. P!Init
  BY DEF Init, Abs!Init, P!Init
<1>2. P!IInv
  BY <1>1, P!InitOK, SessionAssumption, DomainAssumption, RowAssumption, SameRows
<1>3. LocksOK
  BY DEF Init, LocksOK, OrderLockOK, DroneLockOK, Opt
<1>4. clock = 0 /\ clock \in 0 .. MaxClock
  BY SessionAssumption DEF Init
<1>5. NoTx \in Tx
  BY DEF NoTx, Tx, Step, Opt
<1>6. ASSUME NEW s \in Session PROVE SessionOK(s)
  <2>1. tx[s] = NoTx
    BY DEF Init
  <2>2. /\ NoTx.op = NULL /\ NoTx.pc = "idle" /\ NoTx.ord = NULL
        /\ NoTx.drn = NULL /\ NoTx.stamp = 0
    BY DEF NoTx
  <2>3. NoTx.op \notin Op
    BY <2>2, OpAssumption
  <2> QED BY <1>4, <1>5, <2>1, <2>2, <2>3
          DEF SessionOK, CallOK, CopiesOK, Op
<1>7. tx \in [Session -> Tx]
  BY <1>5 DEF Init
<1> QED BY <1>2, <1>3, <1>4, <1>6, <1>7 DEF TxInv

(***************************************************************************)
(* Time alone changes nothing.                                             *)
(***************************************************************************)
LEMMA TimePassesKeeps ==
    ASSUME TxInv, UNCHANGED <<tables, orderLock, droneLock, tx>>,
           clock' \in clock .. MaxClock
    PROVE  TxInv'
<1>1. P!IInv'
  BY PromiseKept DEF TxInv, P!vars, tables
<1>2. clock' \in 0 .. MaxClock /\ clock <= clock'
  BY SessionAssumption DEF TxInv
<1>3. ASSUME NEW s \in Session PROVE SessionOK(s)'
  <2>1. SessionOK(s)
    BY DEF TxInv
  <2>2. CallOK(tx[s])'
    BY <1>2, <2>1, SessionAssumption DEF TxInv, SessionOK, CallOK, Tx
  <2> QED BY <2>1, <2>2 DEF SessionOK, CopiesOK, tables
<1> QED BY <1>1, <1>2, <1>3 DEF TxInv, LocksOK, OrderLockOK, DroneLockOK

(***************************************************************************)
(* Every step keeps the invariant, and commits are steps of Delivery.      *)
(***************************************************************************)
LEMMA TxNextOK ==
    ASSUME TxInv, [Next]_vars
    PROVE  TxInv' /\ [P!Next]_(P!vars)
<1>1. CASE UNCHANGED vars
  <2>1. clock' \in clock .. MaxClock
    BY <1>1, SessionAssumption DEF vars, TxInv
  <2> QED BY <1>1, <2>1, TimePassesKeeps DEF vars, tables, P!vars
<1>2. CASE Tick
  <2>1. clock' \in clock .. MaxClock
    BY <1>2, SessionAssumption DEF Tick, TxInv
  <2> QED BY <1>2, <2>1, TimePassesKeeps DEF Tick, tables, P!vars
<1>3. ASSUME NEW s \in Session, Call(s) PROVE TxInv' /\ UNCHANGED tables
  BY <1>3, CallKeeps DEF Call, CallSubmit, CallOrder, CallDrone, Begin
<1>4. ASSUME NEW s \in Session, Statement(s) PROVE TxInv' /\ UNCHANGED tables
  BY <1>4, StatementKeeps DEF Statement, LockOrder, MissOrder, LockDrone,
     MissDrone, InsertDrone, DuplicateDrone, ReserveNextOrder, NoJob, Now,
     Refuse, Refused, Rollback
<1>5. ASSUME NEW s \in Session, Abort(s) \/ DeadlockAbort(s)
      PROVE  TxInv' /\ UNCHANGED tables
  BY <1>5, RollbackKeeps DEF Abort, DeadlockAbort, Rollback
<1> QED BY <1>1, <1>2, <1>3, <1>4, <1>5, CommitKeeps DEF Next, tables, P!vars

(***************************************************************************)
(* The invariant of the transactions: copies are locked and fresh, every   *)
(* lock has a copy, and each call knows what its statements have shown it. *)
(***************************************************************************)
THEOREM TransactionsKeepInvariant == Spec => []TxInv
<1>1. Init => TxInv
  BY TxInitOK
<1>2. TxInv /\ [Next]_vars => TxInv'
  BY TxNextOK
<1> QED BY <1>1, <1>2, PTL DEF Spec

(***************************************************************************)
(* Type correctness of tables, locks, requests and clock.                  *)
(***************************************************************************)
THEOREM TxTypeCorrect == Spec => []TypeOK
<1>1. TxInv => TypeOK
  BY TablesTyped DEF TxInv, LocksOK, TypeOK
<1> QED BY <1>1, TransactionsKeepInvariant, PTL

(***************************************************************************)
(* Between the lock and the end of its transaction, a session decides on   *)
(* rows that are still the committed ones.                                 *)
(***************************************************************************)
THEOREM LocksProtectCopies == Spec => []LockedCopiesAreFresh
<1>1. TxInv => LockedCopiesAreFresh
  BY DEF TxInv, SessionOK, CopiesOK, LockedCopiesAreFresh
<1> QED BY <1>1, TransactionsKeepInvariant, PTL

-------------------------------------------------------------------------------
(* Serializability *)

(***************************************************************************)
(* Delivery as its results are proved is the promise of DeliveryTx.        *)
(***************************************************************************)
LEMMA SamePromise == [P!Next]_(P!vars) => [Abs!Next]_(Abs!vars)
<1> USE DEF P!PutOrder, P!PutDrone, P!PutDroneEvent, P!GetOrCreateDrone,
            P!NewOrderEvent, P!NewDroneEvent, P!NewDrone, P!ValidateLocation,
            Abs!PutOrder, Abs!PutDrone, Abs!PutDroneEvent, Abs!GetOrCreateDrone,
            Abs!NewOrderEvent, Abs!NewDroneEvent, Abs!NewDrone,
            Abs!ValidateLocation
<1>1. ASSUME NEW o, NEW now, P!OrderNext(o, now) PROVE Abs!OrderNext(o, now)
  <2>1. CASE \E u \in UserId, a, b \in Location : P!SubmitOrder(u, o, a, b, now)
    BY <2>1 DEF Abs!OrderNext, P!SubmitOrder, P!NewOrder,
                Abs!SubmitOrder, Abs!NewOrder
  <2>2. CASE \E u \in UserId : P!WithdrawOrder(u, o, now)
    BY <2>2 DEF Abs!OrderNext, P!WithdrawOrder, P!Withdrawn, P!Freed,
                Abs!WithdrawOrder, Abs!Withdrawn, Abs!Freed
  <2>3. CASE \E a, b \in P!Opt(Location) : P!AdminUpdateOrder(o, a, b, now)
    BY <2>3 DEF Abs!OrderNext, P!AdminUpdateOrder, P!Readdressed, P!IsTerminal,
                P!Opt, Abs!AdminUpdateOrder, Abs!Readdressed, Abs!IsTerminal,
                Abs!Opt
  <2> QED BY <1>1, <2>1, <2>2, <2>3 DEF P!OrderNext
<1>2. ASSUME NEW d, NEW o, NEW now, P!JobNext(d, o, now)
      PROVE  Abs!JobNext(d, o, now)
  <2>1. CASE P!DroneReserveJob(d, o, now)
    BY <2>1 DEF Abs!JobNext, P!DroneReserveJob, P!Reserved, P!Tasked,
                P!Reservable, Abs!DroneReserveJob, Abs!Reserved, Abs!Tasked,
                Abs!Reservable
  <2>2. CASE \E sent \in 0 .. MaxClock : P!DronePickup(d, o, now, sent)
    BY <2>2 DEF Abs!JobNext, P!DronePickup, P!PickedUp, Abs!DronePickup,
                Abs!PickedUp
  <2>3. ASSUME NEW st, P!CompleteOrderForDrone(d, o, st, now)
        PROVE  Abs!CompleteOrderForDrone(d, o, st, now)
    BY <2>3 DEF P!CompleteOrderForDrone, P!Completed, P!Freed,
                Abs!CompleteOrderForDrone, Abs!Completed, Abs!Freed
  <2> QED BY <1>2, <2>1, <2>2, <2>3 DEF P!JobNext, Abs!JobNext
<1>3. ASSUME NEW d, NEW now, P!DroneNext(d, now) PROVE Abs!DroneNext(d, now)
  <2>1. CASE P!DroneMarkBroken(d, now)
    BY <2>1 DEF Abs!DroneNext, P!DroneMarkBroken, P!Broken, P!AfterBreakdown,
                P!HandedOff, P!Requeued, P!BreakdownEventType, P!Underway,
                Abs!DroneMarkBroken, Abs!Broken, Abs!AfterBreakdown,
                Abs!HandedOff, Abs!Requeued, Abs!BreakdownEventType,
                Abs!Underway
  <2>2. CASE P!DroneMarkFixed(d, now)
    BY <2>2 DEF Abs!DroneNext, P!DroneMarkFixed, P!Fixed, Abs!DroneMarkFixed,
                Abs!Fixed
  <2>3. CASE \E l \in Location : P!DroneHeartbeat(d, l)
    BY <2>3 DEF Abs!DroneNext, P!DroneHeartbeat, P!Located, Abs!DroneHeartbeat,
                Abs!Located
  <2> QED BY <1>3, <2>1, <2>2, <2>3 DEF P!DroneNext
<1> QED BY <1>1, <1>2, <1>3 DEF P!Next, Abs!Next, P!vars, Abs!vars

(***************************************************************************)
(* DeliveryTx implements Delivery: whatever the interleaving of the        *)
(* statements of the sessions, each commit is an atomic call of one method *)
(* of the service and nothing else changes the tables.                     *)
(***************************************************************************)
THEOREM TransactionsSerializable == Spec => Serializable
<1>1. Init => Abs!Init
  BY DEF Init
<1>2. TxInv /\ [Next]_vars => [Abs!Next]_(Abs!vars)
  BY TxNextOK, SamePromise
<1> QED BY <1>1, <1>2, TransactionsKeepInvariant, PTL DEF Spec, Serializable, Abs!Spec

(***************************************************************************)
(* What is proved of Delivery holds of the tables that concurrent          *)
(* transactions leave behind: the two tables agree on who works on what,   *)
(* exactly the orders under way have a drone, no broken drone has an       *)
(* order, and the outbox and the timestamps tell the truth.                *)
(***************************************************************************)
THEOREM CommittedTablesCorrect ==
    Spec => [](/\ P!AssignmentAgrees
               /\ P!AssignedExactlyWhileUnderway
               /\ P!BrokenDronesCarryNothing
               /\ P!OutboxMirrorsTables
               /\ P!TimestampsMatchStatus)
<1>1. TxInv => /\ P!AssignmentAgrees
               /\ P!AssignedExactlyWhileUnderway
               /\ P!BrokenDronesCarryNothing
               /\ P!OutboxMirrorsTables
               /\ P!TimestampsMatchStatus
  BY DEF TxInv, P!IInv, P!OrdersOK, P!DronesOK, P!OutboxMirrorsTables
<1> QED BY <1>1, TransactionsKeepInvariant, PTL

-------------------------------------------------------------------------------
(* Lock order *)

(* A call that has its order and wants the order's drone. *)
WantsDrone(t) ==
    /\ t.op \in {"withdraw", "deliver", "fail"}
    /\ t.pc = "drone"
    /\ t.order \in OrderId /\ t.drone \in DroneId
    /\ t.ord # NULL /\ t.drn = NULL
    /\ t.ord.status \in Underway
    /\ t.ord.assigned = t.drone

(* A breakdown that has its drone and wants the drone's order. *)
WantsOrder(t) ==
    /\ t.op = "broken"
    /\ t.pc = "order"
    /\ t.order \in OrderId /\ t.drone \in DroneId
    /\ t.drn # NULL /\ t.ord = NULL
    /\ t.drn.current = t.order

(***************************************************************************)
(* A call that waits with a row in its hands is one of the two.            *)
(***************************************************************************)
LEMMA WaitingWithARow ==
    ASSUME NEW t, CallOK(t), t.pc \in {"order", "drone", "insert"},
           t.ord # NULL \/ t.drn # NULL
    PROVE  WantsDrone(t) \/ WantsOrder(t)
<1>1. /\ t.ord # NULL => t.order \in OrderId /\ t.ord \in OrderRow
      /\ t.drn # NULL => t.drone \in DroneId /\ t.drn \in DroneRow
      /\ t.op \in Opt(Op)
  BY CopiesHaveIds
<1>2. t.op # NULL /\ t.op # "submit"
  BY DEF CallOK, ForNewOrder
<1>3. CASE t.op \in OrderOp
  <2>1. ForOrder(t)
    BY <1>3 DEF CallOK
  <2>2. /\ t.op \in {"withdraw", "deliver", "fail"} /\ t.pc = "drone"
        /\ t.order \in OrderId /\ t.ord # NULL /\ t.drn = NULL
        /\ Admissible(t, t.ord)
    BY <1>3, <2>1 DEF ForOrder, OrderOp
  <2>3. CASE t.op = "withdraw"
    BY <1>1, <2>1, <2>2, <2>3
       DEF ForOrder, HasDrone, WantsDrone, Underway, OrderRow, Opt
  <2>4. CASE t.op \in {"deliver", "fail"}
    BY <2>1, <2>2, <2>4
       DEF ForOrder, Admissible, MayComplete, WantsDrone, Underway
  <2> QED BY <2>2, <2>3, <2>4
<1>4. CASE t.op \in DroneOp
  <2>1. ForDrone(t)
    BY <1>4 DEF CallOK
  <2>2. t.op = "broken" /\ t.pc = "order" /\ t.drn # NULL /\ t.ord = NULL
    BY <1>4, <2>1 DEF ForDrone, DroneOp
  <2>3. t.order = t.drn.current /\ t.drn.current # NULL
    BY <2>1, <2>2 DEF ForDrone
  <2> QED BY <1>1, <2>2, <2>3 DEF WantsOrder, DroneRow, Opt
<1> QED BY <1>1, <1>2, <1>3, <1>4 DEF Op, Opt

(***************************************************************************)
(* A waiting call has named the row it waits for.                          *)
(***************************************************************************)
LEMMA WaitersNameTheRow ==
    ASSUME NEW t, CallOK(t)
    PROVE  /\ t.pc = "order" => t.order \in OrderId
           /\ t.pc \in {"drone", "insert"} => t.drone \in DroneId
<1>1. t \in Tx
  BY DEF CallOK
<1>2. CASE t.pc = "order"
  <2>1. t.op \in OrderOp \/ t.op \in DroneOp
    BY <1>1, <1>2 DEF CallOK, Tx, ForNewOrder, Op, Opt
  <2>2. CASE t.op \in OrderOp
    BY <1>2, <2>2 DEF CallOK, ForOrder
  <2>3. CASE t.op \in DroneOp
    <3>1. t.op = "broken" /\ t.order # NULL
      BY <1>2, <2>3 DEF CallOK, ForDrone
    <3> QED BY <1>1, <1>2, <3>1 DEF Tx, Opt
  <2> QED BY <1>2, <2>1, <2>2, <2>3
<1>3. CASE t.pc \in {"drone", "insert"}
  <2>1. t.op \in OrderOp \/ t.op \in DroneOp
    BY <1>1, <1>3 DEF CallOK, Tx, ForNewOrder, Op, Opt
  <2>2. CASE t.op \in OrderOp
    <3>1. ForOrder(t) /\ t.pc = "drone" /\ t.ord # NULL
      BY <1>3, <2>2 DEF CallOK, ForOrder
    <3>2. t.op = "withdraw" => HasDrone(t.ord) /\ t.drone = t.ord.assigned
      BY <3>1 DEF ForOrder
    <3> QED BY <1>1, <1>3, <2>2, <3>1, <3>2
            DEF ForOrder, HasDrone, OrderOp, Tx, Opt
  <2>3. CASE t.op \in DroneOp
    BY <1>3, <2>3 DEF CallOK, ForDrone
  <2> QED BY <1>3, <2>1, <2>2, <2>3
<1> QED BY <1>2, <1>3

(***************************************************************************)
(* Whoever is waited for has the row.                                      *)
(***************************************************************************)
LEMMA AwaitedHasTheRow ==
    ASSUME TxInv, NEW t \in Session, NEW u \in Session, WaitsFor(t, u)
    PROVE  \/ /\ tx[t].pc = "order" /\ tx[u].ord # NULL
              /\ tx[u].order = tx[t].order
           \/ /\ tx[t].pc \in {"drone", "insert"} /\ tx[u].drn # NULL
              /\ tx[u].drone = tx[t].drone
<1>1. CallOK(tx[t]) /\ u # NULL
  BY SessionAssumption DEF TxInv, SessionOK
<1> QED BY <1>1, WaitersNameTheRow
        DEF WaitsFor, TxInv, LocksOK, OrderLockOK, DroneLockOK

(***************************************************************************)
(* The lock-order argument: of two calls that both have a row and want     *)
(* another, one of which waits for the other, one is an order's call that  *)
(* wants the drone and the other a breakdown that wants the order.  The    *)
(* two tables agree on who works on what, so each wants what the other     *)
(* has.                                                                    *)
(***************************************************************************)
LEMMA WaitsAreReturned ==
    ASSUME TxInv, NEW s \in Session, NEW u \in Session, WaitsFor(s, u),
           WantsDrone(tx[s]) \/ WantsOrder(tx[s]),
           WantsDrone(tx[u]) \/ WantsOrder(tx[u])
    PROVE  /\ WaitsFor(u, s)
           /\ tx[u].order = tx[s].order
           /\ \/ WantsDrone(tx[s]) /\ WantsOrder(tx[u])
              \/ WantsOrder(tx[s]) /\ WantsDrone(tx[u])
<1>1. SessionOK(s) /\ SessionOK(u)
  BY DEF TxInv
<1>2. NewDrone.current = NULL
  BY DEF NewDrone
<1>3. CASE WantsDrone(tx[s])
  <2>1. tx[u].drn # NULL /\ tx[u].drone = tx[s].drone
    BY <1>3, AwaitedHasTheRow DEF WantsDrone
  <2>2. WantsOrder(tx[u])
    BY <2>1 DEF WantsDrone
  <2>3. orders[tx[s].order] = tx[s].ord /\ orderLock[tx[s].order] = s
    BY <1>1, <1>3 DEF SessionOK, CopiesOK, WantsDrone
  <2>4. drones[tx[s].drone] # NULL /\ drones[tx[s].drone].current = tx[s].order
    BY <1>3, <2>3 DEF TxInv, P!IInv, P!AssignmentAgrees, P!Underway,
                      Underway, WantsDrone
  <2>5. drones[tx[u].drone] = tx[u].drn
    BY <1>1, <2>1, <2>4 DEF SessionOK, CopiesOK
  <2>6. tx[u].order = tx[s].order
    BY <2>1, <2>2, <2>4, <2>5 DEF WantsOrder
  <2>7. WaitsFor(u, s)
    BY <1>3, <2>2, <2>3, <2>6 DEF WaitsFor, WantsOrder, WantsDrone
  <2> QED BY <1>3, <2>2, <2>6, <2>7
<1>4. CASE WantsOrder(tx[s])
  <2>1. tx[u].ord # NULL /\ tx[u].order = tx[s].order
    BY <1>4, AwaitedHasTheRow DEF WantsOrder
  <2>2. WantsDrone(tx[u])
    BY <2>1 DEF WantsOrder
  <2>3. orders[tx[u].order] = tx[u].ord
    BY <1>1, <2>1 DEF SessionOK, CopiesOK
  <2>4. tx[s].drn.current # NULL
    BY <1>4, DomainAssumption DEF WantsOrder
  <2>5. drones[tx[s].drone] = tx[s].drn /\ droneLock[tx[s].drone] = s
    BY <1>1, <1>2, <1>4, <2>4 DEF SessionOK, CopiesOK, WantsOrder
  <2>6. tx[u].drone = tx[s].drone
    BY <1>4, <2>1, <2>2, <2>3, <2>5
       DEF TxInv, P!IInv, P!AssignmentAgrees, WantsOrder, WantsDrone
  <2>7. WaitsFor(u, s)
    BY <1>4, <2>2, <2>5, <2>6 DEF WaitsFor, WantsOrder, WantsDrone
  <2> QED BY <1>4, <2>1, <2>2, <2>7
<1> QED BY <1>3, <1>4

(***************************************************************************)
(* A call that waits and is waited for has a row and wants another.        *)
(***************************************************************************)
LEMMA WaitingAndAwaited ==
    ASSUME TxInv, NEW s \in Session, NEW t \in Session, NEW u \in Session,
           WaitsFor(s, t), WaitsFor(t, u)
    PROVE  WantsDrone(tx[t]) \/ WantsOrder(tx[t])
<1>1. CallOK(tx[t])
  BY DEF TxInv, SessionOK
<1>2. tx[t].pc \in {"order", "drone", "insert"}
  BY DEF WaitsFor
<1>3. tx[t].ord # NULL \/ tx[t].drn # NULL
  BY AwaitedHasTheRow
<1> QED BY <1>1, <1>2, <1>3, WaitingWithARow

(***************************************************************************)
(* Every deadlock is a breakdown against the withdrawal, delivery or       *)
(* failure of the order of the same drone: everyone on a cycle waits and   *)
(* is waited for.                                                          *)
(***************************************************************************)
THEOREM DeadlocksClassified == Spec => []DeadlocksAreBreakdownRaces
<1>1. TxInv => DeadlocksAreBreakdownRaces
  <2> SUFFICES ASSUME TxInv, NEW s \in Session, NEW C \in SUBSET Session,
                      s \in C,
                      \A t \in C : \E u \in C : WaitsFor(t, u),
                      \A u \in C : \E t \in C : WaitsFor(t, u)
               PROVE  \E b, c \in Session :
                         /\ s \in {b, c}
                         /\ WaitsFor(b, c) /\ WaitsFor(c, b)
                         /\ tx[b].op = "broken"
                         /\ tx[c].op \in {"withdraw", "deliver", "fail"}
                         /\ tx[c].order = tx[b].drn.current
    BY DEF DeadlocksAreBreakdownRaces, OnCycle
  <2>1. ASSUME NEW t \in C PROVE WantsDrone(tx[t]) \/ WantsOrder(tx[t])
    BY WaitingAndAwaited
  <2>2. PICK u \in C : WaitsFor(s, u)
    OBVIOUS
  <2>3. /\ WaitsFor(u, s)
        /\ tx[u].order = tx[s].order
        /\ \/ WantsDrone(tx[s]) /\ WantsOrder(tx[u])
           \/ WantsOrder(tx[s]) /\ WantsDrone(tx[u])
    BY <2>1, <2>2, WaitsAreReturned
  <2> QED BY <2>2, <2>3 DEF WantsOrder, WantsDrone
<1> QED BY <1>1, TransactionsKeepInvariant, PTL

(***************************************************************************)
(* No queue of waits is longer than two, but for a deadlock at its end: if *)
(* s waits for t, t for u and u for somebody, then u waits for t, and      *)
(* Postgres ends one of the two.                                           *)
(***************************************************************************)
WaitsAreShort ==
    \A s, t, u, v \in Session :
        WaitsFor(s, t) /\ WaitsFor(t, u) /\ WaitsFor(u, v)
            => v = t /\ OnCycle(t)

(***************************************************************************)
(* However many calls run at once, a call waits for one that can go on, or *)
(* for one that waits for one that can, or for one of two that deadlock:   *)
(* hot rows make queues, never chains from row to row.                     *)
(***************************************************************************)
THEOREM WaitChainsAreShort == Spec => []WaitsAreShort
<1>1. TxInv => WaitsAreShort
  <2> SUFFICES ASSUME TxInv, NEW s \in Session, NEW t \in Session,
                      NEW u \in Session, NEW v \in Session,
                      WaitsFor(s, t), WaitsFor(t, u), WaitsFor(u, v)
               PROVE  v = t /\ OnCycle(t)
    BY DEF WaitsAreShort
  <2>1. WantsDrone(tx[t]) \/ WantsOrder(tx[t])
    BY WaitingAndAwaited
  <2>2. WantsDrone(tx[u]) \/ WantsOrder(tx[u])
    BY WaitingAndAwaited
  <2>3. WaitsFor(u, t)
    BY <2>1, <2>2, WaitsAreReturned
  <2>4. v = t
    BY <2>3 DEF WaitsFor
  <2>5. OnCycle(t)
    <3>1. {t, u} \in SUBSET Session
      OBVIOUS
    <3> QED BY <2>3, <3>1 DEF OnCycle
  <2> QED BY <2>4, <2>5
<1> QED BY <1>1, TransactionsKeepInvariant, PTL

(***************************************************************************)
(* SKIP LOCKED hides a waiting order only while it is being withdrawn,     *)
(* updated or reserved, or while a pickup, a delivery or a failure report  *)
(* that was refused has not rolled back: every other call that has an      *)
(* order's lock has found the order under way.                             *)
(***************************************************************************)
THEOREM NoJobExplained == Spec => []NoJobHasACause
<1>1. TxInv => NoJobHasACause
  <2> SUFFICES ASSUME TxInv, NEW s \in Session, NEW o \in OrderId,
                      tx[s].pc = "reserve", Candidates = {},
                      orders[o] # NULL, orders[o].status \in Reservable
               PROVE  \E t \in Session \ {s} :
                         /\ orderLock[o] = t
                         /\ \/ tx[t].op \in {"withdraw", "update", "reserve"}
                            \/ /\ tx[t].op \in {"pickup", "deliver", "fail"}
                               /\ tx[t].pc = "refused"
    BY DEF NoJobHasACause
  <2> DEFINE t == orderLock[o]
  <2>1. orders[o].assigned = NULL /\ orders[o].status \notin Underway
    BY DEF TxInv, P!IInv, P!OrdersOK, P!AssignedExactlyWhileUnderway,
           Reservable, Underway
  <2>2. t # NULL
    BY <2>1 DEF Candidates
  <2>3. t \in Session /\ tx[t].ord # NULL /\ tx[t].order = o
    BY <2>2 DEF TxInv, LocksOK, OrderLockOK
  <2> HIDE DEF t
  <2>4. CallOK(tx[s]) /\ CallOK(tx[t]) /\ CopiesOK(t)
    BY <2>3 DEF TxInv, SessionOK
  <2>5. tx[s].ord = NULL
    <3>1. tx[s].op \in DroneOp
      BY <2>4 DEF CallOK, Tx, Opt, Op, ForNewOrder, ForOrder
    <3> QED BY <2>4, <3>1 DEF CallOK, ForDrone
  <2>6. tx[t].ord = orders[o]
    BY <2>3, <2>4 DEF CopiesOK
  <2>9. CASE tx[t].pc = "refused"
    <3>1. tx[t].op \in OrderOp
      BY <2>3, <2>4, <2>9 DEF CallOK, ForRefused
    <3> QED BY <2>3, <2>5, <2>9, <3>1 DEF OrderOp, t
  <2>7. CASE tx[t].op \in OrderOp /\ tx[t].pc # "refused"
    <3>1. Admissible(tx[t], orders[o]) /\ ForOrder(tx[t])
      BY <2>3, <2>4, <2>6, <2>7 DEF CallOK, ForOrder
    <3>2. tx[t].op \notin {"pickup", "deliver", "fail"}
      BY <2>1, <3>1, DomainAssumption
         DEF Admissible, MayPickup, MayComplete, ForOrder
    <3> QED BY <2>3, <2>5, <2>7, <3>2 DEF OrderOp, t
  <2>8. CASE tx[t].op \in DroneOp /\ tx[t].pc # "refused"
    <3>1. ForDrone(tx[t])
      BY <2>4, <2>8 DEF CallOK
    <3>2. tx[t].op # "broken"
      <4> SUFFICES ASSUME tx[t].op = "broken" PROVE FALSE
        OBVIOUS
      <4>1. /\ tx[t].drn # NULL /\ tx[t].drn.current = o
            /\ tx[t].drone \in DroneId
        BY <2>3, <3>1 DEF ForDrone
      <4>2. drones[tx[t].drone] = tx[t].drn
        BY <2>3, <4>1, CopyIsDrone, DomainAssumption
      <4> QED BY <2>1, <4>1, <4>2
              DEF TxInv, P!IInv, P!AssignmentAgrees, P!Underway, Underway
    <3> QED BY <2>3, <2>5, <2>8, <3>1, <3>2 DEF ForDrone, DroneOp, t
  <2> QED BY <2>3, <2>4, <2>7, <2>8, <2>9 DEF CallOK, Tx, Opt, Op, ForNewOrder
<1> QED BY <1>1, TransactionsKeepInvariant, PTL

-------------------------------------------------------------------------------
(* How long a call can be *)

(***************************************************************************)
(* What a call has left to do: an upper bound on its statements to come,   *)
(* the commit or rollback included.  deliver and fail read the clock before they lock  *)
(* the drone, a breakdown before it locks the order.                       *)
(***************************************************************************)
Left(t) ==
    IF t.pc = "idle" THEN 0
    ELSE IF t.pc \in {"commit", "refused"} THEN 1
    ELSE IF t.op \in {"deliver", "fail"}
         THEN IF t.pc = "order" THEN 4 ELSE IF t.pc = "now" THEN 3 ELSE 2
    ELSE IF t.op = "broken"
         THEN IF t.pc = "drone" THEN 5 ELSE IF t.pc = "insert" THEN 4
              ELSE IF t.pc = "now" THEN 3 ELSE 2
    ELSE IF t.op \in OrderOp
         THEN IF t.pc = "order" THEN 4 ELSE IF t.pc = "drone" THEN 3 ELSE 2
    ELSE IF t.pc = "drone" THEN 5 ELSE IF t.pc = "insert" THEN 4
         ELSE IF t.pc = "reserve" THEN 3 ELSE 2

CallsShrink ==
    [][\A s \in Session :
          tx'[s] # tx[s] => \/ tx[s].pc = "idle" /\ Left(tx'[s]) <= 5
                            \/ Left(tx'[s]) < Left(tx[s])]_vars

(***************************************************************************)
(* A call that begins has at most five statements before it.               *)
(***************************************************************************)
LEMMA LeftIsBounded ==
    ASSUME NEW t
    PROVE  Left(t) \in 0 .. 5 /\ (t.pc # "idle" => Left(t) > 0)
BY DEF Left

(***************************************************************************)
(* A session whose record gets another next statement has less left.       *)
(***************************************************************************)
LEMMA LeftAfterOrder ==
    ASSUME NEW t, CallOK(t), t.pc = "order", NEW row, NEW u,
           u.op = t.op, u.pc = AfterOrder(t, row)
    PROVE  Left(u) < Left(t)
<1>1. t.op \in OrderOp \/ t.op = "broken"
  BY DEF CallOK, Tx, Op, Opt, ForNewOrder, ForDrone
<1> QED BY <1>1 DEF Left, AfterOrder, OrderOp

(***************************************************************************)
(* The same after the drone is locked or inserted.                         *)
(***************************************************************************)
LEMMA LeftAfterDrone ==
    ASSUME NEW t, CallOK(t), t.pc \in {"drone", "insert"}, NEW u,
           u.op = t.op, u.pc = AfterDrone(t)
    PROVE  Left(u) < Left(t)
<1>1. \/ t.op \in {"withdraw", "deliver", "fail"} /\ t.pc = "drone"
      \/ t.op \in DroneOp
  BY DEF CallOK, Tx, Op, Opt, ForNewOrder, ForOrder, OrderOp
<1> QED BY <1>1 DEF Left, AfterDrone, OrderOp, DroneOp

(***************************************************************************)
(* The same after the clock is read.                                       *)
(***************************************************************************)
LEMMA LeftAfterNow ==
    ASSUME NEW t, CallOK(t), t.pc = "now", NEW u,
           u.op = t.op, u.pc = AfterNow(t)
    PROVE  Left(u) < Left(t)
<1>1. t.op \in Op
  BY DEF CallOK, Tx, Opt
<1> QED BY <1>1 DEF Left, AfterNow, Op, OrderOp, DroneOp

(***************************************************************************)
(* Every statement of a call brings it nearer to its end.                  *)
(***************************************************************************)
LEMMA StatementShrinks ==
    ASSUME TxInv, NEW s \in Session, Statement(s)
    PROVE  /\ Left(tx'[s]) < Left(tx[s])
           /\ \A u \in Session \ {s} : tx'[u] = tx[u]
<1> DEFINE t == tx[s]
<1>1. CallOK(t) /\ t \in Tx /\ tx \in [Session -> Tx]
  BY DEF TxInv, SessionOK
<1>2. ASSUME Release(s), t.pc # "idle"
      PROVE  /\ Left(tx'[s]) < Left(tx[s])
             /\ \A u \in Session \ {s} : tx'[u] = tx[u]
  <2>1. tx'[s] = NoTx /\ \A u \in Session \ {s} : tx'[u] = tx[u]
    BY <1>1, <1>2 DEF Release
  <2>2. Left(NoTx) = 0
    BY DEF Left, NoTx
  <2> QED BY <1>2, <2>1, <2>2, LeftIsBounded
<1>9. ASSUME NEW r, tx' = [tx EXCEPT ![s] = Refusal(r)],
             t.pc \in {"order", "drone", "reserve"}
      PROVE  /\ Left(tx'[s]) < Left(tx[s])
             /\ \A u \in Session \ {s} : tx'[u] = tx[u]
  <2>1. tx'[s].pc = "refused" /\ \A u \in Session \ {s} : tx'[u] = tx[u]
    BY <1>1, <1>9 DEF Refusal, NoTx
  <2>2. Left(t) > 1
    BY <1>9 DEF Left
  <2>3. Left(tx'[s]) = 1
    BY <2>1 DEF Left
  <2> QED BY <2>1, <2>2, <2>3, LeftIsBounded
<1>3. CASE LockOrder(s)
  <2> DEFINE row == orders[t.order]
  <2>1. t.pc = "order" /\ tx' = [tx EXCEPT ![s] = WithOrder(t, row)]
    BY <1>3 DEF LockOrder
  <2>2. CASE ~Admissible(t, row)
    BY <1>9, <2>1, <2>2 DEF WithOrder
  <2>3. CASE Admissible(t, row)
    <3>1. /\ tx'[s].op = t.op /\ tx'[s].pc = AfterOrder(t, row)
          /\ \A u \in Session \ {s} : tx'[u] = tx[u]
      BY <1>1, <2>1, <2>3 DEF WithOrder, Tx
    <3> QED BY <1>1, <2>1, <3>1, LeftAfterOrder
  <2> QED BY <2>2, <2>3
<1>4. CASE LockDrone(s) \/ InsertDrone(s)
  <2>1. PICK row : /\ tx' = [tx EXCEPT ![s] = WithDrone(t, row)]
                   /\ \/ t.pc = "drone"
                      \/ t.pc = "insert" /\ row = NewDrone
    BY <1>4 DEF LockDrone, InsertDrone
  <2>2. CASE ~MayFly(t, row)
    <3>1. t.pc = "drone"
      BY <2>1, <2>2 DEF MayFly, NewDrone
    <3> QED BY <1>9, <2>1, <2>2, <3>1 DEF WithDrone
  <2>3. CASE MayFly(t, row)
    <3>1. /\ t.pc \in {"drone", "insert"} /\ tx'[s].op = t.op
          /\ tx'[s].pc = AfterDrone(t)
          /\ \A u \in Session \ {s} : tx'[u] = tx[u]
      BY <1>1, <2>1, <2>3 DEF WithDrone, Tx
    <3> QED BY <1>1, <3>1, LeftAfterDrone
  <2> QED BY <2>2, <2>3
<1>5. CASE ReserveNextOrder(s)
  <2>1. /\ t.pc = "reserve" /\ tx'[s].op = t.op /\ tx'[s].pc = "now"
        /\ \A u \in Session \ {s} : tx'[u] = tx[u]
    BY <1>1, <1>5 DEF ReserveNextOrder, Tx
  <2>2. t.op = "reserve"
    BY <1>1, <2>1
       DEF CallOK, Tx, Op, Opt, ForNewOrder, ForOrder, ForDrone, OrderOp
  <2> QED BY <2>1, <2>2 DEF Left, OrderOp
<1>6. CASE Now(s)
  <2>1. /\ t.pc = "now" /\ tx'[s].op = t.op /\ tx'[s].pc = AfterNow(t)
        /\ \A u \in Session \ {s} : tx'[u] = tx[u]
    BY <1>1, <1>6 DEF Now, Stamped, Tx
  <2> QED BY <1>1, <2>1, LeftAfterNow
<1>7. CASE MissDrone(s)
  <2>1. CASE t.op \in DroneOp
    <3>1. /\ t.pc = "drone" /\ tx'[s].op = t.op /\ tx'[s].pc = "insert"
          /\ \A u \in Session \ {s} : tx'[u] = tx[u]
      BY <1>1, <1>7, <2>1 DEF MissDrone, Tx
    <3> QED BY <2>1, <3>1 DEF Left, DroneOp, OrderOp
  <2>2. CASE t.op \notin DroneOp
    BY <1>9, <1>7, <2>2 DEF MissDrone, Refuse
  <2> QED BY <2>1, <2>2
<1>8. CASE DuplicateDrone(s) \/ Refused(s)
  BY <1>2, <1>8 DEF DuplicateDrone, Refused, Rollback
<1>10. CASE MissOrder(s) \/ NoJob(s)
  BY <1>9, <1>10 DEF MissOrder, NoJob, Refuse
<1> QED BY <1>3, <1>4, <1>5, <1>6, <1>7, <1>8, <1>10 DEF Statement

(***************************************************************************)
(* No call goes round in circles: it makes at most five statements, in     *)
(* whatever order others commit, and every statement, commit, error and    *)
(* deadlock brings it nearer to its end.  Together with short waits this   *)
(* is why calls return.                                                    *)
(***************************************************************************)
THEOREM CallsAreBounded == Spec => CallsShrink
<1>1. ASSUME TxInv, [Next]_vars
      PROVE  [\A s \in Session :
                 tx'[s] # tx[s] => \/ tx[s].pc = "idle" /\ Left(tx'[s]) <= 5
                                   \/ Left(tx'[s]) < Left(tx[s])]_vars
  <2> SUFFICES ASSUME Next, NEW s \in Session, tx'[s] # tx[s]
               PROVE  \/ tx[s].pc = "idle" /\ Left(tx'[s]) <= 5
                      \/ Left(tx'[s]) < Left(tx[s])
    BY <1>1
  <2>1. tx \in [Session -> Tx] /\ Left(tx'[s]) <= 5
    BY <1>1, LeftIsBounded DEF TxInv
  <2>2. ASSUME NEW r \in Session, Release(r), tx[r].pc # "idle"
        PROVE  Left(tx'[s]) < Left(tx[s])
    <3>1. r = s /\ tx'[s] = NoTx
      BY <2>1, <2>2 DEF Release
    <3>2. Left(NoTx) = 0
      BY DEF Left, NoTx
    <3> QED BY <2>2, <3>1, <3>2, LeftIsBounded
  <2>3. ASSUME NEW r \in Session, Statement(r)
        PROVE  Left(tx'[s]) < Left(tx[s])
    BY <1>1, <2>3, StatementShrinks
  <2>4. ASSUME NEW r \in Session, Call(r)
        PROVE  tx[s].pc = "idle"
    <3>1. tx[r].pc = "idle" /\ \E c : tx' = [tx EXCEPT ![r] = c]
      BY <2>4 DEF Call, CallSubmit, CallOrder, CallDrone, Begin
    <3> QED BY <2>1, <3>1
  <2>5. ASSUME NEW r \in Session, Commit(r)
        PROVE  tx[r].pc # "idle" /\ Release(r)
    BY <2>5 DEF Commit, CommitSubmit, CommitWithdraw, CommitUpdate,
                CommitReserve, CommitPickup, CommitDeliver, CommitFail,
                CommitComplete, CommitBroken, CommitFixed, CommitHeartbeat,
                Committing
  <2>6. ASSUME NEW r \in Session, Abort(r) \/ DeadlockAbort(r)
        PROVE  tx[r].pc # "idle" /\ Release(r)
    BY <2>6 DEF Abort, DeadlockAbort, OnCycle, WaitsFor, Rollback
  <2>7. CASE Tick
    BY <2>7 DEF Tick
  <2> QED BY <2>1, <2>2, <2>3, <2>4, <2>5, <2>6, <2>7 DEF Next
<1> QED BY <1>1, TransactionsKeepInvariant, PTL DEF Spec, CallsShrink
===============================================================================
