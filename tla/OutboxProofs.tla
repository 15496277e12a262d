----------------------------- MODULE OutboxProofs -----------------------------
(***************************************************************************)
(* Proofs about Outbox for any set of events, any number of workers and    *)
(* any batch sizes: what is marked was handed to a NATS client, one worker *)
(* does not reorder the events it fetches, and an event is published twice *)
(* only after a failure or by two workers.  EventuallyReceived is a        *)
(* liveness property and stays with TLC.                                   *)
(***************************************************************************)
EXTENDS Outbox, FiniteSetTheorems, FunctionTheorems, WellFoundedInduction, TLAPS

-------------------------------------------------------------------------------
(* The inductive invariant *)

(* Events no buffer need keep any more, or whose publication has failed. *)
Gone == Received \cup lost \cup skipped

Elsewhere(w) == UNION {Elements(buffer[v]) : v \in Worker \ {w}}

(* e should arrive before f. *)
Earlier(e, f) == e < f /\ CommittedBefore(e, f)

(* What a worker has in its hands has a row. *)
RowsOK(w) ==
    todo[w] \cup done[w] \cup Elements(buffer[w]) \subseteq Elements(inserted)

(* The ids to be marked were handed to a client. *)
HandedOver(w) == done[w] \subseteq Received \cup Buffered \cup lost

(* A batch has been fetched with all the events that come before its own,  *)
(* unless they were handed over.                                           *)
BatchOK(w) ==
    \A f \in todo[w], e \in Event :
        Earlier(e, f) => e \in todo[w] \cup Gone \cup Buffered

(* In a buffer they come first. *)
BufferOK(w) ==
    \A i \in DOMAIN buffer[w], e \in Event :
        Earlier(e, buffer[w][i]) =>
            \/ e \in Gone \cup Elsewhere(w)
            \/ \E k \in DOMAIN buffer[w] : k < i /\ e = buffer[w][k]

WorkerOK(w) == RowsOK(w) /\ HandedOver(w) /\ BatchOK(w) /\ BufferOK(w)

IInv ==
    /\ TypeOK
    /\ LossesHaveACause
    /\ \A w \in Worker : WorkerOK(w)

-------------------------------------------------------------------------------
(* The operators *)

(***************************************************************************)
(* What nc.Publish adds to a client's buffer is what it holds afterwards,  *)
(* behind what it held before.                                             *)
(***************************************************************************)
LEMMA ElementsOfAppend ==
    ASSUME NEW S, NEW seq \in Seq(S), NEW e \in S
    PROVE  /\ Append(seq, e) \in Seq(S)
           /\ Elements(Append(seq, e)) = Elements(seq) \cup {e}
           /\ DOMAIN Append(seq, e) = DOMAIN seq \cup {Len(seq) + 1}
           /\ \A i \in DOMAIN seq : Append(seq, e)[i] = seq[i]
           /\ Append(seq, e)[Len(seq) + 1] = e
<1> DEFINE new == Append(seq, e)
<1>1. /\ new \in Seq(S)
      /\ DOMAIN new = 1 .. Len(seq) + 1
      /\ DOMAIN seq = 1 .. Len(seq)
      /\ Len(seq) \in Nat
      /\ \A i \in 1 .. Len(seq) : new[i] = seq[i]
      /\ new[Len(seq) + 1] = e
  OBVIOUS
<1>2. DOMAIN new = DOMAIN seq \cup {Len(seq) + 1}
  BY <1>1
<1> HIDE DEF new
<1>3. Elements(new) = Elements(seq) \cup {e}
  <2>1. \A x \in Elements(new) : x \in Elements(seq) \cup {e}
    BY <1>1, <1>2 DEF Elements
  <2>2. \A x \in Elements(seq) \cup {e} : x \in Elements(new)
    BY <1>1, <1>2 DEF Elements
  <2> QED
    BY <2>1, <2>2
<1> QED
  BY <1>1, <1>2, <1>3 DEF new

(***************************************************************************)
(* When the client sends the head of its buffer, it holds the rest in the  *)
(* same order.                                                             *)
(***************************************************************************)
LEMMA ElementsOfTail ==
    ASSUME NEW S, NEW seq \in Seq(S), seq # <<>>
    PROVE  /\ Head(seq) \in S
           /\ Head(seq) = seq[1]
           /\ 1 \in DOMAIN seq
           /\ Tail(seq) \in Seq(S)
           /\ Elements(seq) = Elements(Tail(seq)) \cup {Head(seq)}
           /\ DOMAIN Tail(seq) = {i \in Nat \ {0} : i + 1 \in DOMAIN seq}
           /\ \A i \in DOMAIN Tail(seq) : Tail(seq)[i] = seq[i + 1]
<1> DEFINE rest == Tail(seq)
<1>1. /\ Head(seq) \in S
      /\ Head(seq) = seq[1]
      /\ rest \in Seq(S)
      /\ Len(seq) \in Nat \ {0}
      /\ DOMAIN seq = 1 .. Len(seq)
      /\ DOMAIN rest = 1 .. Len(seq) - 1
      /\ \A i \in 1 .. Len(seq) - 1 : rest[i] = seq[i + 1]
  OBVIOUS
<1>2. /\ 1 \in DOMAIN seq
      /\ DOMAIN rest = {i \in Nat \ {0} : i + 1 \in DOMAIN seq}
  BY <1>1
<1> HIDE DEF rest
<1>3. Elements(seq) = Elements(rest) \cup {Head(seq)}
  <2>1. ASSUME NEW i \in DOMAIN seq
        PROVE  seq[i] \in Elements(rest) \cup {Head(seq)}
    <3>1. CASE i = 1
      BY <3>1, <1>1
    <3>2. CASE i # 1
      <4>1. i - 1 \in DOMAIN rest /\ (i - 1) + 1 = i
        BY <3>2, <1>1
      <4> QED
        BY <4>1, <1>1 DEF Elements
    <3> QED
      BY <3>1, <3>2
  <2>2. \A x \in Elements(rest) \cup {Head(seq)} : x \in Elements(seq)
    BY <1>1, <1>2 DEF Elements
  <2> QED
    BY <2>1, <2>2 DEF Elements
<1> QED
  BY <1>1, <1>2, <1>3 DEF rest

(***************************************************************************)
(* Some event of any choice of events comes first in occurred_at.          *)
(***************************************************************************)
LEMMA FirstEventExists ==
    ASSUME NEW S \in SUBSET Nat, S # {}
    PROVE  \E e \in S : \A f \in S : e <= f
<1> DEFINE less == OpToRel(<, Nat)
<1>1. IsWellFoundedOn(less, Nat)
  BY NatLessThanWellFounded
<1>2. PICK e \in S : \A f \in S : ~(<<f, e>> \in less)
  <2> HIDE DEF less
  <2> QED
    BY <1>1, WFMin
<1>3. \A f \in S : ~(f < e)
  BY <1>2 DEF OpToRel
<1> QED
  BY <1>3

(***************************************************************************)
(* ORDER BY occurred_at LIMIT: what FetchPending returns is pending, is    *)
(* something if anything is pending, and leaves out no pending event that  *)
(* is older than one it returns.                                           *)
(***************************************************************************)
LEMMA OldestIsPrefix ==
    ASSUME NEW S \in SUBSET Nat, NEW limit \in Nat \ {0}
    PROVE  /\ Oldest(S, limit) \subseteq S
           /\ S # {} => Oldest(S, limit) # {}
           /\ \A f \in Oldest(S, limit), e \in S :
                 e < f => e \in Oldest(S, limit)
<1> DEFINE before(n) == {g \in S : g < n}
<1>0. \A e \in S : e \in Nat
  OBVIOUS
<1>1. Oldest(S, limit) = {e \in S : Cardinality(before(e)) < limit}
  BY DEF Oldest
<1>2. ASSUME S # {}
      PROVE  Oldest(S, limit) # {}
  <2>1. PICK e \in S : \A f \in S : e <= f
    BY <1>2, FirstEventExists
  <2>2. before(e) = {}
    <3>1. \A g \in S : ~(g < e)
      BY <2>1, <1>0
    <3> QED
      BY <3>1
  <2>3. Cardinality(before(e)) = 0
    BY <2>2, FS_EmptySet
  <2> QED
    BY <2>3, <1>1
<1>3. ASSUME NEW f \in Oldest(S, limit), NEW e \in S, e < f
      PROVE  e \in Oldest(S, limit)
  <2>1. f \in S /\ Cardinality(before(f)) < limit
    BY <1>1
  <2>2. before(e) \subseteq before(f)
    <3>1. \A g \in S : g < e => g < f
      BY <1>3, <2>1, <1>0
    <3> QED
      BY <3>1
  <2>3. IsFiniteSet(0 .. f)
    BY <2>1, FS_Interval
  <2>4. before(f) \subseteq 0 .. f
    <3>1. \A g \in S : g < f => g \in 0 .. f
      BY <2>1, <1>0
    <3> QED
      BY <3>1
  <2> HIDE DEF before
  <2>5. IsFiniteSet(before(f))
    BY <2>3, <2>4, FS_Subset
  <2>6. /\ IsFiniteSet(before(e))
        /\ Cardinality(before(e)) <= Cardinality(before(f))
    BY <2>2, <2>5, FS_Subset
  <2>7. Cardinality(before(e)) \in Nat /\ Cardinality(before(f)) \in Nat
    BY <2>5, <2>6, FS_CardinalityType
  <2> QED
    BY <2>1, <2>6, <2>7, <1>1
<1> QED
  BY <1>1, <1>2, <1>3

(***************************************************************************)
(* publisher.Close sends everything that is left: how often an event       *)
(* stands in a client's buffer is a number, and not zero if it is there.   *)
(***************************************************************************)
LEMMA OccurrencesCounted ==
    ASSUME NEW seq \in Seq(Event), NEW e \in Event
    PROVE  LET at == {i \in DOMAIN seq : seq[i] = e}
           IN  /\ IsFiniteSet(at)
               /\ Cardinality(at) \in Nat
               /\ e \in Elements(seq) => Cardinality(at) > 0
<1> DEFINE at == {i \in DOMAIN seq : seq[i] = e}
<1>1. Len(seq) \in Nat /\ DOMAIN seq = 1 .. Len(seq)
  OBVIOUS
<1>2. IsFiniteSet(1 .. Len(seq))
  BY <1>1, FS_Interval
<1>3. at \subseteq 1 .. Len(seq)
  BY <1>1
<1>4. e \in Elements(seq) => at # {}
  BY DEF Elements
<1> HIDE DEF at
<1>5. IsFiniteSet(at)
  BY <1>2, <1>3, FS_Subset
<1>6. Cardinality(at) \in Nat /\ (Cardinality(at) = 0 <=> at = {})
  BY <1>5, FS_CardinalityType, FS_EmptySet
<1> QED
  BY <1>4, <1>5, <1>6 DEF at

-------------------------------------------------------------------------------
(* What every step of a worker has in common *)

(* A step of w leaves the other workers alone, and what leaves its buffer  *)
(* has arrived or is lost.                                                 *)
StepOf(w) ==
    /\ inserted' = inserted
    /\ Received \subseteq Received'
    /\ lost \subseteq lost'
    /\ skipped \subseteq skipped'
    /\ Elements(buffer[w]) \subseteq Elements(buffer'[w]) \cup Received' \cup lost'
    /\ \A v \in Worker \ {w} :
          buffer'[v] = buffer[v] /\ todo'[v] = todo[v] /\ done'[v] = done[v]

(***************************************************************************)
(* No step of a worker makes an event that was handed to a client vanish.  *)
(***************************************************************************)
LEMMA NothingVanishes ==
    ASSUME NEW w \in Worker, StepOf(w)
    PROVE  /\ Gone \subseteq Gone'
           /\ Received \cup Buffered \cup lost \subseteq (Received \cup Buffered \cup lost)'
           /\ Buffered \subseteq Gone' \cup Buffered'
           /\ \A v \in Worker : Elsewhere(v) \subseteq Gone' \cup Elsewhere(v)'
<1>1. Gone \subseteq Gone'
  BY DEF StepOf, Gone
<1>2. ASSUME NEW v \in Worker
      PROVE  Elements(buffer[v]) \subseteq Elements(buffer'[v]) \cup Received' \cup lost'
  <2>1. CASE v = w
    BY <2>1 DEF StepOf
  <2>2. CASE v # w
    <3>1. buffer'[v] = buffer[v]
      BY <2>2 DEF StepOf
    <3> QED
      BY <3>1
  <2> QED
    BY <2>1, <2>2
<1>3. ASSUME NEW v \in Worker, NEW e \in Elements(buffer[v])
      PROVE  e \in Received' \cup lost' \cup Buffered'
  BY <1>2, <1>3 DEF Buffered
<1>4. ASSUME NEW v \in Worker, NEW u \in Worker \ {v}, NEW e \in Elements(buffer[u])
      PROVE  e \in Received' \cup lost' \cup Elsewhere(v)'
  BY <1>2, <1>4 DEF Elsewhere
<1>5. Buffered \subseteq Received' \cup lost' \cup Buffered'
  BY <1>3 DEF Buffered
<1>6. \A v \in Worker : Elsewhere(v) \subseteq Received' \cup lost' \cup Elsewhere(v)'
  BY <1>4 DEF Elsewhere
<1> QED
  BY <1>1, <1>5, <1>6 DEF StepOf, Gone

(***************************************************************************)
(* The order in which two events should arrive does not change with a step *)
(* of a worker.                                                            *)
(***************************************************************************)
LEMMA OrderFixed ==
    ASSUME inserted' = inserted, NEW e, NEW f
    PROVE  Earlier(e, f)' <=> Earlier(e, f)
BY DEF Earlier, CommittedBefore

(***************************************************************************)
(* Where a worker's list of ids does not grow, the ids in it were handed   *)
(* over before the step and still are after it.                            *)
(***************************************************************************)
LEMMA HandedOverKept ==
    ASSUME NEW w \in Worker, StepOf(w), NEW v \in Worker, HandedOver(v),
           done'[v] \subseteq done[v]
    PROVE  HandedOver(v)'
BY NothingVanishes DEF HandedOver

(***************************************************************************)
(* A batch is no worse off when other workers publish.                     *)
(***************************************************************************)
LEMMA BatchKept ==
    ASSUME NEW w \in Worker, StepOf(w), NEW v \in Worker, BatchOK(v),
           todo'[v] \in {todo[v], {}}
    PROVE  BatchOK(v)'
<1> SUFFICES ASSUME NEW f \in todo'[v], NEW e \in Event, Earlier(e, f)'
             PROVE  e \in todo'[v] \cup Gone' \cup Buffered'
  BY DEF BatchOK
<1>1. todo'[v] = todo[v] /\ f \in todo[v]
  OBVIOUS
<1>2. Earlier(e, f)
  BY OrderFixed DEF StepOf
<1>3. e \in todo[v] \cup Gone \cup Buffered
  BY <1>1, <1>2 DEF BatchOK
<1> QED
  BY <1>1, <1>3, NothingVanishes

(***************************************************************************)
(* A buffer that is left alone, or emptied, keeps its events in order.     *)
(***************************************************************************)
LEMMA BufferKept ==
    ASSUME NEW w \in Worker, StepOf(w), NEW v \in Worker, BufferOK(v),
           buffer'[v] = buffer[v] \/ buffer'[v] = <<>>
    PROVE  BufferOK(v)'
<1>1. CASE buffer'[v] = <<>>
  <2>1. DOMAIN buffer'[v] = {}
    BY <1>1
  <2> QED
    BY <2>1 DEF BufferOK
<1>2. CASE buffer'[v] = buffer[v]
  <2> SUFFICES ASSUME NEW i \in DOMAIN buffer[v], NEW e \in Event,
                      Earlier(e, buffer[v][i])'
               PROVE  \/ e \in Gone' \cup Elsewhere(v)'
                      \/ \E k \in DOMAIN buffer[v] : k < i /\ e = buffer[v][k]
    BY <1>2 DEF BufferOK
  <2>1. Earlier(e, buffer[v][i])
    BY <1>2, OrderFixed DEF StepOf, Earlier, CommittedBefore
  <2>2. \/ e \in Gone \cup Elsewhere(v)
        \/ \E k \in DOMAIN buffer[v] : k < i /\ e = buffer[v][k]
    BY <2>1 DEF BufferOK
  <2> QED
    BY <2>2, NothingVanishes
<1> QED
  BY <1>1, <1>2

(***************************************************************************)
(* So a step of one worker can only disturb that worker's own part of the  *)
(* invariant.                                                              *)
(***************************************************************************)
LEMMA OthersKept ==
    ASSUME NEW w \in Worker, StepOf(w), NEW v \in Worker \ {w}, WorkerOK(v)
    PROVE  WorkerOK(v)'
<1>1. /\ buffer'[v] = buffer[v] /\ todo'[v] = todo[v] /\ done'[v] = done[v]
      /\ inserted' = inserted
  BY DEF StepOf
<1>2. RowsOK(v)'
  BY <1>1 DEF WorkerOK, RowsOK
<1>3. HandedOver(v)'
  BY <1>1, HandedOverKept DEF WorkerOK
<1>4. BatchOK(v)'
  BY <1>1, BatchKept DEF WorkerOK
<1>5. BufferOK(v)'
  BY <1>1, BufferKept DEF WorkerOK
<1> QED
  BY <1>2, <1>3, <1>4, <1>5 DEF WorkerOK

(***************************************************************************)
(* The rest of a step is what it does to TypeOK, to the marks and to the   *)
(* worker itself.                                                          *)
(***************************************************************************)
LEMMA OwnStep ==
    ASSUME IInv, NEW w \in Worker, StepOf(w), TypeOK',
           marked' \subseteq marked \cup done[w],
           WorkerOK(w)'
    PROVE  IInv'
<1>1. LossesHaveACause'
  <2>1. marked' \subseteq Received \cup Buffered \cup lost
    BY DEF IInv, WorkerOK, HandedOver, LossesHaveACause
  <2> QED
    BY <2>1, NothingVanishes DEF LossesHaveACause
<1>2. \A v \in Worker : WorkerOK(v)'
  BY OthersKept DEF IInv
<1> QED
  BY <1>1, <1>2 DEF IInv

-------------------------------------------------------------------------------
(* The steps *)

(***************************************************************************)
(* The invariant holds at the start.                                       *)
(***************************************************************************)
LEMMA InitHolds == Init => IInv
<1> SUFFICES ASSUME Init PROVE IInv
  OBVIOUS
<1>1. Elements(<<>>) = {}
  BY DEF Elements
<1>2. TypeOK
  BY <1>1, OutboxAssumption DEF Init, TypeOK
<1>3. LossesHaveACause
  BY DEF Init, LossesHaveACause
<1>4. ASSUME NEW w \in Worker
      PROVE  WorkerOK(w)
  <2>1. todo[w] = {} /\ done[w] = {} /\ buffer[w] = <<>> /\ DOMAIN buffer[w] = {}
    BY DEF Init
  <2>2. BufferOK(w)
    BY <2>1 DEF BufferOK
  <2> QED
    BY <1>1, <2>1, <2>2 DEF WorkerOK, RowsOK, HandedOver, BatchOK
<1> QED
  BY <1>2, <1>3, <1>4 DEF IInv

(***************************************************************************)
(* A commit makes an event later than those that workers already have.     *)
(***************************************************************************)
LEMMA EnqueueKeeps ==
    ASSUME IInv, NEW n \in Event, Enqueue(n)
    PROVE  IInv'
<1> USE DEF IInv
<1>1. inserted \in Seq(Event)
  BY DEF TypeOK
<1>2. /\ inserted' \in Seq(Event)
      /\ Elements(inserted') = Elements(inserted) \cup {n}
      /\ DOMAIN inserted' = DOMAIN inserted \cup {Len(inserted) + 1}
      /\ \A i \in DOMAIN inserted : inserted'[i] = inserted[i]
      /\ inserted'[Len(inserted) + 1] = n
  BY <1>1, ElementsOfAppend DEF Enqueue
<1>3. ASSUME NEW f \in Elements(inserted), NEW e \in Event, Earlier(e, f)'
      PROVE  Earlier(e, f)
  <2>1. Len(inserted) \in Nat /\ DOMAIN inserted = 1 .. Len(inserted)
    BY <1>1
  <2>2. PICK i \in DOMAIN inserted', j \in DOMAIN inserted' :
           e < f /\ i < j /\ inserted'[i] = e /\ inserted'[j] = f
    BY <1>3 DEF Earlier, CommittedBefore
  <2>3. f # n
    BY DEF Enqueue
  <2>4. j \in DOMAIN inserted
    BY <2>2, <2>3, <1>2
  <2>5. i \in DOMAIN inserted
    BY <2>1, <2>2, <2>4, <1>2
  <2>6. inserted[i] = e /\ inserted[j] = f
    BY <2>2, <2>4, <2>5, <1>2
  <2> QED
    BY <2>2, <2>4, <2>5, <2>6 DEF Earlier, CommittedBefore
<1>4. /\ Gone' = Gone
      /\ Buffered' = Buffered
      /\ Received' = Received
      /\ \A w \in Worker : Elsewhere(w)' = Elsewhere(w)
      /\ UNCHANGED <<todo, done, buffer, lost, marked>>
  BY DEF Enqueue, workers, Gone, Received, Buffered, Elsewhere
<1>5. TypeOK'
  BY <1>2 DEF TypeOK, Enqueue, workers
<1>6. LossesHaveACause'
  BY <1>4 DEF LossesHaveACause
<1>7. ASSUME NEW w \in Worker
      PROVE  WorkerOK(w)'
  <2>1. RowsOK(w)'
    BY <1>2, <1>4 DEF WorkerOK, RowsOK
  <2>2. HandedOver(w)'
    BY <1>4 DEF WorkerOK, HandedOver
  <2>3. BatchOK(w)'
    <3> SUFFICES ASSUME NEW f \in todo[w], NEW e \in Event, Earlier(e, f)'
                 PROVE  e \in todo[w] \cup Gone \cup Buffered
      BY <1>4 DEF BatchOK
    <3>1. f \in Elements(inserted)
      BY DEF WorkerOK, RowsOK
    <3> QED
      BY <3>1, <1>3 DEF WorkerOK, BatchOK
  <2>4. BufferOK(w)'
    <3> SUFFICES ASSUME NEW i \in DOMAIN buffer[w], NEW e \in Event,
                        Earlier(e, buffer[w][i])'
                 PROVE  \/ e \in Gone \cup Elsewhere(w)
                        \/ \E k \in DOMAIN buffer[w] : k < i /\ e = buffer[w][k]
      BY <1>4 DEF BufferOK
    <3> DEFINE f == buffer[w][i]
    <3>1. f \in Elements(inserted)
      BY DEF WorkerOK, RowsOK, Elements
    <3>2. f' = f
      BY <1>4
    <3>3. Earlier(e, f)
      BY <1>4, <3>1, <3>2, <1>3 DEF Earlier, CommittedBefore
    <3> QED
      BY <3>3 DEF WorkerOK, BufferOK
  <2> QED
    BY <2>1, <2>2, <2>3, <2>4 DEF WorkerOK
<1> QED
  BY <1>5, <1>6, <1>7

(***************************************************************************)
(* A fetched batch leaves out no earlier event that is still pending.      *)
(***************************************************************************)
LEMMA FetchKeeps ==
    ASSUME IInv, NEW w \in Worker, Fetch(w)
    PROVE  StepOf(w) /\ IInv'
<1> USE DEF IInv
<1> DEFINE batch == Oldest(Pending, BatchSize[w])
<1>1. Elements(inserted) \subseteq Event /\ Event \subseteq Nat
  BY OutboxAssumption DEF TypeOK, Elements
<1>2. Pending \in SUBSET Nat /\ BatchSize[w] \in Nat \ {0}
  BY <1>1, OutboxAssumption DEF Pending
<1>3. /\ batch \subseteq Pending
      /\ batch # {}
      /\ \A f \in batch, e \in Pending : e < f => e \in batch
  BY <1>2, OldestIsPrefix DEF Fetch
<1>4. batch \subseteq Elements(inserted) /\ batch \subseteq Event
  BY <1>1, <1>3 DEF Pending
<1> HIDE DEF batch
<1>5. todo' = [todo EXCEPT ![w] = batch] /\ todo'[w] = batch
  BY DEF Fetch, TypeOK, batch
<1>6. StepOf(w)
  BY <1>5 DEF Fetch, StepOf, Received, TypeOK
<1>7. TypeOK'
  BY <1>3, <1>4, <1>5 DEF Fetch, TypeOK
<1>8. RowsOK(w)'
  BY <1>4, <1>5 DEF Fetch, WorkerOK, RowsOK
<1>9. HandedOver(w)'
  BY <1>6, HandedOverKept DEF Fetch, WorkerOK
<1>10. BatchOK(w)'
  <2> SUFFICES ASSUME NEW f \in batch, NEW e \in Event, Earlier(e, f)'
               PROVE  e \in batch \cup Gone' \cup Buffered'
    BY <1>5 DEF BatchOK
  <2>1. Earlier(e, f)
    BY <1>6, OrderFixed DEF StepOf
  <2>2. e \in Elements(inserted) /\ e < f
    BY <2>1 DEF Earlier, CommittedBefore, Elements
  <2>3. CASE e \in marked
    BY <2>3, <1>6, NothingVanishes DEF LossesHaveACause, Gone
  <2>4. CASE e \notin marked
    BY <2>2, <2>4, <1>3 DEF Pending
  <2> QED
    BY <2>3, <2>4
<1>11. BufferOK(w)'
  BY <1>6, BufferKept DEF Fetch, WorkerOK
<1> QED
  BY <1>6, <1>7, <1>8, <1>9, <1>10, <1>11, OwnStep DEF Fetch, WorkerOK

(***************************************************************************)
(* Publish takes the batch in order: an event goes to the buffer when all  *)
(* the earlier ones of its batch are there or have failed.                 *)
(***************************************************************************)
LEMMA PublishKeeps ==
    ASSUME IInv, NEW w \in Worker, Publish(w)
    PROVE  StepOf(w) /\ IInv'
<1> USE DEF IInv
<1>1. PICK n \in todo[w] :
         /\ IsNext(w, n)
         /\ Advance(w, n)
         /\ buffer' = [buffer EXCEPT ![w] = Append(@, n)]
         /\ done' = [done EXCEPT ![w] = @ \cup {n}]
         /\ UNCHANGED <<inserted, marked, cancelled, received, faults, skipped, lost>>
  BY DEF Publish
<1>2. n \in Event /\ todo[w] \subseteq Event /\ Event \subseteq Nat
  BY OutboxAssumption DEF TypeOK
<1>3. buffer[w] \in Seq(Event) /\ buffer'[w] = Append(buffer[w], n)
  BY <1>1 DEF TypeOK
<1>4. /\ buffer'[w] \in Seq(Event)
      /\ Elements(buffer'[w]) = Elements(buffer[w]) \cup {n}
      /\ DOMAIN buffer'[w] = DOMAIN buffer[w] \cup {Len(buffer[w]) + 1}
      /\ \A i \in DOMAIN buffer[w] : buffer'[w][i] = buffer[w][i]
      /\ buffer'[w][Len(buffer[w]) + 1] = n
  BY <1>2, <1>3, ElementsOfAppend
<1>5. todo'[w] = todo[w] \ {n} /\ done'[w] = done[w] \cup {n}
  BY <1>1 DEF Advance, TypeOK
<1>6. StepOf(w)
  BY <1>1, <1>4 DEF StepOf, Received, TypeOK, Advance
<1>7. TypeOK'
  <2>1. \A v \in Worker : todo'[v] # {} <=> pc'[v] = "publish"
    BY <1>1, <1>5 DEF TypeOK, IsNext, Advance
  <2>2. buffer' \in [Worker -> Seq(Event)]
    BY <1>1, <1>3, <1>4 DEF TypeOK
  <2> QED
    BY <1>1, <1>2, <1>5, <2>1, <2>2 DEF TypeOK, Advance
<1>8. n \in Buffered'
  BY <1>4 DEF Buffered
<1>9. RowsOK(w)'
  BY <1>1, <1>4, <1>5 DEF WorkerOK, RowsOK
<1>10. HandedOver(w)'
  BY <1>5, <1>6, <1>8, NothingVanishes DEF WorkerOK, HandedOver
<1>11. BatchOK(w)'
  <2> SUFFICES ASSUME NEW f \in todo'[w], NEW e \in Event, Earlier(e, f)'
               PROVE  e \in todo'[w] \cup Gone' \cup Buffered'
    BY DEF BatchOK
  <2>1. Earlier(e, f)
    BY <1>1, OrderFixed
  <2>2. e \in todo[w] \cup Gone \cup Buffered
    BY <2>1, <1>5 DEF WorkerOK, BatchOK
  <2> QED
    BY <2>2, <1>5, <1>6, <1>8, NothingVanishes
<1>12. BufferOK(w)'
  <2> SUFFICES ASSUME NEW i \in DOMAIN buffer'[w], NEW e \in Event,
                      Earlier(e, buffer[w][i])'
               PROVE  \/ e \in Gone' \cup Elsewhere(w)'
                      \/ \E k \in DOMAIN buffer'[w] : k < i /\ e = buffer'[w][k]
    BY DEF BufferOK
  <2>1. Earlier(e, buffer'[w][i])
    BY <1>1 DEF Earlier, CommittedBefore
  <2>2. CASE i \in DOMAIN buffer[w]
    <3>1. \/ e \in Gone \cup Elsewhere(w)
          \/ \E k \in DOMAIN buffer[w] : k < i /\ e = buffer[w][k]
      BY <2>1, <2>2, <1>4 DEF WorkerOK, BufferOK
    <3> QED
      BY <3>1, <1>4, <1>6, NothingVanishes
  <2>3. CASE i = Len(buffer[w]) + 1
    <3>1. e < n /\ Earlier(e, n)
      BY <2>1, <2>3, <1>4 DEF Earlier
    <3>2. e \notin todo[w]
      BY <3>1, <1>1, <1>2 DEF IsNext
    <3>3. e \in Gone \cup Buffered
      BY <3>1, <3>2 DEF WorkerOK, BatchOK
    <3>4. e \in Gone \cup Elsewhere(w) \cup Elements(buffer[w])
      BY <3>3 DEF Buffered, Elsewhere
    <3>5. ASSUME e \in Elements(buffer[w])
          PROVE  \E k \in DOMAIN buffer'[w] : k < i /\ e = buffer'[w][k]
      <4>1. PICK k \in DOMAIN buffer[w] : e = buffer[w][k]
        BY <3>5 DEF Elements
      <4>2. k < i
        BY <2>3, <1>3
      <4> QED
        BY <4>1, <4>2, <1>4
    <3> QED
      BY <3>4, <3>5, <1>6, NothingVanishes
  <2> QED
    BY <2>2, <2>3, <1>4
<1> QED
  BY <1>1, <1>6, <1>7, <1>9, <1>10, <1>11, <1>12, OwnStep DEF WorkerOK

(***************************************************************************)
(* A failed Publish is remembered; the event stays pending.                *)
(***************************************************************************)
LEMMA PublishFailsKeeps ==
    ASSUME IInv, NEW w \in Worker, PublishFails(w)
    PROVE  StepOf(w) /\ IInv'
<1> USE DEF IInv
<1>1. PICK n \in todo[w] :
         /\ IsNext(w, n)
         /\ Advance(w, n)
         /\ Fault
         /\ skipped' = skipped \cup {n}
         /\ UNCHANGED <<inserted, marked, done, cancelled, buffer, received, lost>>
  BY DEF PublishFails
<1>2. n \in Event
  BY DEF TypeOK
<1>3. todo'[w] = todo[w] \ {n}
  BY <1>1 DEF Advance, TypeOK
<1>4. StepOf(w)
  BY <1>1 DEF StepOf, Received, TypeOK, Advance
<1>5. TypeOK'
  <2>1. \A v \in Worker : todo'[v] # {} <=> pc'[v] = "publish"
    BY <1>1, <1>3 DEF TypeOK, IsNext, Advance
  <2>2. faults' \in 0 .. MaxFaults
    BY <1>1, OutboxAssumption DEF TypeOK, Fault
  <2> QED
    BY <1>1, <1>2, <1>3, <2>1, <2>2 DEF TypeOK, Advance
<1>6. RowsOK(w)'
  BY <1>1, <1>3 DEF WorkerOK, RowsOK
<1>7. HandedOver(w)'
  BY <1>1, <1>4, HandedOverKept DEF WorkerOK
<1>8. BatchOK(w)'
  <2> SUFFICES ASSUME NEW f \in todo'[w], NEW e \in Event, Earlier(e, f)'
               PROVE  e \in todo'[w] \cup Gone' \cup Buffered'
    BY DEF BatchOK
  <2>1. Earlier(e, f)
    BY <1>1, OrderFixed
  <2>2. e \in todo[w] \cup Gone \cup Buffered
    BY <2>1, <1>3 DEF WorkerOK, BatchOK
  <2>3. n \in Gone'
    BY <1>1 DEF Gone
  <2> QED
    BY <2>2, <2>3, <1>3, <1>4, NothingVanishes
<1>9. BufferOK(w)'
  BY <1>1, <1>4, BufferKept DEF WorkerOK
<1> QED
  BY <1>1, <1>4, <1>5, <1>6, <1>7, <1>8, <1>9, OwnStep DEF WorkerOK

(***************************************************************************)
(* The end of a tick forgets the ids; only what was handed over is marked. *)
(***************************************************************************)
LEMMA EndTickKeeps ==
    ASSUME IInv, NEW w \in Worker, Mark(w) \/ MarkFails(w)
    PROVE  StepOf(w) /\ IInv'
<1> USE DEF IInv
<1>1. /\ pc[w] = "mark"
      /\ pc' = [pc EXCEPT ![w] = "wait"]
      /\ done' = [done EXCEPT ![w] = {}]
      /\ marked' \in {marked, marked \cup done[w]}
      /\ faults' = faults \/ Fault
      /\ UNCHANGED <<inserted, todo, cancelled, buffer, received, skipped, lost>>
  BY DEF Mark, MarkFails, EndTick
<1>2. done'[w] = {}
  BY <1>1 DEF TypeOK
<1>3. StepOf(w)
  BY <1>1 DEF StepOf, Received, TypeOK
<1>4. TypeOK'
  <2>1. marked' \subseteq Elements(inserted)
    BY <1>1 DEF TypeOK, WorkerOK, RowsOK
  <2>2. faults' \in 0 .. MaxFaults
    BY <1>1, OutboxAssumption DEF TypeOK, Fault
  <2> QED
    BY <1>1, <2>1, <2>2 DEF TypeOK
<1>5. RowsOK(w)'
  BY <1>1, <1>2 DEF WorkerOK, RowsOK
<1>6. HandedOver(w)'
  BY <1>2, <1>3, HandedOverKept DEF WorkerOK
<1>7. BatchOK(w)'
  BY <1>1, <1>3, BatchKept DEF WorkerOK
<1>8. BufferOK(w)'
  BY <1>1, <1>3, BufferKept DEF WorkerOK
<1> QED
  BY <1>1, <1>3, <1>4, <1>5, <1>6, <1>7, <1>8, OwnStep DEF WorkerOK

(***************************************************************************)
(* Flush sends the head of the buffer: the others move up by one place.    *)
(***************************************************************************)
LEMMA FlushKeeps ==
    ASSUME IInv, NEW w \in Worker, Flush(w)
    PROVE  StepOf(w) /\ IInv'
<1> USE DEF IInv
<1> DEFINE head == Head(buffer[w])
<1>1. buffer[w] \in Seq(Event) /\ buffer[w] # <<>> /\ buffer'[w] = Tail(buffer[w])
  BY DEF TypeOK, Flush
<1>2. /\ head \in Event
      /\ head = buffer[w][1]
      /\ buffer'[w] \in Seq(Event)
      /\ Elements(buffer[w]) = Elements(buffer'[w]) \cup {head}
      /\ DOMAIN buffer'[w] = {i \in Nat \ {0} : i + 1 \in DOMAIN buffer[w]}
      /\ \A i \in DOMAIN buffer'[w] : buffer'[w][i] = buffer[w][i + 1]
  BY <1>1, ElementsOfTail
<1>3. UNCHANGED <<inserted, marked, pc, todo, done, cancelled, faults, skipped, lost>>
  BY DEF Flush, workers
<1>4. received' = [received EXCEPT ![head] = @ + 1]
  BY DEF Flush
<1> HIDE DEF head
<1>5. received' \in [Event -> Nat] /\ Received' = Received \cup {head}
  BY <1>2, <1>4 DEF Received, TypeOK
<1>6. StepOf(w)
  BY <1>2, <1>3, <1>5 DEF StepOf, TypeOK, Flush
<1>7. TypeOK'
  <2>1. buffer' \in [Worker -> Seq(Event)]
    BY <1>1, <1>2 DEF TypeOK, Flush
  <2> QED
    BY <1>3, <1>5, <2>1 DEF TypeOK
<1>8. RowsOK(w)'
  BY <1>2, <1>3 DEF WorkerOK, RowsOK
<1>9. HandedOver(w)'
  BY <1>3, <1>6, HandedOverKept DEF WorkerOK
<1>10. BatchOK(w)'
  BY <1>3, <1>6, BatchKept DEF WorkerOK
<1>11. BufferOK(w)'
  <2> SUFFICES ASSUME NEW i \in DOMAIN buffer'[w], NEW e \in Event,
                      Earlier(e, buffer[w][i])'
               PROVE  \/ e \in Gone' \cup Elsewhere(w)'
                      \/ \E k \in DOMAIN buffer'[w] : k < i /\ e = buffer'[w][k]
    BY DEF BufferOK
  <2>1. i \in Nat /\ i + 1 \in DOMAIN buffer[w]
    BY <1>2
  <2>2. Earlier(e, buffer[w][i + 1])
    BY <1>2, <1>3 DEF Earlier, CommittedBefore
  <2>3. \/ e \in Gone \cup Elsewhere(w)
        \/ \E k \in DOMAIN buffer[w] : k < i + 1 /\ e = buffer[w][k]
    BY <2>1, <2>2 DEF WorkerOK, BufferOK
  <2>4. CASE e \in Gone \cup Elsewhere(w)
    BY <2>4, <1>6, NothingVanishes
  <2>5. ASSUME NEW k \in DOMAIN buffer[w], k < i + 1, e = buffer[w][k]
        PROVE  \/ e \in Gone'
               \/ \E j \in DOMAIN buffer'[w] : j < i /\ e = buffer'[w][j]
    <3>1. k \in Nat \ {0}
      BY <1>1
    <3>2. CASE k = 1
      BY <3>2, <2>5, <1>2, <1>5 DEF Gone
    <3>3. CASE k # 1
      <4>1. k - 1 \in DOMAIN buffer'[w] /\ k - 1 < i /\ (k - 1) + 1 = k
        BY <3>1, <3>3, <2>1, <2>5, <1>2
      <4> QED
        BY <4>1, <2>5, <1>2
    <3> QED
      BY <3>2, <3>3
  <2> QED
    BY <2>3, <2>4, <2>5
<1> QED
  BY <1>3, <1>6, <1>7, <1>8, <1>9, <1>10, <1>11, OwnStep DEF WorkerOK

(***************************************************************************)
(* A worker that only lets go of what it has in its hands keeps its part   *)
(* of the invariant: the batch, the ids and the buffer stay or go.         *)
(***************************************************************************)
LEMMA LettingGoKeeps ==
    ASSUME IInv, NEW w \in Worker, StepOf(w),
           buffer'[w] = buffer[w] \/ buffer'[w] = <<>>,
           todo'[w] \in {todo[w], {}},
           done'[w] \in {done[w], {}}
    PROVE  WorkerOK(w)'
<1> USE DEF IInv
<1>1. RowsOK(w)'
  <2>1. Elements(<<>>) = {}
    BY DEF Elements
  <2>2. Elements(buffer'[w]) \subseteq Elements(buffer[w])
    BY <2>1
  <2> QED
    BY <2>2 DEF WorkerOK, RowsOK, StepOf
<1>2. HandedOver(w)'
  BY HandedOverKept DEF WorkerOK
<1>3. BatchOK(w)'
  BY BatchKept DEF WorkerOK
<1>4. BufferOK(w)'
  BY BufferKept DEF WorkerOK
<1> QED
  BY <1>1, <1>2, <1>3, <1>4 DEF WorkerOK

(***************************************************************************)
(* What a broken connection or a crash takes out of a buffer is recorded   *)
(* as lost.                                                                *)
(***************************************************************************)
LEMMA DropKeeps ==
    ASSUME IInv, NEW w \in Worker, Disconnect(w) \/ Crash(w)
    PROVE  StepOf(w) /\ IInv'
<1> USE DEF IInv
<1>1. /\ buffer' = [buffer EXCEPT ![w] = <<>>]
      /\ lost' = lost \cup Elements(buffer[w])
      /\ Fault
      /\ UNCHANGED <<inserted, marked, received, skipped>>
  BY DEF Disconnect, Crash, DropBuffer
<1>2. (StopWorker(w) \/ UNCHANGED workers)
  BY DEF Disconnect, Crash
<1>3. buffer'[w] = <<>> /\ Elements(buffer[w]) \subseteq Event
  BY <1>1 DEF TypeOK, Elements
<1>4. todo'[w] \in {todo[w], {}} /\ done'[w] \in {done[w], {}}
  BY <1>2 DEF StopWorker, workers, TypeOK
<1>5. StepOf(w)
  BY <1>1, <1>2 DEF StepOf, Received, StopWorker, workers, TypeOK
<1>6. TypeOK'
  <2>1. buffer' \in [Worker -> Seq(Event)] /\ lost' \subseteq Event
    BY <1>1, <1>3 DEF TypeOK
  <2>2. faults' \in 0 .. MaxFaults
    BY <1>1, OutboxAssumption DEF TypeOK, Fault
  <2>3. /\ pc' \in [Worker -> {"down", "wait", "publish", "mark"}]
        /\ todo' \in [Worker -> SUBSET Event]
        /\ \A v \in Worker : todo'[v] # {} <=> pc'[v] = "publish"
        /\ done' \in [Worker -> SUBSET Event]
        /\ cancelled' \in [Worker -> BOOLEAN]
    BY <1>2 DEF StopWorker, workers, TypeOK
  <2> QED
    BY <1>1, <2>1, <2>2, <2>3 DEF TypeOK
<1> QED
  BY <1>1, <1>3, <1>4, <1>5, <1>6, LettingGoKeeps, OwnStep

(***************************************************************************)
(* Everything in the buffer of a worker that shuts down is received.       *)
(***************************************************************************)
LEMMA StopReceives ==
    ASSUME IInv, NEW w \in Worker, Stop(w)
    PROVE  /\ received' \in [Event -> Nat]
           /\ Received' = Received \cup Elements(buffer[w])
<1> DEFINE n(e) == Cardinality({i \in DOMAIN buffer[w] : buffer[w][i] = e})
<1>1. buffer[w] \in Seq(Event) /\ received \in [Event -> Nat]
  BY DEF IInv, TypeOK
<1>2. Elements(buffer[w]) \subseteq Event
  BY <1>1 DEF Elements
<1>3. received' = [e \in Event |-> received[e] + n(e)]
  BY DEF Stop
<1>4. ASSUME NEW e \in Event
      PROVE  n(e) \in Nat /\ (e \in Elements(buffer[w]) <=> n(e) > 0)
  <2>1. n(e) \in Nat /\ (e \in Elements(buffer[w]) => n(e) > 0)
    BY <1>1, OccurrencesCounted
  <2>2. ASSUME e \notin Elements(buffer[w])
        PROVE  n(e) = 0
    <3>1. {i \in DOMAIN buffer[w] : buffer[w][i] = e} = {}
      BY <2>2 DEF Elements
    <3> QED
      BY <3>1, FS_EmptySet
  <2> QED
    BY <2>1, <2>2
<1> HIDE DEF n
<1>5. \A e \in Event : received'[e] = received[e] + n(e)
  BY <1>3
<1>6. received' \in [Event -> Nat]
  BY <1>1, <1>3, <1>4
<1>7. \A e \in Event :
         received'[e] > 0 <=> (received[e] > 0 \/ e \in Elements(buffer[w]))
  BY <1>1, <1>4, <1>5
<1> QED
  BY <1>2, <1>6, <1>7 DEF Received

(***************************************************************************)
(* So a shutdown loses nothing.                                            *)
(***************************************************************************)
LEMMA StopKeeps ==
    ASSUME IInv, NEW w \in Worker, Stop(w)
    PROVE  StepOf(w) /\ IInv'
<1> USE DEF IInv
<1>1. /\ received' \in [Event -> Nat]
      /\ Received' = Received \cup Elements(buffer[w])
  BY StopReceives
<1>2. /\ StopWorker(w)
      /\ buffer' = [buffer EXCEPT ![w] = <<>>]
      /\ UNCHANGED <<inserted, marked, faults, skipped, lost>>
  BY DEF Stop
<1>3. buffer'[w] = <<>> /\ todo'[w] = {} /\ done'[w] = {}
  BY <1>2 DEF StopWorker, TypeOK
<1>4. StepOf(w)
  BY <1>1, <1>2 DEF StepOf, StopWorker, TypeOK
<1>5. TypeOK'
  <2>1. buffer' \in [Worker -> Seq(Event)]
    BY <1>2 DEF TypeOK
  <2> QED
    BY <1>1, <1>2, <2>1 DEF TypeOK, StopWorker
<1> QED
  BY <1>2, <1>3, <1>4, <1>5, LettingGoKeeps, OwnStep

(***************************************************************************)
(* A cancelled context and a restart change nothing about the events.      *)
(***************************************************************************)
LEMMA SignalKeeps ==
    ASSUME IInv, NEW w \in Worker, Cancel(w) \/ Restart(w)
    PROVE  StepOf(w) /\ IInv'
<1> USE DEF IInv
<1>1. UNCHANGED <<inserted, marked, todo, done, buffer, received, skipped, lost>>
  BY DEF Cancel, Restart
<1>2. StepOf(w)
  BY <1>1 DEF StepOf, Received
<1>3. TypeOK'
  <2>1. faults' \in 0 .. MaxFaults
    BY OutboxAssumption DEF TypeOK, Fault, Cancel, Restart
  <2> QED
    BY <1>1, <2>1 DEF TypeOK, Cancel, Restart
<1> QED
  BY <1>1, <1>2, <1>3, LettingGoKeeps, OwnStep

(***************************************************************************)
(* Every step keeps the invariant.                                         *)
(***************************************************************************)
LEMMA NextKeeps == IInv /\ [Next]_vars => IInv'
<1> SUFFICES ASSUME IInv, [Next]_vars
             PROVE  IInv'
  OBVIOUS
<1>1. CASE UNCHANGED vars
  <2>1. UNCHANGED <<inserted, marked, pc, todo, done, cancelled, buffer,
                    received, faults, skipped, lost>>
    BY <1>1 DEF vars, workers
  <2>2. TypeOK' /\ LossesHaveACause'
    BY <2>1 DEF IInv, TypeOK, LossesHaveACause, Received, Buffered
  <2>3. ASSUME NEW w \in Worker
        PROVE  WorkerOK(w)'
    <3>1. StepOf(w)
      BY <2>1 DEF StepOf, Received
    <3> QED
      BY <2>1, <3>1, LettingGoKeeps
  <2> QED
    BY <2>2, <2>3 DEF IInv
<1>2. ASSUME NEW e \in Event, Enqueue(e)
      PROVE  IInv'
  BY <1>2, EnqueueKeeps
<1>3. ASSUME NEW w \in Worker, Tick(w) \/ Flush(w) \/ Failure(w) \/ Restart(w)
      PROVE  IInv'
  BY <1>3, FetchKeeps, PublishKeeps, EndTickKeeps, StopKeeps, FlushKeeps,
     PublishFailsKeeps, DropKeeps, SignalKeeps DEF Tick, Failure
<1> QED
  BY <1>1, <1>2, <1>3 DEF Next

-------------------------------------------------------------------------------
(* The theorems *)

(***************************************************************************)
(* The invariant holds in every state, whatever fails and whenever.        *)
(***************************************************************************)
THEOREM OutboxInvariant == Spec => []IInv
BY InitHolds, NextKeeps, PTL DEF Spec

(***************************************************************************)
(* The state of the workers and of their clients has its type; a worker    *)
(* publishes exactly while events of its batch are left.                   *)
(***************************************************************************)
THEOREM OutboxTypeCorrect == Spec => []TypeOK
<1>1. IInv => TypeOK
  BY DEF IInv
<1> QED
  BY <1>1, OutboxInvariant, PTL

(***************************************************************************)
(* MarkPublished never marks an event that has not been handed to a        *)
(* client: what is marked was received, is on its way, or was lost with a  *)
(* client's buffer, for any number of workers, batch sizes and failures.   *)
(***************************************************************************)
THEOREM LossesExplained == Spec => []LossesHaveACause
<1>1. IInv => LossesHaveACause
  BY DEF IInv
<1> QED
  BY <1>1, OutboxInvariant, PTL

(***************************************************************************)
(* When an event arrives for the first time, it arrives from the buffer of *)
(* the worker that takes the step.                                         *)
(***************************************************************************)
LEMMA ArrivesFromBuffer ==
    ASSUME IInv, Next, NEW f \in Event, f \notin Received, f \in Received'
    PROVE  \E w \in Worker :
              /\ StepOf(w)
              /\ \E i \in DOMAIN buffer[w] :
                    /\ f = buffer[w][i]
                    /\ \A k \in DOMAIN buffer[w] : k < i => buffer[w][k] \in Received'
<1> USE DEF IInv
<1>1. ASSUME received' = received
      PROVE  FALSE
  BY <1>1 DEF Received
<1>2. PICK w \in Worker : Flush(w) \/ Stop(w)
  BY <1>1 DEF Next, Enqueue, Tick, Failure, Fetch, Publish, Mark, PublishFails,
              MarkFails, Disconnect, Crash, Cancel, Restart
<1>3. CASE Flush(w)
  <2>1. buffer[w] \in Seq(Event) /\ buffer[w] # <<>>
    BY <1>3 DEF TypeOK, Flush
  <2>2. /\ Head(buffer[w]) \in Event
        /\ 1 \in DOMAIN buffer[w]
        /\ Head(buffer[w]) = buffer[w][1]
    BY <2>1, ElementsOfTail
  <2>3. received' = [received EXCEPT ![Head(buffer[w])] = @ + 1]
    BY <1>3 DEF Flush
  <2>4. f = Head(buffer[w])
    BY <2>3 DEF Received, TypeOK
  <2>5. \A k \in DOMAIN buffer[w] : ~(k < 1)
    BY <2>1
  <2> QED
    BY <1>3, <2>2, <2>4, <2>5, FlushKeeps
<1>4. CASE Stop(w)
  <2>1. Received' = Received \cup Elements(buffer[w])
    BY <1>4, StopReceives
  <2>2. \E i \in DOMAIN buffer[w] : f = buffer[w][i]
    BY <2>1 DEF Elements
  <2>3. \A k \in DOMAIN buffer[w] : buffer[w][k] \in Received'
    BY <2>1 DEF Elements
  <2> QED
    BY <1>4, <2>2, <2>3, StopKeeps
<1> QED
  BY <1>2, <1>3, <1>4

(***************************************************************************)
(* A worker does not let an event be overtaken: the earlier events of its  *)
(* batch went to the buffer before, and those it did not fetch had been    *)
(* handed over.                                                            *)
(***************************************************************************)
THEOREM EventsNotOvertaken == Spec => NoOvertaking
<1> DEFINE idle == {w \in Worker : buffer'[w] = buffer[w]}
           Kept == \A f \in Event \ Received, e \in Event :
                      f \in Received' /\ e < f /\ CommittedBefore(e, f)
                          => \/ e \in Received' \cup skipped \cup lost
                             \/ \E w \in idle : e \in Elements(buffer[w])
<1>1. ASSUME IInv, [Next]_vars
      PROVE  [Kept]_vars
  <2> SUFFICES ASSUME Next, NEW f \in Event \ Received, NEW e \in Event,
                      f \in Received', e < f, CommittedBefore(e, f)
               PROVE  \/ e \in Received' \cup skipped \cup lost
                      \/ \E w \in idle : e \in Elements(buffer[w])
    BY <1>1
  <2>1. PICK w \in Worker :
           /\ StepOf(w)
           /\ \E i \in DOMAIN buffer[w] :
                 /\ f = buffer[w][i]
                 /\ \A k \in DOMAIN buffer[w] : k < i => buffer[w][k] \in Received'
    BY <1>1, ArrivesFromBuffer
  <2>2. PICK i \in DOMAIN buffer[w] :
           /\ f = buffer[w][i]
           /\ \A k \in DOMAIN buffer[w] : k < i => buffer[w][k] \in Received'
    BY <2>1
  <2>3. Earlier(e, buffer[w][i])
    BY <2>2 DEF Earlier
  <2>4. \/ e \in Gone \cup Elsewhere(w)
        \/ \E k \in DOMAIN buffer[w] : k < i /\ e = buffer[w][k]
    BY <1>1, <2>3 DEF IInv, WorkerOK, BufferOK
  <2>5. CASE e \in Gone
    BY <2>1, <2>5 DEF Gone, StepOf
  <2>6. CASE e \in Elsewhere(w)
    <3>1. PICK v \in Worker \ {w} : e \in Elements(buffer[v])
      BY <2>6 DEF Elsewhere
    <3>2. v \in idle
      BY <2>1 DEF StepOf
    <3> QED
      BY <3>1, <3>2
  <2>7. CASE \E k \in DOMAIN buffer[w] : k < i /\ e = buffer[w][k]
    BY <2>2, <2>7
  <2> QED
    BY <2>4, <2>5, <2>6, <2>7
<1> QED
  BY <1>1, OutboxInvariant, PTL DEF Spec, NoOvertaking

-------------------------------------------------------------------------------
(* Duplicates: how often an event is or may still be published *)

(* Where the event stands in the buffer of v, and in all buffers. *)
Places(v, e) == {i \in DOMAIN buffer[v] : buffer[v][i] = e}

Copies(e) == UNION {{v} \X Places(v, e) : v \in Worker}

(* The workers that have yet to publish it, from the batch they have. *)
Fetched(e) == {w \in Worker : e \in todo[w]}

(* The workers that could fetch it (again).  A worker whose context has    *)
(* been cancelled will not mark what it publishes.                         *)
MayFetch(e) ==
    {w \in Worker : e \notin marked /\ (cancelled[w] \/ e \notin todo[w] \cup done[w])}

CountOK(e) ==
    /\ IsFiniteSet(Copies(e))
    /\ received[e] + Cardinality(Copies(e)) + Cardinality(Fetched(e))
            + Cardinality(MayFetch(e)) <= Cardinality(Worker) + faults

(* Between its ticks a worker has no ids. *)
NoIdsIdle(w) == pc[w] \in {"down", "wait"} => done[w] = {}

CountInv ==
    /\ \A w \in Worker : NoIdsIdle(w)
    /\ \A e \in Event : CountOK(e)

Bit(b) == IF b THEN 1 ELSE 0

(* What a step of w adds to the count of e, less what it takes away, is    *)
(* paid for by a fault.                                                    *)
Balanced(w, e) ==
    /\ IsFiniteSet(Copies(e)')
    /\ received'[e] + Cardinality(Copies(e)') + Bit(w \in Fetched(e)')
               + Bit(w \in MayFetch(e)') + faults
           <= received[e] + Cardinality(Copies(e)) + Bit(w \in Fetched(e))
               + Bit(w \in MayFetch(e)) + faults'

(***************************************************************************)
(* If two sets of workers differ in w at most, so do their sizes.          *)
(***************************************************************************)
LEMMA OneWorkerCounted ==
    ASSUME NEW w \in Worker, NEW S \in SUBSET Worker, NEW T \in SUBSET Worker,
           S \subseteq T \cup {w}
    PROVE  /\ Cardinality(S) \in Nat /\ Cardinality(T) \in Nat
           /\ Cardinality(S) + Bit(w \in T) <= Cardinality(T) + Bit(w \in S)
<1>1. IsFiniteSet(S) /\ IsFiniteSet(T)
  BY OutboxAssumption, FS_Subset
<1>2. Cardinality(S) \in Nat /\ Cardinality(T) \in Nat
  BY <1>1, FS_CardinalityType
<1>3. /\ IsFiniteSet(S \ {w})
      /\ Cardinality(S \ {w}) = IF w \in S THEN Cardinality(S) - 1 ELSE Cardinality(S)
  BY <1>1, FS_RemoveElement
<1>4. /\ IsFiniteSet(T \ {w})
      /\ Cardinality(T \ {w}) = IF w \in T THEN Cardinality(T) - 1 ELSE Cardinality(T)
  BY <1>1, FS_RemoveElement
<1>5. S \ {w} \subseteq T \ {w}
  OBVIOUS
<1>6. Cardinality(S \ {w}) <= Cardinality(T \ {w})
  BY <1>4, <1>5, FS_Subset
<1> QED
  BY <1>2, <1>3, <1>4, <1>6 DEF Bit

(***************************************************************************)
(* A step of w that balances keeps the count of an event.                  *)
(***************************************************************************)
LEMMA CountKept ==
    ASSUME TypeOK, TypeOK', NEW w \in Worker, StepOf(w), NEW e \in Event,
           CountOK(e),
           marked \subseteq marked',
           \A v \in Worker \ {w} : cancelled'[v] = cancelled[v],
           Balanced(w, e)
    PROVE  CountOK(e)'
<1>1. Fetched(e)' \subseteq Fetched(e) \cup {w}
  BY DEF Fetched, StepOf
<1>2. MayFetch(e)' \subseteq MayFetch(e) \cup {w}
  BY DEF MayFetch, StepOf
<1>3. /\ Fetched(e) \in SUBSET Worker /\ Fetched(e)' \in SUBSET Worker
      /\ MayFetch(e) \in SUBSET Worker /\ MayFetch(e)' \in SUBSET Worker
  BY DEF Fetched, MayFetch
<1>4. /\ Cardinality(Fetched(e)') \in Nat /\ Cardinality(Fetched(e)) \in Nat
      /\ Cardinality(Fetched(e)') + Bit(w \in Fetched(e))
             <= Cardinality(Fetched(e)) + Bit(w \in Fetched(e)')
  BY <1>1, <1>3, OneWorkerCounted
<1>5. /\ Cardinality(MayFetch(e)') \in Nat /\ Cardinality(MayFetch(e)) \in Nat
      /\ Cardinality(MayFetch(e)') + Bit(w \in MayFetch(e))
             <= Cardinality(MayFetch(e)) + Bit(w \in MayFetch(e)')
  BY <1>2, <1>3, OneWorkerCounted
<1>6. /\ Cardinality(Copies(e)) \in Nat
      /\ Cardinality(Copies(e)') \in Nat
      /\ Cardinality(Worker) \in Nat
  BY FS_CardinalityType, OutboxAssumption DEF CountOK, Balanced
<1>7. /\ received[e] \in Nat /\ received'[e] \in Nat
      /\ faults \in Nat /\ faults' \in Nat
  BY OutboxAssumption DEF TypeOK
<1>8. /\ Bit(w \in Fetched(e)) \in Nat /\ Bit(w \in Fetched(e)') \in Nat
      /\ Bit(w \in MayFetch(e)) \in Nat /\ Bit(w \in MayFetch(e)') \in Nat
  BY DEF Bit
<1>9. received'[e] + Cardinality(Copies(e)') + Cardinality(Fetched(e)')
          + Cardinality(MayFetch(e)') <= Cardinality(Worker) + faults'
  BY <1>4, <1>5, <1>6, <1>7, <1>8 DEF CountOK, Balanced
<1> QED
  BY <1>9 DEF CountOK, Balanced

(***************************************************************************)
(* The first publication of every worker is counted from the start.        *)
(***************************************************************************)
LEMMA CountInit == Init => CountInv
<1> SUFFICES ASSUME Init, NEW e \in Event
             PROVE  CountOK(e)
  BY DEF Init, CountInv, NoIdsIdle
<1>1. \A w \in Worker : DOMAIN buffer[w] = {}
  BY DEF Init
<1>2. Copies(e) = {} /\ Fetched(e) = {}
  BY <1>1 DEF Init, Copies, Places, Fetched
<1>3. MayFetch(e) = Worker
  BY DEF Init, MayFetch
<1>4. /\ IsFiniteSet({}) /\ Cardinality({}) = 0
      /\ Cardinality(Worker) \in Nat
      /\ received[e] = 0 /\ faults = 0
  BY FS_EmptySet, FS_CardinalityType, OutboxAssumption DEF Init
<1> QED
  BY <1>2, <1>3, <1>4 DEF CountOK

(***************************************************************************)
(* What is in the buffers: a pair of a worker and a place.                 *)
(***************************************************************************)
LEMMA CopiesAre ==
    ASSUME NEW e
    PROVE  /\ \A p : p \in Copies(e) <=>
                  \E v, i : v \in Worker /\ i \in Places(v, e) /\ p = <<v, i>>
           /\ \A p : p \in Copies(e)' <=>
                  \E v, i : v \in Worker /\ i \in Places(v, e)' /\ p = <<v, i>>
BY DEF Copies

(***************************************************************************)
(* The copies in the buffers of the other workers do not move.             *)
(***************************************************************************)
LEMMA OtherPlaces ==
    ASSUME NEW w \in Worker, NEW e, NEW v \in Worker \ {w},
           buffer'[v] = buffer[v]
    PROVE  Places(v, e)' = Places(v, e)
BY DEF Places

(***************************************************************************)
(* Emptying a buffer makes no copies.                                      *)
(***************************************************************************)
LEMMA DropCounted ==
    ASSUME TypeOK, NEW w \in Worker, NEW e \in Event, IsFiniteSet(Copies(e)),
           buffer' = [buffer EXCEPT ![w] = <<>>]
    PROVE  /\ IsFiniteSet(Copies(e)')
           /\ Cardinality(Copies(e)') <= Cardinality(Copies(e))
           /\ Copies(e)' = {p \in Copies(e) : p[1] # w}
<1>1. Places(w, e)' = {}
  <2>1. DOMAIN buffer'[w] = {}
    BY DEF TypeOK
  <2> QED
    BY <2>1 DEF Places
<1>2. \A v \in Worker \ {w} : Places(v, e)' = Places(v, e)
  BY OtherPlaces DEF TypeOK
<1>3. Copies(e)' = {p \in Copies(e) : p[1] # w}
  <2>1. ASSUME NEW p \in Copies(e)'
        PROVE  p \in Copies(e) /\ p[1] # w
    <3>1. PICK v, i : v \in Worker /\ i \in Places(v, e)' /\ p = <<v, i>>
      BY CopiesAre
    <3>2. v # w
      BY <3>1, <1>1
    <3> QED
      BY <3>1, <3>2, <1>2, CopiesAre
  <2>2. ASSUME NEW p \in Copies(e), p[1] # w
        PROVE  p \in Copies(e)'
    <3>1. PICK v, i : v \in Worker /\ i \in Places(v, e) /\ p = <<v, i>>
      BY CopiesAre
    <3> QED
      BY <2>2, <3>1, <1>2, CopiesAre
  <2> QED
    BY <2>1, <2>2
<1> QED
  BY <1>3, FS_Subset

(***************************************************************************)
(* Publish makes one copy of the event it publishes.                       *)
(***************************************************************************)
LEMMA PublishCounted ==
    ASSUME TypeOK, NEW w \in Worker, NEW e \in Event, IsFiniteSet(Copies(e)),
           NEW n \in Event,
           buffer' = [buffer EXCEPT ![w] = Append(@, n)]
    PROVE  /\ IsFiniteSet(Copies(e)')
           /\ Cardinality(Copies(e)') <= Cardinality(Copies(e)) + Bit(e = n)
<1> DEFINE last == <<w, Len(buffer[w]) + 1>>
<1>1. buffer[w] \in Seq(Event) /\ buffer'[w] = Append(buffer[w], n)
  BY DEF TypeOK
<1>2. /\ DOMAIN buffer'[w] = DOMAIN buffer[w] \cup {Len(buffer[w]) + 1}
      /\ \A i \in DOMAIN buffer[w] : buffer'[w][i] = buffer[w][i]
      /\ buffer'[w][Len(buffer[w]) + 1] = n
  BY <1>1, ElementsOfAppend
<1>3. Places(w, e)' \subseteq Places(w, e) \cup (IF e = n THEN {Len(buffer[w]) + 1} ELSE {})
  BY <1>2 DEF Places
<1>4. \A v \in Worker \ {w} : Places(v, e)' = Places(v, e)
  BY OtherPlaces DEF TypeOK
<1>5. Copies(e)' \subseteq Copies(e) \cup (IF e = n THEN {last} ELSE {})
  <2>1. ASSUME NEW p \in Copies(e)'
        PROVE  p \in Copies(e) \cup (IF e = n THEN {last} ELSE {})
    <3>1. PICK v, i : v \in Worker /\ i \in Places(v, e)' /\ p = <<v, i>>
      BY CopiesAre
    <3>2. CASE v = w
      BY <3>1, <3>2, <1>3, CopiesAre
    <3>3. CASE v # w
      BY <3>1, <3>3, <1>4, CopiesAre
    <3> QED
      BY <3>2, <3>3
  <2> QED
    BY <2>1
<1> HIDE DEF last
<1>6. Cardinality(Copies(e)) \in Nat
  BY FS_CardinalityType
<1>7. CASE e # n
  <2>1. Copies(e)' \subseteq Copies(e)
    BY <1>5, <1>7
  <2>2. IsFiniteSet(Copies(e)') /\ Cardinality(Copies(e)') <= Cardinality(Copies(e))
    BY <2>1, FS_Subset
  <2> QED
    BY <2>2, <1>6, <1>7 DEF Bit
<1>8. CASE e = n
  <2>1. Copies(e)' \subseteq Copies(e) \cup {last}
    BY <1>5, <1>8
  <2>2. /\ IsFiniteSet(Copies(e) \cup {last})
        /\ Cardinality(Copies(e) \cup {last}) \in {Cardinality(Copies(e)), Cardinality(Copies(e)) + 1}
    BY FS_AddElement
  <2>3. /\ IsFiniteSet(Copies(e)')
        /\ Cardinality(Copies(e)') <= Cardinality(Copies(e) \cup {last})
    BY <2>1, <2>2, FS_Subset
  <2>4. Cardinality(Copies(e)') \in Nat
    BY <2>3, FS_CardinalityType
  <2> QED
    BY <2>2, <2>3, <2>4, <1>6, <1>8 DEF Bit
<1> QED
  BY <1>7, <1>8

(***************************************************************************)
(* Flush turns one copy in a buffer into one that has arrived.             *)
(***************************************************************************)
LEMMA FlushCounted ==
    ASSUME TypeOK, NEW w \in Worker, NEW e \in Event, IsFiniteSet(Copies(e)),
           Flush(w)
    PROVE  /\ IsFiniteSet(Copies(e)')
           /\ received'[e] + Cardinality(Copies(e)') <= received[e] + Cardinality(Copies(e))
<1> DEFINE first == <<w, 1>>
           Moved(p) == IF p[1] = w THEN <<w, p[2] + 1>> ELSE p
           up == [p \in Copies(e)' |-> Moved(p)]
           rest == Copies(e) \ {first}
<1>1. buffer[w] \in Seq(Event) /\ buffer[w] # <<>> /\ buffer'[w] = Tail(buffer[w])
  BY DEF TypeOK, Flush
<1>2. /\ 1 \in DOMAIN buffer[w]
      /\ Head(buffer[w]) = buffer[w][1]
      /\ Head(buffer[w]) \in Event
      /\ DOMAIN buffer'[w] = {i \in Nat \ {0} : i + 1 \in DOMAIN buffer[w]}
      /\ \A i \in DOMAIN buffer'[w] : buffer'[w][i] = buffer[w][i + 1]
  BY <1>1, ElementsOfTail
<1>3. \A i \in Places(w, e)' : i \in Nat \ {0} /\ i + 1 \in Places(w, e)
  BY <1>2 DEF Places
<1>4. \A v \in Worker \ {w} : Places(v, e)' = Places(v, e)
  BY OtherPlaces DEF TypeOK, Flush
<1>5. ASSUME NEW p \in Copies(e)'
      PROVE  /\ Moved(p) \in rest
             /\ \E v, i :
                   /\ v \in Worker /\ i \in Places(v, e)'
                   /\ p = <<v, i>>
                   /\ v = w => i \in Nat
                   /\ Moved(p) = IF v = w THEN <<w, i + 1>> ELSE <<v, i>>
  <2>1. PICK v, i : v \in Worker /\ i \in Places(v, e)' /\ p = <<v, i>>
    BY CopiesAre
  <2>2. CASE v = w
    <3>1. i \in Nat \ {0} /\ i + 1 \in Places(w, e) /\ i + 1 # 1
      BY <2>1, <2>2, <1>3
    <3>2. <<w, i + 1>> \in Copies(e) /\ Moved(p) = <<w, i + 1>>
      BY <3>1, <2>1, <2>2, CopiesAre
    <3> QED
      BY <2>1, <2>2, <3>1, <3>2
  <2>3. CASE v # w
    <3>1. p \in Copies(e) /\ Moved(p) = p /\ p # first
      BY <2>1, <2>3, <1>4, CopiesAre
    <3> QED
      BY <2>1, <2>3, <3>1
  <2> QED
    BY <2>2, <2>3
<1>6. ASSUME NEW p \in Copies(e)', NEW q \in Copies(e)', Moved(p) = Moved(q)
      PROVE  p = q
  <2> HIDE DEF Moved
  <2>1. PICK v, i :
           /\ v \in Worker /\ i \in Places(v, e)'
           /\ p = <<v, i>> /\ (v = w => i \in Nat)
           /\ Moved(p) = IF v = w THEN <<w, i + 1>> ELSE <<v, i>>
    BY <1>5
  <2>2. PICK u, j :
           /\ u \in Worker /\ j \in Places(u, e)'
           /\ q = <<u, j>> /\ (u = w => j \in Nat)
           /\ Moved(q) = IF u = w THEN <<w, j + 1>> ELSE <<u, j>>
    BY <1>5
  <2>3. u = v /\ (IF u = w THEN i + 1 = j + 1 ELSE i = j)
    BY <2>1, <2>2, <1>6
  <2> QED
    BY <2>1, <2>2, <2>3
<1>7. up \in [Copies(e)' -> rest]
  BY <1>5
<1>8. up \in Injection(Copies(e)', rest)
  BY <1>6, <1>7, Fun_IsInj
<1>9. /\ IsFiniteSet(rest)
      /\ Cardinality(rest) = IF first \in Copies(e) THEN Cardinality(Copies(e)) - 1
                             ELSE Cardinality(Copies(e))
  BY FS_RemoveElement
<1>10. IsFiniteSet(Copies(e)') /\ Cardinality(Copies(e)') <= Cardinality(rest)
  <2> HIDE DEF up, rest
  <2> QED
    BY <1>8, <1>9, FS_Injection
<1>11. received'[e] = received[e] + Bit(e = Head(buffer[w])) /\ received[e] \in Nat
  BY <1>2 DEF Flush, TypeOK, Bit
<1>12. e = Head(buffer[w]) => first \in Copies(e)
  BY <1>2, CopiesAre DEF Places
<1>13. Cardinality(Copies(e)) \in Nat /\ Cardinality(Copies(e)') \in Nat
  BY <1>10, FS_CardinalityType
<1> HIDE DEF first, rest
<1> QED
  BY <1>9, <1>10, <1>11, <1>12, <1>13 DEF Bit

(***************************************************************************)
(* Close turns all the copies in a buffer into ones that have arrived.     *)
(***************************************************************************)
LEMMA StopCounted ==
    ASSUME TypeOK, NEW w \in Worker, NEW e \in Event, IsFiniteSet(Copies(e)),
           Stop(w)
    PROVE  /\ IsFiniteSet(Copies(e)')
           /\ received'[e] + Cardinality(Copies(e)') <= received[e] + Cardinality(Copies(e))
<1> DEFINE at == Places(w, e)
           here == {w} \X at
           pair == [i \in at |-> <<w, i>>]
<1>1. buffer[w] \in Seq(Event)
  BY DEF TypeOK
<1>2. IsFiniteSet(at) /\ Cardinality(at) \in Nat
  BY <1>1, OccurrencesCounted DEF Places
<1>3. received'[e] = received[e] + Cardinality(at) /\ received[e] \in Nat
  BY DEF Stop, TypeOK, Places
<1>4. /\ IsFiniteSet(Copies(e)')
      /\ Copies(e)' = {p \in Copies(e) : p[1] # w}
  BY DropCounted DEF Stop
<1>5. here \subseteq Copies(e)
  BY DEF Copies
<1>6. pair \in Injection(at, here)
  <2>1. pair \in [at -> here] /\ \A i, j \in at : pair[i] = pair[j] => i = j
    OBVIOUS
  <2> HIDE DEF at, here, pair
  <2> QED
    BY <2>1, Fun_IsInj
<1>7. Copies(e)' \cap here = {}
  BY <1>4
<1>8. Copies(e)' \cup here \subseteq Copies(e)
  BY <1>4, <1>5
<1> HIDE DEF at, here, pair
<1>9. IsFiniteSet(here)
  BY <1>5, FS_Subset
<1>10. Cardinality(at) <= Cardinality(here)
  BY <1>6, <1>9, FS_Injection
<1>11. Cardinality(Copies(e)' \cup here)
          = Cardinality(Copies(e)') + Cardinality(here) - Cardinality({})
  BY <1>4, <1>7, <1>9, FS_Union
<1>12. Cardinality(Copies(e)' \cup here) <= Cardinality(Copies(e))
  BY <1>8, FS_Subset
<1>13. /\ Cardinality(Copies(e)) \in Nat /\ Cardinality(Copies(e)') \in Nat
       /\ Cardinality(here) \in Nat /\ Cardinality({}) = 0
  BY <1>4, <1>9, FS_CardinalityType, FS_EmptySet
<1> QED
  BY <1>2, <1>3, <1>4, <1>10, <1>11, <1>12, <1>13

(***************************************************************************)
(* The copies after a step, when the step does not touch the buffers.      *)
(***************************************************************************)
LEMMA NumbersAre ==
    ASSUME TypeOK, CountInv, NEW e \in Event
    PROVE  /\ IsFiniteSet(Copies(e))
           /\ Cardinality(Copies(e)) \in Nat
           /\ received[e] \in Nat
           /\ faults \in Nat
           /\ buffer' = buffer => Copies(e)' = Copies(e)
<1>1. IsFiniteSet(Copies(e))
  BY DEF CountInv, CountOK
<1>2. Cardinality(Copies(e)) \in Nat
  BY <1>1, FS_CardinalityType
<1>3. buffer' = buffer => Copies(e)' = Copies(e)
  BY DEF Copies, Places
<1> QED
  BY <1>1, <1>2, <1>3, OutboxAssumption DEF TypeOK

(***************************************************************************)
(* A fetch uses up the worker's right to fetch.                            *)
(***************************************************************************)
LEMMA FetchBalanced ==
    ASSUME IInv, CountInv, NEW w \in Worker, Fetch(w), NEW e \in Event
    PROVE  Balanced(w, e)
<1> DEFINE batch == Oldest(Pending, BatchSize[w])
<1>1. /\ pc[w] = "wait" /\ ~cancelled[w]
      /\ UNCHANGED <<marked, done, cancelled, buffer, received, faults>>
  BY DEF Fetch
<1>2. todo'[w] = batch /\ todo[w] = {} /\ done[w] = {}
  BY <1>1 DEF Fetch, IInv, TypeOK, CountInv, NoIdsIdle
<1>3. batch \cap marked = {}
  BY DEF Oldest, Pending
<1> HIDE DEF batch
<1>4. w \notin Fetched(e) /\ (w \in Fetched(e)' <=> e \in batch)
  BY <1>2 DEF Fetched
<1>5. /\ w \in MayFetch(e) <=> e \notin marked
      /\ w \in MayFetch(e)' <=> e \notin marked /\ e \notin batch
  BY <1>1, <1>2 DEF MayFetch
<1>6. Bit(w \in Fetched(e)') + Bit(w \in MayFetch(e)')
          = Bit(w \in Fetched(e)) + Bit(w \in MayFetch(e))
  BY <1>3, <1>4, <1>5 DEF Bit
<1>7. /\ Bit(w \in Fetched(e)) \in Nat /\ Bit(w \in Fetched(e)') \in Nat
      /\ Bit(w \in MayFetch(e)) \in Nat /\ Bit(w \in MayFetch(e)') \in Nat
  BY DEF Bit
<1> QED
  BY <1>1, <1>6, <1>7, NumbersAre DEF Balanced, IInv

(***************************************************************************)
(* A worker may fetch an event again that it has published only after a    *)
(* failed mark, a crash or a cancelled context: each is a fault.           *)
(***************************************************************************)
LEMMA FaultBalanced ==
    ASSUME IInv, CountInv, NEW w \in Worker, NEW e \in Event, Fault,
           received' = received,
           IsFiniteSet(Copies(e)'),
           Cardinality(Copies(e)') <= Cardinality(Copies(e)),
           todo'[w] \subseteq todo[w]
    PROVE  Balanced(w, e)
<1>1. faults' = faults + 1
  BY DEF Fault
<1>2. Bit(w \in Fetched(e)') <= Bit(w \in Fetched(e))
  BY DEF Bit, Fetched
<1>3. Bit(w \in MayFetch(e)') <= Bit(w \in MayFetch(e)) + 1
  BY DEF Bit
<1>4. /\ Bit(w \in Fetched(e)) \in Nat /\ Bit(w \in Fetched(e)') \in Nat
      /\ Bit(w \in MayFetch(e)) \in Nat /\ Bit(w \in MayFetch(e)') \in Nat
  BY DEF Bit
<1>5. Cardinality(Copies(e)') \in Nat
  BY FS_CardinalityType
<1> QED
  BY <1>1, <1>2, <1>3, <1>4, <1>5, NumbersAre DEF Balanced, IInv

(***************************************************************************)
(* The event that leaves the batch gets into the buffer, or its Publish    *)
(* has failed.                                                             *)
(***************************************************************************)
LEMMA PublishBalanced ==
    ASSUME IInv, CountInv, NEW w \in Worker, Publish(w) \/ PublishFails(w),
           NEW e \in Event
    PROVE  Balanced(w, e)
<1> USE DEF IInv
<1>1. PICK n \in todo[w] :
         /\ Advance(w, n)
         /\ UNCHANGED <<inserted, marked, cancelled, received, lost>>
         /\ \/ /\ buffer' = [buffer EXCEPT ![w] = Append(@, n)]
               /\ done' = [done EXCEPT ![w] = @ \cup {n}]
               /\ faults' = faults
            \/ UNCHANGED <<done, buffer>> /\ Fault
  BY DEF Publish, PublishFails
<1>2. n \in Event
  BY DEF TypeOK
<1>3. todo'[w] = todo[w] \ {n}
  BY <1>1 DEF Advance, TypeOK
<1>4. /\ w \in Fetched(e) <=> e \in todo[w]
      /\ w \in Fetched(e)' <=> e \in todo[w] /\ e # n
  BY <1>3 DEF Fetched
<1>5. CASE buffer' = [buffer EXCEPT ![w] = Append(@, n)] /\ faults' = faults
           /\ done' = [done EXCEPT ![w] = @ \cup {n}]
  <2>1. /\ IsFiniteSet(Copies(e)')
        /\ Cardinality(Copies(e)') <= Cardinality(Copies(e)) + Bit(e = n)
    BY <1>2, <1>5, NumbersAre, PublishCounted
  <2>2. Cardinality(Copies(e)') \in Nat
    BY <2>1, FS_CardinalityType
  <2>3. done'[w] = done[w] \cup {n}
    BY <1>5 DEF TypeOK
  <2>4. w \in MayFetch(e)' <=> w \in MayFetch(e)
    BY <1>1, <1>3, <2>3 DEF MayFetch
  <2>5. Bit(w \in Fetched(e)') + Bit(e = n) = Bit(w \in Fetched(e))
    BY <1>4 DEF Bit
  <2>6. /\ Bit(w \in Fetched(e)) \in Nat /\ Bit(w \in Fetched(e)') \in Nat
        /\ Bit(w \in MayFetch(e)) \in Nat /\ Bit(e = n) \in Nat
        /\ Bit(w \in MayFetch(e)') = Bit(w \in MayFetch(e))
    BY <2>4 DEF Bit
  <2>7. /\ Cardinality(Copies(e)) \in Nat /\ received[e] \in Nat /\ faults \in Nat
        /\ received'[e] = received[e] /\ faults' = faults
    BY <1>1, <1>5, NumbersAre
  <2>8. Cardinality(Copies(e)') + Bit(w \in Fetched(e)')
            <= Cardinality(Copies(e)) + Bit(w \in Fetched(e))
    BY <2>1, <2>2, <2>5, <2>6, <2>7
  <2> QED
    BY <2>1, <2>2, <2>6, <2>7, <2>8 DEF Balanced
<1>6. CASE UNCHANGED <<done, buffer>> /\ Fault
  BY <1>1, <1>3, <1>6, NumbersAre, FaultBalanced
<1> QED
  BY <1>1, <1>5, <1>6

(***************************************************************************)
(* Without a fault nobody gets the right to fetch an event back.           *)
(***************************************************************************)
LEMMA QuietBalanced ==
    ASSUME IInv, CountInv, NEW w \in Worker, NEW e \in Event,
           faults' = faults,
           IsFiniteSet(Copies(e)'),
           received'[e] \in Nat,
           received'[e] + Cardinality(Copies(e)') <= received[e] + Cardinality(Copies(e)),
           todo'[w] \subseteq todo[w],
           w \in MayFetch(e)' => w \in MayFetch(e)
    PROVE  Balanced(w, e)
<1>1. Bit(w \in Fetched(e)') <= Bit(w \in Fetched(e))
  BY DEF Bit, Fetched
<1>2. Bit(w \in MayFetch(e)') <= Bit(w \in MayFetch(e))
  BY DEF Bit
<1>3. /\ Bit(w \in Fetched(e)) \in Nat /\ Bit(w \in Fetched(e)') \in Nat
      /\ Bit(w \in MayFetch(e)) \in Nat /\ Bit(w \in MayFetch(e)') \in Nat
  BY DEF Bit
<1>4. Cardinality(Copies(e)') \in Nat
  BY FS_CardinalityType
<1> QED
  BY <1>1, <1>2, <1>3, <1>4, NumbersAre DEF Balanced, IInv

(***************************************************************************)
(* Every step of a worker balances.                                        *)
(***************************************************************************)
LEMMA StepsBalance ==
    ASSUME IInv, IInv', CountInv, NEW w \in Worker, NEW e \in Event,
           Tick(w) \/ Flush(w) \/ Failure(w) \/ Restart(w)
    PROVE  Balanced(w, e)
<1> USE DEF IInv
<1>0. received'[e] \in Nat
  BY DEF TypeOK
<1>1. /\ IsFiniteSet(Copies(e))
      /\ Cardinality(Copies(e)) \in Nat
      /\ received[e] \in Nat
      /\ buffer' = buffer => Copies(e)' = Copies(e)
  BY NumbersAre
<1>2. CASE Mark(w)
  <2>1. UNCHANGED <<faults, buffer, received, todo, cancelled>>
    BY <1>2 DEF Mark
  <2>2. w \in MayFetch(e)' => w \in MayFetch(e)
    BY <1>2, <2>1 DEF Mark, MayFetch
  <2> QED
    BY <1>0, <1>1, <2>1, <2>2, QuietBalanced
<1>3. CASE MarkFails(w)
  <2>1. UNCHANGED <<buffer, received, todo, cancelled, marked>>
    BY <1>3 DEF MarkFails
  <2>2. CASE cancelled[w]
    <3>1. faults' = faults
      BY <1>3, <2>2 DEF MarkFails
    <3>2. w \in MayFetch(e)' => w \in MayFetch(e)
      BY <2>1, <2>2 DEF MayFetch
    <3> QED
      BY <1>0, <1>1, <2>1, <3>1, <3>2, QuietBalanced
  <2>3. CASE ~cancelled[w]
    <3>1. Fault
      BY <1>3, <2>3 DEF MarkFails
    <3> QED
      BY <1>1, <2>1, <3>1, FaultBalanced
  <2> QED
    BY <2>2, <2>3
<1>4. CASE Flush(w)
  <2>1. /\ IsFiniteSet(Copies(e)')
        /\ received'[e] + Cardinality(Copies(e)') <= received[e] + Cardinality(Copies(e))
    BY <1>1, <1>4, FlushCounted
  <2>2. UNCHANGED <<faults, todo, done, cancelled, marked>>
    BY <1>4 DEF Flush, workers
  <2>3. w \in MayFetch(e)' => w \in MayFetch(e)
    BY <2>2 DEF MayFetch
  <2> QED
    BY <1>0, <2>1, <2>2, <2>3, QuietBalanced
<1>5. CASE Stop(w)
  <2>1. /\ IsFiniteSet(Copies(e)')
        /\ received'[e] + Cardinality(Copies(e)') <= received[e] + Cardinality(Copies(e))
    BY <1>1, <1>5, StopCounted
  <2>2. faults' = faults /\ marked' = marked /\ todo'[w] = {} /\ cancelled[w]
    BY <1>5 DEF Stop, StopWorker, TypeOK
  <2>3. w \in MayFetch(e)' => w \in MayFetch(e)
    BY <2>2 DEF MayFetch
  <2> QED
    BY <1>0, <2>1, <2>2, <2>3, QuietBalanced
<1>6. CASE Disconnect(w) \/ Crash(w)
  <2>1. /\ Fault
        /\ received' = received
        /\ buffer' = [buffer EXCEPT ![w] = <<>>]
    BY <1>6 DEF Disconnect, Crash, DropBuffer
  <2>2. todo'[w] \subseteq todo[w]
    BY <1>6 DEF Disconnect, Crash, StopWorker, workers, TypeOK
  <2>3. IsFiniteSet(Copies(e)') /\ Cardinality(Copies(e)') <= Cardinality(Copies(e))
    BY <1>1, <2>1, DropCounted
  <2> QED
    BY <2>1, <2>2, <2>3, FaultBalanced
<1>7. CASE Cancel(w)
  <2>1. Fault /\ UNCHANGED <<received, buffer, todo>>
    BY <1>7 DEF Cancel
  <2> QED
    BY <1>1, <2>1, FaultBalanced
<1>8. CASE Restart(w)
  <2>1. UNCHANGED <<faults, buffer, received, todo, done, cancelled, marked>>
    BY <1>8 DEF Restart
  <2>2. w \in MayFetch(e)' => w \in MayFetch(e)
    BY <2>1 DEF MayFetch
  <2> QED
    BY <1>0, <1>1, <2>1, <2>2, QuietBalanced
<1> QED
  BY <1>2, <1>3, <1>4, <1>5, <1>6, <1>7, <1>8, FetchBalanced, PublishBalanced
     DEF Tick, Failure

(***************************************************************************)
(* Every step keeps the count.                                             *)
(***************************************************************************)
LEMMA CountNext == IInv /\ IInv' /\ CountInv /\ [Next]_vars => CountInv'
<1> SUFFICES ASSUME IInv, IInv', CountInv, [Next]_vars
             PROVE  CountInv'
  OBVIOUS
<1>1. CASE UNCHANGED <<pc, marked, todo, done, cancelled, buffer, received, faults>>
  <2>1. \A w \in Worker : NoIdsIdle(w)'
    BY <1>1 DEF CountInv, NoIdsIdle
  <2>2. ASSUME NEW e \in Event
        PROVE  CountOK(e)'
    <3>1. /\ Copies(e)' = Copies(e)
          /\ Fetched(e)' = Fetched(e)
          /\ MayFetch(e)' = MayFetch(e)
          /\ received'[e] = received[e] /\ faults' = faults
      BY <1>1 DEF Copies, Places, Fetched, MayFetch
    <3> QED
      BY <3>1 DEF CountInv, CountOK
  <2> QED
    BY <2>1, <2>2 DEF CountInv
<1>2. ASSUME NEW w \in Worker, Tick(w) \/ Flush(w) \/ Failure(w) \/ Restart(w)
      PROVE  CountInv'
  <2>1. StepOf(w)
    BY <1>2, FetchKeeps, PublishKeeps, EndTickKeeps, StopKeeps, FlushKeeps,
       PublishFailsKeeps, DropKeeps, SignalKeeps DEF Tick, Failure
  <2>2. /\ \A v \in Worker \ {w} : cancelled'[v] = cancelled[v] /\ pc'[v] = pc[v]
        /\ marked \subseteq marked'
    BY <1>2 DEF IInv, TypeOK, Tick, Fetch, Publish, Mark, Stop, Flush, Failure,
                PublishFails, MarkFails, Disconnect, Crash, Cancel, Restart,
                Advance, EndTick, StopWorker, workers
  <2>3. NoIdsIdle(w)'
    BY <1>2 DEF IInv, TypeOK, CountInv, NoIdsIdle, Tick, Fetch, Publish, IsNext,
                Mark, Stop, Flush, Failure, PublishFails, MarkFails, Disconnect,
                Crash, Cancel, Restart, Advance, EndTick, StopWorker, workers
  <2>4. \A v \in Worker : NoIdsIdle(v)'
    BY <2>1, <2>2, <2>3 DEF CountInv, NoIdsIdle, StepOf
  <2>5. ASSUME NEW e \in Event
        PROVE  CountOK(e)'
    BY <1>2, <2>1, <2>2, StepsBalance, CountKept DEF CountInv, IInv
  <2> QED
    BY <2>4, <2>5 DEF CountInv
<1> QED
  BY <1>1, <1>2 DEF Next, Enqueue, vars, workers

(***************************************************************************)
(* An event is received at most once per worker and once more for every    *)
(* failure and shutdown: a worker comes back to what it has published only *)
(* after one of them.                                                      *)
(***************************************************************************)
THEOREM DuplicatesExplained == Spec => []DuplicatesHaveACause
<1>1. ASSUME IInv, CountInv, NEW e \in Event
      PROVE  received[e] <= Cardinality(Worker) + faults
  <2>1. IsFiniteSet(Fetched(e)) /\ IsFiniteSet(MayFetch(e))
    BY OutboxAssumption, FS_Subset DEF Fetched, MayFetch
  <2>2. /\ Cardinality(Fetched(e)) \in Nat /\ Cardinality(MayFetch(e)) \in Nat
        /\ Cardinality(Worker) \in Nat
    BY <2>1, OutboxAssumption, FS_CardinalityType
  <2> QED
    BY <1>1, <2>2, NumbersAre DEF IInv, CountInv, CountOK
<1>2. IInv /\ CountInv => DuplicatesHaveACause
  BY <1>1 DEF DuplicatesHaveACause
<1> QED
  BY <1>2, CountInit, CountNext, OutboxInvariant, PTL DEF Spec
===============================================================================
