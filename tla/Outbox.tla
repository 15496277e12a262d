-------------------------------- MODULE Outbox --------------------------------
(***************************************************************************)
(* The way of an event from its row in outbox_events to the subscribers of *)
(* the NATS subject: the polling loop of events.OutboxWorker, run by       *)
(* cmd/server and by cmd/worker, the NATS client behind Publisher, and     *)
(* what crashes, shutdowns and failing calls do to them.                   *)
(*                                                                         *)
(* An event is the number of its place in the order of occurred_at.  Its   *)
(* row appears when the service's transaction commits, which may be in     *)
(* another order.                                                          *)
(***************************************************************************)
EXTENDS Naturals, Sequences, FiniteSets

CONSTANTS
    Event,          \* the events, in the order of occurred_at
    Worker,         \* the processes that run an OutboxWorker
    BatchSize,      \* each worker's limit of FetchPending (OUTBOX_BATCH_SIZE)
    MaxFaults       \* bound on failures and shutdowns

(* BatchSize <= 0 is replaced by 50 in Start. *)
ASSUME OutboxAssumption ==
    /\ Event \subseteq Nat
    /\ IsFiniteSet(Worker)
    /\ BatchSize \in [Worker -> Nat \ {0}]
    /\ MaxFaults \in Nat

VARIABLES
    inserted,   \* the rows of outbox_events, in the order of the commits
    marked,     \* those with published_at set
    pc,         \* what each worker does next
    todo,       \* fetched events the worker has not come to yet
    done,       \* ids it has collected for MarkPublished
    cancelled,  \* has the worker's context been cancelled (SIGTERM)?
    buffer,     \* what its NATS client has accepted and not sent
    received,   \* how often the NATS server has got each event
    faults,     \* failures and shutdowns so far
    skipped,    \* history: events a Publish call has failed for
    lost        \* history: events lost with a client's buffer

workers == <<pc, todo, done, cancelled>>
vars == <<inserted, marked, workers, buffer, received, faults, skipped, lost>>

Elements(seq) == {seq[i] : i \in DOMAIN seq}

Received == {e \in Event : received[e] > 0}

Init ==
    /\ inserted = <<>>
    /\ marked = {}
    /\ pc = [w \in Worker |-> "wait"]
    /\ todo = [w \in Worker |-> {}]
    /\ done = [w \in Worker |-> {}]
    /\ cancelled = [w \in Worker |-> FALSE]
    /\ buffer = [w \in Worker |-> <<>>]
    /\ received = [e \in Event |-> 0]
    /\ faults = 0
    /\ skipped = {}
    /\ lost = {}

TypeOK ==
    /\ inserted \in Seq(Event)
    /\ marked \subseteq Elements(inserted)
    /\ pc \in [Worker -> {"down", "wait", "publish", "mark"}]
    /\ todo \in [Worker -> SUBSET Event]
    /\ \A w \in Worker : todo[w] # {} <=> pc[w] = "publish"
    /\ done \in [Worker -> SUBSET Event]
    /\ cancelled \in [Worker -> BOOLEAN]
    /\ buffer \in [Worker -> Seq(Event)]
    /\ received \in [Event -> Nat]
    /\ faults \in 0 .. MaxFaults
    /\ skipped \subseteq Event
    /\ lost \subseteq Event

-------------------------------------------------------------------------------
(* EnqueueEvent and the commit that follows it. *)
Enqueue(e) ==
    /\ e \notin Elements(inserted)
    /\ inserted' = Append(inserted, e)
    /\ UNCHANGED <<marked, workers, buffer, received, faults, skipped, lost>>

Pending == Elements(inserted) \ marked

(* Newest first. *)
OldestBug(S, limit) ==
    {e \in S : Cardinality({f \in S : f > e}) < limit}

(* ORDER BY occurred_at LIMIT *)
Oldest(S, limit) ==
    {e \in S : Cardinality({f \in S : f < e}) < limit}

(* A tick on which FetchPending returns events.  One on which it fails or  *)
(* finds none changes nothing.                                             *)
Fetch(w) ==
    /\ pc[w] = "wait"
    /\ ~cancelled[w]
    /\ Pending # {}
    /\ pc' = [pc EXCEPT ![w] = "publish"]
    /\ todo' = [todo EXCEPT ![w] = Oldest(Pending, BatchSize[w])]
    /\ UNCHANGED <<inserted, marked, done, cancelled, buffer, received, faults,
                   skipped, lost>>

(* The loop over evts: the batch in order, then MarkPublished. *)
IsNext(w, e) ==
    /\ pc[w] = "publish"
    /\ e \in todo[w]
    /\ \A f \in todo[w] : e <= f

(* Looks whether the batch was empty before this event. *)
AdvanceBug(w, e) ==
    /\ todo' = [todo EXCEPT ![w] = @ \ {e}]
    /\ pc' = [pc EXCEPT ![w] = IF todo[w] = {} THEN "mark" ELSE @]

Advance(w, e) ==
    /\ todo' = [todo EXCEPT ![w] = @ \ {e}]
    /\ pc' = [pc EXCEPT ![w] = IF todo[w] = {e} THEN "mark" ELSE @]

(* nc.Publish copies the message to the client's buffer; the context is    *)
(* not looked at.                                                          *)
Publish(w) ==
    \E e \in todo[w] :
        /\ IsNext(w, e)
        /\ Advance(w, e)
        /\ buffer' = [buffer EXCEPT ![w] = Append(@, e)]
        /\ done' = [done EXCEPT ![w] = @ \cup {e}]
        /\ UNCHANGED <<inserted, marked, cancelled, received, faults, skipped,
                       lost>>

Fault == faults < MaxFaults /\ faults' = faults + 1

(* Collects the id before it looks at the error. *)
PublishFailsBug(w) ==
    \E e \in todo[w] :
        /\ IsNext(w, e)
        /\ Advance(w, e)
        /\ Fault
        /\ skipped' = skipped \cup {e}
        /\ done' = [done EXCEPT ![w] = @ \cup {e}]
        /\ UNCHANGED <<inserted, marked, cancelled, buffer, received, lost>>

(* nc.Publish returns an error (the reconnect buffer is full, the          *)
(* connection closed): the event stays pending, the next one is tried.     *)
PublishFails(w) ==
    \E e \in todo[w] :
        /\ IsNext(w, e)
        /\ Advance(w, e)
        /\ Fault
        /\ skipped' = skipped \cup {e}
        /\ UNCHANGED <<inserted, marked, done, cancelled, buffer, received,
                       lost>>

(* The end of a tick. *)
EndTick(w) ==
    /\ pc' = [pc EXCEPT ![w] = "wait"]
    /\ done' = [done EXCEPT ![w] = {}]

(* Leaves out the last id. *)
MarkBug(w) ==
    /\ pc[w] = "mark"
    /\ ~cancelled[w]
    /\ marked' = marked \cup {e \in done[w] : \E f \in done[w] : e < f}
    /\ EndTick(w)
    /\ UNCHANGED <<inserted, todo, cancelled, buffer, received, faults,
                   skipped, lost>>

(* MarkPublished; without ids it does nothing. *)
Mark(w) ==
    /\ pc[w] = "mark"
    /\ ~cancelled[w]
    /\ marked' = marked \cup done[w]
    /\ EndTick(w)
    /\ UNCHANGED <<inserted, todo, cancelled, buffer, received, faults,
                   skipped, lost>>

(* MarkPublished fails; it always does once the context is cancelled,      *)
(* though the loop above has gone on publishing.                           *)
MarkFails(w) ==
    /\ pc[w] = "mark"
    /\ IF cancelled[w] THEN UNCHANGED faults ELSE Fault
    /\ EndTick(w)
    /\ UNCHANGED <<inserted, marked, todo, cancelled, buffer, received,
                   skipped, lost>>

-------------------------------------------------------------------------------
(* The NATS client sends the head of its buffer. *)
Flush(w) ==
    /\ buffer[w] # <<>>
    /\ received' = [received EXCEPT ![Head(buffer[w])] = @ + 1]
    /\ buffer' = [buffer EXCEPT ![w] = Tail(@)]
    /\ UNCHANGED <<inserted, marked, workers, faults, skipped, lost>>

DropBuffer(w) ==
    /\ lost' = lost \cup Elements(buffer[w])
    /\ buffer' = [buffer EXCEPT ![w] = <<>>]

(* The connection breaks with messages under way. *)
Disconnect(w) ==
    /\ pc[w] # "down"
    /\ buffer[w] # <<>>
    /\ Fault
    /\ DropBuffer(w)
    /\ UNCHANGED <<inserted, marked, workers, received, skipped>>

StopWorker(w) ==
    /\ pc' = [pc EXCEPT ![w] = "down"]
    /\ todo' = [todo EXCEPT ![w] = {}]
    /\ done' = [done EXCEPT ![w] = {}]
    /\ cancelled' = [cancelled EXCEPT ![w] = FALSE]

(* The process is killed, or ends in log.Fatalf, which runs no defer. *)
Crash(w) ==
    /\ pc[w] # "down"
    /\ Fault
    /\ StopWorker(w)
    /\ DropBuffer(w)
    /\ UNCHANGED <<inserted, marked, received, skipped>>

(* SIGTERM, or another goroutine of the server's errgroup has failed. *)
Cancel(w) ==
    /\ pc[w] # "down"
    /\ ~cancelled[w]
    /\ Fault
    /\ cancelled' = [cancelled EXCEPT ![w] = TRUE]
    /\ UNCHANGED <<inserted, marked, pc, todo, done, buffer, received, skipped,
                   lost>>

(* Start returns at its select; the deferred publisher.Close flushes. *)
Stop(w) ==
    /\ pc[w] = "wait"
    /\ cancelled[w]
    /\ StopWorker(w)
    /\ received' = [e \in Event |->
                      received[e] + Cardinality({i \in DOMAIN buffer[w] :
                                                    buffer[w][i] = e})]
    /\ buffer' = [buffer EXCEPT ![w] = <<>>]
    /\ UNCHANGED <<inserted, marked, faults, skipped, lost>>

(* The process is started again. *)
Restart(w) ==
    /\ pc[w] = "down"
    /\ pc' = [pc EXCEPT ![w] = "wait"]
    /\ UNCHANGED <<inserted, marked, todo, done, cancelled, buffer, received,
                   faults, skipped, lost>>

-------------------------------------------------------------------------------
Tick(w) == Fetch(w) \/ Publish(w) \/ Mark(w) \/ Stop(w)

Failure(w) ==
    \/ PublishFails(w) \/ MarkFails(w) \/ Disconnect(w) \/ Crash(w) \/ Cancel(w)

Next ==
    \/ \E e \in Event : Enqueue(e)
    \/ \E w \in Worker : Tick(w) \/ Flush(w) \/ Failure(w) \/ Restart(w)

Spec == Init /\ [][Next]_vars

(***************************************************************************)
(* The worker's loop is driven by a ticker and waits for nothing else; the *)
(* client's flusher is a goroutine of its own.  Nothing is assumed of      *)
(* failures, and nobody need start a stopped worker again.                 *)
(***************************************************************************)
FairSpec ==
    /\ Spec
    /\ \A w \in Worker :
          WF_vars(Tick(w) \/ MarkFails(w)) /\ WF_vars(Flush(w))

-------------------------------------------------------------------------------
(* Properties *)

Buffered == UNION {Elements(buffer[w]) : w \in Worker}

(***************************************************************************)
(* The worker never marks what it has not handed to the client: an event   *)
(* whose row says it was published has been received, is still in a        *)
(* client's buffer, or was lost with one.  A failed Publish, a failed mark *)
(* or a shutdown in the middle of a batch loses nothing by itself.         *)
(***************************************************************************)
LossesHaveACause == marked \subseteq Received \cup Buffered \cup lost

(***************************************************************************)
(* Duplicates need a cause: each worker publishes an event at most once    *)
(* more than there have been failures and shutdowns, because it fetches    *)
(* again only after it has marked what it published.                       *)
(***************************************************************************)
DuplicatesHaveACause ==
    \A e \in Event : received[e] <= Cardinality(Worker) + faults

(***************************************************************************)
(* A worker does not let an event be overtaken by a later one that was     *)
(* also committed later.  When such a later event arrives for the first    *)
(* time, the earlier one has arrived, its own Publish has failed, its      *)
(* message was lost, or it is in the buffer of another worker.  (Commits   *)
(* out of the order of occurred_at, publish errors and a second worker do  *)
(* reorder events.)                                                        *)
(***************************************************************************)
CommittedBefore(e, f) ==
    \E i, j \in DOMAIN inserted : i < j /\ inserted[i] = e /\ inserted[j] = f

NoOvertaking ==
    [][LET idle == {w \in Worker : buffer'[w] = buffer[w]}
       IN  \A f \in Event \ Received, e \in Event :
              f \in Received' /\ e < f /\ CommittedBefore(e, f)
                  => \/ e \in Received' \cup skipped \cup lost
                     \/ \E w \in idle : e \in Elements(buffer[w])]_vars

(***************************************************************************)
(* Every committed event reaches NATS, if from some time on a worker stays *)
(* up, unless it was lost with a client's buffer and is marked as          *)
(* published: publish errors, crashes at any point before the mark, failed *)
(* marks and shutdowns in the middle of a batch delay it and no more,      *)
(* since what is not marked is published again.                            *)
(***************************************************************************)
EventuallyReceived ==
    <>[](\E w \in Worker : pc[w] # "down") =>
        \A e \in Event :
            e \in Elements(inserted) ~> e \in Received \cup (lost \cap marked)

-------------------------------------------------------------------------------
(* What the documentation says, and the code does not do *)

(***************************************************************************)
(* README.md: events are "published to NATS (at-least-once)".  An event    *)
(* whose row says it was published has been received, or its message is    *)
(* still on its way: nothing will publish it again.                        *)
(***************************************************************************)
AtLeastOnce == marked \subseteq Received \cup Buffered
===============================================================================
