------------------------------- MODULE MCOutbox -------------------------------
(* Instances of Outbox for TLC. *)
EXTENDS Outbox, TLC

CONSTANTS w1, w2    \* the workers of cmd/server and of cmd/worker

Server == {w1}

Both == {w1, w2}

(* One takes its events singly, the other in batches. *)
Batches == [w \in Worker |-> IF w = w1 THEN 2 ELSE 1]
===============================================================================
