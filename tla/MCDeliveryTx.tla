----------------------------- MODULE MCDeliveryTx -----------------------------
(* Instances of DeliveryTx for TLC. *)
EXTENDS DeliveryTx, TLC

(* Orders, drones and sessions are interchangeable. *)
Symmetric ==
    Permutations(OrderId) \cup Permutations(DroneId) \cup Permutations(Session)
===============================================================================
