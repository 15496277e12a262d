------------------------------ MODULE MCDelivery ------------------------------
(* Instances of Delivery for TLC. *)
EXTENDS Delivery, TLC

(* Orders, drones and valid locations are interchangeable. *)
Symmetric ==
    Permutations(OrderId) \cup Permutations(DroneId) \cup Permutations(Location)

Instants == {0}
===============================================================================
