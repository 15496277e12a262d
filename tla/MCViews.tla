------------------------------- MODULE MCViews -------------------------------
(* Instances of Views for TLC. *)
EXTENDS Views, TLC

(* Orders, drones, valid locations and readers are interchangeable. *)
Symmetric ==
    Permutations(OrderId) \cup Permutations(DroneId)
        \cup Permutations(Location) \cup Permutations(Reader)

Instants == {0}
===============================================================================
