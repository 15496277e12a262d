------------------------------ MODULE MCGateway ------------------------------
(* Instances of Gateway and ThriftGateway, with the messages of ThriftWire, *)
(* for TLC.                                                                 *)
EXTENDS ThriftGateway, ThriftWire

(* Names are interchangeable. *)
Symmetric == Permutations(Name)

Instants == {0}

(* caller and heard only tell the properties of a step what it was: they   *)
(* decide nothing and are read in the step that sets them.                 *)
Tables == <<vars, pending>>
===============================================================================
