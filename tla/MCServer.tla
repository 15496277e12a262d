------------------------------- MODULE MCServer -------------------------------
(* Instances of Server for TLC. *)
EXTENDS Server, ThriftWire

CONSTANTS web, rpc, wire

OneEach == web :> "http" @@ rpc :> "grpc" @@ wire :> "thrift"

(* What a generated client makes of the answers of the Thrift server, and  *)
(* of lists with and without rows.                                         *)
ASSUME AnswersAsRead ==
    ThriftAnswer = {ClientReads("generated", m, [absent |-> {}, size |-> n]) :
                       m \in DOMAIN ProcessorMap, n \in 0 .. 1}
===============================================================================
