-------------------------------- MODULE Uno --------------------------------
(***************************************************************************)
(* network/uno: all terminals at one router, whose address is empty, and   *)
(* routing straight to the port of the destination.                        *)
(***************************************************************************)
EXTENDS Integers, Sequences, FiniteSets

CONSTANTS Concentration, NumVcs, Packets, Trips

VARIABLE pk

Wires == {}
Injection == {<<t, <<<<>>, t>>>> : t \in 0..Concentration - 1}
Ejection == Injection

(* DirectRoutingAlgorithm::processRequest.                                 *)
Response(head) == {[offer |-> {head.to} \X (0..NumVcs - 1), ext |-> head.ext]}

(* AnyInjectionAlgorithm.                                                  *)
InjectionVcs == 0..NumVcs - 1

Rank(router, port, vc) == 0

INSTANCE PacketNetwork
===========================================================================
