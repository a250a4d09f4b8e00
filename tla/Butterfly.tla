----------------------------- MODULE Butterfly -----------------------------
(***************************************************************************)
(* network/butterfly: Stages columns of routers with one way through;      *)
(* destination tag routing.  A router is <<stage, column>>.               *)
(***************************************************************************)
EXTENDS Integers, Sequences, FiniteSets

CONSTANTS Radix, Stages, NumVcs, Packets, Trips

VARIABLE pk

StageWidth == Radix ^ (Stages - 1)
Terminals == 0..Radix * StageWidth - 1

BaseUnit(stage) == Radix ^ (Stages - 1 - stage)

Wires ==
  {[from |-> <<<<s, c>>, p>>,
    to |-> <<<<s + 1, (c \div BaseUnit(s)) * BaseUnit(s)
                        + ((c % BaseUnit(s)) % BaseUnit(s + 1)) + p * BaseUnit(s + 1)>>,
             (c % BaseUnit(s)) \div BaseUnit(s + 1)>>] :
      s \in 0..Stages - 2, c \in 0..StageWidth - 1, p \in 0..Radix - 1}

(* Interfaces send to the first stage and receive from the last.           *)
Injection == {<<t, <<<<0, t \div Radix>>, t % Radix>>>> : t \in Terminals}
Ejection == {<<t, <<<<Stages - 1, t \div Radix>>, t % Radix>>>> : t \in Terminals}

(* Mutant: the digits in the order of the folded Clos, lowest first.       *)
DestinationTagReversed(to, stage) == (to % Radix ^ (stage + 1)) \div Radix ^ stage

(* translateTerminalIdToAddress: the digit of the first stage is the       *)
(* highest.                                                                *)
DestinationTag(to, stage) ==
  (to % Radix ^ (Stages - stage)) \div Radix ^ (Stages - 1 - stage)

(* DestinationTagRoutingAlgorithm::processRequest.                         *)
Response(head) ==
  {[offer |-> {DestinationTag(head.to, head.router[1])} \X (0..NumVcs - 1), ext |-> head.ext]}

(* AnyInjectionAlgorithm.                                                  *)
InjectionVcs == 0..NumVcs - 1

(* The order of the buffers: by stage.                                     *)
Rank(router, port, vc) == router[1]

INSTANCE PacketNetwork
===========================================================================
