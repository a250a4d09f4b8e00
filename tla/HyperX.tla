------------------------------ MODULE HyperX ------------------------------
(***************************************************************************)
(* network/hyperx: in every dimension each router has a channel, or        *)
(* several (the weight of the dimension), to every other router of its     *)
(* row; dimension order routing over all VCs.                              *)
(***************************************************************************)
EXTENDS Cube, FiniteSets

CONSTANTS Widths, Weights, Concentration, NumVcs, Packets, Trips

VARIABLE pk

Dims == 1..Len(Widths)
Routers == Addresses(Widths)
Terminals == 0..Concentration * Product(Widths, Len(Widths)) - 1

PortBase(dim) ==
  LET base[d \in 1..dim] ==
        IF d = 1 THEN Concentration ELSE base[d - 1] + (Widths[d - 1] - 1) * Weights[d - 1]
  IN base[dim]

Wires ==
  UNION {{[from |-> <<a, PortBase(d) + (offset - 1) * Weights[d] + weight>>,
           to |-> <<[a EXCEPT ![d] = (a[d] + offset) % Widths[d]],
                    PortBase(d) + (Widths[d] - 1) * Weights[d] - offset * Weights[d] + weight>>] :
             a \in Routers, offset \in 1..Widths[d] - 1, weight \in 0..Weights[d] - 1} :
         d \in Dims}

(* interfaces_: the interface of place c at router a.                      *)
Injection ==
  {<<ArrayIndex(<<c>> \o a, <<Concentration>> \o Widths), <<a, c>>>> :
     a \in Routers, c \in 0..Concentration - 1}
Ejection == Injection

(* Mutant: a way that leads past the last router of the row.               *)
PortsTowardsAhead(src, dst, dim) ==
  {PortBase(dim) + (dst - src - 1) * Weights[dim] + weight : weight \in 0..Weights[dim] - 1}

(* The ports of dimension dim that lead from src to dst.                   *)
PortsTowards(src, dst, dim) ==
  LET ahead == IF dst < src THEN dst + Widths[dim] ELSE dst
  IN {PortBase(dim) + (ahead - src - 1) * Weights[dim] + weight : weight \in 0..Weights[dim] - 1}

(* DimOrderRoutingAlgorithm::processRequest.                               *)
Response(head) ==
  LET dst == TerminalAddress(head.to, Widths, Concentration)
      away == Differing(head.router, Tail(dst))
      dim == FirstOf(away)
      ports == IF away = {} THEN {dst[1]}
               ELSE PortsTowards(head.router[dim], dst[dim + 1], dim)
  IN {[offer |-> ports \X (0..NumVcs - 1), ext |-> head.ext]}

(* AnyInjectionAlgorithm.                                                  *)
InjectionVcs == 0..NumVcs - 1

(* The order of the buffers: the dimension of the channel they end.        *)
Rank(router, port, vc) == CHOOSE d \in Dims : \A e \in Dims :
                            (PortBase(e) <= port) <=> (e <= d)

INSTANCE PacketNetwork
===========================================================================
