---------------------------- MODULE FoldedClos ----------------------------
(***************************************************************************)
(* network/foldedclos: a folded Clos of Levels rows; the lower half of a   *)
(* router's ports faces down, the upper half faces up.  A router is        *)
(* <<row, column>>.  Packets go up until the least common ancestor (lca)   *)
(* or the top row (mca), on a random or an adaptively chosen port, and     *)
(* then down along the digits of the destination.                          *)
(***************************************************************************)
EXTENDS Cube, FiniteSets

CONSTANTS HalfRadix, Levels, NumVcs,
          Algorithm,       \* "lca" or "mca"
          Packets, Trips

VARIABLE pk

Power(n) == HalfRadix ^ n
RowRouters == Power(Levels - 1)
Rows == 0..Levels - 1
Routers == Rows \X (0..RowRouters - 1)
Terminals == 0..Power(Levels) - 1

(* The address of a router: the digits of its column above its own row;    *)
(* "any" (U32_MAX) in the rows from its own down.                          *)
Address(router) ==
  [row \in Rows |-> IF row <= router[1] THEN Power(Levels)
                    ELSE (router[2] \div Power(row - 1)) % HalfRadix]

UpWires ==
  {[from |-> <<<<r, c>>, HalfRadix + p>>,
    to |-> <<<<r + 1, (c \div Power(r + 1)) * Power(r + 1) + (c % Power(r)) + p * Power(r)>>,
             (c \div Power(r)) % HalfRadix>>] :
      r \in 0..Levels - 2, c \in 0..RowRouters - 1, p \in 0..HalfRadix - 1}
Wires == UpWires \cup {[from |-> w.to, to |-> w.from] : w \in UpWires}

(* interfaces_: port p of column c in the lowest row.                      *)
Injection == {<<t, <<<<0, t \div HalfRadix>>, t % HalfRadix>>>> : t \in Terminals}
Ejection == Injection

(* translateTerminalIdToAddress: the digits, lowest row first.             *)
DestinationAddress(to) == [row \in Rows |-> (to % Power(row + 1)) \div Power(row)]

IsAncestor(router, dst) ==
  \A row \in router[1] + 1..Levels - 1 : Address(router)[row] = dst[row]

(* LcaRoutingAlgorithm and McaRoutingAlgorithm ::processRequest: any       *)
(* upward port, as the adaptive modes may choose any of them too, or the   *)
(* port down.                                                              *)
UpPorts == HalfRadix..2 * HalfRadix - 1
ComesUp(head) == head.port < HalfRadix

LcaPorts(head, dst) ==
  IF ComesUp(head) /\ ~IsAncestor(head.router, dst) THEN UpPorts ELSE {dst[head.router[1]]}
McaPorts(head, dst) ==
  IF ComesUp(head) /\ head.router[1] < Levels - 1 THEN UpPorts ELSE {dst[head.router[1]]}

Response(head) ==
  LET dst == DestinationAddress(head.to)
  IN {[offer |-> {port} \X (0..NumVcs - 1), ext |-> head.ext] :
        port \in IF Algorithm = "lca" THEN LcaPorts(head, dst) ELSE McaPorts(head, dst)}

(* AnyInjectionAlgorithm.                                                  *)
InjectionVcs == 0..NumVcs - 1

(* The order of the buffers: the channels up, by row, then those down.     *)
Rank(router, port, vc) == IF port < HalfRadix THEN router[1] ELSE 2 * Levels - router[1]

INSTANCE PacketNetwork
===========================================================================
