--------------------------- MODULE PacketNetwork ---------------------------
(***************************************************************************)
(* Packets travelling through the routers of a network: what a Network     *)
(* builds (routers, channels, interfaces) and what a packet meets on its   *)
(* way.  A topology gives the wiring and the routing algorithm.            *)
(*                                                                         *)
(* A packet is one flit and every input buffer (router, port, VC) holds    *)
(* one packet, the smallest configuration the code accepts and the one in  *)
(* which packets wait for each other most.  The head of a buffer is routed *)
(* once, then claims one of the VCs of the response, keeps it, and crosses *)
(* when the buffer behind that VC is free.  The details of that crossing   *)
(* are the subject of the router modules.                                  *)
(***************************************************************************)
EXTENDS Integers, FiniteSets, Sequences

CONSTANTS Packets,
          Trips,          \* Trips[p]: the <<source, destination>> terminals of p
          Wires,          \* the channels: [from |-> <<router, output port>>,
                          \*   to |-> <<router, input port>>]
          Injection,      \* <<terminal, <<router, input port>>>>: where it sends to
          Ejection,       \* <<terminal, <<router, output port>>>>: where it is reached
          InjectionVcs,   \* the VCs of the injection algorithm's response
          NumVcs,
          Response(_),    \* the responses the routing algorithm may give to the
                          \*   packet at the head of a buffer
          Rank(_, _, _)   \* the place of buffer (router, port, VC) in the order
                          \*   in which buffers wait for each other

VARIABLE pk               \* pk[p]: where packet p is and what it knows

Phases == {"source", "arrived", "routed", "claimed", "sunk"}
Nowhere == <<>>

(* The two ends of the channel at an output port, and of the external      *)
(* channel to a terminal.                                                  *)
Behind(router, port) == {w.to : w \in {w \in Wires : w.from = <<router, port>>}}
TerminalsAt(router, port) == {e[1] : e \in {e \in Ejection : e[2] = <<router, port>>}}

IsFree(router, port, vc) ==
  \A p \in Packets : <<pk[p].router, pk[p].port, pk[p].vc>> # <<router, port, vc>>

Init ==
  \E trip \in [Packets -> UNION {Trips[p] : p \in Packets}] :
    /\ \A p \in Packets : trip[p] \in Trips[p]
    /\ pk = [p \in Packets |->
               [phase |-> "source", from |-> trip[p][1], to |-> trip[p][2],
                router |-> Nowhere, port |-> 0, vc |-> 0, hops |-> 0,
                ext |-> <<>>, offer |-> {}, claim |-> <<>>]]

(* The interface sends the packet on a VC of the injection response; the   *)
(* channel counts the hop.                                                 *)
Inject(p) ==
  /\ pk[p].phase = "source"
  /\ \E vc \in InjectionVcs, i \in Injection :
       /\ i[1] = pk[p].from
       /\ IsFree(i[2][1], i[2][2], vc)
       /\ pk' = [pk EXCEPT ![p].phase = "arrived", ![p].router = i[2][1],
                           ![p].port = i[2][2], ![p].vc = vc, ![p].hops = 1]

(* The input queue has the packet at its head routed.                      *)
Route(p) ==
  /\ pk[p].phase = "arrived"
  /\ \E r \in Response(pk[p]) :
       pk' = [pk EXCEPT ![p].phase = "routed", ![p].offer = r.offer, ![p].ext = r.ext]

(* The VC scheduler grants one VC of the response that no other packet of  *)
(* this router holds.                                                      *)
ClaimVc(p) ==
  /\ pk[p].phase = "routed"
  /\ \E out \in pk[p].offer :
       /\ \A q \in Packets : pk[q].phase = "claimed" /\ pk[q].router = pk[p].router
                               => pk[q].claim # out
       /\ pk' = [pk EXCEPT ![p].phase = "claimed", ![p].claim = out, ![p].offer = {}]

(* With a credit for that VC the packet crosses to the next router.        *)
Cross(p) ==
  /\ pk[p].phase = "claimed"
  /\ \E to \in Behind(pk[p].router, pk[p].claim[1]) :
       /\ IsFree(to[1], to[2], pk[p].claim[2])
       /\ pk' = [pk EXCEPT ![p].phase = "arrived", ![p].router = to[1], ![p].port = to[2],
                           ![p].vc = pk[p].claim[2], ![p].hops = pk[p].hops + 1,
                           ![p].claim = <<>>]

(* Or it leaves the network: an interface takes every flit.                *)
Eject(p) ==
  /\ pk[p].phase = "claimed"
  /\ \E t \in TerminalsAt(pk[p].router, pk[p].claim[1]) :
       pk' = [pk EXCEPT ![p].phase = "sunk", ![p].router = Nowhere, ![p].port = t,
                        ![p].vc = 0, ![p].claim = <<>>]

Next == \E p \in Packets : Inject(p) \/ Route(p) \/ ClaimVc(p) \/ Cross(p) \/ Eject(p)

-----------------------------------------------------------------------------
(* The response of a routing algorithm is never empty, names VCs that      *)
(* exist, and ports that one channel leads out of.                         *)
OffersUsable ==
  \A p \in Packets :
    pk[p].phase = "routed" =>
      /\ pk[p].offer # {}
      /\ \A out \in pk[p].offer : out[2] \in 0..NumVcs - 1
      /\ \A port \in {out[1] : out \in pk[p].offer} :
           Cardinality(Behind(pk[p].router, port))
             + Cardinality(TerminalsAt(pk[p].router, port)) = 1

(* A packet leaves the network at the terminal it was sent to.             *)
RightTerminal == \A p \in Packets : pk[p].phase = "sunk" => pk[p].port = pk[p].to

(* Every hop from a channel to the next goes up in the order of the        *)
(* buffers: a packet only ever waits for a buffer above its own, so there  *)
(* is no circle of packets that wait for each other.                       *)
ClimbStep ==
  \A p \in Packets :
    (pk[p].hops >= 2 /\ pk'[p].hops = pk[p].hops + 1)
      => Rank(pk[p].router, pk[p].port, pk[p].vc) < Rank(pk'[p].router, pk'[p].port, pk'[p].vc)

AllSunk == \A p \in Packets : pk[p].phase = "sunk"
===========================================================================
