------------------------------- MODULE Torus -------------------------------
(***************************************************************************)
(* network/torus: rings in every dimension, dimension order routing and    *)
(* Valiant's randomised routing, and the two VC sets per stage with the    *)
(* dateline rule.  Dimensions count from 1; of the two ports of a          *)
(* dimension the first goes right and the second goes left.                *)
(***************************************************************************)
EXTENDS Cube, FiniteSets

CONSTANTS Widths, Concentration, NumVcs,
          Algorithm,       \* "dimension_order" or "valiants"
          InjectionSets,   \* the VC sets that packets are injected on
          Packets, Trips

VARIABLE pk

Dims == 1..Len(Widths)
Routers == Addresses(Widths)
Terminals == 0..Concentration * Product(Widths, Len(Widths)) - 1

-----------------------------------------------------------------------------
(* The channels and the interfaces.                                        *)
PortBase(dim) == Concentration + 2 * (dim - 1)
RightOf(i, width) == IF i + 1 = width THEN 0 ELSE i + 1
LeftOf(i, width) == IF i = 0 THEN width - 1 ELSE i - 1

Wires ==
  {[from |-> <<a, PortBase(d)>>,
    to |-> <<[a EXCEPT ![d] = RightOf(a[d], Widths[d])], PortBase(d) + 1>>] :
       a \in Routers, d \in Dims}
  \cup
  {[from |-> <<a, PortBase(d) + 1>>,
    to |-> <<[a EXCEPT ![d] = LeftOf(a[d], Widths[d])], PortBase(d)>>] :
       a \in Routers, d \in Dims}

(* interfaces_: the interface of place c at router a.                      *)
Injection ==
  {<<ArrayIndex(<<c>> \o a, <<Concentration>> \o Widths), <<a, c>>>> :
     a \in Routers, c \in 0..Concentration - 1}
Ejection == Injection

-----------------------------------------------------------------------------
(* Routing.                                                                *)
(* computeInputPortDim: 0 is a terminal port.                              *)
InputPortDim(port) == IF port < Concentration THEN 0 ELSE 1 + (port - Concentration) \div 2

(* The directions of a shortest way around a ring: both when they tie.     *)
Directions(src, dst, width) ==
  LET rightDelta == IF dst > src THEN dst - src ELSE dst + width - src
      leftDelta == IF src > dst THEN src - dst ELSE src + width - dst
  IN {right \in BOOLEAN : IF right THEN rightDelta <= leftDelta ELSE leftDelta <= rightDelta}

(* Mutant: no dateline.                                                    *)
CrossesDatelineNever(src, width, right) == FALSE

CrossesDateline(src, width, right) ==
  IF right THEN RightOf(src, width) < src ELSE LeftOf(src, width) > src

VcsOfSet(set, sets) == {vc \in 0..NumVcs - 1 : vc >= set /\ (vc - set) % sets = 0}

(* One hop in dimension dim towards dst, in the VC set that the set the    *)
(* packet is in and the dateline ask for.                                  *)
HopOffers(a, dst, dim, vcSet, sets) ==
  {{PortBase(dim) + (IF right THEN 0 ELSE 1)}
     \X VcsOfSet(IF CrossesDateline(a[dim], Widths[dim], right) THEN vcSet + 1 ELSE vcSet, sets) :
       right \in Directions(a[dim], dst[dim], Widths[dim])}

EjectOffer(to) == {to % Concentration} \X (0..NumVcs - 1)

DestinationRouter(to) == Tail(TerminalAddress(to, Widths, Concentration))

(* DimOrderRoutingAlgorithm::processRequest.                               *)
DimOrder(head) ==
  LET dst == DestinationRouter(head.to)
      away == Differing(head.router, dst)
      dim == FirstOf(away)
      vcSet == IF dim # InputPortDim(head.port) THEN 0 ELSE head.vc % 2
  IN IF away = {} THEN {[offer |-> EjectOffer(head.to), ext |-> head.ext]}
     ELSE {[offer |-> o, ext |-> head.ext] :
             o \in HopOffers(head.router, dst, dim, vcSet, 2)}

(* ValiantsRoutingAlgorithm::processRequest: first to a random router,     *)
(* then to the destination; sets 0 and 1 in the first stage, 2 and 3 in    *)
(* the second.                                                             *)
Valiants(head) ==
  LET dst == DestinationRouter(head.to)
      fromTerminal == InputPortDim(head.port) = 0
      Via(intermediate) ==
        LET firstStage == fromTerminal \/ head.vc % 4 < 2
            turns == firstStage /\ Differing(head.router, intermediate) = {}
            second == turns \/ ~firstStage
            target == IF second THEN dst ELSE intermediate
            away == Differing(head.router, target)
            dim == FirstOf(away)
            vcSet == IF dim # InputPortDim(head.port) \/ turns
                     THEN IF second THEN 2 ELSE 0 ELSE head.vc % 4
        IN IF away = {} THEN {[offer |-> EjectOffer(head.to), ext |-> <<>>]}
           ELSE {[offer |-> o, ext |-> <<intermediate>>] :
                   o \in HopOffers(head.router, target, dim, vcSet, 4)}
  IN UNION {Via(i) : i \in IF head.ext = <<>> THEN Routers ELSE {head.ext[1]}}

Response(head) == IF Algorithm = "dimension_order" THEN DimOrder(head) ELSE Valiants(head)

(* FixedSetsInjectionAlgorithm.                                            *)
VcSets == IF Algorithm = "dimension_order" THEN 2 ELSE 4
InjectionVcs == UNION {VcsOfSet(set, VcSets) : set \in InjectionSets}

-----------------------------------------------------------------------------
(* The order of the buffers: stage, dimension, VC set, then the position   *)
(* in the direction of travel.  A packet that came in on a left port       *)
(* travels right.                                                          *)
Rank(router, port, vc) ==
  LET dim == InputPortDim(port)
      width == Widths[dim]
      stage == (vc % VcSets) \div 2
      position == IF port = PortBase(dim) + 1 THEN router[dim] ELSE width - 1 - router[dim]
  IN ((stage * Len(Widths) + dim) * 2 + (vc % 2)) * Longest(Widths) + position

INSTANCE PacketNetwork
===========================================================================
