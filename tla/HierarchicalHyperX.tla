------------------------- MODULE HierarchicalHyperX -------------------------
(***************************************************************************)
(* network/hierarchicalhyperx: groups of routers, each group a HyperX (the *)
(* local dimensions), connected as the routers of another HyperX (the      *)
(* global dimensions).  The ports of a group in the global HyperX, called  *)
(* virtual global ports, are dealt out to its routers.  An address lists   *)
(* the local dimensions, then the global ones.                             *)
(*                                                                         *)
(* The routing extension ri of a packet holds the router of this group     *)
(* that it makes for (localDst, <<>> when there is none) and the global    *)
(* ports it may leave by there (localDstPort), the random intermediate     *)
(* router of Valiant's algorithm (<<>> when not chosen), and counters.     *)
(***************************************************************************)
EXTENDS Cube, FiniteSets

CONSTANTS LocalWidths, LocalWeights, GlobalWidths, GlobalWeights,
          GlobalLinksPerRouter, Concentration, NumVcs,
          Algorithm, RandomGroup, LocalDeroute,     \* the routing settings
          Packets, Trips

VARIABLE pk

L == Len(LocalWidths)
G == Len(GlobalWidths)
Widths == LocalWidths \o GlobalWidths
Routers == Addresses(Widths)
Terminals == 0..Concentration * Product(Widths, L + G) - 1

LocalOf(a) == SubSeq(a, 1, L)
GroupOf(a) == SubSeq(a, L + 1, L + G)
GroupSize == Product(LocalWidths, L)

-----------------------------------------------------------------------------
(* The channels and the interfaces.                                        *)
PortsBefore(dim, widths, weights) ==
  LET sum[d \in 1..dim] ==
        IF d = 1 THEN 0 ELSE sum[d - 1] + (widths[d - 1] - 1) * weights[d - 1]
  IN sum[dim]
LocalBase(dim) == Concentration + PortsBefore(dim, LocalWidths, LocalWeights)
GlobalBase(dim) == PortsBefore(dim, GlobalWidths, GlobalWeights)
PortBase == LocalBase(L + 1)        \* getPortBase: the first global port

(* globalPortToLocalAddress: the router of a virtual global port and the   *)
(* port it is there.                                                       *)
RouterWith(globalPort) == RouterAddress(globalPort, LocalWidths)
PortThere(globalPort) == globalPort \div GroupSize

LocalWires ==
  UNION {{[from |-> <<a, LocalBase(d) + (offset - 1) * LocalWeights[d] + weight>>,
           to |-> <<[a EXCEPT ![d] = (a[d] + offset) % LocalWidths[d]],
                    LocalBase(d) + (LocalWidths[d] - 1 - offset) * LocalWeights[d] + weight>>] :
             a \in Routers, offset \in 1..LocalWidths[d] - 1, weight \in 0..LocalWeights[d] - 1} :
         d \in 1..L}

GlobalEnd(group, globalPort) ==
  <<RouterWith(globalPort) \o group, PortBase + PortThere(globalPort)>>

GlobalWires ==
  UNION {{[from |-> GlobalEnd(g, GlobalBase(d) + (offset - 1) * GlobalWeights[d] + weight),
           to |-> GlobalEnd([g EXCEPT ![d] = (g[d] + offset) % GlobalWidths[d]],
                            GlobalBase(d) + (GlobalWidths[d] - 1 - offset) * GlobalWeights[d]
                              + weight)] :
             g \in Addresses(GlobalWidths), offset \in 1..GlobalWidths[d] - 1,
             weight \in 0..GlobalWeights[d] - 1} :
         d \in 1..G}

Wires == LocalWires \cup GlobalWires

(* interfaces_: the interface of place c at router a.                      *)
Injection ==
  {<<ArrayIndex(<<c>> \o a, <<Concentration>> \o Widths), <<a, c>>>> :
     a \in Routers, c \in 0..Concentration - 1}
Ejection == Injection

-----------------------------------------------------------------------------
(* What the algorithms share.  A choice is a set of output ports and the   *)
(* routing extension that goes with it.                                    *)
FreshInfo == [localDst |-> <<>>, localDstPort |-> {}, intermediate |-> <<>>,
              intermediateDone |-> FALSE, valiantMode |-> FALSE, globalHopCount |-> 0,
              localDerouteCount |-> IF Algorithm = "min_adaptive" THEN LocalDeroute ELSE 0]

Forget(ri) == [ri EXCEPT !.localDst = <<>>, !.localDstPort = {}]

(* The ports that lead from entry src to entry dst of a dimension, counted *)
(* from the first port of that dimension.                                  *)
Towards(src, dst, width, weight) ==
  LET ahead == IF dst < src THEN dst + width ELSE dst
  IN {(ahead - src - 1) * weight + k : k \in 0..weight - 1}

LocalPorts(a, dst, d) ==
  {LocalBase(d) + port : port \in Towards(a[d], dst[d], LocalWidths[d], LocalWeights[d])}
GlobalPorts(a, dst, d) ==
  {GlobalBase(d) + port :
     port \in Towards(GroupOf(a)[d], GroupOf(dst)[d], GlobalWidths[d], GlobalWeights[d])}

(* setLocalDst: this router when it has a channel in the wanted dimension, *)
(* and all such channels; otherwise the router of a random one.            *)
SetLocalDst(ri, a, dst, d) ==
  LET own == {g \in GlobalPorts(a, dst, d) : RouterWith(g) = LocalOf(a)}
  IN IF own # {}
     THEN {[ri EXCEPT !.localDst = LocalOf(a), !.localDstPort = {PortThere(g) : g \in own}]}
     ELSE {[ri EXCEPT !.localDst = RouterWith(g), !.localDstPort = {PortThere(g)}] :
             g \in GlobalPorts(a, dst, d)}

(* The dimensions a packet may work on next: the first that differs, or a  *)
(* random one.                                                             *)
NextDims(a, b, random) ==
  LET dims == Differing(a, b) IN IF random \/ dims = {} THEN dims ELSE {FirstOf(dims)}

LocalHop(ri, a, dst, random) ==
  {[ports |-> LocalPorts(a, dst, d), ri |-> ri] : d \in NextDims(LocalOf(a), dst, random)}

Chosen(ri, a, dst, random) ==
  IF ri.localDst # <<>> THEN {ri}
  ELSE UNION {SetLocalDst(ri, a, dst, d) : d \in NextDims(GroupOf(a), GroupOf(dst), random)}

(* The minimal ways from router a to router dst (a terminal port when they *)
(* are the same), with the dimensions in order or at random.               *)
Minimal(ri, a, dst, terminalPort, globalRandom, localRandom) ==
  IF GroupOf(a) # GroupOf(dst)
  THEN UNION {IF r.localDst = LocalOf(a)
              THEN {[ports |-> {PortBase + port : port \in r.localDstPort}, ri |-> r]}
              ELSE LocalHop(r, a, r.localDst, localRandom) :
                r \in Chosen(ri, a, dst, globalRandom)}
  ELSE IF a = dst THEN {[ports |-> {terminalPort}, ri |-> Forget(ri)]}
  ELSE LocalHop(Forget(ri), a, LocalOf(dst), localRandom)

(* The routing() of DimOrder, GlobalRandom and GlobalAndLocalRandom.       *)
DimOrder(ri, a, dst, terminalPort) == Minimal(ri, a, dst, terminalPort, FALSE, FALSE)
GlobalRandom(ri, a, dst, terminalPort) == Minimal(ri, a, dst, terminalPort, TRUE, FALSE)
GlobalAndLocalRandom(ri, a, dst, terminalPort) == Minimal(ri, a, dst, terminalPort, TRUE, TRUE)

-----------------------------------------------------------------------------
(* How many VC sets there are, and the VCs of a set.                       *)
VcSets ==
  CASE Algorithm = "valiant" -> 2 * G + 2
    [] Algorithm = "min_adaptive" -> (G + 1) * L * (1 + LocalDeroute) + G
    [] Algorithm = "progressive_adaptive" -> 2 * L + 2 * G
    [] Algorithm = "progressive_adaptive_g" -> L * (G + 1) + 1 + G + 1 + 1
    [] OTHER -> (G + 1) * L + G

VcsOf(set) == {vc \in 0..NumVcs - 1 : vc >= set /\ (vc - set) % VcSets = 0}

(* How many VCs the constructor of the algorithm asserts that there are:   *)
(* one for every set, but for GlobalRandom.                                *)
VcsAsked == IF Algorithm = "global_random" THEN G + 1 ELSE VcSets

-----------------------------------------------------------------------------
(* ValiantRoutingAlgorithm::routing: to a random router (or its group)     *)
(* first, then to the destination.                                         *)
Valiant(ri, a, dst, terminalPort) ==
  LET Via(i) ==
        LET done == \/ ri.intermediateDone
                    \/ IF RandomGroup THEN GroupOf(a) = GroupOf(i) ELSE a = i
        IN DimOrder([ri EXCEPT !.intermediate = i, !.intermediateDone = done],
                   a, IF done THEN dst ELSE i, terminalPort)
  IN UNION {Via(i) : i \in IF ri.intermediate = <<>> THEN Routers ELSE {ri.intermediate}}

(* MinimalAdaptiveRoutingAlgorithm::routing.  One local port is chosen by  *)
(* its congestion: the least sum over the VCs of the set, if that is not   *)
(* above 1.  Each VC adds up to 1, so with several VCs in the set all sums *)
(* may be above, and findHighestPort then picks from an empty list.        *)
OnePort(choices) == UNION {{[c EXCEPT !.ports = {port}] : port \in c.ports} : c \in choices}
NoPort(ri, hops) == IF Cardinality(VcsOf(hops - 1)) > 1 THEN {[ports |-> {}, ri |-> ri]} ELSE {}
AnyLocalHop(ri, a, dst, hops) ==
  NoPort(ri, hops)
    \cup UNION {OnePort({[ports |-> LocalPorts(a, dst, d), ri |-> ri]}) :
                  d \in Differing(LocalOf(a), dst)}

(* At localDst the congested global ports are left out; when all are, a    *)
(* packet that may still deroute chooses another localDst.                 *)
AtLocalDst(ri, a, dst, congested, hops) ==
  LET from[n \in 0..LocalDeroute, ports \in SUBSET (0..GlobalLinksPerRouter - 1)] ==
        LET open == IF n = 0 THEN ports ELSE ports \ congested
            derouted == UNION {SetLocalDst([ri EXCEPT !.localDerouteCount = n - 1], a, dst, d) :
                                 d \in Differing(GroupOf(a), GroupOf(dst))}
        IN IF open # {}
           THEN {[ports |-> {PortBase + port : port \in open},
                  ri |-> [ri EXCEPT !.localDst = LocalOf(a), !.localDstPort = ports,
                                    !.localDerouteCount = n]]}
           ELSE UNION {IF r.localDst = LocalOf(a) THEN from[n - 1, r.localDstPort]
                       ELSE AnyLocalHop(r, a, r.localDst, hops) : r \in derouted}
  IN from[ri.localDerouteCount, ri.localDstPort]

MinAdaptive(ri, a, dst, terminalPort, hops) ==
  IF GroupOf(a) # GroupOf(dst)
  THEN UNION {IF r.localDst = LocalOf(a)
              THEN UNION {AtLocalDst(r, a, dst, congested, hops) :
                            congested \in SUBSET (0..GlobalLinksPerRouter - 1)}
              ELSE AnyLocalHop(r, a, r.localDst, hops) : r \in Chosen(ri, a, dst, TRUE)}
  ELSE IF a = dst THEN {[ports |-> {terminalPort}, ri |-> ri]}
  ELSE AnyLocalHop(ri, a, LocalOf(dst), hops)

(* ProgressiveAdaptive RoutingAlgorithm::routing: in the first group the   *)
(* congested global ports are left out; when all are, it goes Valiant.     *)
Progressive(ri, a, dst, terminalPort) ==
  UNION {IF ri.globalHopCount = 0 /\ c.ri.localDst = LocalOf(a)
         THEN {[c EXCEPT !.ports = open] : open \in SUBSET c.ports \ {{}}}
                \cup Valiant([Forget(c.ri) EXCEPT !.valiantMode = TRUE], a, dst, terminalPort)
         ELSE {c} : c \in DimOrder(ri, a, dst, terminalPort)}

(* ProgressiveAdaptiveG: in the first group a congested global port is     *)
(* replaced by a random local port, and the next router then takes a       *)
(* random global port.                                                     *)
ProgressiveG(ri, a, dst, terminalPort) ==
  IF ri.globalHopCount = 0 /\ ri.valiantMode
  THEN {[ports |-> {PortBase + port}, ri |-> ri] : port \in 0..GlobalLinksPerRouter - 1}
  ELSE UNION {IF ri.globalHopCount = 0 /\ c.ri.localDst = LocalOf(a)
              THEN {c} \cup {[ports |-> random, ri |-> [Forget(c.ri) EXCEPT !.valiantMode = TRUE]] :
                               random \in {s \in SUBSET (Concentration..PortBase - 1) :
                                             Cardinality(s) \in 1..Cardinality(c.ports)}}
              ELSE {c} : c \in DimOrder(ri, a, dst, terminalPort)}

-----------------------------------------------------------------------------
(* processRequest: the routing of the algorithm, then the VC set.          *)
Routing(ri, a, dst, terminalPort, hops) ==
  CASE Algorithm = "valiant" -> Valiant(ri, a, dst, terminalPort)
    [] Algorithm = "min_adaptive" -> MinAdaptive(ri, a, dst, terminalPort, hops)
    [] Algorithm = "progressive_adaptive" ->
         IF ri.valiantMode THEN Valiant(ri, a, dst, terminalPort)
         ELSE Progressive(ri, a, dst, terminalPort)
    [] Algorithm = "progressive_adaptive_g" -> ProgressiveG(ri, a, dst, terminalPort)
    [] Algorithm = "global_random" -> GlobalRandom(ri, a, dst, terminalPort)
    [] Algorithm = "global_local_random" -> GlobalAndLocalRandom(ri, a, dst, terminalPort)
    [] Algorithm = "dimension_order" -> DimOrder(ri, a, dst, terminalPort)

(* The VC set for the next hop.                                            *)
VcSet(ri, hops) ==
  CASE Algorithm = "valiant" -> ri.globalHopCount
    [] Algorithm = "progressive_adaptive" /\ ri.globalHopCount > 0 ->
         2 * L - 1 + ri.globalHopCount
    [] OTHER -> hops - 1

(* A global hop is counted and clears localDst.                            *)
Advance(c) ==
  IF \E port \in c.ports : port >= PortBase
  THEN [c EXCEPT !.ri = [Forget(c.ri) EXCEPT !.globalHopCount = @ + 1,
                           !.localDerouteCount = FreshInfo.localDerouteCount]]
  ELSE c

Answer(c, hops) ==
  IF \E port \in c.ports : port < Concentration
  THEN [offer |-> c.ports \X (0..NumVcs - 1), ext |-> <<>>]
  ELSE [offer |-> c.ports \X VcsOf(VcSet(c.ri, hops)), ext |-> <<c.ri>>]

(* ProgressiveAdaptive checks its local port for congestion once more, and *)
(* may go Valiant after all.                                               *)
SecondThoughts(c, a, dst, terminalPort) ==
  IF /\ Algorithm = "progressive_adaptive"
     /\ ~c.ri.valiantMode /\ c.ri.globalHopCount = 0
     /\ \A port \in c.ports : port >= Concentration
  THEN {c} \cup {Advance(v) : v \in Valiant([Forget(c.ri) EXCEPT !.valiantMode = TRUE],
                                             a, dst, terminalPort)}
  ELSE {c}

Response(head) ==
  LET to == TerminalAddress(head.to, Widths, Concentration)
      a == head.router
      dst == Tail(to)
      ri == IF head.ext = <<>> THEN FreshInfo ELSE head.ext[1]
      choices ==
        IF Algorithm = "valiant" /\ a = dst THEN {[ports |-> {to[1]}, ri |-> ri]}
        ELSE UNION {SecondThoughts(Advance(c), a, dst, to[1]) :
                      c \in Routing(ri, a, dst, to[1], head.hops)}
  IN {Answer(c, head.hops) : c \in choices}

(* AnyInjectionAlgorithm.                                                  *)
InjectionVcs == 0..NumVcs - 1

-----------------------------------------------------------------------------
(* The order of the buffers: the VC set; in one set the global channels,   *)
(* then the local ones by dimension.                                       *)
Rank(router, port, vc) ==
  (vc % VcSets) * (L + 1)
    + (IF port >= PortBase THEN 0 ELSE Cardinality({d \in 1..L : LocalBase(d) <= port}))

INSTANCE PacketNetwork
=============================================================================
