---------------------------- MODULE MCNetworks ----------------------------
(***************************************************************************)
(* Every topology and every routing algorithm, with one packet between     *)
(* every pair of terminals and every choice the routing may make; and a    *)
(* ring of four routers in which four packets go half way around, so that  *)
(* each waits for the buffer that the next one is in.  The traffic         *)
(* patterns choose the trips in three HyperXs of their own.  And the two   *)
(* searches that choose the shape of such a network before it is built.    *)
(***************************************************************************)
EXTENDS Integers, FiniteSets, Sequences

CONSTANTS p1, p2, p3, p4
VARIABLES net, pk, search

Alone == {p1}
Pairs(terminals) == [p \in Alone |-> (0..terminals - 1) \X (0..terminals - 1)]

Convoy == {p1, p2, p3, p4}
HalfWayAround ==
  [p \in Convoy |-> CASE p = p1 -> {<<0, 2>>} [] p = p2 -> {<<1, 3>>}
                      [] p = p3 -> {<<2, 0>>} [] p = p4 -> {<<3, 1>>}]

TorusRing == INSTANCE Torus WITH
  Widths <- <<4>>, Concentration <- 1, NumVcs <- 2, Algorithm <- "dimension_order",
  InjectionSets <- {0}, Packets <- Convoy, Trips <- HalfWayAround

TorusDimOrder == INSTANCE Torus WITH
  Widths <- <<3, 2>>, Concentration <- 2, NumVcs <- 3, Algorithm <- "dimension_order",
  InjectionSets <- {0}, Packets <- Alone, Trips <- Pairs(12)
TorusValiants == INSTANCE Torus WITH
  Widths <- <<3, 2>>, Concentration <- 1, NumVcs <- 4, Algorithm <- "valiants",
  InjectionSets <- {0, 1}, Packets <- Alone, Trips <- Pairs(6)
HyperXDimOrder == INSTANCE HyperX WITH
  Widths <- <<3, 2>>, Weights <- <<1, 2>>, Concentration <- 2, NumVcs <- 1,
  Packets <- Alone, Trips <- Pairs(12)
ClosLca == INSTANCE FoldedClos WITH
  HalfRadix <- 2, Levels <- 3, NumVcs <- 1, Algorithm <- "lca", Packets <- Alone, Trips <- Pairs(8)
ClosMca == INSTANCE FoldedClos WITH
  HalfRadix <- 2, Levels <- 3, NumVcs <- 1, Algorithm <- "mca", Packets <- Alone, Trips <- Pairs(8)
Tags == INSTANCE Butterfly WITH
  Radix <- 2, Stages <- 3, NumVcs <- 1, Packets <- Alone, Trips <- Pairs(8)
Direct == INSTANCE Uno WITH
  Concentration <- 3, NumVcs <- 2, Packets <- Alone, Trips <- Pairs(3)

(* The traffic patterns that need equal widths, or a power of 2, those     *)
(* that need even widths and tell halves from parities in wide ones, and   *)
(* those that tell an odd width from an even one.                          *)
EvenPatterns == {"bit complement", "bit reverse", "bit rotate right", "bit rotate left",
                 "bit transpose", "dim reverse", "dim complement reverse", "dim rotate left",
                 "dim rotate right", "dim transpose", "random exchange neighbor",
                 "dragonfly worst case"}
WidePatterns == {"bisection parity", "bisection half", "bisection quadrant",
                 "uniform random quadrant", "random exchange quadrant"}
OddPatterns == {"neighbor right", "neighbor left", "tornado", "swap2", "loopback",
                "uniform random", "random exchange"}
EvenTraffic == INSTANCE TrafficPatterns WITH
  Widths <- <<2, 2, 2>>, Concentration <- 2, EnabledDims <- {1, 3}, GroupSize <- 4
WideTraffic == INSTANCE TrafficPatterns WITH
  Widths <- <<2, 6>>, Concentration <- 2, EnabledDims <- {1, 2}, GroupSize <- 4
OddTraffic == INSTANCE TrafficPatterns WITH
  Widths <- <<4, 3>>, Concentration <- 2, EnabledDims <- {1, 2}, GroupSize <- 3
EvenHyperX == INSTANCE HyperX WITH
  Widths <- <<2, 2, 2>>, Weights <- <<1, 1, 1>>, Concentration <- 2, NumVcs <- 1,
  Packets <- Alone, Trips <- Pairs(16)
WideHyperX == INSTANCE HyperX WITH
  Widths <- <<2, 6>>, Weights <- <<1, 1>>, Concentration <- 2, NumVcs <- 1,
  Packets <- Alone, Trips <- Pairs(24)
OddHyperX == INSTANCE HyperX WITH
  Widths <- <<4, 3>>, Weights <- <<1, 1>>, Concentration <- 2, NumVcs <- 1,
  Packets <- Alone, Trips <- Pairs(24)

(* Groups of 2 routers in a 2 x 2 HyperX: one global channel per router.   *)
(* GlobalRandom has a VC for every set, not the 3 that its constructor     *)
(* asks for: with those it does not work (MCHhxVcs).                       *)
HhxDimOrder == INSTANCE HierarchicalHyperX WITH
  LocalWidths <- <<2>>, LocalWeights <- <<2>>, GlobalWidths <- <<2, 2>>, GlobalWeights <- <<1, 1>>,
  GlobalLinksPerRouter <- 1, Concentration <- 1, NumVcs <- 5, Algorithm <- "dimension_order",
  RandomGroup <- FALSE, LocalDeroute <- 0, Packets <- Alone, Trips <- Pairs(8)
HhxGlobalRandom == INSTANCE HierarchicalHyperX WITH
  LocalWidths <- <<2>>, LocalWeights <- <<1>>, GlobalWidths <- <<2, 2>>, GlobalWeights <- <<1, 1>>,
  GlobalLinksPerRouter <- 1, Concentration <- 1, NumVcs <- 5, Algorithm <- "global_random",
  RandomGroup <- FALSE, LocalDeroute <- 0, Packets <- Alone, Trips <- Pairs(8)
HhxValiant == INSTANCE HierarchicalHyperX WITH
  LocalWidths <- <<2>>, LocalWeights <- <<1>>, GlobalWidths <- <<2, 2>>, GlobalWeights <- <<1, 1>>,
  GlobalLinksPerRouter <- 1, Concentration <- 1, NumVcs <- 6, Algorithm <- "valiant",
  RandomGroup <- TRUE, LocalDeroute <- 0, Packets <- Alone, Trips <- Pairs(8)
HhxMinAdaptive == INSTANCE HierarchicalHyperX WITH
  LocalWidths <- <<2>>, LocalWeights <- <<1>>, GlobalWidths <- <<3>>, GlobalWeights <- <<2>>,
  GlobalLinksPerRouter <- 2, Concentration <- 1, NumVcs <- 5, Algorithm <- "min_adaptive",
  RandomGroup <- FALSE, LocalDeroute <- 1, Packets <- Alone, Trips <- Pairs(6)
HhxProgressive == INSTANCE HierarchicalHyperX WITH
  LocalWidths <- <<2>>, LocalWeights <- <<1>>, GlobalWidths <- <<3>>, GlobalWeights <- <<1>>,
  GlobalLinksPerRouter <- 1, Concentration <- 1, NumVcs <- 4, Algorithm <- "progressive_adaptive",
  RandomGroup <- TRUE, LocalDeroute <- 0, Packets <- Alone, Trips <- Pairs(6)
HhxProgressiveG == INSTANCE HierarchicalHyperX WITH
  LocalWidths <- <<2>>, LocalWeights <- <<1>>, GlobalWidths <- <<3>>, GlobalWeights <- <<1>>,
  GlobalLinksPerRouter <- 1, Concentration <- 1, NumVcs <- 6,
  Algorithm <- "progressive_adaptive_g", RandomGroup <- FALSE, LocalDeroute <- 0,
  Packets <- Alone, Trips <- Pairs(6)
(* Groups of 2 x 2 routers in a row of 3 groups.                           *)
HhxAllRandom == INSTANCE HierarchicalHyperX WITH
  LocalWidths <- <<2, 2>>, LocalWeights <- <<1, 1>>, GlobalWidths <- <<3>>, GlobalWeights <- <<2>>,
  GlobalLinksPerRouter <- 1, Concentration <- 1, NumVcs <- 5,
  Algorithm <- "global_local_random", RandomGroup <- FALSE, LocalDeroute <- 0,
  Packets <- Alone, Trips <- Pairs(12)

(* All others have exactly the VCs that their constructor asks for, one in *)
(* every set.                                                              *)
ASSUME AsConstructed ==
  /\ HhxDimOrder!VcsAsked = 5 /\ HhxAllRandom!VcsAsked = 5 /\ HhxValiant!VcsAsked = 6
  /\ HhxMinAdaptive!VcsAsked = 5 /\ HhxProgressive!VcsAsked = 4 /\ HhxProgressiveG!VcsAsked = 6
  /\ HhxGlobalRandom!VcsAsked = 3 /\ HhxGlobalRandom!VcSets = 5

(* Two or three dimensions of one weight, with and without equal widths;   *)
(* every stage of the hierarchical search has results and dead ends, and   *)
(* with the least bandwidth each level may have more dimensions than links.*)
Wanted == [dimensions |-> <<1, 2>>, radix |-> <<4, 7>>, concentration |-> <<1, 5>>,
           terminals |-> <<8, 16>>, bandwidth |-> <<1, 99>>, fixedWidth |-> FALSE,
           fixedWeight |-> TRUE, maxResults |-> 2]
WantedHyperxs ==
  {Wanted, [Wanted EXCEPT !.fixedWidth = TRUE],
   [Wanted EXCEPT !.dimensions = <<2, 3>>, !.bandwidth = <<2, 4>>, !.maxResults = 1]}
FindHyperx == INSTANCE HyperxSearch WITH Wanted <- WantedHyperxs

WantedGroups == [localDim |-> <<1, 1>>, globalDim |-> <<1, 1>>, radix |-> <<2, 9>>,
                 concentration |-> <<1, 2>>, terminals |-> <<2, 12>>, bandwidth |-> 2,
                 maxResults |-> 2]
WantedHierarchies ==
  {WantedGroups, [WantedGroups EXCEPT !.localDim = <<1, 2>>, !.bandwidth = 6],
   [WantedGroups EXCEPT !.globalDim = <<1, 2>>, !.terminals = <<8, 16>>],
   [WantedGroups EXCEPT !.globalDim = <<2, 2>>, !.localDim = <<2, 2>>,
                        !.concentration = <<1, 1>>, !.terminals = <<9, 24>>, !.bandwidth = 4],
   [WantedGroups EXCEPT !.localDim = <<1, 2>>, !.globalDim = <<1, 3>>,
                        !.concentration = <<1, 1>>, !.terminals = <<4, 16>>, !.bandwidth = 1]}
FindHierarchy == INSTANCE HierarchicalSearch WITH Wanted <- WantedHierarchies

Searches == {"hyperx search", "hierarchical search"}

InitNetwork ==
  \/ net = "torus ring" /\ TorusRing!Init
  \/ net = "torus dimension order" /\ TorusDimOrder!Init
  \/ net = "torus valiants" /\ TorusValiants!Init
  \/ net = "hyperx" /\ HyperXDimOrder!Init
  \/ net = "clos lca" /\ ClosLca!Init
  \/ net = "clos mca" /\ ClosMca!Init
  \/ net = "butterfly" /\ Tags!Init
  \/ net = "uno" /\ Direct!Init
  \/ net = "hhx dimension order" /\ HhxDimOrder!Init
  \/ net = "hhx global random" /\ HhxGlobalRandom!Init
  \/ net = "hhx global and local random" /\ HhxAllRandom!Init
  \/ net = "hhx valiant" /\ HhxValiant!Init
  \/ net = "hhx minimal adaptive" /\ HhxMinAdaptive!Init
  \/ net = "hhx progressive" /\ HhxProgressive!Init
  \/ net = "hhx progressive g" /\ HhxProgressiveG!Init
  \/ /\ net \in EvenPatterns /\ EvenHyperX!Init
     /\ pk[p1].to \in EvenTraffic!Destinations(net, pk[p1].from)
  \/ /\ net \in WidePatterns /\ WideHyperX!Init
     /\ pk[p1].to \in WideTraffic!Destinations(net, pk[p1].from)
  \/ /\ net \in OddPatterns /\ OddHyperX!Init
     /\ pk[p1].to \in OddTraffic!Destinations(net, pk[p1].from)

Init ==
  \/ InitNetwork /\ search = <<>>
  \/ net = "hyperx search" /\ FindHyperx!Init /\ pk = <<>>
  \/ net = "hierarchical search" /\ FindHierarchy!Init /\ pk = <<>>

NextInNetwork ==
  \/ net = "torus ring" /\ TorusRing!Next
  \/ net = "torus dimension order" /\ TorusDimOrder!Next
  \/ net = "torus valiants" /\ TorusValiants!Next
  \/ net = "hyperx" /\ HyperXDimOrder!Next
  \/ net = "clos lca" /\ ClosLca!Next
  \/ net = "clos mca" /\ ClosMca!Next
  \/ net = "butterfly" /\ Tags!Next
  \/ net = "uno" /\ Direct!Next
  \/ net = "hhx dimension order" /\ HhxDimOrder!Next
  \/ net = "hhx global random" /\ HhxGlobalRandom!Next
  \/ net = "hhx global and local random" /\ HhxAllRandom!Next
  \/ net = "hhx valiant" /\ HhxValiant!Next
  \/ net = "hhx minimal adaptive" /\ HhxMinAdaptive!Next
  \/ net = "hhx progressive" /\ HhxProgressive!Next
  \/ net = "hhx progressive g" /\ HhxProgressiveG!Next
  \/ net \in EvenPatterns /\ EvenHyperX!Next
  \/ net \in WidePatterns /\ WideHyperX!Next
  \/ net \in OddPatterns /\ OddHyperX!Next

Next ==
  /\ UNCHANGED net
  /\ \/ NextInNetwork /\ UNCHANGED search
     \/ net = "hyperx search" /\ FindHyperx!Next /\ UNCHANGED pk
     \/ net = "hierarchical search" /\ FindHierarchy!Next /\ UNCHANGED pk

(* A channel, a router and an interface always take what they can: the     *)
(* simulation runs until its events are used up.                           *)
vars == <<net, pk, search>>
Spec == Init /\ [][Next]_vars /\ WF_vars(Next)

(* Every processRequest ends by asserting that its response is not empty,  *)
(* and the router asserts that its ports and VCs exist: so it is in every  *)
(* network here, with the VCs above.                                       *)
OffersUsable ==
  CASE net = "torus ring" -> TorusRing!OffersUsable
    [] net = "torus dimension order" -> TorusDimOrder!OffersUsable
    [] net = "torus valiants" -> TorusValiants!OffersUsable
    [] net = "hyperx" -> HyperXDimOrder!OffersUsable
    [] net = "clos lca" -> ClosLca!OffersUsable
    [] net = "clos mca" -> ClosMca!OffersUsable
    [] net = "butterfly" -> Tags!OffersUsable
    [] net = "uno" -> Direct!OffersUsable
    [] net = "hhx dimension order" -> HhxDimOrder!OffersUsable
    [] net = "hhx global random" -> HhxGlobalRandom!OffersUsable
    [] net = "hhx global and local random" -> HhxAllRandom!OffersUsable
    [] net = "hhx valiant" -> HhxValiant!OffersUsable
    [] net = "hhx minimal adaptive" -> HhxMinAdaptive!OffersUsable
    [] net = "hhx progressive" -> HhxProgressive!OffersUsable
    [] net = "hhx progressive g" -> HhxProgressiveG!OffersUsable
    [] net \in EvenPatterns -> EvenHyperX!OffersUsable
    [] net \in WidePatterns -> WideHyperX!OffersUsable
    [] net \in OddPatterns -> OddHyperX!OffersUsable
    [] net \in Searches -> TRUE

(* What a traffic pattern is chosen for: it loads all terminals alike, and *)
(* those meant to cross the middle of the network do.                      *)
TrafficAsMeant ==
  net \notin Searches /\ pk[p1].phase = "source" =>
    LET self == pk[p1].from  to == pk[p1].to
    IN /\ net \in EvenPatterns => /\ EvenTraffic!LoadsAlike(net, self)
                                  /\ EvenTraffic!CrossesOver(net, self, to)
       /\ net \in WidePatterns => /\ WideTraffic!LoadsAlike(net, self)
                                  /\ WideTraffic!CrossesOver(net, self, to)
       /\ net \in OddPatterns => /\ OddTraffic!LoadsAlike(net, self)
                                 /\ OddTraffic!CrossesOver(net, self, to)
       /\ net = "uniform random" => OddTraffic!ScanVisitsAll(self)
       /\ net = "uniform random" /\ self = 0 =>
            \A n \in 1..5 : OddTraffic!MatrixAsWeighted(n, 2)

(* No two packets can wait for each other: every hop climbs.               *)
Climb ==
  CASE net = "torus ring" -> TorusRing!ClimbStep
    [] net = "torus dimension order" -> TorusDimOrder!ClimbStep
    [] net = "torus valiants" -> TorusValiants!ClimbStep
    [] net = "hyperx" -> HyperXDimOrder!ClimbStep
    [] net = "clos lca" -> ClosLca!ClimbStep
    [] net = "clos mca" -> ClosMca!ClimbStep
    [] net = "butterfly" -> Tags!ClimbStep
    [] net = "uno" -> Direct!ClimbStep
    [] net = "hhx dimension order" -> HhxDimOrder!ClimbStep
    [] net = "hhx global random" -> HhxGlobalRandom!ClimbStep
    [] net = "hhx global and local random" -> HhxAllRandom!ClimbStep
    [] net = "hhx valiant" -> HhxValiant!ClimbStep
    [] net = "hhx minimal adaptive" -> HhxMinAdaptive!ClimbStep
    [] net = "hhx progressive" -> HhxProgressive!ClimbStep
    [] net = "hhx progressive g" -> HhxProgressiveG!ClimbStep
    [] net \in EvenPatterns -> EvenHyperX!ClimbStep
    [] net \in WidePatterns -> WideHyperX!ClimbStep
    [] net \in OddPatterns -> OddHyperX!ClimbStep
    [] net \in Searches -> TRUE
HopsClimb == [][Climb]_pk

(* The searches find the cheapest topologies within the bounds.            *)
SearchFinds ==
  /\ net = "hyperx search" => FindHyperx!StagesInOrder /\ FindHyperx!ResultsOptimal
  /\ net = "hierarchical search" => FindHierarchy!SearchFinds

(* The wiring of Network.cc and the addresses of util.cc agree with the    *)
(* routing: whatever is chosen on the way, every packet comes out, and at  *)
(* the terminal it was sent to; and a search comes to an end.              *)
AllDelivered ==
  <>(CASE net = "torus ring" -> TorusRing!AllSunk /\ TorusRing!RightTerminal
       [] net \in Searches -> search.at = "done"
       [] OTHER -> Direct!AllSunk /\ Direct!RightTerminal)
=============================================================================
