------------------------------ MODULE MCHhxVcs ------------------------------
(***************************************************************************)
(* Three simulations of hierarchical HyperXs, side by side, each with a    *)
(* number of VCs that the constructor of its routing algorithm accepts     *)
(* (VcsAsked): the fewest for GlobalRandom and ProgressiveAdaptiveG, and   *)
(* two in every set for MinimalAdaptive.  One packet crosses each network. *)
(***************************************************************************)
EXTENDS Integers, Sequences

CONSTANT p1
VARIABLES random, progressive, adaptive      \* the packets of the three

Alone == {p1}
From0To(terminal) == [p \in Alone |-> {<<0, terminal>>}]

(* Groups of 2 routers in a 2 x 2 HyperX.                                  *)
GlobalRandom == INSTANCE HierarchicalHyperX WITH
  LocalWidths <- <<2>>, LocalWeights <- <<1>>, GlobalWidths <- <<2, 2>>, GlobalWeights <- <<1, 1>>,
  GlobalLinksPerRouter <- 1, Concentration <- 1, NumVcs <- 3, Algorithm <- "global_random",
  RandomGroup <- FALSE, LocalDeroute <- 0, Packets <- Alone, Trips <- From0To(7), pk <- random
(* Groups of 2 x 2 routers in a row of 3 groups.                           *)
ProgressiveG == INSTANCE HierarchicalHyperX WITH
  LocalWidths <- <<2, 2>>, LocalWeights <- <<1, 1>>, GlobalWidths <- <<3>>, GlobalWeights <- <<2>>,
  GlobalLinksPerRouter <- 1, Concentration <- 1, NumVcs <- 8,
  Algorithm <- "progressive_adaptive_g", RandomGroup <- FALSE, LocalDeroute <- 0,
  Packets <- Alone, Trips <- From0To(9), pk <- progressive
(* Two groups of 2 routers.                                                *)
MinAdaptive == INSTANCE HierarchicalHyperX WITH
  LocalWidths <- <<2>>, LocalWeights <- <<1>>, GlobalWidths <- <<2>>, GlobalWeights <- <<1>>,
  GlobalLinksPerRouter <- 1, Concentration <- 1, NumVcs <- 6, Algorithm <- "min_adaptive",
  RandomGroup <- FALSE, LocalDeroute <- 0, Packets <- Alone, Trips <- From0To(3), pk <- adaptive

vars == <<random, progressive, adaptive>>
Init == GlobalRandom!Init /\ ProgressiveG!Init /\ MinAdaptive!Init
Next == \/ GlobalRandom!Next /\ UNCHANGED <<progressive, adaptive>>
        \/ ProgressiveG!Next /\ UNCHANGED <<random, adaptive>>
        \/ MinAdaptive!Next /\ UNCHANGED <<random, progressive>>
Spec == Init /\ [][Next]_vars

(* assert(_response->size() > 0) ends the processRequest of each of the    *)
(* three algorithms: every hop of every packet finds a port and a VC.      *)
NeverEmpty(packets) == \A p \in Alone : packets[p].phase = "routed" => packets[p].offer # {}

(* That this is so of one of them at least, whatever happens in the        *)
(* others: a violation is a state in which the assertion fails in all.     *)
ResponseNeverEmpty == NeverEmpty(random) \/ NeverEmpty(progressive) \/ NeverEmpty(adaptive)
=============================================================================
