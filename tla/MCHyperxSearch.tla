--------------------------- MODULE MCHyperxSearch ---------------------------
(***************************************************************************)
(* A search in which the weights of two dimensions are free: "Search       *)
(* HyperX topologies for optimal solutions" (hyperxsearch, main.cc).       *)
(***************************************************************************)
EXTENDS Integers

VARIABLE search

WantedHyperx == [dimensions |-> <<2, 2>>, radix |-> <<4, 8>>, concentration |-> <<4, 4>>,
                 terminals |-> <<16, 16>>, bandwidth |-> <<1, 99>>, fixedWidth |-> FALSE,
                 fixedWeight |-> FALSE, maxResults |-> 9]
WantedHyperxs == {WantedHyperx}

INSTANCE HyperxSearch WITH Wanted <- WantedHyperxs

Spec == Init /\ [][Next]_search
=============================================================================
