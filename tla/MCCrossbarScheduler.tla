------------------------ MODULE MCCrossbarScheduler ------------------------
(* Two clients, two VCs behind one crossbar port, packets of one and two   *)
(* flits; the r_separable allocator of the configurations with arbiters    *)
(* that may pick any requester.                                            *)
EXTENDS CrossbarScheduler

CONSTANTS p0

MCPortOf == [v \in Vcs |-> p0]
MCSizes == {1, 2}
MCAllocations(reqs) == RSeparable(reqs)
=============================================================================
