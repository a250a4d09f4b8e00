----------------------- MODULE MCArbitratedAllocator -----------------------
(* Three clients and two resources, one iteration, slip latching; each     *)
(* allocator with each arbiter.                                            *)
EXTENDS ArbitratedAllocator

AllKinds == [allocator : {"rc_separable", "cr_separable", "r_separable"},
             arbiter : {"lslp", "comparing", "random"}]
============================================================================
