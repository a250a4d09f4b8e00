-------------------------- MODULE MCVcScheduler --------------------------
(* Three input queues and two output VCs; the allocator is the             *)
(* rc_separable one of the configurations, with arbiters that may pick any *)
(* requester.                                                              *)
EXTENDS VcScheduler

MCAllocations(reqs) == RcSeparable(reqs, 1)
===========================================================================
