---------------------------- MODULE MCIoqRouter ----------------------------
(* Two input queues on two input ports and the two VCs of one output port, *)
(* output queues of one slot.  The main crossbar has flit-buffer flow      *)
(* control and the output crossbar packet-buffer flow control with locks.  *)
EXTENDS IoqRouter, Allocation

CONSTANTS c0, c1, v0, v1

MCInPort == [c \in Clients |-> c]
MCTraffic == [c \in Clients |-> <<2>>]
MCRoutes == [c \in Clients |-> {{v0, v1}}]
MCVcAllocations(reqs) == RcSeparable(reqs, 1)
MCXbarAllocations(reqs) == RSeparable(reqs)
MCOutAllocations(reqs) == RSeparable(reqs)
=============================================================================
