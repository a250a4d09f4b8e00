----------------------------- MODULE MCIqRouter -----------------------------
(***************************************************************************)
(* Two routers.  "packet": two input queues on two input ports send to the *)
(* two VCs of one output port: two packets from one input (two flits and   *)
(* one), one of two flits from the other, through buffers of two slots,    *)
(* with packet-buffer flow control.  "flit": the two VCs of one input port *)
(* send to two output ports through buffers of one slot, with packets      *)
(* longer than a buffer (flit-buffer flow control), slower routing, a      *)
(* slower crossbar and a slower congestion status; the routing algorithm   *)
(* offers the first queue one port or both.  The VC scheduler has an       *)
(* rc_separable allocator and the crossbar scheduler an r_separable one,   *)
(* as in the configurations.                                               *)
(***************************************************************************)
EXTENDS CongestedRouter, Allocation

CONSTANTS c0, c1, i0, v0, v1, p0, p1

VARIABLE config

(* "packet" is this module itself, with the values the .cfg gives.         *)
MCVcAllocations(reqs) == RcSeparable(reqs, 1)
MCXbarAllocations(reqs) == RSeparable(reqs)
MCTraffic == [c \in Clients |-> IF c = c0 THEN <<2, 1>> ELSE <<2>>]
MCInPort == [c \in Clients |-> c]
MCPortOf == [v \in Vcs |-> p0]
MCRoutes == [c \in Clients |-> {Vcs}]

SharedPort == [c \in Clients |-> i0]
OneEach == [v \in Vcs |-> IF v = v0 THEN p0 ELSE p1]
OneOrBoth == [c \in Clients |-> IF c = c0 THEN {{v0}, Vcs} ELSE {{v0}}]

FlitRouter == INSTANCE CongestedRouter WITH
  InPort <- SharedPort, Ports <- {p0, p1}, PortOf <- OneEach,
  Depth <- 1, DownDepth <- 1, FullPacket <- FALSE, IdleUnlock <- TRUE,
  VcaSwaWait <- TRUE, RoutingLatency <- 2, XbarLatency <- 2, CongestionLatency <- 2,
  Routes <- OneOrBoth

allVars == <<config, congestedVars>>

MCInit == \/ config = "packet" /\ CongestedInit
          \/ config = "flit" /\ FlitRouter!CongestedInit

MCEngineStep == /\ UNCHANGED config
                /\ \/ config = "packet" /\ EngineStep
                   \/ config = "flit" /\ FlitRouter!EngineStep
MCNeighbourStep == /\ UNCHANGED config
                   /\ \/ config = "packet" /\ NeighbourStep
                      \/ config = "flit" /\ FlitRouter!NeighbourStep

MCNext == MCEngineStep \/ MCNeighbourStep

(* The engine goes on: within a cycle it runs all that is due, since the   *)
(* clock moves only then.  The neighbours send and give credits back when  *)
(* they always again can: a channel can deliver at one point of each       *)
(* cycle, hence strong fairness.                                           *)
MCSpec == MCInit /\ [][MCNext]_allVars /\ WF_allVars(MCEngineStep) /\ SF_allVars(MCNeighbourStep)

-----------------------------------------------------------------------------
(* No buffer overflows, here or downstream.                                *)
BuffersHold ==
  IF config = "packet" THEN NoBufferOverflows ELSE FlitRouter!NoBufferOverflows

(* The counts of the congestion status are late but never wrong.           *)
StatusFollows == IF config = "packet" THEN CountsFollow ELSE FlitRouter!CountsFollow

(* The input queues are the well-behaved clients that the schedulers rely  *)
(* on, and the router implements both schedulers' specifications: what is  *)
(* proved of them (one owner per VC, every credit accounted for, a credit  *)
(* behind every grant) therefore holds in the router.                      *)
UsesBothSchedulers ==
  /\ IF config = "packet" THEN VS!Init /\ XS!Init
     ELSE FlitRouter!VS!Init /\ FlitRouter!XS!Init
  /\ [][IF config = "packet"
        THEN [VS!Next]_(VS!vars) /\ [XS!Next]_(XS!vars)
        ELSE /\ [FlitRouter!VS!Next]_(FlitRouter!VS!vars)
             /\ [FlitRouter!XS!Next]_(FlitRouter!XS!vars)]_allVars

(* Every flit that is to arrive leaves the router.                         *)
AllDelivered == <>(IF config = "packet" THEN Drained ELSE FlitRouter!Drained)
=============================================================================
