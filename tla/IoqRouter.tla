----------------------------- MODULE IoqRouter -----------------------------
(***************************************************************************)
(* router/inputoutputqueued: the input-queued router of IqRouter, with an  *)
(* output queue behind every output of its main crossbar, and an output    *)
(* crossbar, with a scheduler of its own, behind the output queues of each *)
(* port.  The main crossbar has one port for each output VC, its credits   *)
(* are the slots of the output queues and come back from them; the credits *)
(* of the channel go to the output crossbar scheduler.                     *)
(*                                                                         *)
(* The module has the output side of one port: the output sides of two     *)
(* ports share nothing but the input queues.                               *)
(***************************************************************************)
EXTENDS Integers, Sequences, FiniteSets

CONSTANTS Clients, InPort, Vcs, None, FirstClient,
          Depth,           \* input_queue_depth, here and in the next router
          OutDepth,        \* output_queue_depth
          FullPacket, PacketLock, IdleUnlock,           \* crossbar_scheduler
          OutFullPacket, OutPacketLock, OutIdleUnlock,  \* output_crossbar_scheduler
          FirstVc,         \* the VC with index 0
          OutPort,         \* the port of the output crossbar
          VcaSwaWait, RoutingLatency, XbarLatency,
          OutXbarLatency,  \* the latency of the output crossbar, in cycles
          Traffic, Routes,
          VcAllocations(_), XbarAllocations(_), OutAllocations(_)

VARIABLES vcTaken, requests, clientRequested, allocEventSet,
          request, credits, incrCredits, portLocks, eventAction,
          iq, pipeEvent, xbar, delivered, down, arrived, freeSlots, epsilon, heard

VARIABLES oRequest, oCredits, oIncrCredits, oPortLocks, oEventAction,  \* the output
                         \* port's CrossbarScheduler
          oq,            \* oq[v]: the output queue of VC v
          oPipeEvent,    \* oPipeEvent[v]: "none", "now" or "next" cycle
          oXbar,         \* the output crossbar's maps in flight, newest first
          sent,          \* sent[v]: the flits put on the channel on VC v so far
          away           \* away[v]: those whose credit is not back yet

mainVars == <<vcTaken, requests, clientRequested, allocEventSet, request, credits,
              incrCredits, portLocks, eventAction, iq, pipeEvent, xbar, delivered,
              down, arrived, freeSlots, heard>>
oSchedVars == <<oRequest, oCredits, oIncrCredits, oPortLocks, oEventAction>>
outVars == <<oSchedVars, oq, oPipeEvent, oXbar, sent, away>>
vars == <<mainVars, epsilon, outVars>>

(* The part up to the output queues; "down" are the flits in their buffers.*)
Main == INSTANCE IqRouter_proofs
          WITH Ports <- Vcs, PortOf <- [v \in Vcs |-> v], DownDepth <- OutDepth

OQ == INSTANCE OutputQueue

(* What is inside the output crossbar on its way to VC v.                  *)
InOutCrossbar(v) == Cardinality({i \in DOMAIN oXbar : \E x \in oXbar[i].flits : x.vc = v})

(* The packet that output queue v is sending: the rest of the packet whose *)
(* flit left it last, or the one whose head it offers.                     *)
Sending(v) ==
  LET left == Len(delivered[v]) - Len(OQ!Contents(oq[v]))   \* flits that have left
      rest == IF left = 0 THEN 0 ELSE delivered[v][left].size - delivered[v][left].index
  IN IF rest > 0
     THEN [vc |-> v, size |-> delivered[v][left].size, left |-> rest]
     ELSE IF oq[v].flit # None
     THEN [vc |-> v, size |-> oq[v].flit.size, left |-> oq[v].flit.size]
     ELSE None

(* The output scheduler; its clients are the output queues, each with its  *)
(* own VC.                                                                 *)
OS == INSTANCE CrossbarScheduler_proofs
        WITH Clients <- Vcs, Ports <- {OutPort}, PortOf <- [v \in Vcs |-> OutPort],
             FirstClient <- FirstVc,
             FullPacket <- OutFullPacket, PacketLock <- OutPacketLock,
             IdleUnlock <- OutIdleUnlock, Allocations <- OutAllocations,
             Sizes <- Main!PacketSizes,
             request <- oRequest, credits <- oCredits, incrCredits <- oIncrCredits,
             portLocks <- oPortLocks, eventAction <- oEventAction,
             packet <- [v \in Vcs |-> Sending(v)],
             granted <- {v \in Vcs : oq[v].fsm = "ready"},
             used <- [v \in Vcs |-> InOutCrossbar(v) + away[v]]

(* What the code asserts of its settings, for both crossbars, and what the *)
(* allocators give.                                                        *)
ASSUME MainSettings == Main!RouterAssumption
ASSUME MainVcAllocator == Main!VcAllocatorAssumption
ASSUME MainXbarAllocator == Main!XbarAllocatorAssumption
ASSUME OutputSettings == OS!SchedulerAssumption /\ OutXbarLatency \in Nat \ {0}
ASSUME OutputAllocator == OS!GrantAssumption

-----------------------------------------------------------------------------
(* The engine, as in IqRouter, with the events of the output side.         *)
OutSchedulerDue == epsilon = 0 /\ oEventAction # "NONE"
OutCrossbarDue == oXbar # <<>> /\ oXbar[Len(oXbar)].wait = 0

At(e) == /\ Main!At(e)
         /\ e >= 1 => ~OutSchedulerDue
         /\ e >= 2 => ~OutCrossbarDue

Init == /\ Main!Init
        /\ OS!SchedInit
        /\ oq = [v \in Vcs |-> OQ!EmptyQueue]
        /\ oPipeEvent = [v \in Vcs |-> "none"]
        /\ oXbar = <<>>
        /\ sent = [v \in Vcs |-> <<>>]
        /\ away = [v \in Vcs |-> 0]

-----------------------------------------------------------------------------
(* The input side, as it is.                                               *)
MainSchedulers == /\ \/ Main!VcSchedulerEvent
                     \/ Main!CrossbarSchedulerEvent
                     \/ \E c \in Clients : Main!RoutingResponse(c)
                  /\ UNCHANGED outVars

FlitArrives(c) == Main!FlitArrives(c) /\ At(1) /\ UNCHANGED outVars

PipelineEvent(c) == Main!PipelineEvent(c) /\ At(2) /\ UNCHANGED outVars

(* The main crossbar delivers to the output queues (receiveFlit).          *)
MainCrossbarEvent ==
  /\ Main!CrossbarEvent
  /\ At(1)
  /\ LET hit == {v \in Vcs : delivered'[v] # delivered[v]}
     IN /\ oq' = [v \in Vcs |-> IF v \in hit
                                THEN OQ!Received(oq[v], delivered'[v][Len(delivered'[v])])
                                ELSE oq[v]]
        /\ oPipeEvent' = [v \in Vcs |-> IF v \in hit THEN Main!Woken(oPipeEvent[v])
                                        ELSE oPipeEvent[v]]
  /\ UNCHANGED <<oSchedVars, oXbar, sent, away>>

-----------------------------------------------------------------------------
(* The output side.                                                        *)

(* Epsilon 0: the output crossbar scheduler.                               *)
OutSchedulerEvent ==
  /\ At(0)
  /\ \/ /\ OS!CreditsOnly
        /\ UNCHANGED <<oq, oPipeEvent>>
     \/ \E g \in OutAllocations(OS!Unmasked) :
          /\ OS!RunAlloc(g)
          /\ oq' = [v \in Vcs |-> IF oRequest[v] = None THEN oq[v]
                                  ELSE OQ!Response(oq[v], v \in OS!Winners(g))]
          /\ oPipeEvent' = [v \in Vcs |-> IF oRequest[v] # None
                                          THEN Main!Woken(oPipeEvent[v])
                                          ELSE oPipeEvent[v]]
  /\ UNCHANGED <<mainVars, oXbar, sent, away>>

(* Epsilon 1: the output crossbar, by the ejector, puts a flit on the      *)
(* channel; the channel delivers credits for some VCs.                     *)
OutCrossbarEvent ==
  /\ OutCrossbarDue
  /\ At(1)
  /\ LET out(v) == {x.flit : x \in {y \in oXbar[Len(oXbar)].flits : y.vc = v}}
     IN /\ sent' = [v \in Vcs |-> IF out(v) = {} THEN sent[v]
                                  ELSE Append(sent[v], CHOOSE f \in out(v) : TRUE)]
        /\ away' = [v \in Vcs |-> away[v] + Cardinality(out(v))]
  /\ oXbar' = SubSeq(oXbar, 1, Len(oXbar) - 1)
  /\ UNCHANGED <<mainVars, oSchedVars, oq, oPipeEvent>>

CreditArrives ==
  /\ <<"credit", OutPort>> \notin heard
  /\ At(1)
  /\ \E S \in (SUBSET {v \in Vcs : away[v] > 0}) \ {{}} :
       /\ OS!IncrementCreditCount(S)
       /\ away' = [v \in Vcs |-> IF v \in S THEN away[v] - 1 ELSE away[v]]
  /\ heard' = heard \cup {<<"credit", OutPort>>}
  /\ UNCHANGED <<vcTaken, requests, clientRequested, allocEventSet, request, credits,
                 incrCredits, portLocks, eventAction, iq, pipeEvent, xbar, delivered,
                 down, arrived, freeSlots, oRequest, oCredits, oPortLocks, oq,
                 oPipeEvent, oXbar, sent>>

(* Crossbar::inject of the output crossbar.                                *)
InjectFlit(x) ==
  oXbar' = IF oXbar # <<>> /\ Head(oXbar).wait = OutXbarLatency
           THEN [oXbar EXCEPT ![1].flits = @ \cup {x}]
           ELSE <<[wait |-> OutXbarLatency, flits |-> {x}]>> \o oXbar

OutRequest(v, f) == [vc |-> v, head |-> f.index = 1, tail |-> f.index = f.size,
                     size |-> f.size]

(* Epsilon 2: OutputQueue::processPipeline.  A slot that gets free is a    *)
(* credit for the main crossbar scheduler.                                 *)
OutPipelineEvent(v) ==
  /\ oPipeEvent[v] = "now"
  /\ At(2)
  /\ \E q0 \in {oq[v]} : \E q1 \in {OQ!AfterInject(q0)} : \E q2 \in {OQ!AfterLoad(q1)} :
     \E q3 \in {OQ!AfterSubmit(q2)} :
        /\ oq' = [oq EXCEPT ![v] = q3]
        /\ oPipeEvent' = [oPipeEvent EXCEPT ![v] = IF OQ!RunsAgain(q3) THEN "next" ELSE "none"]
        /\ IF OQ!InjectReady(q0)
           THEN InjectFlit([flit |-> q0.flit, vc |-> v]) /\ OS!DecrementCreditCount(v)
           ELSE UNCHANGED <<oXbar, oCredits>>
        /\ IF OQ!Loads(q1)
           THEN Main!XS!IncrementCreditCount({v}) /\ down' = [down EXCEPT ![v] = @ - 1]
           ELSE UNCHANGED <<incrCredits, eventAction, down>>
        /\ IF OQ!Asks(q2)
           THEN OS!RequestFlit(v, OutRequest(v, q2.flit))
           ELSE UNCHANGED <<oRequest, oEventAction>>
  /\ UNCHANGED <<vcTaken, requests, clientRequested, allocEventSet, request, credits,
                 portLocks, iq, pipeEvent, xbar, delivered, arrived, freeSlots, heard,
                 oIncrCredits, oPortLocks, sent, away>>

Tick ==
  /\ Main!Tick
  /\ ~OutSchedulerDue /\ ~OutCrossbarDue /\ \A v \in Vcs : oPipeEvent[v] # "now"
  /\ oPipeEvent' = [v \in Vcs |-> IF oPipeEvent[v] = "next" THEN "now" ELSE oPipeEvent[v]]
  /\ oXbar' = [i \in DOMAIN oXbar |-> [oXbar[i] EXCEPT !.wait = @ - 1]]
  /\ UNCHANGED <<oSchedVars, oq, sent, away>>

EngineStep == \/ MainSchedulers \/ MainCrossbarEvent \/ OutSchedulerEvent
              \/ OutCrossbarEvent \/ Tick
              \/ \E c \in Clients : PipelineEvent(c)
              \/ \E v \in Vcs : OutPipelineEvent(v)

Next == EngineStep \/ CreditArrives \/ \E c \in Clients : FlitArrives(c)

(* The engine goes on, upstream sends what it has credits for, and         *)
(* downstream gives every credit back in the end (strong fairness: a       *)
(* channel can deliver at one point of each cycle); the credits of the     *)
(* main crossbar come back by themselves.                                  *)
Fairness ==
  /\ WF_vars(EngineStep)
  /\ \A c \in Clients : SF_vars(FlitArrives(c))
  /\ \A v \in Vcs : SF_vars(CreditArrives /\ away'[v] # away[v])

Spec == Init /\ [][Next]_vars

FairSpec == Spec /\ Fairness

-----------------------------------------------------------------------------
(* The slots of an output queue and the credits of the main scheduler are  *)
(* the same thing, and so are those of the next router and the output      *)
(* scheduler's: counted once, in one place, no buffer can overflow.        *)
SlotsAreCredits ==
  \A v \in Vcs :
    /\ credits[v] + incrCredits[v] + Main!InCrossbar(v) + Len(oq[v].buffer) = OutDepth
    /\ oCredits[v] + oIncrCredits[v] + InOutCrossbar(v) + away[v] = Depth

(* What leaves the router on a VC is what the main crossbar delivered for  *)
(* it, in that order, and these are whole packets.                         *)
InFlight(v) ==
  LET part[i \in 0..Len(oXbar)] ==
        IF i = 0 THEN <<>>
        ELSE LET fs == {x.flit : x \in {y \in oXbar[i].flits : y.vc = v}}
             IN (IF fs = {} THEN <<>> ELSE <<CHOOSE f \in fs : TRUE>>) \o part[i - 1]
  IN part[Len(oXbar)]

OutputOrder ==
  /\ \A v \in Vcs : delivered[v] = sent[v] \o InFlight(v) \o OQ!Contents(oq[v])
  /\ Main!PacketsStayTogether

(* A queue on either side that holds a flit will be run again.             *)
NoLostWakeup ==
  /\ Main!NoLostWakeup
  /\ \A v \in Vcs :
       OQ!Contents(oq[v]) # <<>> =>
         \/ oPipeEvent[v] # "none"
         \/ oq[v].fsm = "waiting" /\ oRequest[v] # None /\ oEventAction = "RUNALLOC"

(* The output queues are the well-behaved neighbours of the main crossbar  *)
(* scheduler and the well-behaved clients of the output one: the router    *)
(* implements both specifications, and what is proved of them holds here.  *)
UsesBothSchedulers == Main!UsesCrossbarScheduler /\ OS!Spec

(* Every flit that is to arrive leaves the router.                         *)
AllDelivered ==
  <>(/\ Main!Drained
     /\ \A v \in Vcs : sent[v] = delivered[v])
=============================================================================
