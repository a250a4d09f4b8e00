----------------------------- MODULE IqRouter -----------------------------
(***************************************************************************)
(* router/inputqueued: a router made of input queues, the VC scheduler,    *)
(* the crossbar scheduler, the crossbar and the ejectors, run by the event *)
(* engine and connected to neighbours by channels.                         *)
(*                                                                         *)
(* Time is relative.  Within a cycle the engine runs the events of epsilon *)
(* 0 (schedulers, routing), then 1 (crossbar, channels), then 2 (input     *)
(* queues); events of one epsilon run in any order.  A scheduler event is  *)
(* pending when the scheduler's own flag says so, a routing response and a *)
(* crossbar delivery when their wait is over, a pipeline event when it is  *)
(* set for "now"; Tick starts the next cycle.                              *)
(*                                                                         *)
(* The neighbours are any that keep the protocol: upstream sends the flits *)
(* of a packet in order and only when it has a credit, one flit per port   *)
(* and cycle; downstream takes the flits and gives their credits back at   *)
(* any later time, one credit message per port and cycle.                  *)
(***************************************************************************)
EXTENDS Integers, Sequences, FiniteSets

CONSTANTS Clients,          \* the input queues, one per input VC
          InPort,           \* InPort[c]: the input port of queue c
          Vcs, Ports, PortOf,   \* the output VCs, the ports, the port of each VC
          None,
          FirstClient,
          Depth,            \* input_queue_depth
          DownDepth,        \* the buffer slots behind each output VC: the input
                            \*   queues of the next router, of the same depth, or
                            \*   the output queues of this one
          FullPacket, PacketLock, IdleUnlock,
          VcaSwaWait,
          RoutingLatency, XbarLatency,  \* in cycles
          Traffic,          \* Traffic[c]: the sizes of the packets that arrive at c
          Routes,           \* Routes[c]: the responses the routing algorithm may
                            \*   give to a packet at c (sets of output VCs)
          VcAllocations(_), XbarAllocations(_)

VARIABLES vcTaken, requests, clientRequested, allocEventSet,        \* VcScheduler
          request, credits, incrCredits, portLocks, eventAction,    \* CrossbarScheduler
          iq,            \* iq[c]: the pipeline of input queue c
          pipeEvent,     \* pipeEvent[c]: "none", "now" or "next" cycle
          xbar,          \* the crossbar's maps in flight, newest first
          delivered,     \* delivered[v]: the flits sent out on VC v so far
          down,          \* down[v]: those whose credit is not back yet
          arrived,       \* arrived[c]: how many flits have arrived at c
          freeSlots,     \* freeSlots[c]: the credits upstream has for c
          epsilon,       \* the epsilon of the last event of this cycle
          heard          \* the ports that have received <<what, port>> this cycle

vcVars == <<vcTaken, requests, clientRequested, allocEventSet>>
xsVars == <<request, credits, incrCredits, portLocks, eventAction>>
iqVars == <<iq, pipeEvent>>
netVars == <<delivered, down, arrived, freeSlots, heard>>
vars == <<vcVars, xsVars, iqVars, xbar, netVars, epsilon>>

IQ == INSTANCE InputQueue

-----------------------------------------------------------------------------
(* What arrives: flit number i of the traffic of input queue c.            *)
PacketSizes == UNION {{Traffic[c][n] : n \in 1..Len(Traffic[c])} : c \in Clients}
SumTo(s, n) == LET sum[i \in 0..Len(s)] == IF i = 0 THEN 0 ELSE sum[i - 1] + s[i]
               IN sum[n]
TotalFlits(c) == SumTo(Traffic[c], Len(Traffic[c]))
FlitNumber(c, i) ==
  LET n == CHOOSE n \in 1..Len(Traffic[c]) :
             SumTo(Traffic[c], n - 1) < i /\ i <= SumTo(Traffic[c], n)
  IN IQ!FlitOf(c, n, i - SumTo(Traffic[c], n - 1), Traffic[c][n])

(* What is inside the crossbar on its way to VC v: its maps in flight that *)
(* have a flit for v.                                                      *)
InCrossbar(v) == Cardinality({i \in DOMAIN xbar : \E x \in xbar[i].map[PortOf[v]] : x.vc = v})

(* The schedulers, and how they see the input queues and the neighbours:   *)
(* the VCs a queue holds, and the packet it is sending.                    *)
VS == INSTANCE VcScheduler_proofs
        WITH NoClient <- None, Allocations <- VcAllocations,
             held <- [c \in Clients |-> IQ!HeldVcs(iq[c])]

NextFlit(c) == LET q == IQ!Contents(iq[c])
               IN IF q # <<>> THEN Head(q)
                  ELSE IF arrived[c] < TotalFlits(c) THEN FlitNumber(c, arrived[c] + 1)
                  ELSE None

Sending(c) ==
  LET f == NextFlit(c)
  IN IF f # None /\ (iq[c].swa.flit # None \/ ~IQ!IsHead(f))
     THEN [vc |-> IF iq[c].swa.flit # None THEN iq[c].swa.vc ELSE iq[c].vca.vc,
           size |-> f.size, left |-> f.size - f.index + 1]
     ELSE None

XS == INSTANCE CrossbarScheduler_proofs
        WITH Allocations <- XbarAllocations, Depth <- DownDepth,
             Sizes <- PacketSizes,
             packet <- [c \in Clients |-> Sending(c)],
             granted <- {c \in Clients : iq[c].swa.fsm = "ready"},
             used <- [v \in Vcs |-> InCrossbar(v) + down[v]]

(* What the code asserts of its settings and what the allocators (see      *)
(* ArbitratedAllocator_proofs) and routing algorithms give; None is a mark *)
(* that is nothing else.                                                   *)
Flits == [client : Clients, packet : Nat, index : Nat \ {0}, size : PacketSizes]

ASSUME RouterAssumption ==
  /\ PortOf \in [Vcs -> Ports] /\ FirstClient \in Clients
  /\ Depth \in Nat \ {0} /\ DownDepth \in Nat \ {0}
  /\ RoutingLatency \in Nat \ {0} /\ XbarLatency \in Nat \ {0}
  /\ {FullPacket, PacketLock, IdleUnlock, VcaSwaWait} \subseteq BOOLEAN
  /\ FullPacket => \A n \in PacketSizes : n <= DownDepth
  /\ IdleUnlock => PacketLock
  /\ \A c \in Clients : Traffic[c] \in Seq(Nat \ {0}) /\ Routes[c] \subseteq (SUBSET Vcs) \ {{}}
  /\ None \notin Clients \cup Vcs /\ None \notin Flits
  /\ None \notin XS!Requests /\ None \notin XS!Packets

ASSUME VcAllocatorAssumption ==
  \A reqs \in SUBSET (Clients \X Vcs) : \A g \in VcAllocations(reqs) : VS!Matching(reqs, g)
ASSUME XbarAllocatorAssumption ==
  \A reqs \in SUBSET (Clients \X Ports) :
    \A g \in XbarAllocations(reqs) : XS!OnePerResource(reqs, g)

-----------------------------------------------------------------------------
(* The engine: which events are due.                                       *)
RoutingDue(c) == iq[c].rfe.fsm = "waiting" /\ iq[c].rfe.wait = 0
SchedulersDue == allocEventSet \/ eventAction # "NONE" \/ \E c \in Clients : RoutingDue(c)
CrossbarDue == xbar # <<>> /\ xbar[Len(xbar)].wait = 0
PipelineDue == \E c \in Clients : pipeEvent[c] = "now"

(* An event of epsilon e is next.  What is scheduled for epsilon 0 after   *)
(* epsilon 0 has passed is for the next cycle.                             *)
MayRun(e) == /\ epsilon <= e
             /\ e >= 1 => ~(epsilon = 0 /\ SchedulersDue)
             /\ e >= 2 => ~CrossbarDue

At(e) == MayRun(e) /\ epsilon' = e

Woken(s) == IF s = "none" THEN "now" ELSE s      \* setPipelineEvent()

Init == /\ VS!SchedInit /\ XS!SchedInit
        /\ iq = [c \in Clients |-> IQ!EmptyQueue]
        /\ pipeEvent = [c \in Clients |-> "none"]
        /\ xbar = <<>>
        /\ delivered = [v \in Vcs |-> <<>>]
        /\ down = [v \in Vcs |-> 0]
        /\ arrived = [c \in Clients |-> 0]
        /\ freeSlots = [c \in Clients |-> Depth]
        /\ epsilon = 0
        /\ heard = {}

-----------------------------------------------------------------------------
(* Epsilon 0: the schedulers run and answer, the routing algorithm answers.*)

VcSchedulerEvent ==
  /\ At(0)
  /\ \E g \in VcAllocations(VS!Unmasked) :
       /\ VS!Allocate(g)
       /\ iq' = [c \in Clients |->
                   IF c \notin clientRequested THEN iq[c]
                   ELSE IQ!VcResponse(iq[c], IF VS!GrantsTo(g, c) = {} THEN None
                                             ELSE CHOOSE v \in VS!GrantsTo(g, c) : TRUE)]
  /\ pipeEvent' = [c \in Clients |-> IF c \in clientRequested THEN Woken(pipeEvent[c])
                                     ELSE pipeEvent[c]]
  /\ UNCHANGED <<xsVars, xbar, netVars>>

CrossbarSchedulerEvent ==
  /\ At(0)
  /\ \/ /\ XS!CreditsOnly
        /\ UNCHANGED iqVars
     \/ \E g \in XbarAllocations(XS!Unmasked) :
          /\ XS!RunAlloc(g)
          /\ iq' = [c \in Clients |->
                      IF request[c] = None THEN iq[c]
                      ELSE IQ!XbarResponse(iq[c], c \in XS!Winners(g))]
          /\ pipeEvent' = [c \in Clients |-> IF request[c] # None THEN Woken(pipeEvent[c])
                                             ELSE pipeEvent[c]]
  /\ UNCHANGED <<vcVars, xbar, netVars>>

RoutingResponse(c) ==
  /\ RoutingDue(c)
  /\ At(0)
  /\ \E route \in Routes[c] : iq' = [iq EXCEPT ![c] = IQ!RouteResponse(@, route)]
  /\ pipeEvent' = [pipeEvent EXCEPT ![c] = Woken(@)]
  /\ UNCHANGED <<vcVars, xsVars, xbar, netVars>>

-----------------------------------------------------------------------------
(* Epsilon 1: the crossbar delivers to the ejectors, the channels deliver  *)
(* flits and credits.                                                      *)

(* Crossbar::processEvent, Ejector::receiveFlit and Router::sendFlit: the  *)
(* oldest map is emptied onto the output channels.                         *)
CrossbarEvent ==
  /\ CrossbarDue
  /\ At(1)
  /\ LET map == xbar[Len(xbar)].map
         flits(v) == {x.flit : x \in {y \in map[PortOf[v]] : y.vc = v}}
     IN /\ delivered' = [v \in Vcs |-> IF flits(v) = {} THEN delivered[v]
                                       ELSE Append(delivered[v], CHOOSE f \in flits(v) : TRUE)]
        /\ down' = [v \in Vcs |-> down[v] + Cardinality(flits(v))]
  /\ xbar' = SubSeq(xbar, 1, Len(xbar) - 1)
  /\ UNCHANGED <<vcVars, xsVars, iqVars, arrived, freeSlots, heard>>

(* Channel::processEvent and Router::receiveFlit: the next flit of queue c *)
(* arrives, if upstream has a credit for it.                               *)
FlitArrives(c) ==
  /\ arrived[c] < TotalFlits(c) /\ freeSlots[c] > 0
  /\ <<"flit", InPort[c]>> \notin heard
  /\ At(1)
  /\ iq' = [iq EXCEPT ![c].buffer = Append(@, FlitNumber(c, arrived[c] + 1))]
  /\ pipeEvent' = [pipeEvent EXCEPT ![c] = Woken(@)]
  /\ arrived' = [arrived EXCEPT ![c] = @ + 1]
  /\ freeSlots' = [freeSlots EXCEPT ![c] = @ - 1]
  /\ heard' = heard \cup {<<"flit", InPort[c]>>}
  /\ UNCHANGED <<vcVars, xsVars, xbar, delivered, down>>

(* Channel::processEvent and Router::receiveCredit: a credit message for   *)
(* some VCs of port p.                                                     *)
CreditArrives(p) ==
  /\ <<"credit", p>> \notin heard
  /\ At(1)
  /\ \E S \in (SUBSET {v \in Vcs : PortOf[v] = p /\ down[v] > 0}) \ {{}} :
       /\ XS!IncrementCreditCount(S)
       /\ down' = [v \in Vcs |-> IF v \in S THEN down[v] - 1 ELSE down[v]]
  /\ heard' = heard \cup {<<"credit", p>>}
  /\ UNCHANGED <<vcVars, request, credits, portLocks, iqVars, xbar, delivered, arrived, freeSlots>>

-----------------------------------------------------------------------------
(* Epsilon 2: the pipeline of an input queue.                              *)

(* Crossbar::inject: the first flit of a cycle opens a new map, delivered  *)
(* after the latency of the crossbar.                                      *)
InjectFlit(p, x) ==
  xbar' = IF xbar # <<>> /\ Head(xbar).wait = XbarLatency
          THEN [xbar EXCEPT ![1].map[p] = @ \cup {x}]
          ELSE <<[wait |-> XbarLatency,
                  map |-> [o \in Ports |-> IF o = p THEN {x} ELSE {}]]>> \o xbar

XbarRequest(s) == [vc |-> s.vc, head |-> IQ!IsHead(s.flit), tail |-> IQ!IsTail(s.flit),
                   size |-> s.flit.size]

(* InputQueue::processPipeline, with the calls each stage makes: q1 to q7  *)
(* is the queue after each stage.                                          *)
PipelineEvent(c) ==
  /\ pipeEvent[c] = "now"
  /\ At(2)
  /\ \E q0 \in {iq[c]} : \E q1 \in {IQ!AfterInject(q0)} : \E q2 \in {IQ!AfterLoadSwa(q1)} :
     \E q3 \in {IQ!AfterSubmitSwa(q2)} : \E q4 \in {IQ!AfterLoadVca(q3)} :
     \E q5 \in {IQ!AfterSubmitVca(q4)} : \E q6 \in {IQ!AfterLoadRfe(q5)} :
     \E q7 \in {IQ!AfterSubmitRfe(q6)} :
        /\ iq' = [iq EXCEPT ![c] = q7]
        /\ pipeEvent' = [pipeEvent EXCEPT ![c] = IF IQ!RunsAgain(q7) THEN "next" ELSE "none"]
        /\ IF IQ!InjectReady(q0)
           THEN /\ InjectFlit(PortOf[q0.swa.vc], [flit |-> q0.swa.flit, vc |-> q0.swa.vc])
                /\ XS!DecrementCreditCount(q0.swa.vc)
           ELSE UNCHANGED <<xbar, credits>>
        /\ IF IQ!InjectReady(q0) /\ IQ!IsTail(q0.swa.flit)
           THEN VS!ReleaseVc(q0.swa.vc)
           ELSE UNCHANGED vcTaken
        /\ IF IQ!SwaAsks(q2)
           THEN XS!RequestFlit(c, XbarRequest(q2.swa))
           ELSE UNCHANGED <<request, eventAction>>
        /\ IF IQ!VcaAsks(q4)
           THEN VS!RequestVcs(c, q4.vca.route)
           ELSE UNCHANGED <<requests, clientRequested, allocEventSet>>
        /\ freeSlots' = [freeSlots EXCEPT ![c] = IF IQ!PullsFlit(q5) THEN @ + 1 ELSE @]
  /\ UNCHANGED <<incrCredits, portLocks, delivered, down, arrived, heard>>

(* The clock moves to the next cycle when no event of this one is left.    *)
Tick ==
  /\ ~(epsilon = 0 /\ SchedulersDue) /\ ~CrossbarDue /\ ~PipelineDue
  /\ epsilon' = 0
  /\ heard' = {}
  /\ pipeEvent' = [c \in Clients |-> IF pipeEvent[c] = "next" THEN "now" ELSE pipeEvent[c]]
  /\ iq' = [c \in Clients |-> IF iq[c].rfe.fsm = "waiting"
                              THEN [iq[c] EXCEPT !.rfe.wait = @ - 1] ELSE iq[c]]
  /\ xbar' = [i \in DOMAIN xbar |-> [xbar[i] EXCEPT !.wait = @ - 1]]
  /\ UNCHANGED <<vcVars, xsVars, delivered, down, arrived, freeSlots>>

Next == \/ VcSchedulerEvent \/ CrossbarSchedulerEvent \/ CrossbarEvent \/ Tick
        \/ \E c \in Clients : RoutingResponse(c) \/ FlitArrives(c) \/ PipelineEvent(c)
        \/ \E p \in Ports : CreditArrives(p)

Spec == Init /\ [][Next]_vars

-----------------------------------------------------------------------------
(* No buffer overflows: not the input buffers here ("overflow check" in    *)
(* receiveFlit), nor those downstream, counting the flits that are still   *)
(* in the crossbar; a slot is announced upstream exactly when it is free.  *)
NoBufferOverflows ==
  /\ \A c \in Clients : Len(iq[c].buffer) + freeSlots[c] = Depth
  /\ \A v \in Vcs : InCrossbar(v) + down[v] <= DownDepth

(* On every output VC the flits of a packet follow each other without a    *)
(* gap and in order, and a packet starts only after the tail of the one    *)
(* before: what the next router and the packet reassembler assert.         *)
PacketsStayTogether ==
  \A v \in Vcs :
    LET d == delivered[v]
    IN /\ d # <<>> => IQ!IsHead(d[1])
       /\ \A i \in 2..Len(d) :
            IF IQ!IsTail(d[i - 1])
            THEN IQ!IsHead(d[i])
            ELSE d[i] = [d[i - 1] EXCEPT !.index = @ + 1]

(* The flits of an input VC leave the router at most once, and those still *)
(* in its queue are the last to have arrived, in order: none overtakes     *)
(* another, is lost or is duplicated in the pipeline.                      *)
QueuesAreFifo ==
  \A c \in Clients :
    LET q == IQ!Contents(iq[c])
        gone == {x.flit : x \in UNION {UNION {xbar[i].map[p] : p \in DOMAIN xbar[i].map} : i \in DOMAIN xbar}}
                  \cup UNION {{delivered[v][i] : i \in DOMAIN delivered[v]} : v \in Vcs}
    IN /\ \A i \in DOMAIN q : q[i] = FlitNumber(c, arrived[c] - Len(q) + i)
       /\ {f \in gone : f.client = c} = {FlitNumber(c, i) : i \in 1..(arrived[c] - Len(q))}

(* Packets stay together on an output VC, and no flit of an input VC       *)
(* overtakes another, is lost or is duplicated.                            *)
OrderIsKept == PacketsStayTogether /\ QueuesAreFifo

(* A queue that holds a flit has something coming that will run it again:  *)
(* its own pipeline event or the response it waits for (setPipelineEvent   *)
(* drops a wake-up when an event is already set).                          *)
NoLostWakeup ==
  \A c \in Clients :
    IQ!Contents(iq[c]) # <<>> =>
      \/ pipeEvent[c] # "none"
      \/ iq[c].rfe.fsm = "waiting"
      \/ iq[c].vca.fsm = "waiting" /\ c \in clientRequested /\ allocEventSet
      \/ iq[c].swa.fsm = "waiting" /\ request[c] # None /\ eventAction = "RUNALLOC"

(* The input queues are the well-behaved clients that the crossbar         *)
(* scheduler relies on: what is proved of it (every credit accounted for,  *)
(* a credit behind every grant) therefore holds in the router.             *)
UsesCrossbarScheduler == XS!Spec

(* Every flit that is to arrive has left.                                  *)
Drained == \A c \in Clients : arrived[c] = TotalFlits(c) /\ IQ!Contents(iq[c]) = <<>>
=============================================================================
