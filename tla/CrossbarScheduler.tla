------------------------- MODULE CrossbarScheduler -------------------------
(***************************************************************************)
(* router/common/CrossbarScheduler: decides which clients may send a flit  *)
(* through each crossbar port in a cycle, and keeps the credits of the     *)
(* downstream buffer of every output VC.  A client asks for one flit at a  *)
(* time; an event at epsilon 0 of the next cycle adds the credits that     *)
(* came back, masks the requests that lack credits or are locked out, runs *)
(* the allocator and answers every client that asked.                      *)
(*                                                                         *)
(* The operations are actions on the scheduler's own variables; the        *)
(* specification at the end closes them with clients that hold their VC    *)
(* for a whole packet, which is what the VC scheduler gives them, and with *)
(* a neighbour that returns the credits it was sent.                       *)
(***************************************************************************)
EXTENDS Integers, FiniteSets, Allocation

CONSTANTS Clients,         \* the clients of the scheduler
          Vcs,             \* the output VCs
          Ports,           \* the crossbar ports
          None,            \* no client, no request, no packet (U32_MAX)
          FirstClient,     \* the client with index 0
          PortOf,          \* PortOf[v]: the crossbar port that leads to VC v
          Depth,           \* the buffer slots behind each VC
          Sizes,           \* the packet sizes, in flits
          FullPacket,      \* full_packet: a head flit waits for room for its packet
          PacketLock,      \* packet_lock
          IdleUnlock,      \* idle_unlock
          Allocations(_)   \* the grant sets the allocator may return for a
                           \* set of <<client, port>> requests

(* A request names the VC, and what the scheduler reads of the flit; a     *)
(* packet is sent over one VC and has some flits left.                     *)
Requests == [vc : Vcs, head : BOOLEAN, tail : BOOLEAN, size : Sizes]
Packets == [vc : Vcs, size : Sizes, left : Nat \ {0}]

ASSUME SchedulerAssumption ==
  /\ None \notin Clients /\ None \notin Requests /\ None \notin Packets
  /\ FirstClient \in Clients
  /\ PortOf \in [Vcs -> Ports]
  /\ Depth \in Nat \ {0} /\ Sizes \subseteq Nat \ {0}
  /\ FullPacket \in BOOLEAN /\ PacketLock \in BOOLEAN /\ IdleUnlock \in BOOLEAN
  /\ FullPacket => \A n \in Sizes : n <= Depth   \* "buffer is large enough"
  /\ IdleUnlock => PacketLock                    \* asserted by the constructor

(* Every allocator satisfies this (ArbitratedAllocator_proofs).            *)
ASSUME GrantAssumption ==
  \A reqs \in SUBSET (Clients \X Ports) :
    \A g \in Allocations(reqs) : OnePerResource(reqs, g)

VARIABLES request,      \* request[c]: the flit client c asks to send, or None
          credits,      \* credits[v]: the slots known to be free behind v
          incrCredits,  \* incrCredits[v]: credits to be added by the next event
          portLocks,    \* portLocks[p]: the client the port is locked to, or None
          eventAction,  \* what the pending event will do
          packet,       \* packet[c]: the packet client c is sending, or None
          granted,      \* the clients whose grant is not used yet
          used          \* used[v]: the credits consumed and not yet returned

schedVars == <<request, credits, incrCredits, portLocks, eventAction>>
vars == <<request, credits, incrCredits, portLocks, eventAction, packet, granted, used>>

TypeOK == /\ request \in [Clients -> Requests \cup {None}]
          /\ credits \in [Vcs -> Int]
          /\ incrCredits \in [Vcs -> Nat]
          /\ portLocks \in [Ports -> Clients \cup {None}]
          /\ eventAction \in {"NONE", "CREDITS", "RUNALLOC"}
          /\ packet \in [Clients -> Packets \cup {None}]
          /\ granted \subseteq Clients
          /\ used \in [Vcs -> Nat]

-----------------------------------------------------------------------------
(* The scheduler.                                                          *)

(* The constructor sizes portLocks_ with the value false, which is the     *)
(* index of the first client: every port starts out locked to it.          *)
SchedInit == /\ request = [c \in Clients |-> None]
             /\ credits = [v \in Vcs |-> Depth]
             /\ incrCredits = [v \in Vcs |-> 0]
             /\ portLocks = [p \in Ports |-> FirstClient]
             /\ eventAction = "NONE"

(* request(): a pending CREDITS event is upgraded.                         *)
RequestFlit(c, r) == /\ request' = [request EXCEPT ![c] = r]
                     /\ eventAction' = "RUNALLOC"

(* Mutant: credits downgrade a pending RUNALLOC event.                     *)
IncrementDowngrades(S) ==
  /\ incrCredits' = [v \in Vcs |-> IF v \in S THEN incrCredits[v] + 1
                                              ELSE incrCredits[v]]
  /\ eventAction' = "CREDITS"

(* incrementCreditCount(), for each VC that a credit names.                *)
IncrementCreditCount(S) ==
  /\ incrCredits' = [v \in Vcs |-> IF v \in S THEN incrCredits[v] + 1
                                              ELSE incrCredits[v]]
  /\ eventAction' = IF eventAction = "NONE" THEN "CREDITS" ELSE eventAction

(* Mutant: a flit leaves without taking a credit.                          *)
DecrementForgotten(v) == UNCHANGED credits

(* decrementCreditCount().                                                 *)
DecrementCreditCount(v) == credits' = [credits EXCEPT ![v] = @ - 1]

Available(v) == credits[v] + incrCredits[v]

(* Mutants: no credit check; room for a flit taken for room for a packet.  *)
EligibleAlways(c) == request[c] # None
EligibleForAFlit(c) == request[c] # None /\ (request[c].head => Available(request[c].vc) > 0)

(* A request that has the credits it needs.  With full_packet only the     *)
(* head flit is checked, against the size of its packet.                   *)
Eligible(c) ==
  /\ request[c] # None
  /\ IF FullPacket
     THEN request[c].head => Available(request[c].vc) >= request[c].size
     ELSE Available(request[c].vc) > 0

Requesters(p) == {c \in Clients : request[c] # None /\ PortOf[request[c].vc] = p}

(* Mutant: a lock also acts for an owner that lacks credits.               *)
LockActsIneligible(p) == PacketLock /\ portLocks[p] \in Requesters(p)

(* The lock of a port acts when its owner has an eligible request for it.  *)
LockActs(p) == /\ PacketLock
               /\ portLocks[p] \in Requesters(p)
               /\ Eligible(portLocks[p])

(* The requests the allocator sees.                                        *)
Unmasked ==
  {x \in Clients \X Ports :
     /\ x[1] \in Requesters(x[2])
     /\ Eligible(x[1])
     /\ LockActs(x[2]) => x[1] = portLocks[x[2]]}

(* Mutant: locks never end.                                                *)
LocksForever == portLocks

(* A lock ends with the tail of its owner or, with idle_unlock, when other *)
(* clients ask and the owner does not.  No code sets a new owner.          *)
LocksAfter ==
  [p \in Ports |->
     IF PacketLock /\ Requesters(p) # {}
     THEN IF LockActs(p)
          THEN IF request[portLocks[p]].tail THEN None ELSE portLocks[p]
          ELSE IF IdleUnlock THEN None ELSE portLocks[p]
     ELSE portLocks[p]]

(* Mutant: returned credits are added again and again.                     *)
ApplyCreditsTwice == /\ credits' = [v \in Vcs |-> Available(v)]
                     /\ UNCHANGED incrCredits

ApplyCredits == /\ credits' = [v \in Vcs |-> Available(v)]
                /\ incrCredits' = [v \in Vcs |-> 0]

(* processEvent() when only credits came back ...                          *)
CreditsOnly == /\ eventAction = "CREDITS"
               /\ ApplyCredits
               /\ eventAction' = "NONE"
               /\ UNCHANGED <<request, portLocks>>

(* ... and when there are requests, the allocator returning g.             *)
RunAlloc(g) == /\ eventAction = "RUNALLOC"
               /\ g \in Allocations(Unmasked)
               /\ ApplyCredits
               /\ portLocks' = LocksAfter
               /\ request' = [c \in Clients |-> None]
               /\ eventAction' = "NONE"

(* Mutant: everybody who asked for a granted port is told so.              *)
WinnersOfPort(g) == {c \in Clients : request[c] # None /\ \E x \in g : x[2] = PortOf[request[c].vc]}

(* The clients that g grants; each asked for the port of its own request.  *)
Winners(g) == {x[1] : x \in g}

-----------------------------------------------------------------------------
(* The clients and the neighbour.                                          *)

Init == /\ SchedInit
        /\ packet = [c \in Clients |-> None]
        /\ granted = {}
        /\ used = [v \in Vcs |-> 0]

(* What client c has left to send once it has used a grant.                *)
PacketAfterGrant(c) ==
  IF c \notin granted THEN packet[c]
  ELSE IF packet[c].left = 1 THEN None
  ELSE [packet[c] EXCEPT !.left = @ - 1]

NextRequest(p) == [vc |-> p.vc, head |-> p.left = p.size, tail |-> p.left = 1,
                   size |-> p.size]

(* A granted client sends its flit in the cycle of the response, before    *)
(* the next event.                                                         *)
UseGrant(c) ==
  IF c \in granted
  THEN /\ DecrementCreditCount(packet[c].vc)
       /\ used' = [used EXCEPT ![packet[c].vc] = @ + 1]
       /\ granted' = granted \ {c}
  ELSE UNCHANGED <<credits, used, granted>>

(* It then waits, asks for the next flit of its packet, or starts another  *)
(* packet on a VC that no other client is using.                           *)
ClientStep(c) ==
  /\ request[c] = None
  /\ UseGrant(c)
  /\ UNCHANGED <<incrCredits, portLocks>>
  /\ \/ /\ c \in granted
        /\ packet' = [packet EXCEPT ![c] = PacketAfterGrant(c)]
        /\ UNCHANGED <<request, eventAction>>
     \/ /\ PacketAfterGrant(c) # None
        /\ packet' = [packet EXCEPT ![c] = PacketAfterGrant(c)]
        /\ RequestFlit(c, NextRequest(PacketAfterGrant(c)))
     \/ /\ PacketAfterGrant(c) = None
        /\ \E v \in Vcs, n \in Sizes :
             /\ \A d \in Clients \ {c} : packet[d] # None => packet[d].vc # v
             /\ LET p == [vc |-> v, size |-> n, left |-> n]
                IN /\ packet' = [packet EXCEPT ![c] = p]
                   /\ RequestFlit(c, NextRequest(p))

(* The neighbour empties some slots; one credit message carries them all.  *)
CreditReturn ==
  \E S \in (SUBSET {v \in Vcs : used[v] > 0}) \ {{}} :
    /\ IncrementCreditCount(S)
    /\ used' = [v \in Vcs |-> IF v \in S THEN used[v] - 1 ELSE used[v]]
    /\ UNCHANGED <<request, credits, portLocks, packet, granted>>

ProcessEvent ==
  /\ granted = {}
  /\ \/ CreditsOnly /\ UNCHANGED granted
     \/ \E g \in Allocations(Unmasked) : RunAlloc(g) /\ granted' = Winners(g)
  /\ UNCHANGED <<packet, used>>

Next == \/ ProcessEvent
        \/ CreditReturn
        \/ \E c \in Clients : ClientStep(c)

Spec == Init /\ [][Next]_vars

(* Queued events run, a client goes on with its packet, buffer slots are   *)
(* emptied in the end, and the arbiters starve nobody who keeps asking.    *)
Fairness ==
  /\ WF_vars(ProcessEvent)
  /\ \A c \in Clients : /\ WF_vars(packet[c] # None /\ ClientStep(c))
                        /\ SF_vars(ProcessEvent /\ c \in granted')
  /\ \A v \in Vcs : WF_vars(CreditReturn /\ used'[v] # used[v])

FairSpec == Spec /\ Fairness

-----------------------------------------------------------------------------
(* Every buffer slot is in one place: free and known to be, about to be    *)
(* counted as free, or taken by a flit (the assertion that a count never   *)
(* exceeds its maximum, and that it never goes below zero).                *)
CreditConservation ==
  \A v \in Vcs : /\ credits[v] + incrCredits[v] + used[v] = Depth
                 /\ credits[v] >= 0

(* A grant is backed by a credit when it is used (credits_[vc] > 0 in the  *)
(* event and in decrementCreditCount), also for the body flits that        *)
(* full_packet never checks, and no two grants count the same credit.      *)
GrantsAreBacked ==
  \A c \in granted : /\ packet[c] # None
                     /\ credits[packet[c].vc] > 0
                     /\ \A d \in granted \ {c} : packet[d].vc # packet[c].vc

(* A packet that has been let in by full_packet has room for all of its    *)
(* remaining flits: it can never stop halfway for lack of credits.         *)
Started(c) == packet[c] # None /\ (packet[c].left < packet[c].size \/ c \in granted)

FullPacketReservation ==
  FullPacket => \A c \in Clients :
                  Started(c) => credits[packet[c].vc] >= packet[c].left

(* Two flits never go through one crossbar port in the same cycle (the     *)
(* double booking that Crossbar::inject asserts against).                  *)
OneGrantPerPort ==
  \A c, d \in granted : c # d => PortOf[packet[c].vc] # PortOf[packet[d].vc]

(* Whatever the order of requests and credits within a cycle, the pending  *)
(* event does all that they ask for.                                       *)
EventCoversWork ==
  /\ eventAction = "RUNALLOC" <=> \E c \in Clients : request[c] # None
  /\ (\E v \in Vcs : incrCredits[v] > 0) => eventAction # "NONE"

(* An event that finds an eligible request grants one: masking and locks   *)
(* never leave the crossbar idle while a flit could go.                    *)
NoIdleAllocation ==
  [][(eventAction = "RUNALLOC" /\ eventAction' = "NONE"
        /\ \E c \in Clients : Eligible(c)) => granted' # {}]_vars

(* A packet that has started asking is sent to its tail.                   *)
PacketsFinish ==
  \A c \in Clients :
    packet[c] # None ~> (packet[c] # None /\ packet[c].left = 1 /\ c \in granted)

(* What packet_lock is said to do ("packets lock the channel"): while a    *)
(* client is in the middle of a packet on a port and asks for it again,    *)
(* nobody else's packet is let into that port.                             *)
MidPacket(c) == packet[c] # None /\ packet[c].left < packet[c].size

PacketsLockThePort ==
  [][\A c, d \in Clients :
       /\ PacketLock
       /\ MidPacket(c) /\ Eligible(c)
       /\ packet[d] # None /\ ~MidPacket(d) /\ d \in granted' \ granted
       => PortOf[packet[d].vc] # PortOf[packet[c].vc]]_vars
=============================================================================
