--------------------- MODULE CrossbarScheduler_proofs ---------------------
(***************************************************************************)
(* Credit-based flow control is sound in the crossbar scheduler, for every *)
(* number of clients, VCs and ports, every buffer depth and packet size,   *)
(* each flow control style and every allocator that grants a port at most  *)
(* once: credits are conserved, every grant is backed by a credit, and     *)
(* with full_packet a packet that has started never lacks one.             *)
(***************************************************************************)
EXTENDS CrossbarScheduler, TLAPS

(* The packets in progress are on different VCs.                           *)
PacketsApart ==
  \A c, d \in Clients : c # d /\ packet[c] # None /\ packet[d] # None
                        => packet[c].vc # packet[d].vc

PacketsBounded == \A c \in Clients : packet[c] # None => packet[c].left <= packet[c].size

(* A pending request is for the next flit of its client's packet.          *)
RequestsMatch ==
  \A c \in Clients : request[c] # None => /\ packet[c] # None
                                          /\ request[c] = NextRequest(packet[c])
                                          /\ c \notin granted

Support == TypeOK /\ PacketsApart /\ PacketsBounded /\ RequestsMatch

IInv == /\ Support
        /\ CreditConservation /\ GrantsAreBacked /\ FullPacketReservation
        /\ OneGrantPerPort /\ EventCoversWork

USE SchedulerAssumption

(* Packets have at least one flit.                                         *)
LEMMA SizesAreNumbers == \A n \in Sizes : n \in Nat \ {0}
OBVIOUS

(* The numbers in a packet.                                                *)
LEMMA PacketNumbers ==
  ASSUME NEW p \in Packets
  PROVE  p.vc \in Vcs /\ p.size \in Nat \ {0} /\ p.left \in Nat \ {0}
BY SizesAreNumbers DEF Packets

(* The invariant holds at the start.                                       *)
LEMMA InitIInv == Init => IInv
BY DEF Init, SchedInit, IInv, Support, TypeOK, PacketsApart, PacketsBounded, RequestsMatch,
       CreditConservation, GrantsAreBacked, FullPacketReservation, Started,
       OneGrantPerPort, EventCoversWork

-----------------------------------------------------------------------------
(* A credit message moves credits from the neighbour to incrCredits.       *)
LEMMA CreditReturnStep ==
  ASSUME IInv, CreditReturn
  PROVE  IInv'
<1>1. PICK S \in SUBSET {v \in Vcs : used[v] > 0} :
         /\ incrCredits' = [v \in Vcs |-> IF v \in S THEN incrCredits[v] + 1 ELSE incrCredits[v]]
         /\ eventAction' = IF eventAction = "NONE" THEN "CREDITS" ELSE eventAction
         /\ used' = [v \in Vcs |-> IF v \in S THEN used[v] - 1 ELSE used[v]]
  BY DEF CreditReturn, IncrementCreditCount
<1>2. UNCHANGED <<request, credits, portLocks, packet, granted>>
  BY DEF CreditReturn
<1>3. TypeOK'
  BY <1>1, <1>2 DEF IInv, Support, TypeOK
<1>4. CreditConservation'
  BY <1>1, <1>2 DEF IInv, Support, TypeOK, CreditConservation
<1>5. EventCoversWork'
  BY <1>1, <1>2 DEF IInv, Support, TypeOK, EventCoversWork
<1> QED
  BY <1>2, <1>3, <1>4, <1>5 DEF IInv, Support, PacketsApart, PacketsBounded, RequestsMatch,
     GrantsAreBacked, FullPacketReservation, Started, OneGrantPerPort, NextRequest

-----------------------------------------------------------------------------
(* The event.                                                              *)

LEMMA AvailableCredits ==
  ASSUME IInv, NEW v \in Vcs
  PROVE  Available(v) \in Int /\ Available(v) >= credits[v] /\ Available(v) + used[v] = Depth
BY DEF IInv, Support, TypeOK, CreditConservation, Available

(* Adding the returned credits keeps the invariant.                        *)
LEMMA CreditsOnlyStep ==
  ASSUME IInv, granted = {}, CreditsOnly, UNCHANGED <<granted, packet, used>>
  PROVE  IInv'
<1>1. /\ credits' = [v \in Vcs |-> Available(v)]
      /\ incrCredits' = [v \in Vcs |-> 0]
      /\ UNCHANGED <<request, portLocks, granted, packet, used>>
      /\ eventAction = "CREDITS" /\ eventAction' = "NONE"
  BY DEF CreditsOnly, ApplyCredits
<1>2. TypeOK' /\ CreditConservation'
  BY <1>1, AvailableCredits DEF IInv, Support, TypeOK, CreditConservation
<1>3. FullPacketReservation'
  BY <1>1, AvailableCredits DEF IInv, Support, TypeOK, FullPacketReservation, Started, Packets
<1> QED
  BY <1>1, <1>2, <1>3 DEF IInv, Support, PacketsApart, PacketsBounded, RequestsMatch,
     GrantsAreBacked, OneGrantPerPort, EventCoversWork, NextRequest

(* A winner asked for a flit of its packet, with enough credits, and no    *)
(* other client won its port.                                              *)
LEMMA WinnerFacts ==
  ASSUME IInv, NEW g \in Allocations(Unmasked), NEW c \in Winners(g)
  PROVE  /\ c \in Clients
         /\ packet[c] \in Packets
         /\ request[c] = NextRequest(packet[c])
         /\ Eligible(c)
         /\ <<c, PortOf[packet[c].vc]>> \in g
<1>1. Unmasked \in SUBSET (Clients \X Ports)
  BY DEF Unmasked
<1>2. g \subseteq Unmasked
  BY <1>1, GrantAssumption DEF OnePerResource
<1>3. PICK x \in g : x[1] = c
  BY DEF Winners
<1>4. /\ x \in Clients \X Ports
      /\ c \in Requesters(x[2])
      /\ Eligible(c)
  BY <1>2, <1>3 DEF Unmasked
<1>5. c \in Clients /\ request[c] # None /\ PortOf[request[c].vc] = x[2]
  BY <1>4 DEF Requesters
<1>6. packet[c] # None /\ request[c] = NextRequest(packet[c])
  BY <1>5 DEF IInv, Support, RequestsMatch
<1>7. packet[c] \in Packets
  BY <1>5, <1>6 DEF IInv, Support, TypeOK
<1>8. request[c].vc = packet[c].vc
  BY <1>6 DEF NextRequest
<1>9. x = <<c, PortOf[packet[c].vc]>>
  BY <1>3, <1>4, <1>5, <1>8
<1> QED
  BY <1>3, <1>4, <1>5, <1>6, <1>7, <1>9

(* What a winner needs is there once the credits have been added.          *)
LEMMA WinnerCredits ==
  ASSUME IInv, NEW g \in Allocations(Unmasked), NEW c \in Winners(g)
  PROVE  /\ Available(packet[c].vc) > 0
         /\ FullPacket => Available(packet[c].vc) >= packet[c].left
<1>1. /\ c \in Clients /\ packet[c] \in Packets
      /\ request[c] = NextRequest(packet[c]) /\ Eligible(c)
  BY WinnerFacts
<1>2. /\ packet[c].vc \in Vcs /\ packet[c].left \in Nat \ {0} /\ packet[c].size \in Nat
      /\ packet[c] # None
  BY <1>1 DEF Packets
<1>3. /\ request[c].vc = packet[c].vc
      /\ request[c].head = (packet[c].left = packet[c].size)
      /\ request[c].size = packet[c].size
  BY <1>1 DEF NextRequest
<1>4. CASE ~FullPacket
  BY <1>1, <1>3, <1>4 DEF Eligible
<1>5. CASE FullPacket
  <2>1. CASE packet[c].left = packet[c].size
    <3>1. request[c].head
      BY <1>3, <2>1
    <3>2. Available(packet[c].vc) >= packet[c].size
      BY <1>1, <1>3, <1>5, <3>1 DEF Eligible
    <3> QED
      BY <1>2, <2>1, <3>2, AvailableCredits
  <2>2. CASE packet[c].left # packet[c].size
    <3>1. packet[c].left < packet[c].size
      BY <1>1, <1>2, <2>2 DEF IInv, Support, PacketsBounded
    <3>2. credits[packet[c].vc] >= packet[c].left
      BY <1>1, <1>2, <1>5, <3>1 DEF IInv, FullPacketReservation, Started
    <3>3. credits[packet[c].vc] \in Int
      BY <1>2 DEF IInv, Support, TypeOK
    <3> QED
      BY <1>2, <3>2, <3>3, AvailableCredits
  <2> QED
    BY <2>1, <2>2
<1> QED
  BY <1>4, <1>5

(* An allocation keeps the invariant.                                      *)
LEMMA RunAllocStep ==
  ASSUME IInv, granted = {}, NEW g \in Allocations(Unmasked), RunAlloc(g),
         granted' = Winners(g), UNCHANGED <<packet, used>>
  PROVE  IInv'
<1>1. /\ credits' = [v \in Vcs |-> Available(v)]
      /\ incrCredits' = [v \in Vcs |-> 0]
      /\ portLocks' = LocksAfter
      /\ request' = [c \in Clients |-> None]
      /\ eventAction' = "NONE"
      /\ UNCHANGED <<packet, used>>
  BY DEF RunAlloc, ApplyCredits
<1>2. TypeOK'
  <2>1. granted' \in SUBSET Clients
    BY WinnerFacts
  <2>2. credits' \in [Vcs -> Int]
    BY <1>1, AvailableCredits
  <2>3. portLocks' \in [Ports -> Clients \cup {None}]
    BY <1>1 DEF LocksAfter, IInv, Support, TypeOK
  <2> QED
    BY <1>1, <2>1, <2>2, <2>3 DEF IInv, Support, TypeOK
<1>3. CreditConservation'
  BY <1>1, AvailableCredits DEF IInv, Support, TypeOK, CreditConservation
<1>4. \A c \in granted' : c \in Clients /\ packet[c] \in Packets /\ packet[c].vc \in Vcs
  BY WinnerFacts DEF Packets
<1>5. \A c \in granted' : /\ credits'[packet[c].vc] > 0
                          /\ FullPacket => credits'[packet[c].vc] >= packet[c].left
  BY <1>1, <1>4, WinnerCredits
<1>6. GrantsAreBacked'
  <2>1. \A c \in granted' : packet[c] # None
    BY <1>4
  <2>2. \A c, d \in granted' : c # d => packet[c].vc # packet[d].vc
    BY <1>4, <2>1 DEF IInv, Support, PacketsApart
  <2> QED
    BY <1>1, <1>5, <2>1, <2>2 DEF GrantsAreBacked
<1>7. FullPacketReservation'
  <2> SUFFICES ASSUME FullPacket, NEW c \in Clients, Started(c)'
               PROVE  credits'[packet[c].vc] >= packet[c].left
    BY <1>1 DEF FullPacketReservation
  <2>1. CASE c \in granted'
    BY <2>1, <1>5
  <2>2. CASE c \notin granted'
    <3>1. packet[c] # None /\ packet[c].left < packet[c].size
      BY <1>1, <2>2 DEF Started
    <3>2. packet[c] \in Packets
      BY <3>1 DEF IInv, Support, TypeOK
    <3>3. credits[packet[c].vc] >= packet[c].left
      BY <3>1 DEF IInv, FullPacketReservation, Started
    <3>4. packet[c].vc \in Vcs /\ packet[c].left \in Int /\ credits[packet[c].vc] \in Int
      BY <3>2 DEF Packets, IInv, Support, TypeOK
    <3> QED
      BY <1>1, <3>3, <3>4, AvailableCredits
  <2> QED
    BY <2>1, <2>2
<1>8. OneGrantPerPort'
  <2> SUFFICES ASSUME NEW c \in granted', NEW d \in granted', c # d,
                      PortOf[packet[c].vc] = PortOf[packet[d].vc]
               PROVE  FALSE
    BY <1>1 DEF OneGrantPerPort
  <2>1. <<c, PortOf[packet[c].vc]>> \in g /\ <<d, PortOf[packet[c].vc]>> \in g
    BY WinnerFacts
  <2>2. Unmasked \in SUBSET (Clients \X Ports)
    BY DEF Unmasked
  <2>3. \A x, y \in g : x[2] = y[2] => x = y
    BY <2>2, GrantAssumption DEF OnePerResource
  <2> QED
    BY <2>1, <2>3
<1>9. EventCoversWork'
  BY <1>1 DEF EventCoversWork
<1>10. RequestsMatch' /\ PacketsApart' /\ PacketsBounded'
  BY <1>1 DEF IInv, Support, RequestsMatch, PacketsApart, PacketsBounded
<1> QED
  BY <1>2, <1>3, <1>6, <1>7, <1>8, <1>9, <1>10 DEF IInv, Support

-----------------------------------------------------------------------------
(* The client's step.                                                      *)

(* What a client has left after its grant is a flit less of the same       *)
(* packet, or nothing.                                                     *)
RestOf(c, q) ==
  /\ q \in Packets \cup {None}
  /\ q # None => /\ packet[c] # None
                 /\ q.vc = packet[c].vc /\ q.size = packet[c].size
                 /\ q.left <= q.size
                 /\ c \in granted => q.left = packet[c].left - 1
                 /\ c \notin granted => q = packet[c]

(* A packet after one more of its flits has been sent.                     *)
LEMMA AfterGrant ==
  ASSUME IInv, NEW c \in Clients
  PROVE  RestOf(c, PacketAfterGrant(c))
<1>1. packet[c] # None => packet[c] \in Packets
  BY DEF IInv, Support, TypeOK
<1>2. CASE c \notin granted
  BY <1>1, <1>2 DEF RestOf, PacketAfterGrant, IInv, Support, TypeOK, PacketsBounded
<1>3. CASE c \in granted /\ packet[c].left = 1
  BY <1>3 DEF RestOf, PacketAfterGrant
<1>4. CASE c \in granted /\ packet[c].left # 1
  <2>1. packet[c] # None /\ packet[c] \in Packets
    BY <1>1, <1>4 DEF IInv, GrantsAreBacked
  <2>2. packet[c].left <= packet[c].size
    BY <2>1 DEF IInv, Support, PacketsBounded
  <2>3. PacketAfterGrant(c) = [packet[c] EXCEPT !.left = @ - 1]
    BY <1>4 DEF PacketAfterGrant
  <2>4. packet[c].left \in Nat \ {0} /\ packet[c].size \in Sizes /\ packet[c].vc \in Vcs
    BY <2>1 DEF Packets
  <2>5. packet[c].left - 1 \in Nat \ {0} /\ packet[c].left - 1 <= packet[c].size
    <3>1. packet[c].left \in Nat \ {0} /\ packet[c].size \in Nat
      BY <2>1, PacketNumbers
    <3> QED
      BY <1>4, <2>2, <3>1
  <2>6. /\ PacketAfterGrant(c) = [vc |-> packet[c].vc, size |-> packet[c].size,
                                  left |-> packet[c].left - 1]
    BY <2>1, <2>3 DEF Packets
  <2>7. PacketAfterGrant(c) \in Packets
    BY <2>4, <2>5, <2>6 DEF Packets
  <2> QED
    BY <1>4, <2>1, <2>5, <2>6, <2>7 DEF RestOf
<1> QED
  BY <1>2, <1>3, <1>4

(* The packet and the request a client ends its step with.                 *)
StepTo(c, n) ==
  /\ n \in Packets \cup {None}
  /\ packet' = [packet EXCEPT ![c] = n]
  /\ n # None => n.left <= n.size
  /\ n # None => \A d \in Clients \ {c} : packet[d] # None => packet[d].vc # n.vc
  /\ RestOf(c, n) \/ n.left = n.size
  /\ \/ UNCHANGED <<request, eventAction>>
     \/ n # None /\ RequestFlit(c, NextRequest(n))

(* A step of a client, by its parts.                                       *)
LEMMA ClientStepTo ==
  ASSUME IInv, NEW c \in Clients, ClientStep(c)
  PROVE  \E n : StepTo(c, n)
<1> DEFINE q == PacketAfterGrant(c)
<1> HIDE DEF q
<1>1. RestOf(c, q)
  BY AfterGrant DEF q
<1>2. /\ q \in Packets \cup {None}
      /\ q # None => packet[c] # None /\ q.vc = packet[c].vc /\ q.left <= q.size
  BY <1>1 DEF RestOf
<1>3. q # None => \A d \in Clients \ {c} : packet[d] # None => packet[d].vc # q.vc
  BY <1>2 DEF IInv, Support, PacketsApart
<1>4. CASE packet' = [packet EXCEPT ![c] = q] /\ UNCHANGED <<request, eventAction>>
  BY <1>1, <1>2, <1>3, <1>4 DEF StepTo
<1>5. CASE q # None /\ packet' = [packet EXCEPT ![c] = q] /\ RequestFlit(c, NextRequest(q))
  BY <1>1, <1>2, <1>3, <1>5 DEF StepTo
<1>6. ASSUME NEW v \in Vcs, NEW m \in Sizes, NEW p,
             p = [vc |-> v, size |-> m, left |-> m],
             \A d \in Clients \ {c} : packet[d] # None => packet[d].vc # v,
             packet' = [packet EXCEPT ![c] = p], RequestFlit(c, NextRequest(p))
      PROVE  StepTo(c, p)
  <2>1. m \in Nat \ {0} /\ p.vc = v /\ p.left = m /\ p.size = m
    BY <1>6
  <2>2. p \in Packets
    BY <1>6, <2>1 DEF Packets
  <2>3. p # None
    BY <2>2
  <2> QED
    BY <1>6, <2>1, <2>2, <2>3 DEF StepTo
<1> QED
  BY <1>4, <1>5, <1>6 DEF ClientStep, q

(* A step of a client keeps the invariant.                                 *)
LEMMA ClientStepPreserves ==
  ASSUME IInv, NEW c \in Clients, ClientStep(c)
  PROVE  IInv'
<1>1. PICK n : StepTo(c, n)
  BY ClientStepTo
<1>2. /\ n \in Packets \cup {None}
      /\ packet' = [packet EXCEPT ![c] = n]
      /\ n # None => n.left <= n.size
      /\ n # None => \A d \in Clients \ {c} : packet[d] # None => packet[d].vc # n.vc
  BY <1>1 DEF StepTo
<1>3. /\ request[c] = None
      /\ UNCHANGED <<incrCredits, portLocks>>
      /\ UseGrant(c)
  BY DEF ClientStep
<1>4. /\ packet \in [Clients -> Packets \cup {None}]
      /\ request \in [Clients -> Requests \cup {None}]
      /\ credits \in [Vcs -> Int] /\ incrCredits \in [Vcs -> Nat] /\ used \in [Vcs -> Nat]
      /\ portLocks \in [Ports -> Clients \cup {None}]
      /\ granted \in SUBSET Clients
      /\ eventAction \in {"NONE", "CREDITS", "RUNALLOC"}
  BY DEF IInv, Support, TypeOK
(* The other clients keep what they have; c has used its grant.            *)
<1>5. /\ packet'[c] = n
      /\ \A d \in Clients : d # c => packet'[d] = packet[d]
      /\ granted' = granted \ {c}
  BY <1>2, <1>3, <1>4 DEF UseGrant
<1>6. /\ \A d \in Clients : d # c => request'[d] = request[d]
      /\ request'[c] # None => n # None /\ request'[c] = NextRequest(n)
  BY <1>1, <1>3, <1>4 DEF StepTo, RequestFlit
<1>7. n # None => n \in Packets /\ NextRequest(n) \in Requests /\ NextRequest(n) # None
  <2>1. n # None => n \in Packets
    BY <1>2
  <2>2. n # None => NextRequest(n) \in Requests
    BY <2>1 DEF NextRequest, Requests, Packets
  <2> QED
    BY <2>1, <2>2
<1>8. c \in granted => /\ packet[c] \in Packets /\ packet[c].vc \in Vcs
                       /\ credits[packet[c].vc] > 0
                       /\ credits' = [credits EXCEPT ![packet[c].vc] = @ - 1]
                       /\ used' = [used EXCEPT ![packet[c].vc] = @ + 1]
  <2>1. c \in granted => packet[c] # None /\ credits[packet[c].vc] > 0
    BY DEF IInv, GrantsAreBacked
  <2>2. c \in granted => packet[c] \in Packets
    BY <2>1, <1>4
  <2> QED
    BY <1>3, <2>1, <2>2 DEF UseGrant, DecrementCreditCount, Packets
<1>9. c \notin granted => UNCHANGED <<credits, used>>
  BY <1>3 DEF UseGrant
<1>10. TypeOK'
  <2>1. credits' \in [Vcs -> Int] /\ used' \in [Vcs -> Nat]
    BY <1>4, <1>8, <1>9
  <2>2. packet' \in [Clients -> Packets \cup {None}]
    BY <1>2, <1>4
  <2>3. request' \in [Clients -> Requests \cup {None}] /\ eventAction' \in {"NONE", "CREDITS", "RUNALLOC"}
    BY <1>1, <1>4, <1>7 DEF StepTo, RequestFlit
  <2> QED
    BY <1>3, <1>4, <1>5, <2>1, <2>2, <2>3 DEF TypeOK
<1>11. CreditConservation'
  BY <1>3, <1>4, <1>8, <1>9 DEF IInv, CreditConservation
(* A flit of c takes a credit of its own VC, never of another packet's.    *)
<1>12. \A d \in Clients : d # c /\ packet[d] # None
                          => credits'[packet[d].vc] = credits[packet[d].vc]
  <2> SUFFICES ASSUME NEW d \in Clients, d # c, packet[d] # None, c \in granted
               PROVE  credits'[packet[d].vc] = credits[packet[d].vc]
    BY <1>9
  <2>1. packet[c] # None
    BY <1>8
  <2>2. packet[d].vc # packet[c].vc /\ packet[d].vc \in Vcs
    BY <1>4, <2>1 DEF IInv, Support, PacketsApart, Packets
  <2> QED
    BY <1>4, <1>8, <2>2
<1>13. PacketsApart' /\ PacketsBounded'
  BY <1>2, <1>5 DEF IInv, Support, PacketsApart, PacketsBounded
<1>14. RequestsMatch'
  BY <1>5, <1>6 DEF IInv, Support, RequestsMatch, NextRequest
<1>15. GrantsAreBacked'
  BY <1>4, <1>5, <1>12 DEF IInv, GrantsAreBacked
<1>16. OneGrantPerPort'
  BY <1>4, <1>5 DEF IInv, OneGrantPerPort
<1>17. EventCoversWork'
  <2>1. CASE UNCHANGED <<request, eventAction>>
    BY <1>3, <2>1 DEF IInv, EventCoversWork
  <2>2. CASE n # None /\ RequestFlit(c, NextRequest(n))
    BY <1>4, <1>7, <2>2 DEF EventCoversWork, RequestFlit
  <2> QED
    BY <1>1, <2>1, <2>2 DEF StepTo
<1>18. FullPacketReservation'
  <2> SUFFICES ASSUME FullPacket, NEW d \in Clients, Started(d)'
               PROVE  credits'[packet'[d].vc] >= packet'[d].left
    BY DEF FullPacketReservation
  <2>1. CASE d # c
    BY <1>5, <1>12, <2>1 DEF IInv, FullPacketReservation, Started
  <2>2. CASE d = c
    <3>1. n # None /\ n \in Packets /\ n.left < n.size
      BY <1>2, <1>5, <2>2 DEF Started
    <3>2. n.left \in Int /\ n.size \in Int
      BY <3>1, PacketNumbers
    <3>3. RestOf(c, n)
      BY <1>1, <3>1, <3>2 DEF StepTo
    <3>4. /\ packet[c] # None /\ n.vc = packet[c].vc /\ n.size = packet[c].size
          /\ c \in granted => n.left = packet[c].left - 1
          /\ c \notin granted => n = packet[c]
      BY <3>1, <3>3 DEF RestOf
    <3>5. credits[packet[c].vc] >= packet[c].left
      BY <3>1, <3>4 DEF IInv, FullPacketReservation, Started
    <3>6. packet[c].vc \in Vcs /\ packet[c].left \in Int
      BY <1>4, <3>4 DEF Packets
    <3>7. credits'[n.vc] >= n.left
      BY <1>4, <1>8, <1>9, <3>4, <3>5, <3>6
    <3> QED
      BY <1>5, <2>2, <3>7
  <2> QED
    BY <2>1, <2>2
<1> QED
  BY <1>10, <1>11, <1>13, <1>14, <1>15, <1>16, <1>17, <1>18 DEF IInv, Support

-----------------------------------------------------------------------------
(* The invariant is inductive.                                             *)
LEMMA NextIInv == IInv /\ [Next]_vars => IInv'
<1> SUFFICES ASSUME IInv, [Next]_vars PROVE IInv'
  OBVIOUS
<1>1. CASE ProcessEvent
  <2>1. CASE CreditsOnly /\ UNCHANGED granted
    BY <1>1, <2>1, CreditsOnlyStep DEF ProcessEvent
  <2>2. CASE \E g \in Allocations(Unmasked) : RunAlloc(g) /\ granted' = Winners(g)
    BY <1>1, <2>2, RunAllocStep DEF ProcessEvent
  <2> QED
    BY <1>1, <2>1, <2>2 DEF ProcessEvent
<1>2. CASE CreditReturn
  BY <1>2, CreditReturnStep
<1>3. CASE \E c \in Clients : ClientStep(c)
  BY <1>3, ClientStepPreserves
<1>4. CASE UNCHANGED vars
  BY <1>4 DEF vars, IInv, Support, TypeOK, PacketsApart, PacketsBounded, RequestsMatch,
     CreditConservation, GrantsAreBacked, FullPacketReservation, Started,
     OneGrantPerPort, EventCoversWork, NextRequest
<1> QED
  BY <1>1, <1>2, <1>3, <1>4 DEF Next

(* In every state of every behaviour the strengthened invariant holds: it  *)
(* adds to the properties below that packets in progress use different     *)
(* VCs, as the VC scheduler assures, and that requests are for them.       *)
THEOREM Invariance == Spec => []IInv
<1> QED
  BY InitIInv, NextIInv, PTL DEF Spec

(* The scheduler's state keeps its types.                                  *)
THEOREM TypeCorrect == Spec => []TypeOK
<1>1. IInv => TypeOK
  BY DEF IInv, Support
<1> QED
  BY <1>1, Invariance, PTL

(* incrementCreditCount, decrementCreditCount and processEvent never lose  *)
(* or make a credit: none is above its maximum, none below zero.           *)
THEOREM CreditsAreConserved == Spec => []CreditConservation
<1>1. IInv => CreditConservation
  BY DEF IInv
<1> QED
  BY <1>1, Invariance, PTL

(* Whoever is answered with a port has a credit for the flit it sends.     *)
THEOREM GrantsHaveCredits == Spec => []GrantsAreBacked
<1>1. IInv => GrantsAreBacked
  BY DEF IInv
<1> QED
  BY <1>1, Invariance, PTL

(* full_packet checks the head flit only, and that is enough for the whole *)
(* packet.                                                                 *)
THEOREM WholePacketsFit == Spec => []FullPacketReservation
<1>1. IInv => FullPacketReservation
  BY DEF IInv
<1> QED
  BY <1>1, Invariance, PTL

(* A crossbar port is never given to two clients in a cycle.               *)
THEOREM PortsAreNotShared == Spec => []OneGrantPerPort
<1>1. IInv => OneGrantPerPort
  BY DEF IInv
<1> QED
  BY <1>1, Invariance, PTL

(* No request and no returned credit is left without an event.             *)
THEOREM NothingIsForgotten == Spec => []EventCoversWork
<1>1. IInv => EventCoversWork
  BY DEF IInv
<1> QED
  BY <1>1, Invariance, PTL

-----------------------------------------------------------------------------
(* Whoever is eligible is unmasked, or shut out by an owner who is.        *)
LEMMA SomeoneIsUnmasked ==
  ASSUME IInv, NEW c \in Clients, Eligible(c)
  PROVE  Unmasked # {}
<1> DEFINE p == PortOf[request[c].vc]
<1>1. request[c] # None
  BY DEF Eligible
<1>2. request[c] \in Requests
  BY <1>1 DEF IInv, Support, TypeOK
<1>3. p \in Ports /\ c \in Requesters(p)
  BY <1>1, <1>2 DEF Requests, Requesters
<1>4. CASE LockActs(p)
  <2>1. portLocks[p] \in Clients /\ portLocks[p] \in Requesters(p) /\ Eligible(portLocks[p])
    BY <1>4 DEF LockActs, Requesters
  <2>2. <<portLocks[p], p>> \in Unmasked
    BY <1>3, <2>1 DEF Unmasked
  <2> QED
    BY <2>2
<1>5. CASE ~LockActs(p)
  <2>1. <<c, p>> \in Unmasked
    BY <1>3, <1>5 DEF Unmasked
  <2> QED
    BY <2>1
<1> QED
  BY <1>4, <1>5

(* No processEvent with an eligible request answers everybody with a no.   *)
THEOREM NeverIdle == Spec => NoIdleAllocation
<1> DEFINE A == (eventAction = "RUNALLOC" /\ eventAction' = "NONE"
                   /\ \E c \in Clients : Eligible(c)) => granted' # {}
<1>1. IInv /\ [Next]_vars => [A]_vars
  <2> SUFFICES ASSUME IInv, Next, eventAction = "RUNALLOC", eventAction' = "NONE",
                      NEW c \in Clients, Eligible(c)
               PROVE  granted' # {}
    OBVIOUS
  <2>1. CASE ProcessEvent
    <3>1. PICK g \in Allocations(Unmasked) : granted' = Winners(g)
      BY <2>1 DEF ProcessEvent, CreditsOnly
    <3>2. Unmasked \in SUBSET (Clients \X Ports)
      BY DEF Unmasked
    <3>3. g # {}
      BY <3>2, GrantAssumption, SomeoneIsUnmasked DEF OnePerResource
    <3> QED
      BY <3>1, <3>3 DEF Winners
  <2>2. CASE CreditReturn
    BY <2>2 DEF CreditReturn, IncrementCreditCount
  <2>3. CASE \E d \in Clients : ClientStep(d)
    BY <2>3 DEF ClientStep, RequestFlit
  <2> QED
    BY <2>1, <2>2, <2>3 DEF Next
<1>2. [][A]_vars <=> NoIdleAllocation
  BY DEF NoIdleAllocation
<1> QED
  BY <1>1, <1>2, Invariance, PTL DEF Spec
=============================================================================
