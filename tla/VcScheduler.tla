---------------------------- MODULE VcScheduler ----------------------------
(***************************************************************************)
(* router/common/VcScheduler: gives the output VCs of a router to its      *)
(* input queues.  The input queues (the clients) ask for a set of VCs in   *)
(* one cycle; an event at epsilon 0 of the next cycle masks the VCs that   *)
(* are taken, runs the allocator and answers every client that asked.      *)
(*                                                                         *)
(* The operations are actions on the scheduler's own variables, so that a  *)
(* router can conjoin them with the actions of its input queues; the       *)
(* specification at the end closes them with any well-behaved set of       *)
(* clients.                                                                *)
(***************************************************************************)
EXTENDS Naturals, FiniteSets, Allocation

CONSTANTS Clients,         \* the clients, one per input queue
          Vcs,             \* the output VCs, all ports together
          NoClient,        \* not a client
          Allocations(_)   \* the grant sets the allocator may return for a
                           \* set of <<client, VC>> requests

ASSUME ClientAssumption == NoClient \notin Clients

(* The two-stage allocators satisfy this (ArbitratedAllocator_proofs).     *)
ASSUME AllocatorAssumption ==
  \A reqs \in SUBSET (Clients \X Vcs) :
    \A g \in Allocations(reqs) : Matching(reqs, g)

VARIABLES vcTaken,          \* the VCs that are given out
          requests,         \* the pending <<client, VC>> requests
          clientRequested,  \* the clients waiting for a response
          allocEventSet,    \* an allocation event is in the event queue
          held              \* held[c]: the VCs client c knows it holds

schedVars == <<vcTaken, requests, clientRequested, allocEventSet>>
vars == <<vcTaken, requests, clientRequested, allocEventSet, held>>

TypeOK == /\ vcTaken \subseteq Vcs
          /\ requests \subseteq Clients \X Vcs
          /\ clientRequested \subseteq Clients
          /\ allocEventSet \in BOOLEAN
          /\ held \in [Clients -> SUBSET Vcs]

-----------------------------------------------------------------------------
(* The scheduler.                                                          *)

SchedInit == /\ vcTaken = {}
             /\ requests = {}
             /\ clientRequested = {}
             /\ allocEventSet = FALSE

(* Mutant: the event is not scheduled with the first request.              *)
RequestVcsNoEvent(c, vs) == /\ requests' = requests \cup ({c} \X vs)
                            /\ clientRequested' = clientRequested \cup {c}
                            /\ UNCHANGED allocEventSet

(* request(), called once for each VC of a routing response.               *)
RequestVcs(c, vs) == /\ requests' = requests \cup ({c} \X vs)
                     /\ clientRequested' = clientRequested \cup {c}
                     /\ allocEventSet' = TRUE

(* Mutant: the flag of a released VC stays set.                            *)
ReleaseVcKept(v) == UNCHANGED vcTaken

(* releaseVc().                                                            *)
ReleaseVc(v) == vcTaken' = vcTaken \ {v}

(* Mutant: taken VCs are not masked.                                       *)
UnmaskedAll == requests

(* The requests left once those for a taken VC are masked out.             *)
Unmasked == {r \in requests : ~(r[1] \in clientRequested /\ r[2] \in vcTaken)}

GrantsTo(g, c) == {r[2] : r \in {s \in g : s[1] = c}}

(* Mutants: granted VCs are not marked; denied clients are not answered.   *)
AllocateUnmarked(g) ==
  /\ allocEventSet
  /\ allocEventSet' = FALSE
  /\ UNCHANGED vcTaken
  /\ requests' = {r \in requests : r[1] \notin clientRequested}
  /\ clientRequested' = {}
AllocateSilent(g) ==
  /\ allocEventSet
  /\ allocEventSet' = FALSE
  /\ vcTaken' = vcTaken \cup UNION {GrantsTo(g, c) : c \in clientRequested}
  /\ requests' = {r \in requests : GrantsTo(g, r[1]) = {}}
  /\ clientRequested' = {c \in clientRequested : GrantsTo(g, c) = {}}

(* processEvent(), with the grants g of the allocator: marks the granted   *)
(* VCs and drops the requests of every client it answers.                  *)
Allocate(g) ==
  /\ allocEventSet
  /\ allocEventSet' = FALSE
  /\ vcTaken' = vcTaken \cup UNION {GrantsTo(g, c) : c \in clientRequested}
  /\ requests' = {r \in requests : r[1] \notin clientRequested}
  /\ clientRequested' = {}

-----------------------------------------------------------------------------
(* The clients: an input queue holds one request at a time (it waits for   *)
(* the response), may ask for a VC it still holds for its previous packet, *)
(* and releases only what it holds.  Both may happen in one pipeline step. *)

Init == SchedInit /\ held = [c \in Clients |-> {}]

ClientAsks(c) == \E vs \in (SUBSET Vcs) \ {{}} : RequestVcs(c, vs)

ClientReleases(c) ==
  \E v \in held[c] : /\ ReleaseVc(v)
                     /\ held' = [held EXCEPT ![c] = @ \ {v}]

ClientStep(c) ==
  \/ /\ c \notin clientRequested
     /\ ClientAsks(c)
     /\ UNCHANGED <<vcTaken, held>>
  \/ /\ ClientReleases(c)
     /\ UNCHANGED <<requests, clientRequested, allocEventSet>>
  \/ /\ c \notin clientRequested
     /\ ClientAsks(c)
     /\ ClientReleases(c)

ProcessEvent ==
  \E g \in Allocations(Unmasked) :
    /\ Allocate(g)
    /\ held' = [c \in Clients |-> IF c \in clientRequested
                                  THEN held[c] \cup GrantsTo(g, c)
                                  ELSE held[c]]

Next == ProcessEvent \/ \E c \in Clients : ClientStep(c)

Spec == Init /\ [][Next]_vars

(* An event in the queue is run.                                           *)
FairSpec == Spec /\ WF_vars(ProcessEvent)

-----------------------------------------------------------------------------
(* No VC is held by two clients at once: the flits of two packets never    *)
(* mix on a VC (vcTaken_ is the only thing that prevents it).              *)
Exclusive == \A c, d \in Clients : c # d => held[c] \cap held[d] = {}

(* The taken flags are exactly what the clients hold: no VC leaks out of   *)
(* use, and none is offered again while a packet is still on it.           *)
TakenIsHeld == vcTaken = UNION {held[c] : c \in Clients}

(* A client waiting for a response has a request to be answered and an     *)
(* event that will answer it, although only the first request of a cycle   *)
(* schedules the event and the mask may drop every request of a client.    *)
NoLostRequest == /\ clientRequested = {r[1] : r \in requests}
                 /\ clientRequested # {} => allocEventSet

(* Every client that asked is answered, granted or denied.                 *)
EveryRequestAnswered ==
  \A c \in Clients : (c \in clientRequested) ~> (c \notin clientRequested)

(* The owner of each VC, as the abstract specification sees it.            *)
OwnerIn(h) == [v \in Vcs |-> IF \E c \in Clients : v \in h[c]
                             THEN CHOOSE c \in Clients : v \in h[c]
                             ELSE NoClient]
Owner == OwnerIn(held)

Ownership == INSTANCE VcOwnership WITH Free <- NoClient, owner <- Owner

(* The scheduler and its clients implement exclusive ownership of VCs.     *)
ImplementsOwnership == Ownership!Spec
=============================================================================
