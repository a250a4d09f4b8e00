------------------------ MODULE ArbitratedAllocator ------------------------
(***************************************************************************)
(* allocator/ with the arbiters of arbiter/ and the metadata they compare: *)
(* every resource, and in the two-stage allocators every client, has an    *)
(* arbiter; the allocator decides when an arbiter remembers its winner     *)
(* (latches).  nextPriority_ of LslpArbiter is not kept here: it is only   *)
(* ever latched in the iteration that computed it.                         *)
(***************************************************************************)
EXTENDS Allocation, Sequences

CONSTANTS NumClients, NumResources,
          Kinds,        \* [allocator, arbiter]: the types in the settings
          Iterations,   \* iterations
          SlipLatch     \* slip_latch: latch only when a grant is accepted

ASSUME SizeAssumption == /\ NumClients \in Nat \ {0} /\ NumResources \in Nat \ {0}
                         /\ Iterations \in Nat \ {0} /\ SlipLatch \in BOOLEAN

(* The types that the factories know.                                      *)
ASSUME KindAssumption ==
  Kinds \subseteq [allocator : {"rc_separable", "cr_separable", "r_separable"},
                   arbiter : {"lslp", "comparing", "random", "random_priority"}]

Clients == 0..(NumClients - 1)
Resources == 0..(NumResources - 1)
Pairs == Clients \X Resources

VARIABLES kind,              \* the allocator and its arbiters
          resourcePriority,  \* priority_ of the arbiter of each resource
          clientPriority,    \* priority_ of the arbiter of each client
          arrived,           \* the clients with a packet, by its arrival time
          asked, granted     \* the last call of allocate()

vars == <<kind, resourcePriority, clientPriority, arrived, asked, granted>>

TypeOK == /\ kind \in Kinds
          /\ resourcePriority \in [Resources -> Clients]
          /\ clientPriority \in [Clients -> Resources]
          /\ arrived \in Seq(SUBSET Clients)
          /\ asked \subseteq Pairs /\ granted \subseteq Pairs

(* The priorities start at random.                                         *)
Init == /\ kind \in Kinds
        /\ resourcePriority \in IF kind.arbiter = "lslp" THEN [Resources -> Clients]
                                                        ELSE {[r \in Resources |-> 0]}
        /\ clientPriority \in IF /\ kind.arbiter = "lslp" /\ kind.allocator # "r_separable"
                              THEN [Clients -> Resources] ELSE {[c \in Clients |-> 0]}
        /\ arrived = <<>>
        /\ asked = {} /\ granted = {}

-----------------------------------------------------------------------------
(* LslpArbiter::arbitrate: the first requester from priority_ on, around.  *)
Arbitrate(requesters, priority, size) ==
  CHOOSE w \in requesters :
    \A x \in requesters : (w + size - priority) % size <= (x + size - priority) % size

(* LocalTimestampMetadataHandler: the time at which the packet came to the *)
(* router; a packet that is not there yet comes now.                       *)
Timestamp(c) == IF \E i \in DOMAIN arrived : c \in arrived[i]
                THEN CHOOSE i \in DOMAIN arrived : c \in arrived[i]
                ELSE Len(arrived) + 1

(* ComparingArbiter::arbitrate, with greater false: any of those with the  *)
(* lowest metadata.                                                        *)
Best(clients) == {c \in clients : \A d \in clients : Timestamp(c) <= Timestamp(d)}

(* What an arbiter may pick; the two random arbiters pick any requester.   *)
MayPickClient(clients, priority) ==
  CASE kind.arbiter = "lslp" -> {Arbitrate(clients, priority, NumClients)}
    [] kind.arbiter = "comparing" -> Best(clients)
    [] kind.arbiter \in {"random", "random_priority"} -> clients

(* The requests of one client have the same metadata.                      *)
MayPickResource(resources, priority) ==
  IF kind.arbiter = "lslp" THEN {Arbitrate(resources, priority, NumResources)} ELSE resources

(* Mutant: a client accepts every resource that picks it.                  *)
ClientsPickAll(reqs, cp) == {reqs}

(* One run of all resource arbiters, and of all client arbiters, on the    *)
(* requests reqs.                                                          *)
ResourcesPick(reqs, rp) ==
  {g \in PerResource(reqs) :
     \A x \in g : x[1] \in MayPickClient({c \in Clients : <<c, x[2]>> \in reqs}, rp[x[2]])}
ClientsPick(reqs, cp) ==
  {g \in PerClient(reqs) :
     \A x \in g : x[2] \in MayPickResource({r \in Resources : <<x[1], r>> \in reqs}, cp[x[1]])}

(* Mutant: the winner keeps the highest priority.                          *)
LatchWinner(won, size) == won

(* Latching: the winner gets the lowest priority.                          *)
Latch(won, size) == (won + 1) % size
AfterResources(rp, latched) ==
  [r \in Resources |->
     LET won == {x \in latched : x[2] = r}
     IN IF kind.arbiter # "lslp" \/ won = {} THEN rp[r]
        ELSE Latch((CHOOSE x \in won : TRUE)[1], NumClients)]
AfterClients(cp, latched) ==
  [c \in Clients |->
     LET won == {x \in latched : x[1] = c}
     IN IF kind.arbiter # "lslp" \/ won = {} THEN cp[c]
        ELSE Latch((CHOOSE x \in won : TRUE)[2], NumResources)]

(* What one iteration adds; what was granted is out of the next one.       *)
Granted(s, grants, rp, cp) ==
  [reqs |-> Remaining(s.reqs, grants), grants |-> s.grants \cup grants, rp |-> rp, cp |-> cp]

(* An iteration of allocate(): without slip_latch the first stage moves    *)
(* past a winner that the second stage turned down.                        *)
RcIteration(s) ==
  UNION {{Granted(s, g, AfterResources(s.rp, IF SlipLatch THEN g ELSE picks),
                        AfterClients(s.cp, g)) : g \in ClientsPick(picks, s.cp)} :
           picks \in ResourcesPick(s.reqs, s.rp)}
CrIteration(s) ==
  UNION {{Granted(s, g, AfterResources(s.rp, g),
                        AfterClients(s.cp, IF SlipLatch THEN g ELSE picks)) :
            g \in ResourcesPick(picks, s.rp)} : picks \in ClientsPick(s.reqs, s.cp)}
RAllocate(s) == {Granted(s, g, AfterResources(s.rp, g), s.cp) : g \in ResourcesPick(s.reqs, s.rp)}

(* allocate(), for the requests reqs: what it may end with.                *)
Allocate(reqs) ==
  LET start == [reqs |-> reqs, grants |-> {}, rp |-> resourcePriority, cp |-> clientPriority]
      Iteration(s) == IF kind.allocator = "rc_separable" THEN RcIteration(s) ELSE CrIteration(s)
      after[i \in 0..Iterations] ==
        IF i = 0 THEN {start} ELSE UNION {Iteration(s) : s \in after[i - 1]}
  IN IF kind.allocator = "r_separable" THEN RAllocate(start) ELSE after[Iterations]

-----------------------------------------------------------------------------
Of(c, pairs) == {x \in pairs : x[1] = c}

(* The packets that came just now, and those that are gone.                *)
Arrivals(reqs) ==
  LET new == {c \in Clients : Of(c, reqs) # {} /\ \A i \in DOMAIN arrived : c \notin arrived[i]}
  IN IF kind.arbiter = "comparing" THEN Append(arrived, new) ELSE <<>>
Waiting(packets, grants) ==
  SelectSeq([i \in DOMAIN packets |-> {c \in packets[i] : Of(c, grants) = {}}],
            LAMBDA clients : clients # {})

(* The schedulers' clients: one that was turned away asks for the same     *)
(* again, until it is granted something.                                   *)
Schedule(reqs) ==
  /\ \A c \in Clients :
       Of(c, granted) = {} /\ Of(c, asked) # {} => Of(c, reqs) = Of(c, asked)
  /\ asked' = reqs
  /\ \E end \in Allocate(reqs) :
       /\ granted' = end.grants
       /\ resourcePriority' = end.rp
       /\ clientPriority' = end.cp
       /\ arrived' = Waiting(Arrivals(reqs), end.grants)
  /\ UNCHANGED kind

Next == \E reqs \in (SUBSET Pairs) \ {{}} : Schedule(reqs)
Spec == Init /\ [][Next]_vars /\ WF_vars(Next)

-----------------------------------------------------------------------------
(* Whatever the arbiters and their state, the outcome is one that the      *)
(* schedulers' specifications allow for.                                   *)
OutcomeAllowed ==
  granted \in CASE kind.allocator = "rc_separable" -> RcSeparable(asked, Iterations)
                [] kind.allocator = "cr_separable" -> CrSeparable(asked, Iterations)
                [] kind.allocator = "r_separable" -> RSeparable(asked)

(* Nobody starves: whether priorities rotate, those of clients and of      *)
(* resources independently, or the ages of packets are compared, and       *)
(* however the requests shift around it, a client that keeps asking is     *)
(* granted one of the resources it asks for in the end.                    *)
Served == \A c \in Clients :
  (kind.arbiter \in {"lslp", "comparing"} /\ Of(c, asked) # {}) ~> (Of(c, granted) # {})
=============================================================================
