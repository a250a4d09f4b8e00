------------------------ MODULE VcScheduler_proofs ------------------------
(***************************************************************************)
(* The VC scheduler is correct for every number of clients and VCs and     *)
(* every allocator that returns matchings: a VC never has two holders, the *)
(* taken flags are exact, no request is left without an event, and the     *)
(* scheduler implements exclusive ownership.                               *)
(***************************************************************************)
EXTENDS VcScheduler, TLAPS

IInv == TypeOK /\ Exclusive /\ TakenIsHeld /\ NoLostRequest

(* The grants of an event go to waiting clients and for free VCs.          *)
LEMMA GrantsAreFree ==
  ASSUME IInv, NEW g \in Allocations(Unmasked), NEW c \in Clients,
         NEW v \in GrantsTo(g, c)
  PROVE  /\ <<c, v>> \in g
         /\ c \in clientRequested
         /\ v \in Vcs \ vcTaken
<1>1. Unmasked \in SUBSET (Clients \X Vcs)
  BY DEF IInv, TypeOK, Unmasked
<1>2. g \subseteq requests
  BY <1>1, AllocatorAssumption DEF Matching, Unmasked
<1>3. PICK r \in g : r[1] = c /\ r[2] = v
  BY DEF GrantsTo
<1>4. r \in Clients \X Vcs
  BY <1>2 DEF IInv, TypeOK
<1>5. r = <<c, v>> /\ v \in Vcs
  BY <1>3, <1>4
<1>6. c \in clientRequested
  BY <1>2, <1>3 DEF IInv, NoLostRequest
<1>7. r \in Unmasked
  BY <1>1, AllocatorAssumption DEF Matching
<1>8. v \notin vcTaken
  BY <1>3, <1>6, <1>7 DEF Unmasked
<1> QED
  BY <1>5, <1>6, <1>8

(* No VC is granted to two clients by one event.                           *)
LEMMA GrantsAreDisjoint ==
  ASSUME IInv, NEW g \in Allocations(Unmasked),
         NEW c \in Clients, NEW d \in Clients, NEW v,
         v \in GrantsTo(g, c), v \in GrantsTo(g, d)
  PROVE  c = d
<1>1. <<c, v>> \in g /\ <<d, v>> \in g
  BY GrantsAreFree
<1>2. Matching(Unmasked, g)
  <2>1. Unmasked \in SUBSET (Clients \X Vcs)
    BY DEF IInv, TypeOK, Unmasked
  <2> QED
    BY <2>1, AllocatorAssumption
<1> QED
  BY <1>1, <1>2 DEF Matching

(* The invariant holds at the start.                                       *)
LEMMA InitIInv == Init => IInv
BY DEF Init, SchedInit, IInv, TypeOK, Exclusive, TakenIsHeld, NoLostRequest

(* A client's call to request() puts its requests and the event in place.  *)
LEMMA AskStep ==
  ASSUME IInv, NEW c \in Clients, ClientAsks(c)
  PROVE  /\ requests' \subseteq Clients \X Vcs
         /\ clientRequested' \subseteq Clients
         /\ allocEventSet' = TRUE
         /\ clientRequested' = {r[1] : r \in requests'}
<1>1. PICK vs \in (SUBSET Vcs) \ {{}} : RequestVcs(c, vs)
  BY DEF ClientAsks
<1>2. requests' = requests \cup ({c} \X vs) /\ clientRequested' = clientRequested \cup {c}
  BY <1>1 DEF RequestVcs
<1>3. \A x \in {c} \X vs : x[1] = c
  OBVIOUS
<1>4. PICK v \in vs : TRUE
  BY <1>1
<1>5. <<c, v>> \in {c} \X vs /\ <<c, v>>[1] = c
  BY <1>4
<1>6. clientRequested' = {r[1] : r \in requests'}
  <2>1. ASSUME NEW d \in clientRequested' PROVE \E r \in requests' : r[1] = d
    <3>1. CASE d \in clientRequested
      BY <3>1, <1>2 DEF IInv, NoLostRequest
    <3>2. CASE d = c
      BY <3>2, <1>2, <1>5
    <3> QED
      BY <2>1, <3>1, <3>2, <1>2
  <2>2. ASSUME NEW r \in requests' PROVE r[1] \in clientRequested'
    <3>1. CASE r \in requests
      BY <3>1, <1>2 DEF IInv, NoLostRequest
    <3>2. CASE r \in {c} \X vs
      BY <3>2, <1>2, <1>3
    <3> QED
      BY <2>2, <3>1, <3>2, <1>2
  <2> QED
    BY <2>1, <2>2
<1> QED
  BY <1>1, <1>2, <1>6 DEF RequestVcs, IInv, TypeOK

(* A release leaves the other holders and the other taken flags alone.     *)
LEMMA ReleaseStep ==
  ASSUME IInv, NEW c \in Clients, ClientReleases(c)
  PROVE  /\ vcTaken' \subseteq Vcs
         /\ held' \in [Clients -> SUBSET Vcs]
         /\ Exclusive'
         /\ TakenIsHeld'
<1>1. PICK v \in held[c] : /\ vcTaken' = vcTaken \ {v}
                           /\ held' = [held EXCEPT ![c] = @ \ {v}]
  BY DEF ClientReleases, ReleaseVc
<1>2. \A d \in Clients : held'[d] = IF d = c THEN held[d] \ {v} ELSE held[d]
  BY <1>1 DEF IInv, TypeOK
<1>3. \A d \in Clients : d # c => v \notin held[d]
  BY DEF IInv, Exclusive
<1>4. Exclusive'
  BY <1>2 DEF IInv, Exclusive
<1>5. TakenIsHeld'
  BY <1>1, <1>2, <1>3 DEF IInv, TakenIsHeld
<1> QED
  BY <1>1, <1>2, <1>4, <1>5 DEF IInv, TypeOK

(* The event: what is newly held is what is newly taken.                   *)
LEMMA EventStep ==
  ASSUME IInv, ProcessEvent
  PROVE  IInv'
<1>1. PICK g \in Allocations(Unmasked) :
         /\ Allocate(g)
         /\ held' = [c \in Clients |-> IF c \in clientRequested
                                       THEN held[c] \cup GrantsTo(g, c) ELSE held[c]]
  BY DEF ProcessEvent
<1>2. \A c \in Clients : held'[c] = held[c] \cup GrantsTo(g, c)
  <2>1. \A c \in Clients : c \notin clientRequested => GrantsTo(g, c) = {}
    BY GrantsAreFree
  <2> QED
    BY <1>1, <2>1
<1>3. vcTaken' = vcTaken \cup UNION {GrantsTo(g, c) : c \in Clients}
  <2>1. vcTaken' = vcTaken \cup UNION {GrantsTo(g, c) : c \in clientRequested}
    BY <1>1 DEF Allocate
  <2>2. \A c \in Clients : \A v \in GrantsTo(g, c) : c \in clientRequested
    BY GrantsAreFree
  <2>3. clientRequested \subseteq Clients
    BY DEF IInv, TypeOK
  <2> QED
    BY <2>1, <2>2, <2>3
<1>4. TypeOK'
  <2>1. \A c \in Clients : GrantsTo(g, c) \subseteq Vcs
    BY GrantsAreFree
  <2>2. vcTaken' \subseteq Vcs
    BY <1>3, <2>1 DEF IInv, TypeOK
  <2>3. held' \in [Clients -> SUBSET Vcs]
    <3>1. \A c \in Clients : held[c] \in SUBSET Vcs
      BY DEF IInv, TypeOK
    <3>2. \A c \in Clients : (IF c \in clientRequested
                              THEN held[c] \cup GrantsTo(g, c) ELSE held[c]) \in SUBSET Vcs
      BY <2>1, <3>1
    <3> QED
      BY <1>1, <3>2
  <2> QED
    BY <1>1, <2>2, <2>3 DEF IInv, TypeOK, Allocate
<1>5. Exclusive'
  <2> SUFFICES ASSUME NEW c \in Clients, NEW d \in Clients, c # d,
                      NEW v \in held'[c], v \in held'[d]
               PROVE  FALSE
    BY DEF Exclusive
  <2>1. \A e \in Clients : held[e] \subseteq vcTaken
    BY DEF IInv, TakenIsHeld
  <2>2. CASE v \in held[c] /\ v \in held[d]
    BY <2>2 DEF IInv, Exclusive
  <2>3. CASE v \in held[c] /\ v \in GrantsTo(g, d)
    BY <2>1, <2>3, GrantsAreFree
  <2>4. CASE v \in GrantsTo(g, c) /\ v \in held[d]
    BY <2>1, <2>4, GrantsAreFree
  <2>5. CASE v \in GrantsTo(g, c) /\ v \in GrantsTo(g, d)
    BY <2>5, GrantsAreDisjoint
  <2> QED
    BY <1>2, <2>2, <2>3, <2>4, <2>5
<1>6. TakenIsHeld'
  BY <1>2, <1>3 DEF IInv, TakenIsHeld
<1>7. NoLostRequest'
  <2>1. requests' = {}
    BY <1>1 DEF Allocate, IInv, NoLostRequest
  <2> QED
    BY <1>1, <2>1 DEF Allocate, NoLostRequest
<1> QED
  BY <1>4, <1>5, <1>6, <1>7 DEF IInv

(* Every step keeps the invariant.                                         *)
LEMMA NextIInv == IInv /\ [Next]_vars => IInv'
<1> SUFFICES ASSUME IInv, [Next]_vars PROVE IInv'
  OBVIOUS
<1>1. CASE ProcessEvent
  BY <1>1, EventStep
<1>2. ASSUME NEW c \in Clients, ClientStep(c) PROVE IInv'
  <2>1. CASE ClientAsks(c) /\ UNCHANGED <<vcTaken, held>>
    BY <2>1, AskStep DEF IInv, TypeOK, Exclusive, TakenIsHeld, NoLostRequest
  <2>2. CASE ClientReleases(c) /\ UNCHANGED <<requests, clientRequested, allocEventSet>>
    BY <2>2, ReleaseStep DEF IInv, TypeOK, NoLostRequest
  <2>3. CASE ClientAsks(c) /\ ClientReleases(c)
    BY <2>3, AskStep, ReleaseStep DEF IInv, TypeOK, NoLostRequest
  <2> QED
    BY <1>2, <2>1, <2>2, <2>3 DEF ClientStep
<1>3. CASE UNCHANGED vars
  BY <1>3 DEF vars, IInv, TypeOK, Exclusive, TakenIsHeld, NoLostRequest
<1> QED
  BY <1>1, <1>2, <1>3 DEF Next

(* The strengthened invariant holds in every reachable state.              *)
THEOREM Invariance == Spec => []IInv
BY InitIInv, NextIInv, PTL DEF Spec

(* Every variable of the scheduler keeps its type, for any set of clients  *)
(* and VCs.                                                                *)
THEOREM TypeCorrect == Spec => []TypeOK
<1>1. IInv => TypeOK
  BY DEF IInv
<1> QED
  BY <1>1, Invariance, PTL

(* No output VC ever has two holders.                                      *)
THEOREM VcsAreExclusive == Spec => []Exclusive
<1>1. IInv => Exclusive
  BY DEF IInv
<1> QED
  BY <1>1, Invariance, PTL

(* No VC is taken that nobody holds, and none is free that somebody holds. *)
THEOREM TakenFlagsAreExact == Spec => []TakenIsHeld
<1>1. IInv => TakenIsHeld
  BY DEF IInv
<1> QED
  BY <1>1, Invariance, PTL

(* A waiting client always has an allocation event coming.                 *)
THEOREM RequestsAreAnswered == Spec => []NoLostRequest
<1>1. IInv => NoLostRequest
  BY DEF IInv
<1> QED
  BY <1>1, Invariance, PTL

-----------------------------------------------------------------------------
(* The owner of a held VC is its holder, that of another VC is nobody.     *)
LEMMA OwnerOfHeld ==
  ASSUME NEW h, NEW c \in Clients, NEW v \in Vcs, v \in h[c],
         \A a, b \in Clients : a # b => h[a] \cap h[b] = {}
  PROVE  OwnerIn(h)[v] = c
<1>1. OwnerIn(h)[v] = CHOOSE a \in Clients : v \in h[a]
  BY DEF OwnerIn
<1>2. (CHOOSE a \in Clients : v \in h[a]) = c
  <2>1. \A a \in Clients : v \in h[a] => a = c
    OBVIOUS
  <2> QED
    BY <2>1
<1> QED
  BY <1>1, <1>2

(* A VC that nobody holds has no owner.                                    *)
LEMMA OwnerOfFree ==
  ASSUME NEW h, NEW v \in Vcs, \A c \in Clients : v \notin h[c]
  PROVE  OwnerIn(h)[v] = NoClient
BY DEF OwnerIn

(* The owner of a VC holds it.                                             *)
LEMMA OwnerHolds ==
  ASSUME NEW h, NEW v \in Vcs, OwnerIn(h)[v] # NoClient
  PROVE  OwnerIn(h)[v] \in Clients /\ v \in h[OwnerIn(h)[v]]
BY DEF OwnerIn

(* The owner of a VC is a client or nobody.                                *)
LEMMA OwnersAre == ASSUME NEW h PROVE OwnerIn(h) = [v \in Vcs |-> OwnerIn(h)[v]]
BY DEF OwnerIn

(* Nobody owns a VC at the start.                                          *)
LEMMA InitOwners == Init => Ownership!Init
<1> SUFFICES ASSUME Init PROVE OwnerIn(held) = [v \in Vcs |-> NoClient]
  BY DEF Ownership!Init, Owner
<1>1. \A c \in Clients : held[c] = {}
  BY DEF Init
<1> QED
  BY <1>1 DEF OwnerIn

(* A release gives one VC back.                                            *)
LEMMA ReleaseOwners ==
  ASSUME IInv, NEW c \in Clients, ClientReleases(c)
  PROVE  Ownership!Release
<1>1. PICK v \in held[c] : held' = [held EXCEPT ![c] = @ \ {v}]
  BY DEF ClientReleases
<1>2. v \in Vcs
  BY DEF IInv, TypeOK
<1>3. \A d \in Clients : held'[d] = IF d = c THEN held[d] \ {v} ELSE held[d]
  BY <1>1 DEF IInv, TypeOK
<1>4. \A a, b \in Clients : a # b => held[a] \cap held[b] = {}
  BY DEF IInv, Exclusive
<1>5. OwnerIn(held)[v] = c
  BY <1>2, <1>4, OwnerOfHeld
<1>6. \A w \in Vcs : OwnerIn(held')[w] = IF w = v THEN NoClient ELSE OwnerIn(held)[w]
  <2> SUFFICES ASSUME NEW w \in Vcs
               PROVE  OwnerIn(held')[w] = IF w = v THEN NoClient ELSE OwnerIn(held)[w]
    OBVIOUS
  <2>1. CASE w = v
    <3>1. \A d \in Clients : w \notin held'[d]
      BY <2>1, <1>3, <1>4
    <3> QED
      BY <2>1, <3>1, OwnerOfFree
  <2>2. CASE w # v
    BY <2>2, <1>3 DEF OwnerIn
  <2> QED
    BY <2>1, <2>2
<1>7. OwnerIn(held') = [OwnerIn(held) EXCEPT ![v] = NoClient]
  BY <1>6, OwnersAre
<1>8. OwnerIn(held)[v] # NoClient
  BY <1>5, ClientAssumption
<1> QED
  BY <1>2, <1>7, <1>8 DEF Ownership!Release, Owner

(* The event grants free VCs, to different clients.                        *)
LEMMA EventOwners ==
  ASSUME IInv, IInv', ProcessEvent
  PROVE  Ownership!Grant
<1> DEFINE old == OwnerIn(held)
           new == OwnerIn(held')
           W == [v \in Vcs |-> IF v \in vcTaken THEN NoClient ELSE new[v]]
<1>1. PICK g \in Allocations(Unmasked) :
         held' = [c \in Clients |-> IF c \in clientRequested
                                    THEN held[c] \cup GrantsTo(g, c) ELSE held[c]]
  BY DEF ProcessEvent
<1>2. \A c \in Clients : held[c] \subseteq held'[c] /\ held'[c] \subseteq held[c] \cup GrantsTo(g, c)
  BY <1>1
<1>3. \A a, b \in Clients : a # b => held[a] \cap held[b] = {}
  BY DEF IInv, Exclusive
<1>4. \A a, b \in Clients : a # b => held'[a] \cap held'[b] = {}
  BY DEF IInv, Exclusive
<1>5. \A v \in Vcs : v \in vcTaken <=> \E c \in Clients : v \in held[c]
  BY DEF IInv, TakenIsHeld
<1>6. Matching(Unmasked, g)
  <2>1. Unmasked \in SUBSET (Clients \X Vcs)
    BY DEF IInv, TypeOK, Unmasked
  <2> QED
    BY <2>1, AllocatorAssumption
<1>7. W \in [Vcs -> Clients \cup {NoClient}]
  <2>1. \A v \in Vcs : new[v] \in Clients \cup {NoClient}
    BY OwnerHolds
  <2> QED
    BY <2>1
<1>8. \A v \in Vcs : W[v] # NoClient => old[v] = NoClient
  <2> SUFFICES ASSUME NEW v \in Vcs, W[v] # NoClient PROVE old[v] = NoClient
    OBVIOUS
  <2>1. v \notin vcTaken
    OBVIOUS
  <2> QED
    BY <2>1, <1>5, OwnerOfFree
<1>9. \A v, w \in Vcs : v # w /\ W[v] = W[w] => W[v] = NoClient
  <2> SUFFICES ASSUME NEW v \in Vcs, NEW w \in Vcs, v # w, W[v] = W[w], W[v] # NoClient
               PROVE  FALSE
    OBVIOUS
  <2>1. new[v] = W[v] /\ v \notin vcTaken /\ new[w] = W[v] /\ w \notin vcTaken
    OBVIOUS
  <2>2. W[v] \in Clients /\ v \in held'[W[v]] /\ w \in held'[W[v]]
    BY <2>1, OwnerHolds
  <2>3. v \in GrantsTo(g, W[v]) /\ w \in GrantsTo(g, W[v])
    BY <2>1, <2>2, <1>2, <1>5
  <2>4. <<W[v], v>> \in g /\ <<W[v], w>> \in g
    BY <2>2, <2>3, GrantsAreFree
  <2> QED
    BY <2>4, <1>6 DEF Matching
<1>10. \A v \in Vcs : new[v] = IF W[v] = NoClient THEN old[v] ELSE W[v]
  <2> SUFFICES ASSUME NEW v \in Vcs
               PROVE  new[v] = IF W[v] = NoClient THEN old[v] ELSE W[v]
    OBVIOUS
  <2>1. CASE v \in vcTaken
    <3>1. PICK c \in Clients : v \in held[c]
      BY <2>1, <1>5
    <3>2. v \in held'[c]
      BY <3>1, <1>2
    <3>3. old[v] = c /\ new[v] = c
      BY <3>1, <3>2, <1>3, <1>4, OwnerOfHeld
    <3> QED
      BY <2>1, <3>3
  <2>2. CASE v \notin vcTaken
    <3>1. old[v] = NoClient
      BY <2>2, <1>5, OwnerOfFree
    <3> QED
      BY <2>2, <3>1
  <2> QED
    BY <2>1, <2>2
<1>11. new = [v \in Vcs |-> IF W[v] = NoClient THEN old[v] ELSE W[v]]
  BY <1>10, OwnersAre
<1> HIDE DEF old, new, W
<1> QED
  BY <1>7, <1>8, <1>9, <1>11 DEF Ownership!Grant, Owner, old, new

(* Every step of the scheduler and its clients is a step of the abstract   *)
(* specification, or leaves the owners as they are.                        *)
LEMMA NextOwners == IInv /\ IInv' /\ [Next]_vars => [Ownership!Next]_Owner
<1> SUFFICES ASSUME IInv, IInv', [Next]_vars PROVE [Ownership!Next]_Owner
  OBVIOUS
<1>1. CASE ProcessEvent
  BY <1>1, EventOwners DEF Ownership!Next
<1>2. ASSUME NEW c \in Clients, ClientStep(c) PROVE [Ownership!Next]_Owner
  <2>1. CASE UNCHANGED held
    BY <2>1 DEF Owner, OwnerIn
  <2>2. CASE ClientReleases(c)
    BY <2>2, ReleaseOwners DEF Ownership!Next
  <2> QED
    BY <1>2, <2>1, <2>2 DEF ClientStep
<1>3. CASE UNCHANGED vars
  BY <1>3 DEF vars, Owner, OwnerIn
<1> QED
  BY <1>1, <1>2, <1>3 DEF Next

(* The VC scheduler implements exclusive ownership of the output VCs, for  *)
(* any number of clients and VCs and any allocator that returns matchings. *)
THEOREM Refinement == Spec => ImplementsOwnership
BY InitOwners, NextOwners, Invariance, PTL DEF Spec, ImplementsOwnership, Ownership!Spec
=============================================================================
