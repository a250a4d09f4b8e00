-------------------- MODULE ArbitratedAllocator_proofs --------------------
(***************************************************************************)
(* What the schedulers assume of their allocators holds of the allocators  *)
(* the code has, for every number of clients, resources and iterations;    *)
(* and whatever the arbiters are and remember, allocate() returns one of   *)
(* the outcomes of the specifications the schedulers are checked with.     *)
(***************************************************************************)
EXTENDS ArbitratedAllocator, BoundedInduction, FiniteSetTheorems, TLAPS

-----------------------------------------------------------------------------
(* What one pass grants is among what it was asked.                        *)
LEMMA PassGrantsRequests ==
  ASSUME NEW order, NEW reqs, NEW g \in Pass(order, reqs)
  PROVE  g \in SUBSET reqs
BY DEF Pass, RcPass, CrPass, PerClient, PerResource

(* after[k] is what is left and granted after k iterations.                *)
Unfolds(order, reqs, n, after) ==
  /\ after[0] = {<<reqs, {}>>}
  /\ \A k \in 1..n :
       after[k] = UNION {{<<Remaining(s[1], g), s[2] \cup g>> : g \in Pass(order, s[1])} :
                           s \in after[k - 1]}
  /\ Iterated(order, reqs, n) = {s[2] : s \in after[n]}

(* The iterations are what their recursive definition says.                *)
LEMMA IterationsUnfold ==
  ASSUME NEW order, NEW reqs, NEW n \in Nat
  PROVE  \E after : Unfolds(order, reqs, n, after)
<1> DEFINE State == (SUBSET reqs) \X (SUBSET reqs)
           Step(F) == UNION {{<<Remaining(s[1], g), s[2] \cup g>> : g \in Pass(order, s[1])} :
                               s \in F}
           step == [F \in SUBSET State |-> Step(F)]
           Body(f) == [k \in 0..n |-> IF k = 0 THEN {<<reqs, {}>>} ELSE Step(f[k - 1])]
           after == CHOOSE f : f = Body(f)
<1>1. step \in [SUBSET State -> SUBSET State]
  <2>1. ASSUME NEW F \in SUBSET State, NEW s \in F, NEW g \in Pass(order, s[1])
        PROVE  <<Remaining(s[1], g), s[2] \cup g>> \in State
    <3>1. s[1] \in SUBSET reqs /\ s[2] \in SUBSET reqs
      OBVIOUS
    <3>2. g \in SUBSET reqs
      BY <3>1, PassGrantsRequests
    <3> QED
      BY <3>1, <3>2 DEF Remaining
  <2>2. \A F \in SUBSET State : Step(F) \in SUBSET State
    BY <2>1
  <2> QED
    BY <2>2
<1>2. {<<reqs, {}>>} \in SUBSET State
  OBVIOUS
<1>3. PICK f \in [0..n -> SUBSET State] :
         f[0] = {<<reqs, {}>>} /\ \A k \in 1..n : f[k] = step[f[k - 1]]
  <2> DEFINE S == SUBSET State
             first == {<<reqs, {}>>}
  <2>1. first \in S /\ step \in [S -> S]
    BY <1>1, <1>2
  <2> HIDE DEF step, S, first
  <2>2. \E f : Steps(f, n, S, first, step)
    BY <2>1, RecursionExists
  <2> QED
    BY <2>2 DEF S, first, Steps
<1> HIDE DEF State
<1>4. ASSUME NEW k \in 1..n PROVE f[k] = Step(f[k - 1])
  <2>1. f[k - 1] \in SUBSET State
    BY k - 1 \in 0..n, <1>3
  <2>2. step[f[k - 1]] = Step(f[k - 1])
    <3> HIDE DEF Step
    <3> QED
      BY <2>1
  <2> QED
    BY <1>3, <2>2
<1> HIDE DEF step
<1>5. f = Body(f)
  <2>1. \A k \in 0..n : f[k] = IF k = 0 THEN {<<reqs, {}>>} ELSE Step(f[k - 1])
    <3> HIDE DEF Step
    <3> QED
      BY <1>3, <1>4
  <2> HIDE DEF Step
  <2> QED
    BY <2>1
<1>6. after = Body(after)
  BY <1>5
<1>7. Iterated(order, reqs, n) = {s[2] : s \in after[n]}
  BY DEF Iterated
<1> HIDE DEF after, Step
<1>8. after = f
  <2>1. after[0] = {<<reqs, {}>>} /\ \A k \in 1..n : after[k] = Step(after[k - 1])
    <3>1. 0 \in 0..n /\ \A k \in 1..n : k \in 0..n /\ k # 0
      OBVIOUS
    <3>2. \A k \in 0..n : after[k] = IF k = 0 THEN {<<reqs, {}>>} ELSE Step(after[k - 1])
      BY <1>6
    <3> HIDE DEF Body
    <3> QED
      BY <3>1, <3>2
  <2> DEFINE X == {k \in 0..n : after[k] = f[k]}
  <2>2. 0 \in X
    BY <2>1, <1>3, 0 \in 0..n
  <2>3. \A k \in X : k \in 0..n /\ k < n => k + 1 \in X
    BY <2>1, <1>4
  <2> HIDE DEF X
  <2>4. 0..n \subseteq X
    BY <2>2, <2>3, InductionUpTo
  <2> QED
    BY <2>4, <1>3, <1>6 DEF X
<1>9. Unfolds(order, reqs, n, f)
  BY <1>3, <1>4, <1>7, <1>8 DEF Step, State, Unfolds
<1> QED
  BY <1>9

-----------------------------------------------------------------------------
(* What the allocators promise.                                            *)

(* Resource arbiters alone: r_separable, which the crossbar schedulers may *)
(* use, satisfies GrantAssumption.                                         *)
THEOREM RSeparableGrants ==
  ASSUME NEW reqs, NEW g \in RSeparable(reqs)
  PROVE  OnePerResource(reqs, g)
BY DEF RSeparable, PerResource, OnePerResource

(* One iteration of a two-stage allocator grants a matching, and grants    *)
(* something when something is asked.                                      *)
LEMMA PassMatches ==
  ASSUME NEW order, NEW reqs, NEW g \in Pass(order, reqs)
  PROVE  Matching(reqs, g) /\ (reqs # {} => g # {})
<1>1. CASE order = "rc"
  <2>1. PICK i \in PerResource(reqs) : g \in PerClient(i)
    BY <1>1 DEF Pass, RcPass
  <2> QED
    BY <2>1 DEF PerResource, PerClient, Matching
<1>2. CASE order # "rc"
  <2>1. PICK i \in PerClient(reqs) : g \in PerResource(i)
    BY <1>2 DEF Pass, CrPass
  <2> QED
    BY <2>1 DEF PerResource, PerClient, Matching
<1> QED
  BY <1>1, <1>2

(* The two-stage allocators, rc_separable and cr_separable, satisfy both   *)
(* AllocatorAssumption and GrantAssumption however often they iterate:     *)
(* what an iteration adds never meets what earlier ones granted.           *)
THEOREM IterationsMatch ==
  ASSUME NEW order, NEW reqs, NEW n \in Nat \ {0}, NEW g \in Iterated(order, reqs, n)
  PROVE  Matching(reqs, g) /\ OnePerResource(reqs, g)
<1> DEFINE Apart(s) == /\ s[1] \subseteq reqs
                       /\ Matching(reqs, s[2])
                       /\ \A x \in s[1], y \in s[2] : x[1] # y[1] /\ x[2] # y[2]
           Some(s) == reqs # {} => s[2] # {}
<1>1. PICK f : Unfolds(order, reqs, n, f)
  BY IterationsUnfold
<1>2. ASSUME NEW s, Apart(s), NEW h \in Pass(order, s[1])
      PROVE  Apart(<<Remaining(s[1], h), s[2] \cup h>>)
  <2>1. Matching(s[1], h)
    BY PassMatches
  <2>2. Matching(reqs, s[2] \cup h)
    BY <1>2, <2>1 DEF Matching
  <2> QED
    BY <1>2, <2>1, <2>2 DEF Remaining
<1> DEFINE X == {k \in 0..n : \A s \in f[k] : Apart(s) /\ (k > 0 => Some(s))}
<1>3. 0 \in X
  <2>1. Apart(<<reqs, {}>>)
    BY DEF Matching
  <2>2. 0 \in 0..n /\ ~ (0 > 0) /\ \A s \in f[0] : s = <<reqs, {}>>
    BY <1>1 DEF Unfolds
  <2>3. \A s \in f[0] : Apart(s)
    <3> HIDE DEF Apart
    <3> QED
      BY <2>1, <2>2
  <2> HIDE DEF Apart, Some
  <2> QED
    BY <2>2, <2>3
<1>4. ASSUME NEW k \in X, k \in 0..n /\ k < n PROVE k + 1 \in X
  <2>1. k + 1 \in 1..n /\ k + 1 \in 0..n /\ (k + 1) - 1 = k
    BY <1>4
  <2>2. f[k + 1] = UNION {{<<Remaining(s[1], h), s[2] \cup h>> : h \in Pass(order, s[1])} :
                            s \in f[k]}
    BY <1>1, <2>1 DEF Unfolds
  <2>3. ASSUME NEW t \in f[k + 1] PROVE Apart(t) /\ Some(t)
    <3>0. PICK s \in f[k] : \E h \in Pass(order, s[1]) : t = <<Remaining(s[1], h), s[2] \cup h>>
      BY <2>2
    <3>1. PICK h \in Pass(order, s[1]) : t = <<Remaining(s[1], h), s[2] \cup h>>
      BY <3>0
    <3>2. Apart(s) /\ (k > 0 => Some(s))
      OBVIOUS
    <3>3. Apart(t)
      <4> HIDE DEF Apart
      <4> QED
        BY <1>2, <3>1, <3>2
    <3>4. CASE k = 0
      <4>1. s = <<reqs, {}>>
        BY <1>1, <3>1, <3>4 DEF Unfolds
      <4> QED
        BY <3>1, <3>3, <4>1, PassMatches
    <3>5. CASE k > 0
      BY <3>1, <3>2, <3>3, <3>5
    <3> QED
      BY <3>4, <3>5
  <2> HIDE DEF Apart, Some
  <2> QED
    BY <2>1, <2>3
<1> HIDE DEF X
<1>5. n \in X
  <2>1. 0..n \subseteq X
    BY <1>3, <1>4, InductionUpTo
  <2> QED
    BY <2>1
<1>6. PICK s \in f[n] : g = s[2]
  BY <1>1 DEF Unfolds
<1>7. Matching(reqs, g) /\ (reqs # {} => g # {})
  BY <1>5, <1>6 DEF X
<1> QED
  BY <1>7 DEF Matching, OnePerResource

(* Asked for nothing, an allocator may grant nothing.                      *)
LEMMA NothingForNothing ==
  ASSUME NEW order, NEW n \in Nat, NEW none, none = {}
  PROVE  none \in Iterated(order, none, n)
<1>1. PICK f : Unfolds(order, none, n, f)
  BY IterationsUnfold
<1>2. none \in Pass(order, none)
  <2>1. none \in PerResource(none) /\ none \in PerClient(none)
    BY DEF PerResource, PerClient
  <2> QED
    BY <2>1 DEF Pass, RcPass, CrPass
<1>3. Remaining(none, none) = none
  BY DEF Remaining
<1> DEFINE X == {k \in 0..n : <<none, none>> \in f[k]}
<1>4. 0 \in X
  BY <1>1, 0 \in 0..n DEF Unfolds
<1>5. ASSUME NEW k \in X, k \in 0..n /\ k < n PROVE k + 1 \in X
  <2>1. k + 1 \in 1..n /\ k + 1 \in 0..n /\ (k + 1) - 1 = k
    BY <1>5
  <2>2. f[k + 1] = UNION {{<<Remaining(s[1], h), s[2] \cup h>> : h \in Pass(order, s[1])} :
                            s \in f[k]}
    BY <1>1, <2>1 DEF Unfolds
  <2>3. <<Remaining(none, none), none \cup none>> = <<none, none>>
    BY <1>3
  <2>4. \E s \in f[k] : \E h \in Pass(order, s[1]) :
          <<none, none>> = <<Remaining(s[1], h), s[2] \cup h>>
    <3>1. <<none, none>> \in f[k] /\ <<none, none>>[1] = none /\ <<none, none>>[2] = none
      OBVIOUS
    <3> QED
      BY <1>2, <2>3, <3>1, Zenon
  <2>5. <<none, none>> \in f[k + 1]
    <3>1. PICK s \in f[k] : \E h \in Pass(order, s[1]) :
            <<none, none>> = <<Remaining(s[1], h), s[2] \cup h>>
      BY <2>4
    <3> DEFINE T == {<<Remaining(s[1], h), s[2] \cup h>> : h \in Pass(order, s[1])}
    <3>2. <<none, none>> \in T
      BY <3>1
    <3>3. T \subseteq f[k + 1]
      BY <2>2
    <3> QED
      BY <3>2, <3>3
  <2> QED
    BY <2>1, <2>5
<1> HIDE DEF X
<1>6. n \in X
  <2>1. 0..n \subseteq X
    BY <1>4, <1>5, InductionUpTo
  <2> QED
    BY <2>1
<1>7. <<none, none>> \in f[n] /\ <<none, none>>[2] = none
  BY <1>6 DEF X
<1> QED
  BY <1>1, <1>7, Zenon DEF Unfolds

-----------------------------------------------------------------------------
(* The allocators with their arbiters.                                     *)

(* What an iteration works on.                                             *)
States == [reqs : SUBSET Pairs, grants : SUBSET Pairs,
           rp : [Resources -> Clients], cp : [Clients -> Resources]]

(* A latched priority is again an index.                                   *)
LEMMA PrioritiesTyped ==
  ASSUME NEW rp \in [Resources -> Clients], NEW cp \in [Clients -> Resources],
         NEW latched \in SUBSET Pairs
  PROVE  /\ AfterResources(rp, latched) \in [Resources -> Clients]
         /\ AfterClients(cp, latched) \in [Clients -> Resources]
<1>1. \A c \in Clients : Latch(c, NumClients) \in Clients
  BY SizeAssumption DEF Latch, Clients
<1>2. \A r \in Resources : Latch(r, NumResources) \in Resources
  BY SizeAssumption DEF Latch, Resources
<1>3. \A x \in latched : x[1] \in Clients /\ x[2] \in Resources
  BY DEF Pairs
<1>4. ASSUME NEW won \in SUBSET latched, won # {}
      PROVE  (CHOOSE x \in won : TRUE) \in latched
  BY <1>4
<1>5. ASSUME NEW won \in SUBSET latched, NEW r \in Resources
      PROVE  (IF kind.arbiter # "lslp" \/ won = {} THEN rp[r]
              ELSE Latch((CHOOSE x \in won : TRUE)[1], NumClients)) \in Clients
  <2>1. CASE kind.arbiter # "lslp" \/ won = {}
    BY <2>1
  <2>2. CASE ~(kind.arbiter # "lslp" \/ won = {})
    <3>1. (CHOOSE x \in won : TRUE)[1] \in Clients
      BY <1>3, <1>4, <2>2
    <3> QED
      BY <1>1, <2>2, <3>1
  <2> QED
    BY <2>1, <2>2
<1>6. ASSUME NEW won \in SUBSET latched, NEW c \in Clients
      PROVE  (IF kind.arbiter # "lslp" \/ won = {} THEN cp[c]
              ELSE Latch((CHOOSE x \in won : TRUE)[2], NumResources)) \in Resources
  <2>1. CASE kind.arbiter # "lslp" \/ won = {}
    BY <2>1
  <2>2. CASE ~(kind.arbiter # "lslp" \/ won = {})
    <3>1. (CHOOSE x \in won : TRUE)[2] \in Resources
      BY <1>3, <1>4, <2>2
    <3> QED
      BY <1>2, <2>2, <3>1
  <2> QED
    BY <2>1, <2>2
<1>7. AfterResources(rp, latched) \in [Resources -> Clients]
  BY <1>5 DEF AfterResources
<1>8. AfterClients(cp, latched) \in [Clients -> Resources]
  BY <1>6 DEF AfterClients
<1> QED
  BY <1>7, <1>8

(* Whatever the priorities and ages are, arbiters pick as Allocation says. *)
LEMMA ArbitersPick ==
  ASSUME NEW reqs, NEW rp, NEW cp
  PROVE  /\ ResourcesPick(reqs, rp) \subseteq PerResource(reqs)
         /\ ClientsPick(reqs, cp) \subseteq PerClient(reqs)
BY DEF ResourcesPick, ClientsPick

(* An iteration of either two-stage allocator is a pass.                   *)
LEMMA IterationIsPass ==
  ASSUME NEW s \in States
  PROVE  /\ \A t \in RcIteration(s) : t \in States /\
              \E g \in Pass("rc", s.reqs) : t.reqs = Remaining(s.reqs, g) /\ t.grants = s.grants \cup g
         /\ \A t \in CrIteration(s) : t \in States /\
              \E g \in Pass("cr", s.reqs) : t.reqs = Remaining(s.reqs, g) /\ t.grants = s.grants \cup g
         /\ \A t \in RAllocate(s) : t \in States /\
              \E g \in RSeparable(s.reqs) : t.grants = s.grants \cup g
<1>1. /\ s.reqs \in SUBSET Pairs /\ s.grants \in SUBSET Pairs
      /\ s.rp \in [Resources -> Clients] /\ s.cp \in [Clients -> Resources]
  BY DEF States
<1>2. ASSUME NEW g \in SUBSET Pairs, NEW rp \in [Resources -> Clients],
             NEW cp \in [Clients -> Resources]
      PROVE  /\ Granted(s, g, rp, cp) \in States
             /\ Granted(s, g, rp, cp).reqs = Remaining(s.reqs, g)
             /\ Granted(s, g, rp, cp).grants = s.grants \cup g
  BY <1>1 DEF Granted, States, Remaining
<1>3. \A i \in PerResource(s.reqs) \cup PerClient(s.reqs) : i \in SUBSET s.reqs
  BY DEF PerResource, PerClient
<1>4. ASSUME NEW t \in RcIteration(s)
      PROVE  t \in States /\ \E g \in Pass("rc", s.reqs) :
               t.reqs = Remaining(s.reqs, g) /\ t.grants = s.grants \cup g
  <2>1. PICK picks \in ResourcesPick(s.reqs, s.rp) : \E g \in ClientsPick(picks, s.cp) :
          t = Granted(s, g, AfterResources(s.rp, IF SlipLatch THEN g ELSE picks),
                            AfterClients(s.cp, g))
    BY DEF RcIteration
  <2>2. PICK g \in ClientsPick(picks, s.cp) :
          t = Granted(s, g, AfterResources(s.rp, IF SlipLatch THEN g ELSE picks),
                            AfterClients(s.cp, g))
    BY <2>1
  <2>3. picks \in PerResource(s.reqs) /\ g \in PerClient(picks)
    BY ArbitersPick
  <2>4. g \in Pass("rc", s.reqs)
    BY <2>3 DEF Pass, RcPass
  <2>5. picks \in SUBSET Pairs /\ g \in SUBSET Pairs
    BY <2>3, <1>1, <1>3 DEF PerClient
  <2>6. /\ AfterResources(s.rp, IF SlipLatch THEN g ELSE picks) \in [Resources -> Clients]
        /\ AfterClients(s.cp, g) \in [Clients -> Resources]
    BY <1>1, <2>5, PrioritiesTyped
  <2> QED
    BY <1>2, <2>2, <2>4, <2>5, <2>6
<1>5. ASSUME NEW t \in CrIteration(s)
      PROVE  t \in States /\ \E g \in Pass("cr", s.reqs) :
               t.reqs = Remaining(s.reqs, g) /\ t.grants = s.grants \cup g
  <2>1. PICK picks \in ClientsPick(s.reqs, s.cp) : \E g \in ResourcesPick(picks, s.rp) :
          t = Granted(s, g, AfterResources(s.rp, g),
                            AfterClients(s.cp, IF SlipLatch THEN g ELSE picks))
    BY DEF CrIteration
  <2>2. PICK g \in ResourcesPick(picks, s.rp) :
          t = Granted(s, g, AfterResources(s.rp, g),
                            AfterClients(s.cp, IF SlipLatch THEN g ELSE picks))
    BY <2>1
  <2>3. picks \in PerClient(s.reqs) /\ g \in PerResource(picks)
    BY ArbitersPick
  <2>4. g \in Pass("cr", s.reqs)
    BY <2>3 DEF Pass, CrPass
  <2>5. picks \in SUBSET Pairs /\ g \in SUBSET Pairs
    BY <2>3, <1>1, <1>3 DEF PerResource
  <2>6. /\ AfterResources(s.rp, g) \in [Resources -> Clients]
        /\ AfterClients(s.cp, IF SlipLatch THEN g ELSE picks) \in [Clients -> Resources]
    BY <1>1, <2>5, PrioritiesTyped
  <2> QED
    BY <1>2, <2>2, <2>4, <2>5, <2>6
<1>6. ASSUME NEW t \in RAllocate(s)
      PROVE  t \in States /\ \E g \in RSeparable(s.reqs) : t.grants = s.grants \cup g
  <2>1. PICK g \in ResourcesPick(s.reqs, s.rp) : t = Granted(s, g, AfterResources(s.rp, g), s.cp)
    BY DEF RAllocate
  <2>2. g \in PerResource(s.reqs)
    BY ArbitersPick
  <2>3. g \in SUBSET Pairs
    BY <1>1, <1>3, <2>2
  <2>4. AfterResources(s.rp, g) \in [Resources -> Clients]
    BY <1>1, <2>3, PrioritiesTyped
  <2>5. t \in States /\ t.grants = s.grants \cup g
    BY <1>1, <1>2, <2>1, <2>3, <2>4
  <2> QED
    BY <2>2, <2>5 DEF RSeparable
<1> QED
  BY <1>4, <1>5, <1>6

(* One iteration, of the allocator in the settings.                        *)
Iterate(s) == IF kind.allocator = "rc_separable" THEN RcIteration(s) ELSE CrIteration(s)
Start(reqs) == [reqs |-> reqs, grants |-> {}, rp |-> resourcePriority, cp |-> clientPriority]

(* The outcomes of allocate() are those of a run of iterations.            *)
LEMMA AllocateUnfolds ==
  ASSUME kind.allocator # "r_separable", NEW reqs \in SUBSET Pairs,
         resourcePriority \in [Resources -> Clients], clientPriority \in [Clients -> Resources]
  PROVE  \E f \in [0..Iterations -> SUBSET States] :
           /\ f[0] = {Start(reqs)}
           /\ \A k \in 1..Iterations : f[k] = UNION {Iterate(s) : s \in f[k - 1]}
           /\ Allocate(reqs) = f[Iterations]
<1> DEFINE Step(F) == UNION {Iterate(s) : s \in F}
           step == [F \in SUBSET States |-> Step(F)]
           Body(f) == [k \in 0..Iterations |-> IF k = 0 THEN {Start(reqs)} ELSE Step(f[k - 1])]
           after == CHOOSE f : f = Body(f)
<1>0. Iterations \in Nat
  BY SizeAssumption
<1>1. step \in [SUBSET States -> SUBSET States]
  <2>1. \A s \in States : Iterate(s) \in SUBSET States
    BY IterationIsPass DEF Iterate
  <2>2. \A F \in SUBSET States : Step(F) \in SUBSET States
    BY <2>1
  <2> QED
    BY <2>2
<1>2. {Start(reqs)} \in SUBSET States
  BY DEF Start, States
<1>3. PICK f \in [0..Iterations -> SUBSET States] :
         f[0] = {Start(reqs)} /\ \A k \in 1..Iterations : f[k] = step[f[k - 1]]
  <2> DEFINE S == SUBSET States
             first == {Start(reqs)}
  <2>1. first \in S /\ step \in [S -> S]
    BY <1>1, <1>2
  <2> HIDE DEF step, S, first
  <2>2. \E f : Steps(f, Iterations, S, first, step)
    BY <1>0, <2>1, RecursionExists
  <2> QED
    BY <2>2 DEF S, first, Steps
<1>4. ASSUME NEW k \in 1..Iterations PROVE f[k] = Step(f[k - 1])
  <2>1. f[k - 1] \in SUBSET States
    <3>1. k - 1 \in 0..Iterations
      BY <1>0
    <3> QED
      BY <1>3, <3>1
  <2>2. step[f[k - 1]] = Step(f[k - 1])
    <3> HIDE DEF Step
    <3> QED
      BY <2>1
  <2> QED
    BY <1>3, <2>2
<1> HIDE DEF step
<1>5. f = Body(f)
  <2>1. \A k \in 0..Iterations : f[k] = IF k = 0 THEN {Start(reqs)} ELSE Step(f[k - 1])
    <3> HIDE DEF Step
    <3> QED
      BY <1>0, <1>3, <1>4
  <2> HIDE DEF Step
  <2> QED
    BY <2>1
<1>6. after = Body(after)
  BY <1>5
<1>7. Allocate(reqs) = after[Iterations]
  BY DEF Allocate, Iterate, Start
<1> HIDE DEF after, Step
<1>8. after = f
  <2>1. after[0] = {Start(reqs)} /\ \A k \in 1..Iterations : after[k] = Step(after[k - 1])
    <3>1. 0 \in 0..Iterations /\ \A k \in 1..Iterations : k \in 0..Iterations /\ k # 0
      BY <1>0
    <3>2. \A k \in 0..Iterations :
            after[k] = IF k = 0 THEN {Start(reqs)} ELSE Step(after[k - 1])
      BY <1>6
    <3> HIDE DEF Body
    <3> QED
      BY <3>1, <3>2
  <2> DEFINE X == {k \in 0..Iterations : after[k] = f[k]}
  <2>2. 0 \in X
    BY <2>1, <1>3, <1>0, 0 \in 0..Iterations
  <2>3. ASSUME NEW k \in X, k \in 0..Iterations /\ k < Iterations PROVE k + 1 \in X
    BY <2>1, <2>3, <1>0, <1>4
  <2> HIDE DEF X
  <2>4. 0..Iterations \subseteq X
    BY <2>2, <2>3, <1>0, InductionUpTo
  <2> QED
    BY <2>4, <1>3, <1>6 DEF X
<1> QED
  BY <1>3, <1>4, <1>7, <1>8 DEF Step

(* allocate() ends with grants that the specification of the same          *)
(* allocator allows for, and with priorities that are indices.             *)
LEMMA AllocateAllowed ==
  ASSUME kind \in Kinds, NEW reqs \in SUBSET Pairs,
         resourcePriority \in [Resources -> Clients], clientPriority \in [Clients -> Resources],
         NEW end \in Allocate(reqs)
  PROVE  /\ end \in States
         /\ end.grants \in CASE kind.allocator = "rc_separable" -> RcSeparable(reqs, Iterations)
                              [] kind.allocator = "cr_separable" -> CrSeparable(reqs, Iterations)
                              [] kind.allocator = "r_separable" -> RSeparable(reqs)
<1>0. kind.allocator \in {"rc_separable", "cr_separable", "r_separable"} /\ Iterations \in Nat
  BY KindAssumption, SizeAssumption
<1>1. CASE kind.allocator = "r_separable"
  <2>1. Start(reqs) \in States /\ Start(reqs).reqs = reqs /\ Start(reqs).grants = {}
    BY DEF Start, States
  <2>2. end \in RAllocate(Start(reqs))
    BY <1>1 DEF Allocate, Start
  <2> HIDE DEF Start
  <2>3. end \in States /\ \E g \in RSeparable(reqs) : end.grants = {} \cup g
    <3>1. PICK s : s = Start(reqs)
      OBVIOUS
    <3>2. s \in States /\ end \in RAllocate(s) /\ s.reqs = reqs /\ s.grants = {}
      BY <2>1, <2>2, <3>1
    <3>3. end \in States /\ \E g \in RSeparable(s.reqs) : end.grants = s.grants \cup g
      BY <3>2, IterationIsPass
    <3> QED
      BY <3>2, <3>3
  <2> QED
    BY <1>1, <2>3
<1>2. CASE kind.allocator # "r_separable"
  <2> DEFINE order == IF kind.allocator = "rc_separable" THEN "rc" ELSE "cr"
  <2>1. PICK f \in [0..Iterations -> SUBSET States] :
           /\ f[0] = {Start(reqs)}
           /\ \A k \in 1..Iterations : f[k] = UNION {Iterate(s) : s \in f[k - 1]}
           /\ Allocate(reqs) = f[Iterations]
    BY <1>2, AllocateUnfolds
  <2>2. PICK a : Unfolds(order, reqs, Iterations, a)
    BY <1>0, IterationsUnfold
  <2>3. ASSUME NEW s \in States, NEW t \in Iterate(s)
        PROVE  \E g \in Pass(order, s.reqs) :
                 t.reqs = Remaining(s.reqs, g) /\ t.grants = s.grants \cup g
    BY IterationIsPass DEF Iterate
  <2> HIDE DEF order
  <2> DEFINE X == {k \in 0..Iterations : \A s \in f[k] : <<s.reqs, s.grants>> \in a[k]}
  <2>4. 0 \in X
    <3>1. Start(reqs).reqs = reqs /\ Start(reqs).grants = {}
      BY DEF Start
    <3>2. a[0] = {<<reqs, {}>>} /\ 0 \in 0..Iterations
      BY <1>0, <2>2 DEF Unfolds
    <3> QED
      BY <2>1, <3>1, <3>2
  <2>5. ASSUME NEW k \in X, k \in 0..Iterations /\ k < Iterations PROVE k + 1 \in X
    <3>1. k + 1 \in 1..Iterations /\ k + 1 \in 0..Iterations /\ (k + 1) - 1 = k
      BY <1>0, <2>5
    <3>2. f[k + 1] = UNION {Iterate(s) : s \in f[k]} /\ f[k] \in SUBSET States
      BY <2>1, <2>5, <3>1
    <3>3. a[k + 1] = UNION {{<<Remaining(s[1], g), s[2] \cup g>> : g \in Pass(order, s[1])} :
                              s \in a[k]}
      BY <2>2, <3>1 DEF Unfolds
    <3>4. ASSUME NEW t \in f[k + 1] PROVE <<t.reqs, t.grants>> \in a[k + 1]
      <4>1. PICK s \in f[k] : t \in Iterate(s)
        BY <3>2
      <4>2. <<s.reqs, s.grants>> \in a[k]
        OBVIOUS
      <4>3. PICK g \in Pass(order, s.reqs) :
              t.reqs = Remaining(s.reqs, g) /\ t.grants = s.grants \cup g
        BY <2>3, <3>2, <4>1
      <4>p. PICK p : p = <<s.reqs, s.grants>>
        OBVIOUS
      <4> DEFINE T == {<<Remaining(p[1], h), p[2] \cup h>> : h \in Pass(order, p[1])}
      <4>4. <<t.reqs, t.grants>> \in T
        BY <4>3, <4>p
      <4>5. T \subseteq a[k + 1]
        <5>1. p \in a[k]
          BY <4>2, <4>p
        <5>2. \A q \in a[k] :
                {<<Remaining(q[1], h), q[2] \cup h>> : h \in Pass(order, q[1])} \subseteq a[k + 1]
          BY <3>3
        <5> QED
          BY <5>1, <5>2
      <4> QED
        BY <4>4, <4>5
    <3> QED
      BY <3>1, <3>4
  <2> HIDE DEF X
  <2>6. Iterations \in X
    <3>1. 0..Iterations \subseteq X
      BY <1>0, <2>4, <2>5, InductionUpTo
    <3> QED
      BY <1>0, <3>1
  <2>7. end \in f[Iterations] /\ Iterations \in 0..Iterations
    BY <1>0, <2>1
  <2>8. end \in States
    BY <2>1, <2>7
  <2>9. end.grants \in Iterated(order, reqs, Iterations)
    <3>1. <<end.reqs, end.grants>> \in a[Iterations]
      BY <2>6, <2>7 DEF X
    <3>2. <<end.reqs, end.grants>>[2] = end.grants
      OBVIOUS
    <3> QED
      BY <2>2, <3>1, <3>2, Zenon DEF Unfolds
  <2> QED
    BY <1>0, <1>2, <2>8, <2>9 DEF order, RcSeparable, CrSeparable
<1> QED
  BY <1>1, <1>2

-----------------------------------------------------------------------------
(* All that the outcome of a call depends on.                              *)
IInv == /\ kind \in Kinds
        /\ resourcePriority \in [Resources -> Clients]
        /\ clientPriority \in [Clients -> Resources]
        /\ asked \subseteq Pairs /\ granted \subseteq Pairs
        /\ OutcomeAllowed

(* The outcome of no call is allowed.                                      *)
LEMMA InitIInv == Init => IInv
<1> SUFFICES ASSUME Init PROVE IInv
  OBVIOUS
<1>0. kind.allocator \in {"rc_separable", "cr_separable", "r_separable"} /\ Iterations \in Nat
  BY KindAssumption, SizeAssumption DEF Init
<1>1. 0 \in Clients /\ 0 \in Resources
  BY SizeAssumption DEF Clients, Resources
<1>2. {} \in RSeparable({})
  BY DEF RSeparable, PerResource
<1>3. asked = {} => asked \in Iterated("rc", asked, Iterations) /\ asked \in Iterated("cr", asked, Iterations)
  BY <1>0, NothingForNothing
<1>4. OutcomeAllowed
  BY <1>0, <1>2, <1>3 DEF Init, OutcomeAllowed, RcSeparable, CrSeparable
<1> QED
  BY <1>1, <1>4 DEF Init, IInv

(* The outcome of every call is allowed.                                   *)
LEMMA NextKeeps == IInv /\ [Next]_vars => IInv'
<1> SUFFICES ASSUME IInv, [Next]_vars PROVE IInv'
  OBVIOUS
<1>1. CASE Next
  <2>1. PICK reqs \in SUBSET Pairs : Schedule(reqs)
    BY <1>1 DEF Next
  <2>2. PICK end \in Allocate(reqs) :
          /\ asked' = reqs /\ granted' = end.grants /\ kind' = kind
          /\ resourcePriority' = end.rp /\ clientPriority' = end.cp
    BY <2>1 DEF Schedule
  <2>3. /\ end \in States
        /\ end.grants \in CASE kind.allocator = "rc_separable" -> RcSeparable(reqs, Iterations)
                             [] kind.allocator = "cr_separable" -> CrSeparable(reqs, Iterations)
                             [] kind.allocator = "r_separable" -> RSeparable(reqs)
    BY AllocateAllowed DEF IInv
  <2>4. OutcomeAllowed'
    BY <2>2, <2>3 DEF OutcomeAllowed
  <2> QED
    BY <2>2, <2>3, <2>4 DEF IInv, States
<1>2. CASE UNCHANGED vars
  BY <1>2 DEF IInv, vars, OutcomeAllowed
<1> QED
  BY <1>1, <1>2

(* OutcomeAllowed: whatever the sizes, the number of iterations, the kind  *)
(* of arbiters, their priorities and latching, and the ages of packets, a  *)
(* call of allocate() returns one of the outcomes that the schedulers are  *)
(* checked, and by IterationsMatch and RSeparableGrants proved, with.      *)
THEOREM OutcomesAllowed == Spec => []OutcomeAllowed
<1>1. IInv => OutcomeAllowed
  BY DEF IInv
<1> QED
  BY <1>1, InitIInv, NextKeeps, PTL DEF Spec
=============================================================================
