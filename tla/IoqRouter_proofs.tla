------------------------- MODULE IoqRouter_proofs -------------------------
(***************************************************************************)
(* The input-output-queued router for every number of queues and VCs,      *)
(* every buffer depth, latency and traffic and every allocator its three   *)
(* schedulers may have.  Up to the output queues it is the router of       *)
(* IqRouter_proofs, whose invariants are kept by every step of the larger  *)
(* one; behind them no slot is counted twice, no queue is left asleep, and *)
(* what leaves on a VC is what the main crossbar delivered for it.         *)
(***************************************************************************)
EXTENDS IoqRouter, BoundedInduction, FiniteSetTheorems, TLAPS

-----------------------------------------------------------------------------
(* The state of the output side.                                           *)
Entry == [flit : Main!Flits, vc : Vcs]
OutMap == [wait : Int, flits : SUBSET Entry]
QueueType == [buffer : Seq(Main!Flits), fsm : {"empty", "toRequest", "waiting", "ready"},
              flit : Main!Flits \cup {None}]

OutTypes ==
  /\ oq \in [Vcs -> QueueType] /\ oPipeEvent \in [Vcs -> {"none", "now", "next"}]
  /\ oRequest \in [Vcs -> OS!Requests \cup {None}]
  /\ oCredits \in [Vcs -> Int] /\ oIncrCredits \in [Vcs -> Nat]
  /\ sent \in [Vcs -> Seq(Main!Flits)] /\ away \in [Vcs -> Nat]

(* A queue with an empty stage holds no flit in it; it waits exactly while *)
(* its request is with the scheduler, whose event is then set; otherwise   *)
(* it has nothing to do or its pipeline runs.                              *)
Staged(q) == q.fsm = "empty" <=> q.flit = None
Minded(q, pipe, asked, event) ==
  /\ q.fsm = "waiting" <=> asked
  /\ asked => event = "RUNALLOC"
  /\ pipe = "none" => q.fsm = "waiting" \/ (q.fsm = "empty" /\ q.buffer = <<>>)
QueuesMinded == \A v \in Vcs : /\ Staged(oq[v])
                               /\ Minded(oq[v], oPipeEvent[v], oRequest[v] # None, oEventAction)

(* No map is open between two cycles; a map has one flit of a VC at most,  *)
(* and the open one none of a VC whose queue is about to send.             *)
OnePerVc(m) == \A x, y \in m.flits : x.vc = y.vc => x = y
OutOpened(s) == s # <<>> /\ s[1].wait = OutXbarLatency
OutCrossbarInv ==
  /\ oXbar \in Seq(OutMap)
  /\ \A i \in DOMAIN oXbar : OnePerVc(oXbar[i]) /\ oXbar[i].wait <= OutXbarLatency
  /\ epsilon < 2 => ~OutOpened(oXbar)
  /\ \A v \in Vcs : oq[v].fsm = "ready" /\ OutOpened(oXbar) => \A x \in oXbar[1].flits : x.vc # v

(* The slots of an output queue that are taken are the flits downstream of *)
(* the main crossbar.                                                      *)
SlotsTaken == \A v \in Vcs : down[v] = Len(oq[v].buffer)

OutCredits ==
  \A v \in Vcs : oCredits[v] + oIncrCredits[v] + InOutCrossbar(v) + away[v] = Depth

(* What the main crossbar delivered for a VC is what left the router, what *)
(* is in the output crossbar and what is in the queue.                     *)
InLine == \A v \in Vcs : delivered[v] = sent[v] \o InFlight(v) \o OQ!Contents(oq[v])

MainInv == Main!RouterInv /\ Main!OrderInv
OutInv == OutTypes /\ QueuesMinded /\ OutCrossbarInv /\ SlotsTaken /\ OutCredits /\ InLine
IoqInv == MainInv /\ OutInv

-----------------------------------------------------------------------------
(* The output crossbar.                                                    *)
OutWith(s, v) == {i \in DOMAIN s : \E x \in s[i].flits : x.vc = v}

(* The maps that have a flit for a VC can be counted.                      *)
LEMMA OutCounted ==
  ASSUME NEW s \in Seq(OutMap), NEW v
  PROVE  /\ Len(s) \in Nat /\ DOMAIN s = 1..Len(s) /\ OutWith(s, v) \in SUBSET (1..Len(s))
         /\ IsFiniteSet(OutWith(s, v)) /\ Cardinality(OutWith(s, v)) \in Nat
<1>1. Len(s) \in Nat /\ DOMAIN s = 1..Len(s)
  OBVIOUS
<1>2. OutWith(s, v) \in SUBSET (1..Len(s))
  BY <1>1 DEF OutWith
<1>3. IsFiniteSet(1..Len(s))
  BY <1>1, FS_Interval
<1>4. IsFiniteSet(OutWith(s, v))
  BY <1>2, <1>3, FS_Subset
<1> QED
  BY <1>1, <1>2, <1>4, FS_CardinalityType

(* inject() of the output crossbar.                                        *)
OutInjected(s, x, t) ==
  t = IF s # <<>> /\ Head(s).wait = OutXbarLatency
      THEN [s EXCEPT ![1].flits = @ \cup {x}]
      ELSE <<[wait |-> OutXbarLatency, flits |-> {x}]>> \o s

(* A map of its own for the flit, before the other maps.                   *)
NewMap(s, x, t) ==
  \E m \in OutMap : m.wait = OutXbarLatency /\ m.flits = {x} /\ t = <<m>> \o s

(* The newest map after an injection, and the older ones.                  *)
LEMMA InjectMaps ==
  ASSUME NEW s \in Seq(OutMap), NEW x \in Entry, NEW t, OutInjected(s, x, t)
  PROVE  /\ t \in Seq(OutMap) /\ t # <<>>
         /\ OutOpened(s) =>
              /\ Len(t) = Len(s) /\ t[1].wait = OutXbarLatency /\ t[1].flits = s[1].flits \cup {x}
              /\ \A i \in 1..Len(s) : i # 1 => t[i] = s[i]
         /\ ~OutOpened(s) => NewMap(s, x, t)
<1>1. PICK U : U = OutMap
  OBVIOUS
<1>2. s \in Seq(U)
  BY <1>1
<1>3. s # <<>> => Head(s) = s[1] /\ s[1] \in U
  BY <1>2
<1>4. OutXbarLatency \in Int
  BY OutputSettings
<1>5. CASE OutOpened(s)
  <2>1. s # <<>> /\ s[1] \in OutMap /\ s[1].wait = OutXbarLatency
    BY <1>1, <1>3, <1>5 DEF OutOpened
  <2>2. PICK m : m = [s[1] EXCEPT !.flits = @ \cup {x}]
    OBVIOUS
  <2>3. t = [s EXCEPT ![1] = m]
    BY <1>3, <2>1, <2>2 DEF OutInjected
  <2>4. m = [wait |-> OutXbarLatency, flits |-> s[1].flits \cup {x}]
    BY <2>1, <2>2 DEF OutMap
  <2>5. m \in U /\ m.wait = OutXbarLatency /\ m.flits = s[1].flits \cup {x}
    BY <1>1, <1>4, <2>1, <2>4 DEF OutMap
  <2>6. /\ t \in Seq(U) /\ Len(t) = Len(s) /\ t # <<>> /\ t[1] = m
        /\ \A i \in 1..Len(s) : i # 1 => t[i] = s[i]
    BY <1>2, <2>1, <2>3, <2>5, FirstReplaced
  <2> QED
    BY <1>1, <1>5, <2>5, <2>6
<1>6. CASE ~OutOpened(s)
  <2>1. PICK m : m = [wait |-> OutXbarLatency, flits |-> {x}]
    OBVIOUS
  <2>2. m \in OutMap /\ m.wait = OutXbarLatency /\ m.flits = {x}
    BY <1>4, <2>1 DEF OutMap
  <2>3. t = <<m>> \o s
    BY <1>3, <1>6, <2>1 DEF OutInjected, OutOpened
  <2>4. t \in Seq(U) /\ t # <<>>
    BY <1>1, <1>2, <2>2, <2>3, PutInFront
  <2> QED
    BY <1>1, <1>6, <2>2, <2>3, <2>4 DEF NewMap
<1> QED
  BY <1>5, <1>6

(* A flit that is injected is one more on its VC and on no other, and all  *)
(* maps stay as they should be.                                            *)
LEMMA OutInjectCounts ==
  ASSUME NEW s \in Seq(OutMap), NEW x \in Entry, NEW t, OutInjected(s, x, t),
         OutOpened(s) => \A y \in s[1].flits : y.vc # x.vc
  PROVE  /\ \A v \in Vcs : Cardinality(OutWith(t, v)) =
                             IF v = x.vc THEN Cardinality(OutWith(s, v)) + 1
                             ELSE Cardinality(OutWith(s, v))
         /\ (\A i \in DOMAIN s : OnePerVc(s[i])) => \A i \in DOMAIN t : OnePerVc(t[i])
         /\ (\A i \in DOMAIN s : s[i].wait <= OutXbarLatency)
              => \A i \in DOMAIN t : t[i].wait <= OutXbarLatency
         /\ \A w \in Vcs \ {x.vc} : (OutOpened(s) => \A y \in s[1].flits : y.vc # w)
                                      => \A y \in t[1].flits : y.vc # w
<1>0. PICK n \in Nat : n = Len(s) /\ DOMAIN s = 1..n
  OBVIOUS
<1>1. OutXbarLatency \in Nat
  BY OutputSettings
<1>2. CASE OutOpened(s)
  <2>1. /\ Len(t) = n /\ t[1].wait = OutXbarLatency /\ t[1].flits = s[1].flits \cup {x}
        /\ \A i \in 1..n : i # 1 => t[i] = s[i]
        /\ t \in Seq(OutMap)
    BY <1>0, <1>2, InjectMaps
  <2>2. DOMAIN t = 1..n /\ 1 \in 1..n /\ \A y \in s[1].flits : y.vc # x.vc
    BY <1>0, <1>2, <2>1 DEF OutOpened
  <2>3. ASSUME NEW v \in Vcs
        PROVE Cardinality(OutWith(t, v)) = IF v = x.vc THEN Cardinality(OutWith(s, v)) + 1
                                           ELSE Cardinality(OutWith(s, v))
    <3>1. CASE v = x.vc
      <4>1. OutWith(t, v) = OutWith(s, v) \cup {1} /\ 1 \notin OutWith(s, v)
        BY <1>0, <2>1, <2>2, <3>1 DEF OutWith
      <4> QED
        BY <3>1, <4>1, OutCounted, FS_AddElement
    <3>2. CASE v # x.vc
      <4>1. \A i \in 1..n : (\E y \in t[i].flits : y.vc = v) <=> (\E y \in s[i].flits : y.vc = v)
        BY <2>1, <2>2, <3>2
      <4>2. OutWith(t, v) = OutWith(s, v)
        BY <1>0, <2>2, <4>1 DEF OutWith
      <4> QED
        BY <3>2, <4>2
    <3> QED
      BY <3>1, <3>2
  <2>4. OnePerVc(s[1]) => OnePerVc(t[1])
    BY <2>1, <2>2 DEF OnePerVc
  <2>5. (\A i \in DOMAIN s : OnePerVc(s[i])) => \A i \in DOMAIN t : OnePerVc(t[i])
    BY <1>0, <2>1, <2>2, <2>4
  <2>6. (\A i \in DOMAIN s : s[i].wait <= OutXbarLatency)
          => \A i \in DOMAIN t : t[i].wait <= OutXbarLatency
    BY <1>0, <1>1, <2>1, <2>2
  <2>7. \A w \in Vcs \ {x.vc} : (OutOpened(s) => \A y \in s[1].flits : y.vc # w)
                                  => \A y \in t[1].flits : y.vc # w
    BY <1>2, <2>1
  <2> QED
    BY <2>3, <2>5, <2>6, <2>7
<1>3. CASE ~OutOpened(s)
  <2>0. NewMap(s, x, t)
    BY <1>3, InjectMaps
  <2>1. PICK m \in OutMap : /\ m.wait = OutXbarLatency /\ m.flits = {x} /\ t = <<m>> \o s
    BY <2>0 DEF NewMap
  <2>2. /\ t \in Seq(OutMap) /\ DOMAIN t = 1..(n + 1) /\ t[1] = m
        /\ \A i \in 1..n : t[i + 1] = s[i]
        /\ \A j \in 1..(n + 1) : j # 1 => \E i \in 1..n : j = i + 1
    <3>1. PICK U : U = OutMap
      OBVIOUS
    <3> QED
      BY <1>0, <2>1, <3>1, PutInFront
  <2>3. \A j \in 1..(n + 1) : j = 1 \/ \E i \in 1..n : j = i + 1 /\ t[j] = s[i]
    BY <2>2
  <2>4. ASSUME NEW v \in Vcs
        PROVE Cardinality(OutWith(t, v)) = IF v = x.vc THEN Cardinality(OutWith(s, v)) + 1
                                           ELSE Cardinality(OutWith(s, v))
    <3>1. PICK T : T = {i + 1 : i \in OutWith(s, v)}
      OBVIOUS
    <3>2. OutWith(s, v) \in SUBSET (1..n)
      BY <1>0, OutCounted
    <3>3. Cardinality(T) = Cardinality(OutWith(s, v)) /\ Cardinality(T \cup {1}) = Cardinality(OutWith(s, v)) + 1
      BY <1>0, <3>1, <3>2, ShiftedSet
    <3>4. \A i \in 1..n : i + 1 \in OutWith(t, v) <=> i \in OutWith(s, v)
      <4>1. \A i \in 1..n : i + 1 \in DOMAIN t
        BY <1>0, <2>2
      <4> QED
        BY <1>0, <2>2, <4>1 DEF OutWith
    <3>5. 1 \in OutWith(t, v) <=> v = x.vc
      BY <1>0, <2>1, <2>2 DEF OutWith
    <3>6. OutWith(t, v) \subseteq 1..(n + 1)
      BY <2>2 DEF OutWith
    <3>7. \A j \in 1..(n + 1) : j # 1 => (j \in OutWith(t, v) <=> j \in T)
      <4> SUFFICES ASSUME NEW j \in 1..(n + 1), j # 1 PROVE j \in OutWith(t, v) <=> j \in T
        OBVIOUS
      <4>1. PICK i \in 1..n : j = i + 1
        BY <2>3
      <4>2. i + 1 \in T <=> i \in OutWith(s, v)
        BY <1>0, <3>1, <3>2
      <4> QED
        BY <3>4, <4>1, <4>2
    <3>8. T \subseteq 1..(n + 1) /\ 1 \notin T /\ 1 \in 1..(n + 1)
      BY <1>0, <3>1, <3>2
    <3>9. CASE v = x.vc
      <4>1. OutWith(t, v) = T \cup {1}
        BY <3>5, <3>6, <3>7, <3>8, <3>9
      <4> QED
        BY <3>3, <3>9, <4>1
    <3>10. CASE v # x.vc
      <4>1. OutWith(t, v) \subseteq T
        BY <3>5, <3>6, <3>7, <3>10
      <4>2. T \subseteq OutWith(t, v)
        BY <3>7, <3>8
      <4>3. OutWith(t, v) = T
        BY <4>1, <4>2
      <4> QED
        BY <3>3, <3>10, <4>3
    <3> QED
      BY <3>9, <3>10
  <2>5. OnePerVc(m) /\ m.wait <= OutXbarLatency
    BY <1>1, <2>1 DEF OnePerVc
  <2>6. \A j \in 1..(n + 1) : t[j] = m \/ \E i \in 1..n : t[j] = s[i]
    BY <2>2, <2>3
  <2>7. (\A i \in DOMAIN s : OnePerVc(s[i])) => \A i \in DOMAIN t : OnePerVc(t[i])
    BY <1>0, <2>2, <2>5, <2>6
  <2>8. (\A i \in DOMAIN s : s[i].wait <= OutXbarLatency)
          => \A i \in DOMAIN t : t[i].wait <= OutXbarLatency
    BY <1>0, <2>2, <2>5, <2>6
  <2>9. \A w \in Vcs \ {x.vc} : \A y \in t[1].flits : y.vc # w
    BY <2>1, <2>2
  <2> QED
    BY <2>4, <2>7, <2>8, <2>9
<1> QED
  BY <1>2, <1>3

(* What the oldest map has for a VC is no longer in the crossbar when it   *)
(* has been delivered.                                                     *)
OutFlits(m, v) == {x.flit : x \in {y \in m.flits : y.vc = v}}

(* A delivery takes what it delivers out of the count.                     *)
LEMMA OutDeliveryCounts ==
  ASSUME NEW s \in Seq(OutMap), s # <<>>, NEW t, t = SubSeq(s, 1, Len(s) - 1), NEW v \in Vcs,
         OnePerVc(s[Len(s)])
  PROVE  /\ Cardinality(OutFlits(s[Len(s)], v)) \in Nat
         /\ Cardinality(OutWith(t, v)) + Cardinality(OutFlits(s[Len(s)], v)) = Cardinality(OutWith(s, v))
<1>1. PICK n, m, F : n = Len(s) /\ m = s[n] /\ F = OutFlits(m, v)
  OBVIOUS
<1>2. PICK U : U = OutMap
  OBVIOUS
<1>3. /\ t \in Seq(U) /\ n \in Nat \ {0} /\ DOMAIN t = 1..(n - 1)
      /\ \A i \in 1..(n - 1) : t[i] = s[i]
  BY <1>1, <1>2, LastDropped
<1>4. DOMAIN s = 1..n /\ n \in 1..n /\ (1..(n - 1)) \cup {n} = 1..n /\ n \notin 1..(n - 1)
  BY <1>1, <1>3
<1>5. OutWith(t, v) = OutWith(s, v) \ {n} /\ (n \in OutWith(s, v) <=> \E x \in m.flits : x.vc = v)
  <2>1. \A i \in 1..(n - 1) : i \in OutWith(t, v) <=> i \in OutWith(s, v)
    BY <1>3, <1>4 DEF OutWith
  <2>2. OutWith(t, v) \subseteq 1..(n - 1) /\ OutWith(s, v) \subseteq 1..n
    BY <1>3, <1>4 DEF OutWith
  <2>3. n \in OutWith(s, v) <=> \E x \in m.flits : x.vc = v
    BY <1>1, <1>4 DEF OutWith
  <2> QED
    BY <1>4, <2>1, <2>2, <2>3
<1>6. CASE \E x \in m.flits : x.vc = v
  <2>1. PICK x \in m.flits : x.vc = v
    BY <1>6
  <2>2. F = {x.flit}
    BY <1>1, <2>1 DEF OutFlits, OnePerVc
  <2>3. Cardinality(F) = 1
    BY <2>2, FS_Singleton
  <2>4. Cardinality(OutWith(t, v)) = Cardinality(OutWith(s, v)) - 1
    BY <1>5, <1>6, OutCounted, FS_RemoveElement
  <2>5. Cardinality(OutWith(s, v)) \in Nat
    BY OutCounted
  <2> QED
    BY <1>1, <2>3, <2>4, <2>5
<1>7. CASE ~\E x \in m.flits : x.vc = v
  <2>1. F = {}
    BY <1>1, <1>7 DEF OutFlits
  <2>2. Cardinality(F) = 0
    BY <2>1, FS_EmptySet
  <2>3. OutWith(t, v) = OutWith(s, v)
    BY <1>5, <1>7
  <2>4. Cardinality(OutWith(s, v)) \in Nat
    BY OutCounted
  <2> QED
    BY <1>1, <2>2, <2>3, <2>4
<1> QED
  BY <1>6, <1>7

(* What each map has for a VC, at most one flit; in line they are what is  *)
(* in flight.                                                              *)
OutItem(m, v) == IF OutFlits(m, v) = {} THEN <<>> ELSE <<CHOOSE f \in OutFlits(m, v) : TRUE>>
OutItems(s, v) == [i \in 1..Len(s) |-> OutItem(s[i], v)]
OutLine(s, v) == Joined(OutItems(s, v))

(* Such a sequence has one flit at most.                                   *)
LEMMA OutItemType ==
  ASSUME NEW m \in OutMap, NEW v \in Vcs
  PROVE  OutFlits(m, v) \subseteq Main!Flits /\ OutItem(m, v) \in Seq(Main!Flits)
<1>1. OutFlits(m, v) \subseteq Main!Flits
  BY DEF OutFlits, OutMap, Entry
<1>2. CASE OutFlits(m, v) = {}
  BY <1>1, <1>2 DEF OutItem
<1>3. CASE OutFlits(m, v) # {}
  <2>1. PICK f : f = CHOOSE h \in OutFlits(m, v) : TRUE
    OBVIOUS
  <2>2. f \in Main!Flits
    BY <1>1, <1>3, <2>1
  <2> QED
    BY <1>1, <1>3, <2>1, <2>2 DEF OutItem
<1> QED
  BY <1>2, <1>3

(* There is one for each map.                                              *)
LEMMA OutItemsType ==
  ASSUME NEW s \in Seq(OutMap), NEW v \in Vcs
  PROVE  OutItems(s, v) \in Seq(Seq(Main!Flits)) /\ Len(OutItems(s, v)) = Len(s)
<1>1. PICK n \in Nat : n = Len(s)
  OBVIOUS
<1>2. \A i \in 1..n : s[i] \in OutMap
  BY <1>1
<1>3. \A i \in 1..n : OutItem(s[i], v) \in Seq(Main!Flits)
  BY <1>2, OutItemType
<1>4. PICK Q : Q = Seq(Main!Flits)
  OBVIOUS
<1>5. OutItems(s, v) \in [1..n -> Q]
  BY <1>1, <1>3, <1>4 DEF OutItems
<1>6. OutItems(s, v) \in Seq(Q) /\ Len(OutItems(s, v)) = n
  BY <1>5
<1> QED
  BY <1>1, <1>4, <1>6

(* The line is a sequence of flits.                                        *)
LEMMA OutLineType ==
  ASSUME NEW s \in Seq(OutMap), NEW v \in Vcs
  PROVE  OutLine(s, v) \in Seq(Main!Flits) /\ (s = <<>> => OutLine(s, v) = <<>>)
<1>1. PICK A : A = OutItems(s, v)
  OBVIOUS
<1>2. A \in Seq(Seq(Main!Flits)) /\ Len(A) = Len(s)
  BY <1>1, OutItemsType
<1>3. s = <<>> => A = <<>>
  BY <1>2
<1>4. Joined(A) \in Seq(Main!Flits) /\ (A = <<>> => Joined(A) = <<>>)
  BY <1>2, JoinedType
<1> QED
  BY <1>1, <1>3, <1>4 DEF OutLine

(* InFlight is that line.                                                  *)
LEMMA InFlightIs == \A v \in Vcs : oXbar \in Seq(OutMap) => InFlight(v) = OutLine(oXbar, v)
<1> SUFFICES ASSUME NEW v \in Vcs, oXbar \in Seq(OutMap) PROVE InFlight(v) = OutLine(oXbar, v)
  OBVIOUS
<1> DEFINE n == Len(oXbar)
           A == OutItems(oXbar, v)
           F(f) == [i \in 0..n |-> IF i = 0 THEN <<>> ELSE OutItem(oXbar[i], v) \o f[i - 1]]
           G(f) == [i \in 0..Len(A) |-> IF i = 0 THEN <<>> ELSE A[i] \o f[i - 1]]
<1>1. n \in Nat /\ Len(A) = n /\ \A i \in 0..n : i # 0 => A[i] = OutItem(oXbar[i], v)
  <2>1. n \in Nat /\ Len(A) = n
    BY OutItemsType
  <2>2. \A i \in 0..n : i # 0 => i \in 1..n
    BY <2>1
  <2> QED
    BY <2>1, <2>2 DEF OutItems
<1>2. \A f : F(f) = G(f)
  <2> HIDE DEF A, n
  <2> QED
    BY <1>1
<1>3. (CHOOSE f : f = F(f)) = (CHOOSE f : f = G(f))
  <2> HIDE DEF F, G
  <2> QED
    BY <1>2
<1>4. InFlight(v) = (CHOOSE f : f = F(f))[n]
  BY DEF InFlight, OutItem, OutFlits
<1>5. OutLine(oXbar, v) = (CHOOSE f : f = G(f))[n]
  <2>1. OutLine(oXbar, v) = (CHOOSE f : f = G(f))[Len(A)]
    BY DEF OutLine, Joined, JoinedUpTo
  <2> HIDE DEF A, G, n
  <2> QED
    BY <1>1, <2>1
<1> HIDE DEF F, G, n
<1> QED
  BY <1>3, <1>4, <1>5

(* And it will be after a step.                                            *)
LEMMA InFlightNext ==
  \A v \in Vcs : oXbar' \in Seq(OutMap) => InFlight(v)' = OutLine(oXbar', v)
<1>1. (\A v \in Vcs : oXbar \in Seq(OutMap) => InFlight(v) = OutLine(oXbar, v))'
  BY InFlightIs, PTL
<1> QED
  BY <1>1

(* A flit is put into the output crossbar's newest map.                    *)
OutInjects(s, x, t) ==
  /\ s \in Seq(OutMap) /\ x \in Entry /\ OutInjected(s, x, t)
  /\ OutOpened(s) => \A y \in s[1].flits : y.vc # x.vc
LineGrows(s, t, v, a) == OutLine(t, v) = OutLine(s, v) \o a

(* The flit is the last in its VC's line, and no other line changes.       *)
LEMMA OutInjectAppends ==
  ASSUME NEW s, NEW x, NEW t, OutInjects(s, x, t), NEW v \in Vcs,
         NEW a, a = IF v = x.vc THEN <<x.flit>> ELSE <<>>
  PROVE  LineGrows(s, t, v, a)
<1>0. /\ s \in Seq(OutMap) /\ x \in Entry /\ OutInjected(s, x, t)
      /\ OutOpened(s) => \A y \in s[1].flits : y.vc # x.vc
  BY DEF OutInjects
<1>1. x.vc \in Vcs /\ x.flit \in Main!Flits
  BY <1>0 DEF Entry
<1>2. PICK n \in Nat : n = Len(s)
  BY <1>0
<1>3. a = IF v = x.vc THEN <<x.flit>> ELSE <<>>
  OBVIOUS
<1>4. a \in Seq(Main!Flits)
  BY <1>1, <1>3
<1>5. t \in Seq(OutMap)
  BY <1>0, InjectMaps
<1>6. PICK A, B : A = OutItems(s, v) /\ B = OutItems(t, v)
  OBVIOUS
<1>7. A \in Seq(Seq(Main!Flits)) /\ B \in Seq(Seq(Main!Flits)) /\ Len(A) = n /\ Len(B) = Len(t)
  BY <1>0, <1>2, <1>5, <1>6, OutItemsType
<1>8. ASSUME NEW m, m.flits = {x} PROVE OutItem(m, v) = a
  <2>1. CASE v = x.vc
    <3>1. OutFlits(m, v) = {x.flit}
      BY <1>8, <2>1 DEF OutFlits
    <3>2. (CHOOSE f \in {x.flit} : TRUE) = x.flit
      OBVIOUS
    <3> QED
      BY <1>3, <2>1, <3>1, <3>2 DEF OutItem
  <2>2. CASE v # x.vc
    <3>1. OutFlits(m, v) = {}
      BY <1>8, <2>2 DEF OutFlits
    <3> QED
      BY <1>3, <2>2, <3>1 DEF OutItem
  <2> QED
    BY <2>1, <2>2
<1>9. CASE OutOpened(s)
  <2>1. /\ Len(t) = n /\ t[1].flits = s[1].flits \cup {x}
        /\ \A i \in 1..n : i # 1 => t[i] = s[i]
    BY <1>0, <1>2, <1>9, InjectMaps
  <2>2. 1 \in 1..n /\ \A y \in s[1].flits : y.vc # x.vc
    BY <1>0, <1>2, <1>9 DEF OutOpened
  <2>3. A[1] = OutItem(s[1], v) /\ B[1] = OutItem(t[1], v) /\ \A i \in 1..n : i # 1 => A[i] = B[i]
    BY <1>2, <1>6, <2>1, <2>2 DEF OutItems
  <2>4. CASE v = x.vc
    <3>1. OutFlits(s[1], v) = {}
      BY <2>2, <2>4 DEF OutFlits
    <3>2. A[1] = <<>>
      BY <2>3, <3>1 DEF OutItem
    <3>3. OutFlits(t[1], v) = {x.flit}
      BY <2>1, <2>2, <2>4 DEF OutFlits
    <3>4. (CHOOSE f \in {x.flit} : TRUE) = x.flit
      OBVIOUS
    <3>5. B[1] = a
      BY <1>3, <2>3, <2>4, <3>3, <3>4 DEF OutItem
    <3>6. A # <<>>
      BY <1>7, <2>2
    <3>7. Len(B) = Len(A) /\ \A i \in 1..Len(A) : i # 1 => B[i] = A[i]
      BY <1>7, <2>1, <2>3
    <3>8. A \in Seq(Seq(Main!Flits)) /\ B \in Seq(Seq(Main!Flits)) /\ a \in Seq(Main!Flits)
      BY <1>4, <1>7
    <3>9. Joined(B) = Joined(A) \o a
      BY ONLY <3>2, <3>5, <3>6, <3>7, <3>8, JoinedFirst, Zenon
    <3> QED
      BY <1>6, <3>9 DEF LineGrows, OutLine
  <2>5. CASE v # x.vc
    <3>1. OutFlits(t[1], v) = OutFlits(s[1], v)
      BY <2>1, <2>5 DEF OutFlits
    <3>2. B[1] = A[1]
      BY <2>3, <3>1 DEF OutItem
    <3>3. A = B
      <4>1. \A i \in 1..n : A[i] = B[i]
        BY <2>3, <3>2
      <4>2. PICK Q : Q = Seq(Main!Flits)
        OBVIOUS
      <4>3. A \in Seq(Q) /\ B \in Seq(Q)
        BY <1>7, <4>2
      <4> QED
        BY <1>7, <2>1, <4>1, <4>3, SeqEqual
    <3>4. a = <<>>
      BY <1>3, <2>5
    <3>5. Joined(A) \in Seq(Main!Flits)
      BY <1>7, JoinedType
    <3>6. Joined(A) \o <<>> = Joined(A)
      BY <3>5, ConcatEmptySeq
    <3> QED
      BY <1>6, <3>3, <3>4, <3>6 DEF LineGrows, OutLine
  <2> QED
    BY <2>4, <2>5
<1>10. CASE ~OutOpened(s)
  <2>1. NewMap(s, x, t)
    BY <1>0, <1>10, InjectMaps
  <2>2. PICK m \in OutMap : /\ m.wait = OutXbarLatency /\ m.flits = {x} /\ t = <<m>> \o s
    BY <2>1 DEF NewMap
  <2>3. /\ Len(t) = n + 1 /\ t[1] = m /\ \A i \in 1..n : t[i + 1] = s[i]
        /\ \A j \in 1..(n + 1) : j # 1 => \E i \in 1..n : j = i + 1
    <3>1. PICK U : U = OutMap
      OBVIOUS
    <3>2. s \in Seq(U) /\ m \in U
      BY <1>0, <3>1
    <3> QED
      BY <1>2, <2>2, <3>2, PutInFront
  <2>4. B[1] = a
    <3>1. B[1] = OutItem(m, v)
      BY <1>2, <1>6, <2>3 DEF OutItems
    <3>2. OutItem(m, v) = a
      BY <1>8, <2>2
    <3> QED
      BY <3>1, <3>2
  <2>5. \A i \in 1..n : B[i + 1] = A[i]
    <3>1. \A i \in 1..n : i + 1 \in 1..(n + 1)
      OBVIOUS
    <3> QED
      BY <1>2, <1>6, <2>3, <3>1 DEF OutItems
  <2>6. B = <<a>> \o A
    <3>1. PICK D, Q : D = <<a>> \o A /\ Q = Seq(Main!Flits)
      OBVIOUS
    <3>2. A \in Seq(Q) /\ B \in Seq(Q) /\ a \in Q
      BY <1>4, <1>7, <3>1
    <3>3. D \in Seq(Q) /\ Len(D) = n + 1 /\ D[1] = a /\ \A i \in 1..n : D[i + 1] = A[i]
      BY <1>7, <3>1, <3>2, PutInFront
    <3>4. ASSUME NEW j \in 1..(n + 1) PROVE B[j] = D[j]
      <4>1. CASE j = 1
        BY <2>4, <3>3, <4>1
      <4>2. CASE j # 1
        <5>1. PICK i \in 1..n : j = i + 1
          BY <2>3, <4>2
        <5>2. B[i + 1] = A[i] /\ D[i + 1] = A[i]
          BY <2>5, <3>3
        <5> QED
          BY <5>1, <5>2
      <4> QED
        BY <4>1, <4>2
    <3>5. B = D
      BY <1>7, <2>3, <3>2, <3>3, <3>4, SeqEqual
    <3> QED
      BY <3>1, <3>5
  <2>7. Joined(B) = Joined(A) \o a
    BY <1>4, <1>7, <2>6, JoinedFront, Zenon
  <2> QED
    BY <1>6, <2>7 DEF LineGrows, OutLine
<1> QED
  BY <1>9, <1>10

(* What the oldest map delivers is the front of the line.                  *)
LEMMA OutDeliveryMoves ==
  ASSUME NEW s \in Seq(OutMap), s # <<>>, NEW t, t = SubSeq(s, 1, Len(s) - 1), NEW v \in Vcs
  PROVE  /\ OutLine(s, v) = OutItem(s[Len(s)], v) \o OutLine(t, v)
         /\ OutItem(s[Len(s)], v) \in Seq(Main!Flits) /\ OutLine(t, v) \in Seq(Main!Flits)
<1>1. PICK U : U = OutMap
  OBVIOUS
<1>2. PICK n \in Nat \ {0} : n = Len(s)
  OBVIOUS
<1>3. t \in Seq(U) /\ Len(t) = n - 1 /\ \A i \in 1..(n - 1) : t[i] = s[i]
  BY <1>1, <1>2, LastDropped
<1>4. PICK A, B : A = OutItems(s, v) /\ B = OutItems(t, v)
  OBVIOUS
<1>5. /\ A \in Seq(Seq(Main!Flits)) /\ B \in Seq(Seq(Main!Flits))
      /\ Len(A) = n /\ Len(B) = n - 1
  BY <1>1, <1>2, <1>3, <1>4, OutItemsType
<1>6. n \in 1..n /\ n - 1 \in Nat /\ \A i \in 1..(n - 1) : i \in 1..n
  OBVIOUS
<1>7. A[n] = OutItem(s[n], v) /\ \A i \in 1..(n - 1) : A[i] = B[i]
  BY <1>2, <1>3, <1>4, <1>6 DEF OutItems
<1>8. B = SubSeq(A, 1, n - 1)
  <2>1. PICK D, Q : D = SubSeq(A, 1, n - 1) /\ Q = Seq(Main!Flits)
    OBVIOUS
  <2>2. A \in Seq(Q) /\ B \in Seq(Q) /\ A # <<>>
    BY <1>5, <2>1
  <2>3. D \in Seq(Q) /\ Len(D) = n - 1 /\ \A i \in 1..(n - 1) : D[i] = A[i]
    BY <1>5, <2>1, <2>2, LastDropped
  <2>4. B = D
    BY <1>5, <1>7, <2>2, <2>3, SeqEqual
  <2> QED
    BY <2>1, <2>4
<1>9. A # <<>>
  BY <1>5
<1>10. Joined(A) = A[n] \o Joined(B)
  <2>1. B = SubSeq(A, 1, Len(A) - 1)
    BY <1>5, <1>8
  <2>2. Joined(A) = A[Len(A)] \o Joined(B)
    BY <1>5, <1>9, <2>1, JoinedLast, Zenon
  <2> QED
    BY <1>5, <2>2
<1>11. s[n] \in OutMap
  BY <1>2, <1>6
<1>12. OutItem(s[n], v) \in Seq(Main!Flits) /\ Joined(B) \in Seq(Main!Flits)
  BY <1>5, <1>11, OutItemType, JoinedType
<1> QED
  BY <1>2, <1>4, <1>7, <1>10, <1>12 DEF OutLine

(* Time only makes the waits shorter.                                      *)
LEMMA OutTimePasses ==
  ASSUME NEW s \in Seq(OutMap), \A i \in DOMAIN s : OnePerVc(s[i]) /\ s[i].wait <= OutXbarLatency,
         NEW t, t = [i \in DOMAIN s |-> [s[i] EXCEPT !.wait = @ - 1]]
  PROVE  /\ t \in Seq(OutMap) /\ ~OutOpened(t)
         /\ \A i \in DOMAIN t : OnePerVc(t[i]) /\ t[i].wait <= OutXbarLatency
         /\ \A v : OutWith(t, v) = OutWith(s, v) /\ OutLine(t, v) = OutLine(s, v)
<1>1. PICK n \in Nat : n = Len(s) /\ DOMAIN s = 1..n
  OBVIOUS
<1>2. OutXbarLatency \in Nat
  BY OutputSettings
<1>3. ASSUME NEW i \in 1..n
      PROVE  /\ t[i] \in OutMap /\ t[i].flits = s[i].flits /\ OnePerVc(t[i])
             /\ t[i].wait # OutXbarLatency /\ t[i].wait <= OutXbarLatency
  <2>1. PICK m : m = s[i]
    OBVIOUS
  <2>2. m \in OutMap /\ m.wait <= OutXbarLatency /\ OnePerVc(m)
    BY <1>1, <2>1
  <2>3. t[i] = [m EXCEPT !.wait = @ - 1]
    BY <1>1, <2>1
  <2>4. PICK w, F : w = m.wait /\ F = m.flits
    OBVIOUS
  <2>5. w \in Int /\ w <= OutXbarLatency /\ F \in SUBSET Entry /\ m = [wait |-> w, flits |-> F]
    BY <2>2, <2>4 DEF OutMap
  <2>6. t[i] = [wait |-> w - 1, flits |-> F]
    BY <2>3, <2>5
  <2>7. w - 1 \in Int /\ w - 1 # OutXbarLatency /\ w - 1 <= OutXbarLatency
    BY <1>2, <2>5
  <2>8. t[i].wait = w - 1 /\ t[i].flits = F
    BY <2>6
  <2>9. t[i] \in OutMap
    <3>1. PICK r : r = [wait |-> w - 1, flits |-> F]
      OBVIOUS
    <3>2. r \in OutMap
      BY ONLY <2>5, <2>7, <3>1 DEF OutMap
    <3> QED
      BY <2>6, <3>1, <3>2
  <2>10. OnePerVc(t[i])
    BY <2>2, <2>4, <2>8 DEF OnePerVc
  <2> QED
    BY <2>1, <2>4, <2>7, <2>8, <2>9, <2>10
<1>4. DOMAIN t = 1..n
  BY <1>1
<1>5. t \in Seq(OutMap) /\ Len(t) = n
  <2>1. PICK U : U = OutMap
    OBVIOUS
  <2>2. t \in [1..n -> U]
    BY <1>1, <1>3, <1>4, <2>1
  <2> QED
    BY <2>1, <2>2
<1>6. ~OutOpened(t)
  <2> SUFFICES ASSUME t # <<>> PROVE t[1].wait # OutXbarLatency
    BY DEF OutOpened
  <2>1. 1 \in 1..n
    BY <1>5
  <2> QED
    BY <1>3, <2>1
<1>7. ASSUME NEW v PROVE OutWith(t, v) = OutWith(s, v) /\ OutItems(t, v) = OutItems(s, v)
  <2>1. OutWith(t, v) = OutWith(s, v)
    BY <1>1, <1>3, <1>4 DEF OutWith
  <2>2. \A i \in 1..n : OutItem(t[i], v) = OutItem(s[i], v)
    <3> SUFFICES ASSUME NEW i \in 1..n PROVE OutItem(t[i], v) = OutItem(s[i], v)
      OBVIOUS
    <3>1. PICK a, b : a = t[i] /\ b = s[i]
      OBVIOUS
    <3>2. OutFlits(a, v) = OutFlits(b, v)
      BY <1>3, <3>1 DEF OutFlits
    <3>3. OutItem(a, v) = OutItem(b, v)
      BY ONLY <3>2 DEF OutItem
    <3> QED
      BY <3>1, <3>3
  <2>3. OutItems(t, v) = OutItems(s, v)
    BY <1>1, <1>5, <2>2 DEF OutItems
  <2> QED
    BY <2>1, <2>3
<1> QED
  BY <1>3, <1>4, <1>5, <1>6, <1>7 DEF OutLine

-----------------------------------------------------------------------------
(* The pipeline of an output queue: what one run does, all stages together.*)
Sends(q) == q.fsm = "ready"
Pulls(q) == q.fsm \in {"ready", "empty"} /\ q.buffer # <<>>
AsksNow(q) == q.fsm = "toRequest" \/ Pulls(q)
After(q) ==
  [buffer |-> IF Pulls(q) THEN Tail(q.buffer) ELSE q.buffer,
   fsm |-> IF AsksNow(q) \/ q.fsm = "waiting" THEN "waiting" ELSE "empty",
   flit |-> IF Pulls(q) THEN Head(q.buffer) ELSE IF Sends(q) THEN None ELSE q.flit]

(* The stages q0 to q3 of OutPipelineEvent do that.                        *)
LEMMA StagesDo ==
  ASSUME NEW q0 \in QueueType, Staged(q0), NEW q1, q1 = OQ!AfterInject(q0),
         NEW q2, q2 = OQ!AfterLoad(q1), NEW q3, q3 = OQ!AfterSubmit(q2)
  PROVE  /\ q3 = After(q0) /\ (OQ!InjectReady(q0) <=> Sends(q0))
         /\ (OQ!Loads(q1) <=> Pulls(q0)) /\ (OQ!Asks(q2) <=> AsksNow(q0))
         /\ (AsksNow(q0) => q2.flit = q3.flit)
         /\ (OQ!RunsAgain(q3) <=> q3.buffer # <<>>)
<1>1. PICK b, s, f : b = q0.buffer /\ s = q0.fsm /\ f = q0.flit
  OBVIOUS
<1>2. /\ q0 = [buffer |-> b, fsm |-> s, flit |-> f] /\ b \in Seq(Main!Flits)
      /\ s \in {"empty", "toRequest", "waiting", "ready"} /\ (s = "empty" <=> f = None)
  BY <1>1 DEF QueueType, Staged
<1>3. OQ!InjectReady(q0) <=> s = "ready"
  BY <1>1 DEF OQ!InjectReady
<1>4. PICK s1, f1 : /\ s1 = (IF s = "ready" THEN "empty" ELSE s)
                    /\ f1 = (IF s = "ready" THEN None ELSE f)
  OBVIOUS
<1>5. q1 = [buffer |-> b, fsm |-> s1, flit |-> f1]
  BY <1>2, <1>3, <1>4 DEF OQ!AfterInject
<1>6. (OQ!Loads(q1) <=> Pulls(q0)) /\ (Pulls(q0) <=> s1 = "empty" /\ b # <<>>)
  BY <1>1, <1>2, <1>4, <1>5 DEF OQ!Loads, Pulls
<1>7. PICK b2, s2, f2 : /\ b2 = (IF Pulls(q0) THEN Tail(b) ELSE b)
                        /\ s2 = (IF Pulls(q0) THEN "toRequest" ELSE s1)
                        /\ f2 = (IF Pulls(q0) THEN Head(b) ELSE f1)
  OBVIOUS
<1>8. q2 = [buffer |-> b2, fsm |-> s2, flit |-> f2]
  <2>1. q1.buffer = b
    BY <1>5
  <2>2. CASE Pulls(q0)
    <3>1. OQ!AfterLoad(q1) = [buffer |-> Tail(b), fsm |-> "toRequest", flit |-> Head(b)]
      BY <1>6, <2>1, <2>2 DEF OQ!AfterLoad
    <3> QED
      BY <1>7, <2>2, <3>1
  <2>3. CASE ~Pulls(q0)
    <3>1. OQ!AfterLoad(q1) = q1
      BY <1>6, <2>3 DEF OQ!AfterLoad
    <3> QED
      BY <1>5, <1>7, <2>3, <3>1
  <2> QED
    BY <2>2, <2>3
<1>9. (OQ!Asks(q2) <=> AsksNow(q0)) /\ (AsksNow(q0) <=> s2 = "toRequest")
  BY <1>1, <1>2, <1>4, <1>6, <1>7, <1>8 DEF OQ!Asks, AsksNow
<1>10. PICK s3 : s3 = (IF AsksNow(q0) THEN "waiting" ELSE s2)
  OBVIOUS
<1>11. q3 = [buffer |-> b2, fsm |-> s3, flit |-> f2]
  BY <1>8, <1>9, <1>10 DEF OQ!AfterSubmit
<1>12. s3 = IF AsksNow(q0) \/ s = "waiting" THEN "waiting" ELSE "empty"
  BY <1>1, <1>2, <1>4, <1>7, <1>9, <1>10 DEF AsksNow
<1>13. f2 = IF Pulls(q0) THEN Head(b) ELSE IF Sends(q0) THEN None ELSE f
  BY <1>1, <1>4, <1>7 DEF Sends
<1>14. q3 = After(q0)
  BY <1>1, <1>7, <1>11, <1>12, <1>13 DEF After
<1>15. OQ!RunsAgain(q3) <=> q3.buffer # <<>>
  BY <1>11, <1>12 DEF OQ!RunsAgain
<1> QED
  BY <1>1, <1>3, <1>6, <1>8, <1>9, <1>11, <1>14, <1>15 DEF Sends

(* What is left in a queue after a run.                                    *)
LEMMA AfterKeeps ==
  ASSUME NEW q \in QueueType, Staged(q)
  PROVE  /\ After(q) \in QueueType /\ Staged(After(q))
         /\ Len(After(q).buffer) = Len(q.buffer) - IF Pulls(q) THEN 1 ELSE 0
         /\ After(q).fsm = "waiting" \/ (After(q).fsm = "empty" /\ After(q).buffer = <<>>)
         /\ After(q).fsm = "waiting" <=> AsksNow(q) \/ q.fsm = "waiting"
         /\ AsksNow(q) => After(q).flit \in Main!Flits
         /\ Sends(q) => q.flit \in Main!Flits
         /\ OQ!Contents(q) = (IF Sends(q) THEN <<q.flit>> ELSE <<>>) \o OQ!Contents(After(q))
<1>1. PICK b, s, f : b = q.buffer /\ s = q.fsm /\ f = q.flit
  OBVIOUS
<1>2. /\ b \in Seq(Main!Flits) /\ f \in Main!Flits \cup {None} /\ None \notin Main!Flits
      /\ s \in {"empty", "toRequest", "waiting", "ready"} /\ (s = "empty" <=> f = None)
  BY <1>1, MainSettings DEF QueueType, Staged, Main!RouterAssumption
<1>3. PICK b3, s3, f3 : b3 = After(q).buffer /\ s3 = After(q).fsm /\ f3 = After(q).flit
  OBVIOUS
<1>4. /\ b3 = (IF Pulls(q) THEN Tail(b) ELSE b)
      /\ s3 = (IF AsksNow(q) \/ s = "waiting" THEN "waiting" ELSE "empty")
      /\ f3 = (IF Pulls(q) THEN Head(b) ELSE IF Sends(q) THEN None ELSE f)
  BY <1>1, <1>3 DEF After
<1>5. /\ Pulls(q) <=> s \in {"ready", "empty"} /\ b # <<>>
      /\ Sends(q) <=> s = "ready"
      /\ AsksNow(q) <=> s = "toRequest" \/ Pulls(q)
  BY <1>1 DEF Pulls, Sends, AsksNow
<1>6. b # <<>> => /\ Head(b) \in Main!Flits /\ Tail(b) \in Seq(Main!Flits)
                  /\ Len(Tail(b)) = Len(b) - 1 /\ b = <<Head(b)>> \o Tail(b)
  <2>1. PICK U : U = Main!Flits
    OBVIOUS
  <2>2. b \in Seq(U)
    BY <1>2, <2>1
  <2>3. b # <<>> => b = <<Head(b)>> \o Tail(b)
    BY <2>2
  <2> QED
    BY <2>1, <2>2, <2>3
<1>7. Len(b) \in Nat
  BY <1>2
<1>8. After(q) = [buffer |-> b3, fsm |-> s3, flit |-> f3]
  BY <1>3 DEF After
<1>9. b3 \in Seq(Main!Flits) /\ Len(b3) = Len(b) - IF Pulls(q) THEN 1 ELSE 0
  <2>1. CASE Pulls(q)
    BY <1>4, <1>5, <1>6, <2>1
  <2>2. CASE ~Pulls(q)
    BY <1>2, <1>4, <1>7, <2>2
  <2> QED
    BY <2>1, <2>2
<1>10. f3 \in Main!Flits \cup {None} /\ (s3 = "empty" <=> f3 = None)
  BY <1>2, <1>4, <1>5, <1>6
<1>11. After(q) \in QueueType /\ Staged(After(q))
  <2>1. s3 \in {"empty", "toRequest", "waiting", "ready"}
    BY <1>4
  <2> QED
    BY <1>3, <1>8, <1>9, <1>10, <2>1 DEF QueueType, Staged
<1>12. s3 = "waiting" \/ (s3 = "empty" /\ b3 = <<>>)
  BY <1>2, <1>4, <1>5
<1>13. (s3 = "waiting" <=> AsksNow(q) \/ s = "waiting") /\ (AsksNow(q) => f3 \in Main!Flits)
  BY <1>2, <1>4, <1>5, <1>6
<1>14. Sends(q) => f \in Main!Flits
  BY <1>2, <1>5
<1>15. OQ!Contents(q) = (IF Sends(q) THEN <<f>> ELSE <<>>) \o OQ!Contents(After(q))
  <2>1. /\ OQ!Contents(q) = (IF f = None THEN <<>> ELSE <<f>>) \o b
        /\ OQ!Contents(After(q)) = (IF f3 = None THEN <<>> ELSE <<f3>>) \o b3
    BY <1>1, <1>3 DEF OQ!Contents
  <2>2. OQ!Contents(After(q)) \in Seq(Main!Flits) /\ b3 \in Seq(Main!Flits)
    BY <1>9, <1>10, <2>1
  <2>3. <<>> \o b = b /\ <<>> \o b3 = b3
    BY <1>2, <1>9
  <2>4. \A c \in Seq(Main!Flits) : <<>> \o c = c
    OBVIOUS
  <2>5. CASE Pulls(q)
    <3>1. f3 = Head(b) /\ b3 = Tail(b) /\ f3 # None
      BY <1>2, <1>4, <1>5, <1>6, <2>5
    <3>2. OQ!Contents(After(q)) = b
      BY <1>5, <1>6, <2>1, <2>5, <3>1
    <3>3. CASE s = "ready"
      BY <1>2, <1>5, <2>1, <3>2, <3>3
    <3>4. CASE s = "empty"
      BY <1>2, <1>5, <2>1, <2>3, <3>2, <3>4
    <3> QED
      BY <1>5, <2>5, <3>3, <3>4
  <2>6. CASE ~Pulls(q)
    <3>1. b3 = b
      BY <1>4, <2>6
    <3>2. CASE Sends(q)
      <4>1. f3 = None /\ f # None
        BY <1>2, <1>4, <1>5, <2>6, <3>2
      <4> QED
        BY <2>1, <2>3, <3>1, <3>2, <4>1
    <3>3. CASE ~Sends(q)
      <4>1. f3 = f
        BY <1>4, <2>6, <3>3
      <4>2. OQ!Contents(After(q)) = OQ!Contents(q)
        BY <2>1, <3>1, <4>1
      <4> QED
        BY <2>2, <2>4, <3>3, <4>2
    <3> QED
      BY <3>2, <3>3
  <2> QED
    BY <2>5, <2>6
<1> QED
  BY <1>1, <1>3, <1>9, <1>11, <1>12, <1>13, <1>14, <1>15

(* A run of the pipeline of VC v.                                          *)
OutRun(v) ==
  /\ At(2)
  /\ oq' = [oq EXCEPT ![v] = After(oq[v])]
  /\ oPipeEvent' = [oPipeEvent EXCEPT ![v] = IF After(oq[v]).buffer # <<>> THEN "next" ELSE "none"]
  /\ IF Sends(oq[v])
     THEN /\ OutInjected(oXbar, [flit |-> oq[v].flit, vc |-> v], oXbar')
          /\ oCredits' = [oCredits EXCEPT ![v] = @ - 1]
     ELSE UNCHANGED <<oXbar, oCredits>>
  /\ IF Pulls(oq[v])
     THEN Main!XS!IncrementCreditCount({v}) /\ down' = [down EXCEPT ![v] = @ - 1]
     ELSE UNCHANGED <<incrCredits, eventAction, down>>
  /\ IF AsksNow(oq[v])
     THEN /\ oRequest' = [oRequest EXCEPT ![v] = OutRequest(v, After(oq[v]).flit)]
          /\ oEventAction' = "RUNALLOC"
     ELSE UNCHANGED <<oRequest, oEventAction>>
  /\ UNCHANGED <<vcTaken, requests, clientRequested, allocEventSet, request, credits,
                 portLocks, iq, pipeEvent, xbar, delivered, arrived, freeSlots, heard,
                 oIncrCredits, oPortLocks, sent, away>>

(* The event is such a run.                                                *)
LEMMA OutPipelineRuns ==
  ASSUME OutTypes, NEW v \in Vcs, Staged(oq[v]), OutPipelineEvent(v)
  PROVE  OutRun(v)
<1>1. PICK q0, q1, q2, q3 :
        /\ q0 = oq[v] /\ q1 = OQ!AfterInject(q0) /\ q2 = OQ!AfterLoad(q1) /\ q3 = OQ!AfterSubmit(q2)
        /\ oq' = [oq EXCEPT ![v] = q3]
        /\ oPipeEvent' = [oPipeEvent EXCEPT ![v] = IF OQ!RunsAgain(q3) THEN "next" ELSE "none"]
        /\ IF OQ!InjectReady(q0)
           THEN InjectFlit([flit |-> q0.flit, vc |-> v]) /\ OS!DecrementCreditCount(v)
           ELSE UNCHANGED <<oXbar, oCredits>>
        /\ IF OQ!Loads(q1)
           THEN Main!XS!IncrementCreditCount({v}) /\ down' = [down EXCEPT ![v] = @ - 1]
           ELSE UNCHANGED <<incrCredits, eventAction, down>>
        /\ IF OQ!Asks(q2)
           THEN OS!RequestFlit(v, OutRequest(v, q2.flit))
           ELSE UNCHANGED <<oRequest, oEventAction>>
  BY Zenon DEF OutPipelineEvent
<1>2. q0 \in QueueType /\ Staged(q0)
  BY <1>1 DEF OutTypes
<1>3. /\ q3 = After(q0) /\ (OQ!InjectReady(q0) <=> Sends(q0))
      /\ (OQ!Loads(q1) <=> Pulls(q0)) /\ (OQ!Asks(q2) <=> AsksNow(q0))
      /\ (AsksNow(q0) => q2.flit = q3.flit)
      /\ (OQ!RunsAgain(q3) <=> q3.buffer # <<>>)
  BY <1>1, <1>2, StagesDo
<1>4. IF Sends(oq[v])
      THEN /\ OutInjected(oXbar, [flit |-> oq[v].flit, vc |-> v], oXbar')
           /\ oCredits' = [oCredits EXCEPT ![v] = @ - 1]
      ELSE UNCHANGED <<oXbar, oCredits>>
  BY <1>1, <1>3 DEF InjectFlit, OutInjected, OS!DecrementCreditCount
<1>5. IF AsksNow(oq[v])
      THEN /\ oRequest' = [oRequest EXCEPT ![v] = OutRequest(v, After(oq[v]).flit)]
           /\ oEventAction' = "RUNALLOC"
      ELSE UNCHANGED <<oRequest, oEventAction>>
  BY <1>1, <1>3 DEF OS!RequestFlit
<1>6. IF Pulls(oq[v])
      THEN Main!XS!IncrementCreditCount({v}) /\ down' = [down EXCEPT ![v] = @ - 1]
      ELSE UNCHANGED <<incrCredits, eventAction, down>>
  BY <1>1, <1>3
<1>7. /\ oq' = [oq EXCEPT ![v] = After(oq[v])]
      /\ oPipeEvent' = [oPipeEvent EXCEPT ![v] = IF After(oq[v]).buffer # <<>> THEN "next" ELSE "none"]
  BY <1>1, <1>3
<1>8. /\ At(2)
      /\ UNCHANGED <<vcTaken, requests, clientRequested, allocEventSet, request, credits,
                     portLocks, iq, pipeEvent, xbar, delivered, arrived, freeSlots, heard,
                     oIncrCredits, oPortLocks, sent, away>>
  BY DEF OutPipelineEvent
<1> QED
  BY <1>4, <1>5, <1>6, <1>7, <1>8 DEF OutRun

-----------------------------------------------------------------------------
(* Up to the output queues the router is the router of IqRouter: every     *)
(* step is one of its steps, a credit that the output queues give back, or *)
(* none of its business.                                                   *)
LEMMA StepsOfMain ==
  ASSUME MainInv, OutInv, [Next]_vars
  PROVE  Main!RouterStep
<1>1. CASE MainSchedulers \/ MainCrossbarEvent \/ Tick
           \/ \E c \in Clients : FlitArrives(c) \/ PipelineEvent(c)
  BY <1>1 DEF MainSchedulers, MainCrossbarEvent, Tick, FlitArrives, PipelineEvent, Main!RouterStep
<1>2. CASE OutSchedulerEvent
  <2>1. Main!Idle(0)
    BY <1>2 DEF OutSchedulerEvent, At, mainVars, Main!Idle, Main!vcVars, Main!xsVars, Main!iqVars
  <2> QED
    BY <2>1 DEF Main!RouterStep
<1>3. CASE OutCrossbarEvent \/ CreditArrives
  <2>1. Main!Idle(1)
    BY <1>3 DEF OutCrossbarEvent, CreditArrives, At, mainVars, Main!Idle, Main!vcVars,
                Main!xsVars, Main!iqVars
  <2> QED
    BY <2>1 DEF Main!RouterStep
<1>4. CASE \E v \in Vcs : OutPipelineEvent(v)
  <2>1. PICK v \in Vcs : OutPipelineEvent(v)
    BY <1>4
  <2>2. OutRun(v) /\ Main!At(2)
    BY <2>1, OutPipelineRuns DEF OutInv, QueuesMinded, OutRun, At
  <2>3. /\ UNCHANGED <<Main!vcVars, request, credits, portLocks, Main!iqVars, xbar, delivered,
                       arrived, freeSlots>>
    BY <2>2 DEF OutRun, Main!vcVars, Main!iqVars
  <2>4. CASE Pulls(oq[v])
    <3>1. down[v] > 0
      <4>1. oq[v].buffer \in Seq(Main!Flits) /\ oq[v].buffer # <<>>
        BY <2>4 DEF OutInv, OutTypes, QueueType, Pulls
      <4>2. Len(oq[v].buffer) > 0
        BY <4>1
      <4> QED
        BY <4>2 DEF OutInv, SlotsTaken
    <3>2. down \in [Vcs -> Nat]
      BY DEF MainInv, Main!RouterInv, Main!CreditInv, Main!CreditTypes
    <3>3. PICK S : S = {v}
      OBVIOUS
    <3>4. S \in (SUBSET {w \in Vcs : down[w] > 0}) \ {{}} /\ S \in SUBSET Vcs
      BY <3>1, <3>3
    <3>5. down' = [w \in Vcs |-> IF w \in S THEN down[w] - 1 ELSE down[w]]
      BY <2>2, <2>4, <3>2, <3>3 DEF OutRun
    <3>6. Main!XS!IncrementCreditCount(S)
      BY <2>2, <2>4, <3>3 DEF OutRun
    <3>7. Main!CreditStep(2, S)
      BY <2>2, <2>3, <3>4, <3>5, <3>6 DEF Main!CreditStep
    <3> QED
      BY <3>4, <3>7 DEF Main!RouterStep
  <2>5. CASE ~Pulls(oq[v])
    <3>1. Main!Idle(2)
      BY <2>2, <2>3, <2>5 DEF OutRun, Main!Idle, Main!xsVars, Main!vcVars, Main!iqVars
    <3> QED
      BY <3>1 DEF Main!RouterStep
  <2> QED
    BY <2>4, <2>5
<1>5. CASE UNCHANGED vars
  BY <1>5 DEF vars, mainVars, Main!RouterStep, Main!vars, Main!vcVars, Main!xsVars, Main!iqVars,
              Main!netVars
<1> QED
  BY <1>1, <1>2, <1>3, <1>4, <1>5 DEF Next, EngineStep

(* So it keeps the invariants of that router.                              *)
LEMMA MainNext ==
  ASSUME MainInv, OutInv, [Next]_vars
  PROVE  MainInv'
<1>1. Main!RouterStep
  BY StepsOfMain
<1>2. Main!RouterInv'
  BY <1>1, Main!RouterInvNext, MainSettings, MainVcAllocator, MainXbarAllocator DEF MainInv
<1>3. Main!OrderInv'
  BY <1>1, <1>2, Main!OrderNext, MainSettings, MainVcAllocator, MainXbarAllocator DEF MainInv
<1> QED
  BY <1>2, <1>3 DEF MainInv

-----------------------------------------------------------------------------
(* The invariant of the output side, step by step.                         *)

(* The epsilon of the last event.                                          *)
LEMMA EpsilonIs == MainInv => epsilon \in {0, 1, 2}
BY DEF MainInv, Main!RouterInv, Main!VcInv, Main!InputInv, Main!InputTypes

(* What is delivered and how many slots are taken are of these types.      *)
LEMMA MainTypes ==
  MainInv => delivered \in [Vcs -> Seq(Main!Flits)] /\ down \in [Vcs -> Nat]
BY DEF MainInv, Main!OrderInv, Main!DeliveredType, Main!RouterInv, Main!CreditInv, Main!CreditTypes

(* What an output queue holds is a sequence of flits.                      *)
LEMMA ContentsType ==
  ASSUME NEW q \in QueueType
  PROVE  OQ!Contents(q) \in Seq(Main!Flits)
BY DEF QueueType, OQ!Contents

(* No map is open before the output queues run.                            *)
LEMMA NotOpenYet ==
  ASSUME MainInv, OutInv, NEW e \in {0, 1}, At(e)
  PROVE  ~OutOpened(oXbar) /\ epsilon' = e
<1>1. epsilon <= e /\ epsilon' = e
  BY DEF At, Main!At, Main!MayRun
<1> QED
  BY <1>1, EpsilonIs DEF OutInv, OutCrossbarInv

(* The input side does not touch the output side.                          *)
LEMMA OutQuiet ==
  ASSUME MainInv, OutInv, UNCHANGED <<outVars, delivered, down>>, epsilon' \in Int, epsilon <= epsilon'
  PROVE  OutInv'
<1>0. UNCHANGED <<oq, oPipeEvent, oRequest, oCredits, oIncrCredits, oEventAction, sent, away, oXbar,
                  delivered, down>>
  BY DEF outVars, oSchedVars
<1>1. OutTypes'
  BY <1>0 DEF OutInv, OutTypes
<1>2. QueuesMinded'
  BY <1>0 DEF OutInv, QueuesMinded
<1>3. OutCrossbarInv'
  <2>1. epsilon' < 2 => ~OutOpened(oXbar)
    BY EpsilonIs DEF OutInv, OutCrossbarInv
  <2> QED
    BY <1>0, <2>1 DEF OutInv, OutCrossbarInv
<1>4. SlotsTaken'
  BY <1>0 DEF OutInv, SlotsTaken
<1>5. OutCredits'
  BY <1>0 DEF OutInv, OutCredits, InOutCrossbar
<1>6. InLine'
  <2>1. \A v : InFlight(v)' = InFlight(v)
    BY <1>0 DEF InFlight
  <2> QED
    BY <1>0, <2>1 DEF OutInv, InLine
<1> QED
  BY <1>1, <1>2, <1>3, <1>4, <1>5, <1>6 DEF OutInv

(* A flit that an output queue receives.                                   *)
LEMMA ReceivedIs ==
  ASSUME NEW q \in QueueType, NEW f \in Main!Flits, NEW r, r = OQ!Received(q, f)
  PROVE  /\ r \in QueueType /\ r.fsm = q.fsm /\ r.flit = q.flit /\ Len(r.buffer) = Len(q.buffer) + 1
         /\ OQ!Contents(r) = OQ!Contents(q) \o <<f>>
<1>1. PICK b, s, g : b = q.buffer /\ s = q.fsm /\ g = q.flit
  OBVIOUS
<1>2. b \in Seq(Main!Flits)
  BY <1>1 DEF QueueType
<1>3. r = [q EXCEPT !.buffer = Append(b, f)]
  BY <1>1 DEF OQ!Received
<1>4. r = [buffer |-> Append(b, f), fsm |-> s, flit |-> g]
  BY <1>1, <1>3 DEF QueueType
<1>5. Append(b, f) \in Seq(Main!Flits) /\ Len(Append(b, f)) = Len(b) + 1 /\ Append(b, f) = b \o <<f>>
  BY <1>2
<1>6. r.buffer = Append(b, f) /\ r.fsm = s /\ r.flit = g
  BY <1>4
<1>7. r \in QueueType
  BY <1>1, <1>4, <1>5 DEF QueueType
<1>8. OQ!Contents(r) = OQ!Contents(q) \o <<f>>
  <2>1. PICK h : h = IF g = None THEN <<>> ELSE <<g>>
    OBVIOUS
  <2>2. h \in Seq(Main!Flits) /\ <<f>> \in Seq(Main!Flits)
    BY <1>1, <2>1 DEF QueueType
  <2>3. OQ!Contents(q) = h \o b /\ OQ!Contents(r) = h \o (b \o <<f>>)
    BY <1>1, <1>5, <1>6, <2>1 DEF OQ!Contents
  <2>4. (h \o b) \o <<f>> = h \o (b \o <<f>>)
    BY <1>2, <2>2, ConcatAssociative
  <2> QED
    BY <2>3, <2>4
<1> QED
  BY <1>1, <1>5, <1>6, <1>7, <1>8

(* The queue of VC v gets flit f.                                          *)
Receives(v, f) ==
  /\ delivered'[v] = Append(delivered[v], f) /\ down'[v] = down[v] + 1
  /\ oq'[v] = OQ!Received(oq[v], f) /\ oPipeEvent'[v] = Main!Woken(oPipeEvent[v])

(* So is every queue, or it is left alone.                                 *)
LEMMA OutReceives ==
  ASSUME MainInv, OutInv, MainCrossbarEvent, NEW v \in Vcs
  PROVE  \/ /\ oq'[v] = oq[v] /\ oPipeEvent'[v] = oPipeEvent[v]
            /\ delivered'[v] = delivered[v] /\ down'[v] = down[v]
         \/ \E f \in Main!Flits : Receives(v, f)
<1>1. At(1) /\ Main!CrossbarEvent
  BY DEF MainCrossbarEvent
<1>2. /\ oq'[v] = IF delivered'[v] # delivered[v]
                  THEN OQ!Received(oq[v], delivered'[v][Len(delivered'[v])])
                  ELSE oq[v]
      /\ oPipeEvent'[v] = IF delivered'[v] # delivered[v] THEN Main!Woken(oPipeEvent[v])
                          ELSE oPipeEvent[v]
  BY DEF MainCrossbarEvent
<1>3. delivered[v] \in Seq(Main!Flits)
  BY MainTypes
<1>4. CASE delivered'[v] = delivered[v] /\ down'[v] = down[v]
  BY <1>2, <1>4
<1>5. CASE \E f \in Main!Flits : delivered'[v] = Append(delivered[v], f) /\ down'[v] = down[v] + 1
  <2>1. PICK f \in Main!Flits : delivered'[v] = Append(delivered[v], f) /\ down'[v] = down[v] + 1
    BY <1>5
  <2>2. PICK D, E, n : D = delivered[v] /\ E = delivered'[v] /\ n = Len(D)
    OBVIOUS
  <2>3. D \in Seq(Main!Flits) /\ E = Append(D, f) /\ n \in Nat
    BY <1>3, <2>1, <2>2
  <2>4. Len(E) = n + 1 /\ E[n + 1] = f
    BY <2>2, <2>3
  <2>5. E # D
    BY <2>2, <2>3, <2>4
  <2>6. oq'[v] = OQ!Received(oq[v], f) /\ oPipeEvent'[v] = Main!Woken(oPipeEvent[v])
    BY <1>2, <2>2, <2>4, <2>5
  <2> QED
    BY <2>1, <2>6 DEF Receives
<1> QED
  BY <1>1, <1>4, <1>5, Main!CrossbarDelivers, MainSettings, MainVcAllocator, MainXbarAllocator
     DEF MainInv

(* The main crossbar delivers: a flit more in line and a slot less.        *)
LEMMA OutMainCrossbarEvent ==
  ASSUME MainInv, OutInv, MainCrossbarEvent
  PROVE  OutInv'
<1>0. /\ UNCHANGED <<oRequest, oCredits, oIncrCredits, oEventAction, oXbar, sent, away>>
      /\ At(1) /\ Main!CrossbarEvent
  BY DEF MainCrossbarEvent, oSchedVars
<1>1. /\ oq' = [v \in Vcs |-> IF delivered'[v] # delivered[v]
                              THEN OQ!Received(oq[v], delivered'[v][Len(delivered'[v])])
                              ELSE oq[v]]
      /\ oPipeEvent' = [v \in Vcs |-> IF delivered'[v] # delivered[v] THEN Main!Woken(oPipeEvent[v])
                                      ELSE oPipeEvent[v]]
  BY DEF MainCrossbarEvent
<1>2. ASSUME NEW v \in Vcs
      PROVE  \/ /\ oq'[v] = oq[v] /\ oPipeEvent'[v] = oPipeEvent[v]
                /\ delivered'[v] = delivered[v] /\ down'[v] = down[v]
             \/ \E f \in Main!Flits : Receives(v, f)
  BY OutReceives
<1>3. ASSUME NEW v \in Vcs
      PROVE  /\ oq'[v] \in QueueType /\ oq'[v].fsm = oq[v].fsm /\ oq'[v].flit = oq[v].flit
             /\ oPipeEvent'[v] \in {"none", "now", "next"}
             /\ oPipeEvent'[v] = "none" => oPipeEvent[v] = "none" /\ oq'[v] = oq[v]
             /\ \E k \in {0, 1} : down'[v] = down[v] + k /\ Len(oq'[v].buffer) = Len(oq[v].buffer) + k
  <2>0. oq[v] \in QueueType /\ oPipeEvent[v] \in {"none", "now", "next"} /\ down[v] \in Nat
    BY MainTypes DEF OutInv, OutTypes
  <2>1. Len(oq[v].buffer) \in Nat
    BY <2>0 DEF QueueType
  <2>2. CASE \E f \in Main!Flits : Receives(v, f)
    <3>1. PICK f \in Main!Flits : Receives(v, f)
      BY <2>2
    <3>2. PICK r : r = oq'[v]
      OBVIOUS
    <3>3. r = OQ!Received(oq[v], f)
      BY <3>1, <3>2 DEF Receives
    <3>4. /\ r \in QueueType /\ r.fsm = oq[v].fsm /\ r.flit = oq[v].flit
          /\ Len(r.buffer) = Len(oq[v].buffer) + 1
      BY <2>0, <3>3, ReceivedIs
    <3>5. oPipeEvent'[v] \in {"now", "next"}
      BY <2>0, <3>1 DEF Receives, Main!Woken
    <3>6. down'[v] = down[v] + 1
      BY <3>1 DEF Receives
    <3> QED
      BY <3>2, <3>4, <3>5, <3>6
  <2> QED
    BY <1>2, <2>0, <2>1, <2>2
<1>4. OutTypes'
  <2>1. oq' \in [Vcs -> QueueType] /\ oPipeEvent' \in [Vcs -> {"none", "now", "next"}]
    BY <1>1, <1>3
  <2> QED
    BY <1>0, <2>1 DEF OutInv, OutTypes
<1>5. QueuesMinded'
  <2> SUFFICES ASSUME NEW v \in Vcs
               PROVE  Staged(oq'[v]) /\ Minded(oq'[v], oPipeEvent'[v], oRequest[v] # None, oEventAction)
    BY <1>0 DEF QueuesMinded
  <2>1. Staged(oq[v]) /\ Minded(oq[v], oPipeEvent[v], oRequest[v] # None, oEventAction)
    BY DEF OutInv, QueuesMinded
  <2> QED
    BY <1>3, <2>1 DEF Staged, Minded
<1>6. OutCrossbarInv'
  <2>1. ~OutOpened(oXbar)
    BY <1>0, NotOpenYet
  <2> QED
    BY <1>0, <2>1 DEF OutInv, OutCrossbarInv
<1>9. SlotsTaken'
  BY <1>3 DEF OutInv, SlotsTaken
<1>7. OutCredits'
  BY <1>0 DEF OutInv, OutCredits, InOutCrossbar
<1>8. InLine'
  <2> SUFFICES ASSUME NEW v \in Vcs
               PROVE  delivered'[v] = sent[v] \o InFlight(v)' \o OQ!Contents(oq'[v])
    BY <1>0 DEF InLine
  <2>1. InFlight(v)' = InFlight(v)
    BY <1>0 DEF InFlight
  <2>2. InFlight(v) \in Seq(Main!Flits)
    BY InFlightIs, OutLineType DEF OutInv, OutCrossbarInv
  <2>3. sent[v] \o InFlight(v) \in Seq(Main!Flits)
    BY <2>2 DEF OutInv, OutTypes
  <2>4. PICK d, c : d = sent[v] \o InFlight(v) /\ c = OQ!Contents(oq[v])
    OBVIOUS
  <2>5. /\ d \in Seq(Main!Flits) /\ c \in Seq(Main!Flits) /\ delivered[v] = d \o c
        /\ delivered[v] \in Seq(Main!Flits)
    BY <2>3, <2>4, ContentsType, MainTypes DEF OutInv, OutTypes, InLine
  <2>6. delivered'[v] = d \o OQ!Contents(oq'[v])
    <3>1. CASE \E f \in Main!Flits : Receives(v, f)
      <4>1. PICK f \in Main!Flits : Receives(v, f)
        BY <3>1
      <4>2. delivered'[v] = delivered[v] \o <<f>>
        BY <2>5, <4>1 DEF Receives
      <4>3. OQ!Contents(oq'[v]) = c \o <<f>>
        <5>1. PICK r : r = oq'[v]
          OBVIOUS
        <5>2. r = OQ!Received(oq[v], f) /\ oq[v] \in QueueType
          BY <4>1, <5>1 DEF Receives, OutInv, OutTypes
        <5> QED
          BY <2>4, <5>1, <5>2, ReceivedIs
      <4>4. (d \o c) \o <<f>> = d \o (c \o <<f>>)
        <5>1. <<f>> \in Seq(Main!Flits)
          OBVIOUS
        <5> QED
          BY <2>5, <5>1, ConcatAssociative
      <4> QED
        BY <2>5, <4>2, <4>3, <4>4
    <3> QED
      BY <1>2, <2>4, <2>5, <3>1
  <2> QED
    BY <2>1, <2>4, <2>6
<1> QED
  BY <1>4, <1>5, <1>6, <1>7, <1>8, <1>9 DEF OutInv

(* The answer to an output queue.                                          *)
LEMMA ResponseIs ==
  ASSUME NEW q \in QueueType, NEW granted, NEW r, r = OQ!Response(q, granted)
  PROVE  /\ r \in QueueType /\ r.buffer = q.buffer /\ r.flit = q.flit
         /\ r.fsm \in {"ready", "toRequest"}
         /\ OQ!Contents(r) = OQ!Contents(q)
<1>1. PICK b, g, s : b = q.buffer /\ g = q.flit /\ s = IF granted THEN "ready" ELSE "toRequest"
  OBVIOUS
<1>2. r = [buffer |-> b, fsm |-> s, flit |-> g]
  BY <1>1 DEF OQ!Response, QueueType
<1>3. r.buffer = b /\ r.fsm = s /\ r.flit = g
  BY <1>2
<1>4. r \in QueueType
  BY <1>1, <1>2 DEF QueueType
<1> QED
  BY <1>1, <1>3, <1>4 DEF OQ!Contents

(* The output scheduler adds the credits that came back and answers all    *)
(* that have asked.                                                        *)
LEMMA OutSchedulerEventKeeps ==
  ASSUME MainInv, OutInv, OutSchedulerEvent
  PROVE  OutInv'
<1>1. /\ At(0) /\ UNCHANGED <<delivered, down, oXbar, sent, away>> /\ OS!ApplyCredits
      /\ oEventAction' = "NONE"
  BY DEF OutSchedulerEvent, OS!CreditsOnly, OS!RunAlloc, mainVars
<1>2. /\ oCredits' = [v \in Vcs |-> oCredits[v] + oIncrCredits[v]]
      /\ oIncrCredits' = [v \in Vcs |-> 0]
  BY <1>1 DEF OS!ApplyCredits, OS!Available
<1>3. ~OutOpened(oXbar) /\ epsilon' = 0
  BY <1>1, NotOpenYet
<1>4. ASSUME NEW v \in Vcs
      PROVE  /\ oq[v] \in QueueType /\ Staged(oq[v]) /\ oPipeEvent[v] \in {"none", "now", "next"}
             /\ Minded(oq[v], oPipeEvent[v], oRequest[v] # None, oEventAction)
  BY DEF OutInv, OutTypes, QueuesMinded
<1>5. /\ DOMAIN oq' = Vcs /\ DOMAIN oPipeEvent' = Vcs /\ DOMAIN oRequest' = Vcs
      /\ oq' = [v \in Vcs |-> oq'[v]] /\ oPipeEvent' = [v \in Vcs |-> oPipeEvent'[v]]
      /\ oRequest' = [v \in Vcs |-> oRequest'[v]]
      /\ \A v \in Vcs :
           /\ oRequest'[v] = None
           /\ \/ oRequest[v] = None /\ oq'[v] = oq[v] /\ oPipeEvent'[v] = oPipeEvent[v]
              \/ /\ oRequest[v] # None /\ oPipeEvent'[v] = Main!Woken(oPipeEvent[v])
                 /\ \E b : oq'[v] = OQ!Response(oq[v], b)
  <2>1. CASE OS!CreditsOnly /\ UNCHANGED <<oq, oPipeEvent>>
    <3>1. UNCHANGED <<oq, oPipeEvent, oRequest>> /\ oEventAction = "CREDITS"
      BY <2>1 DEF OS!CreditsOnly
    <3>2. \A v \in Vcs : oRequest[v] = None
      BY <1>4, <3>1 DEF Minded
    <3> QED
      BY <3>1, <3>2 DEF OutInv, OutTypes
  <2>2. CASE \E g \in OutAllocations(OS!Unmasked) :
               /\ OS!RunAlloc(g)
               /\ oq' = [v \in Vcs |-> IF oRequest[v] = None THEN oq[v]
                                       ELSE OQ!Response(oq[v], v \in OS!Winners(g))]
               /\ oPipeEvent' = [v \in Vcs |-> IF oRequest[v] # None
                                               THEN Main!Woken(oPipeEvent[v])
                                               ELSE oPipeEvent[v]]
    <3>1. PICK g \in OutAllocations(OS!Unmasked) :
               /\ OS!RunAlloc(g)
               /\ oq' = [v \in Vcs |-> IF oRequest[v] = None THEN oq[v]
                                       ELSE OQ!Response(oq[v], v \in OS!Winners(g))]
               /\ oPipeEvent' = [v \in Vcs |-> IF oRequest[v] # None
                                               THEN Main!Woken(oPipeEvent[v])
                                               ELSE oPipeEvent[v]]
      BY <2>2
    <3>2. oRequest' = [v \in Vcs |-> None]
      BY <3>1 DEF OS!RunAlloc
    <3>3. PICK W : \A v \in Vcs : W[v] = (v \in OS!Winners(g))
      <4>1. \A v \in Vcs : [w \in Vcs |-> w \in OS!Winners(g)][v] = (v \in OS!Winners(g))
        OBVIOUS
      <4> QED
        BY <4>1
    <3>4. \A v \in Vcs : oRequest[v] # None => oq'[v] = OQ!Response(oq[v], W[v])
      BY <3>1, <3>3
    <3> QED
      BY <3>1, <3>2, <3>4
  <2> QED
    BY <2>1, <2>2 DEF OutSchedulerEvent
<1>6. ASSUME NEW v \in Vcs
      PROVE  /\ oq'[v] \in QueueType /\ oq'[v].buffer = oq[v].buffer /\ oq'[v].flit = oq[v].flit
             /\ OQ!Contents(oq'[v]) = OQ!Contents(oq[v])
             /\ oPipeEvent'[v] \in {"none", "now", "next"} /\ oRequest'[v] = None
             /\ Staged(oq'[v]) /\ Minded(oq'[v], oPipeEvent'[v], FALSE, "NONE")
  <2>1. CASE oRequest[v] = None
    <3>1. oq'[v] = oq[v] /\ oPipeEvent'[v] = oPipeEvent[v] /\ oRequest'[v] = None
      BY <1>5, <2>1
    <3> QED
      BY <1>4, <2>1, <3>1 DEF Staged, Minded
  <2>2. CASE oRequest[v] # None
    <3>1. PICK b : oq'[v] = OQ!Response(oq[v], b)
      BY <1>5, <2>2
    <3>2. PICK r : r = oq'[v]
      OBVIOUS
    <3>3. /\ r \in QueueType /\ r.buffer = oq[v].buffer /\ r.flit = oq[v].flit
          /\ r.fsm \in {"ready", "toRequest"}
          /\ OQ!Contents(r) = OQ!Contents(oq[v])
      BY <1>4, <3>1, <3>2, ResponseIs
    <3>4. oPipeEvent'[v] \in {"now", "next"} /\ oRequest'[v] = None
      BY <1>4, <1>5, <2>2 DEF Main!Woken
    <3>5. oq[v].fsm = "waiting"
      BY <1>4, <2>2 DEF Minded
    <3>6. Staged(r) /\ Minded(r, oPipeEvent'[v], FALSE, "NONE")
      BY <1>4, <3>3, <3>4, <3>5 DEF Staged, Minded
    <3> QED
      BY <3>2, <3>3, <3>4, <3>6
  <2> QED
    BY <2>1, <2>2
<1>7. OutTypes'
  <2>1. /\ oq' \in [Vcs -> QueueType] /\ oPipeEvent' \in [Vcs -> {"none", "now", "next"}]
        /\ oRequest' \in [Vcs -> OS!Requests \cup {None}]
    BY <1>5, <1>6
  <2>2. oCredits' \in [Vcs -> Int] /\ oIncrCredits' \in [Vcs -> Nat]
    BY <1>2 DEF OutInv, OutTypes
  <2> QED
    BY <1>1, <2>1, <2>2 DEF OutInv, OutTypes
<1>8. QueuesMinded'
  BY <1>1, <1>6 DEF QueuesMinded, Minded
<1>9. OutCrossbarInv'
  BY <1>1, <1>3 DEF OutInv, OutCrossbarInv
<1>10. SlotsTaken'
  BY <1>1, <1>6 DEF OutInv, SlotsTaken
<1>11. OutCredits'
  <2> SUFFICES ASSUME NEW v \in Vcs
               PROVE  oCredits'[v] + oIncrCredits'[v] + InOutCrossbar(v)' + away'[v] = Depth
    BY DEF OutCredits
  <2>1. InOutCrossbar(v)' = InOutCrossbar(v)
    BY <1>1 DEF InOutCrossbar
  <2>2. oCredits'[v] = oCredits[v] + oIncrCredits[v] /\ oIncrCredits'[v] = 0
    BY <1>2
  <2>3. oCredits[v] \in Int /\ oIncrCredits[v] \in Nat
    BY DEF OutInv, OutTypes
  <2>4. oCredits[v] + oIncrCredits[v] + InOutCrossbar(v) + away[v] = Depth
    BY DEF OutInv, OutCredits
  <2> QED
    BY <1>1, <2>1, <2>2, <2>3, <2>4
<1>12. InLine'
  <2>1. \A v : InFlight(v)' = InFlight(v)
    BY <1>1 DEF InFlight
  <2> QED
    BY <1>1, <1>6, <2>1 DEF OutInv, InLine
<1> QED
  BY <1>7, <1>8, <1>9, <1>10, <1>11, <1>12 DEF OutInv

(* The output crossbar puts its oldest flits on the channel.               *)
LEMMA OutCrossbarEventKeeps ==
  ASSUME MainInv, OutInv, OutCrossbarEvent
  PROVE  OutInv'
<1>1. /\ UNCHANGED <<delivered, down, oq, oPipeEvent, oRequest, oCredits, oIncrCredits, oEventAction>>
      /\ At(1) /\ oXbar # <<>> /\ oXbar' = SubSeq(oXbar, 1, Len(oXbar) - 1)
  BY DEF OutCrossbarEvent, OutCrossbarDue, mainVars, oSchedVars
<1>2. PICK s, t, n, m : s = oXbar /\ t = oXbar' /\ n = Len(oXbar) /\ m = oXbar[Len(oXbar)]
  OBVIOUS
<1>3. /\ sent' = [v \in Vcs |-> IF OutFlits(m, v) = {} THEN sent[v]
                                ELSE Append(sent[v], CHOOSE f \in OutFlits(m, v) : TRUE)]
      /\ away' = [v \in Vcs |-> away[v] + Cardinality(OutFlits(m, v))]
  BY <1>2 DEF OutCrossbarEvent, OutFlits
<1>4. /\ s \in Seq(OutMap) /\ s # <<>> /\ t = SubSeq(s, 1, Len(s) - 1)
      /\ \A i \in DOMAIN s : OnePerVc(s[i]) /\ s[i].wait <= OutXbarLatency
      /\ ~OutOpened(s)
  BY <1>1, <1>2, NotOpenYet DEF OutInv, OutCrossbarInv
<1>5. PICK U : U = OutMap
  OBVIOUS
<1>6. /\ t \in Seq(U) /\ n \in Nat \ {0} /\ DOMAIN t = 1..(n - 1) /\ DOMAIN s = 1..n
      /\ \A i \in 1..(n - 1) : t[i] = s[i]
      /\ t # <<>> => t[1] = s[1]
  <2>1. s \in Seq(U) /\ n = Len(s)
    BY <1>2, <1>4, <1>5
  <2> QED
    BY <1>4, <2>1, LastDropped
<1>7. OutCrossbarInv'
  <2>1. ~OutOpened(t)
    BY <1>4, <1>6 DEF OutOpened
  <2>2. \A i \in DOMAIN t : OnePerVc(t[i]) /\ t[i].wait <= OutXbarLatency
    BY <1>4, <1>6
  <2> QED
    BY <1>2, <1>5, <1>6, <2>1, <2>2 DEF OutCrossbarInv
<1>8. ASSUME NEW v \in Vcs
      PROVE  /\ away'[v] \in Nat /\ InOutCrossbar(v)' + away'[v] = InOutCrossbar(v) + away[v]
  <2>1. OnePerVc(s[Len(s)])
    BY <1>2, <1>4, <1>6
  <2>2. /\ Cardinality(OutFlits(s[Len(s)], v)) \in Nat
        /\ Cardinality(OutWith(t, v)) + Cardinality(OutFlits(s[Len(s)], v)) = Cardinality(OutWith(s, v))
    BY <1>4, <2>1, OutDeliveryCounts
  <2>3. InOutCrossbar(v) = Cardinality(OutWith(s, v)) /\ InOutCrossbar(v)' = Cardinality(OutWith(t, v))
    BY <1>2 DEF InOutCrossbar, OutWith
  <2>4. Cardinality(OutWith(s, v)) \in Nat /\ Cardinality(OutWith(t, v)) \in Nat
    BY <1>4, <1>5, <1>6, OutCounted
  <2>5. away'[v] = away[v] + Cardinality(OutFlits(s[Len(s)], v)) /\ away[v] \in Nat
    BY <1>2, <1>3 DEF OutInv, OutTypes
  <2> QED
    BY <2>2, <2>3, <2>4, <2>5
<1>9. ASSUME NEW v \in Vcs
      PROVE  sent'[v] \in Seq(Main!Flits) /\ sent'[v] \o InFlight(v)' = sent[v] \o InFlight(v)
  <2>1. PICK d, i, j, k : d = sent[v] /\ i = OutItem(m, v) /\ j = OutLine(t, v) /\ k = OutLine(s, v)
    OBVIOUS
  <2>2. d \in Seq(Main!Flits)
    BY <2>1 DEF OutInv, OutTypes
  <2>3. k = i \o j /\ i \in Seq(Main!Flits) /\ j \in Seq(Main!Flits)
    <3>1. m = s[Len(s)]
      BY <1>2
    <3> QED
      BY <1>4, <2>1, <3>1, OutDeliveryMoves
  <2>4. sent'[v] = d \o i
    <3>1. PICK F : F = OutFlits(m, v)
      OBVIOUS
    <3>2. sent'[v] = IF F = {} THEN d ELSE Append(d, CHOOSE f \in F : TRUE)
      BY <1>3, <2>1, <3>1
    <3>3. i = IF F = {} THEN <<>> ELSE <<CHOOSE f \in F : TRUE>>
      BY <2>1, <3>1 DEF OutItem
    <3>4. \A x : Append(d, x) = d \o <<x>>
      BY <2>2
    <3>5. d \o <<>> = d
      BY <2>2
    <3>6. CASE F = {}
      BY <3>2, <3>3, <3>5, <3>6
    <3>7. CASE F # {}
      <4>1. PICK x : x = CHOOSE f \in F : TRUE
        OBVIOUS
      <4>2. sent'[v] = Append(d, x) /\ i = <<x>>
        BY <3>2, <3>3, <3>7, <4>1
      <4> QED
        BY <3>4, <4>2
    <3> QED
      BY <3>6, <3>7
  <2>5. d \o i \in Seq(Main!Flits) /\ (d \o i) \o j = d \o (i \o j)
    BY <2>2, <2>3, ConcatAssociative
  <2>6. InFlight(v) = k
    BY <1>2, <1>4, <2>1, InFlightIs
  <2>7. InFlight(v)' = j
    <3>1. oXbar' \in Seq(OutMap)
      BY <1>2, <1>5, <1>6
    <3> QED
      BY <1>2, <2>1, <3>1, InFlightNext
  <2> QED
    BY <2>1, <2>3, <2>4, <2>5, <2>6, <2>7
<1>10. OutTypes'
  <2>1. sent' \in [Vcs -> Seq(Main!Flits)] /\ away' \in [Vcs -> Nat]
    BY <1>3, <1>8, <1>9
  <2> QED
    BY <1>1, <2>1 DEF OutInv, OutTypes
<1>11. QueuesMinded'
  BY <1>1 DEF OutInv, QueuesMinded
<1>12. SlotsTaken'
  BY <1>1 DEF OutInv, SlotsTaken
<1>13. OutCredits'
  <2> SUFFICES ASSUME NEW v \in Vcs
               PROVE  oCredits[v] + oIncrCredits[v] + InOutCrossbar(v)' + away'[v] = Depth
    BY <1>1 DEF OutCredits
  <2>1. PICK p, q \in Int : p = oCredits[v] /\ q = oIncrCredits[v]
    BY DEF OutInv, OutTypes
  <2>2. p + q + InOutCrossbar(v) + away[v] = Depth
    BY <2>1 DEF OutInv, OutCredits
  <2>3. InOutCrossbar(v) \in Nat /\ InOutCrossbar(v)' \in Nat /\ away[v] \in Nat
    <3>1. InOutCrossbar(v) = Cardinality(OutWith(s, v)) /\ InOutCrossbar(v)' = Cardinality(OutWith(t, v))
      BY <1>2 DEF InOutCrossbar, OutWith
    <3>2. Cardinality(OutWith(s, v)) \in Nat /\ Cardinality(OutWith(t, v)) \in Nat
      BY <1>4, <1>5, <1>6, OutCounted
    <3>3. away[v] \in Nat
      BY DEF OutInv, OutTypes
    <3> QED
      BY <3>1, <3>2, <3>3
  <2> QED
    BY <1>8, <2>1, <2>2, <2>3
<1>14. InLine'
  <2> SUFFICES ASSUME NEW v \in Vcs
               PROVE  delivered[v] = sent'[v] \o InFlight(v)' \o OQ!Contents(oq[v])
    BY <1>1 DEF InLine
  <2>1. delivered[v] = (sent[v] \o InFlight(v)) \o OQ!Contents(oq[v])
    BY DEF OutInv, InLine
  <2> QED
    BY <1>9, <2>1
<1> QED
  BY <1>7, <1>10, <1>11, <1>12, <1>13, <1>14 DEF OutInv

(* The channel delivers credits.                                           *)
LEMMA CreditArrivesKeeps ==
  ASSUME MainInv, OutInv, CreditArrives
  PROVE  OutInv'
<1>1. PICK S \in SUBSET {v \in Vcs : away[v] > 0} :
        /\ oIncrCredits' = [v \in Vcs |-> IF v \in S THEN oIncrCredits[v] + 1 ELSE oIncrCredits[v]]
        /\ oEventAction' = IF oEventAction = "NONE" THEN "CREDITS" ELSE oEventAction
        /\ away' = [v \in Vcs |-> IF v \in S THEN away[v] - 1 ELSE away[v]]
  BY DEF CreditArrives, OS!IncrementCreditCount
<1>2. At(1) /\ UNCHANGED <<delivered, down, oq, oPipeEvent, oRequest, oCredits, oXbar, sent>>
  BY DEF CreditArrives
<1>3. ASSUME NEW v \in Vcs
      PROVE  /\ oIncrCredits'[v] \in Nat /\ away'[v] \in Nat
             /\ oIncrCredits'[v] + away'[v] = oIncrCredits[v] + away[v]
  <2>1. oIncrCredits[v] \in Nat /\ away[v] \in Nat /\ (v \in S => away[v] > 0)
    BY DEF OutInv, OutTypes
  <2>2. CASE v \in S
    BY <1>1, <2>1, <2>2
  <2>3. CASE v \notin S
    BY <1>1, <2>1, <2>3
  <2> QED
    BY <2>2, <2>3
<1>4. OutTypes'
  <2>1. oIncrCredits' \in [Vcs -> Nat] /\ away' \in [Vcs -> Nat]
    BY <1>1, <1>3
  <2> QED
    BY <1>2, <2>1 DEF OutInv, OutTypes
<1>5. QueuesMinded'
  BY <1>1, <1>2 DEF OutInv, QueuesMinded, Minded
<1>6. OutCrossbarInv'
  <2>1. ~OutOpened(oXbar)
    BY <1>2, NotOpenYet
  <2> QED
    BY <1>2, <2>1 DEF OutInv, OutCrossbarInv
<1>7. SlotsTaken'
  BY <1>2 DEF OutInv, SlotsTaken
<1>8. OutCredits'
  <2> SUFFICES ASSUME NEW v \in Vcs
               PROVE  oCredits[v] + oIncrCredits'[v] + InOutCrossbar(v) + away'[v] = Depth
    BY <1>2 DEF OutCredits, InOutCrossbar
  <2>1. PICK s : s = oXbar
    OBVIOUS
  <2>2. s \in Seq(OutMap) /\ InOutCrossbar(v) = Cardinality(OutWith(s, v))
    BY <2>1 DEF OutInv, OutCrossbarInv, InOutCrossbar, OutWith
  <2>3. InOutCrossbar(v) \in Nat
    BY <2>2, OutCounted
  <2>4. oCredits[v] \in Int /\ oIncrCredits[v] \in Nat /\ away[v] \in Nat
    BY DEF OutInv, OutTypes
  <2>5. oCredits[v] + oIncrCredits[v] + InOutCrossbar(v) + away[v] = Depth
    BY DEF OutInv, OutCredits
  <2>6. PICK i, a \in Nat : i = oIncrCredits'[v] /\ a = away'[v]
    BY <1>3
  <2>7. PICK n, j, b \in Nat : n = InOutCrossbar(v) /\ j = oIncrCredits[v] /\ b = away[v]
    BY <2>3, <2>4
  <2>8. PICK c \in Int : c = oCredits[v]
    BY <2>4
  <2>9. i + a = j + b
    BY <1>3, <2>6, <2>7
  <2>10. c + j + n + b = Depth
    BY <2>5, <2>7, <2>8
  <2>11. c + i + n + a = Depth
    BY <2>9, <2>10
  <2> QED
    BY <2>6, <2>7, <2>8, <2>11
<1>9. InLine'
  <2>1. \A v : InFlight(v)' = InFlight(v)
    BY <1>2 DEF InFlight
  <2> QED
    BY <1>2, <2>1 DEF OutInv, InLine
<1> QED
  BY <1>4, <1>5, <1>6, <1>7, <1>8, <1>9 DEF OutInv

(* The next cycle.                                                         *)
LEMMA OutTickKeeps ==
  ASSUME MainInv, OutInv, Tick
  PROVE  OutInv'
<1>1. /\ UNCHANGED <<delivered, down, oq, oRequest, oCredits, oIncrCredits, oEventAction, sent, away>>
      /\ oPipeEvent' = [v \in Vcs |-> IF oPipeEvent[v] = "next" THEN "now" ELSE oPipeEvent[v]]
  BY DEF Tick, Main!Tick, oSchedVars
<1>2. PICK s, t : s = oXbar /\ t = oXbar'
  OBVIOUS
<1>3. /\ s \in Seq(OutMap) /\ \A i \in DOMAIN s : OnePerVc(s[i]) /\ s[i].wait <= OutXbarLatency
  BY <1>2 DEF OutInv, OutCrossbarInv
<1>4. t = [i \in DOMAIN s |-> [s[i] EXCEPT !.wait = @ - 1]]
  BY <1>2 DEF Tick
<1>5. /\ t \in Seq(OutMap) /\ ~OutOpened(t)
      /\ \A i \in DOMAIN t : OnePerVc(t[i]) /\ t[i].wait <= OutXbarLatency
      /\ \A v : OutWith(t, v) = OutWith(s, v) /\ OutLine(t, v) = OutLine(s, v)
  BY <1>3, <1>4, OutTimePasses
<1>6. OutTypes'
  <2>1. oPipeEvent' \in [Vcs -> {"none", "now", "next"}]
    BY <1>1 DEF OutInv, OutTypes
  <2> QED
    BY <1>1, <2>1 DEF OutInv, OutTypes
<1>7. QueuesMinded'
  <2>1. \A v \in Vcs : oPipeEvent'[v] = "none" => oPipeEvent[v] = "none"
    BY <1>1 DEF OutInv, OutTypes
  <2> QED
    BY <1>1, <2>1 DEF OutInv, QueuesMinded, Minded
<1>8. OutCrossbarInv'
  BY <1>2, <1>5 DEF OutCrossbarInv
<1>9. SlotsTaken'
  BY <1>1 DEF OutInv, SlotsTaken
<1>10. OutCredits'
  <2>1. ASSUME NEW v PROVE InOutCrossbar(v)' = InOutCrossbar(v)
    <3>1. InOutCrossbar(v) = Cardinality(OutWith(s, v)) /\ InOutCrossbar(v)' = Cardinality(OutWith(t, v))
      BY <1>2 DEF InOutCrossbar, OutWith
    <3> QED
      BY <1>5, <3>1
  <2> QED
    BY <1>1, <2>1 DEF OutInv, OutCredits
<1>11. InLine'
  <2>1. ASSUME NEW v \in Vcs PROVE InFlight(v)' = InFlight(v)
    <3>1. InFlight(v) = OutLine(s, v)
      BY <1>2, <1>3, InFlightIs
    <3>2. InFlight(v)' = OutLine(t, v)
      BY <1>2, <1>5, InFlightNext
    <3> QED
      BY <1>5, <3>1, <3>2
  <2> QED
    BY <1>1, <2>1 DEF OutInv, InLine
<1> QED
  BY <1>6, <1>7, <1>8, <1>9, <1>10, <1>11 DEF OutInv

(* A run of the pipeline of an output queue.                               *)
LEMMA OutPipelineKeeps ==
  ASSUME MainInv, OutInv, NEW v \in Vcs, OutRun(v)
  PROVE  OutInv'
<1>1. PICK q, r : q = oq[v] /\ r = After(q)
  OBVIOUS
<1>2. /\ q \in QueueType /\ Staged(q) /\ Minded(q, oPipeEvent[v], oRequest[v] # None, oEventAction)
      /\ oPipeEvent \in [Vcs -> {"none", "now", "next"}]
  BY <1>1 DEF OutInv, OutTypes, QueuesMinded
<1>3. /\ r \in QueueType /\ Staged(r)
      /\ Len(r.buffer) = Len(q.buffer) - IF Pulls(q) THEN 1 ELSE 0
      /\ r.fsm = "waiting" \/ (r.fsm = "empty" /\ r.buffer = <<>>)
      /\ r.fsm = "waiting" <=> AsksNow(q) \/ q.fsm = "waiting"
      /\ AsksNow(q) => r.flit \in Main!Flits
      /\ Sends(q) => q.flit \in Main!Flits
      /\ OQ!Contents(q) = (IF Sends(q) THEN <<q.flit>> ELSE <<>>) \o OQ!Contents(r)
  BY <1>1, <1>2, AfterKeeps
<1>4. /\ oq' = [oq EXCEPT ![v] = r] /\ oq \in [Vcs -> QueueType]
      /\ oPipeEvent' = [oPipeEvent EXCEPT ![v] = IF r.buffer # <<>> THEN "next" ELSE "none"]
      /\ UNCHANGED <<delivered, oIncrCredits, sent, away>> /\ epsilon' = 2
  BY <1>1 DEF OutRun, At, Main!At, OutInv, OutTypes
<1>5. /\ oq'[v] = r /\ \A w \in Vcs \ {v} : oq'[w] = oq[w]
      /\ \A w \in Vcs \ {v} : oPipeEvent'[w] = oPipeEvent[w]
  BY <1>2, <1>4
<1>6. PICK s, t, x : s = oXbar /\ t = oXbar' /\ x = [flit |-> q.flit, vc |-> v]
  OBVIOUS
<1>7. /\ s \in Seq(OutMap) /\ (\A i \in DOMAIN s : OnePerVc(s[i]) /\ s[i].wait <= OutXbarLatency)
      /\ \A w \in Vcs : oq[w].fsm = "ready" /\ OutOpened(s) => \A y \in s[1].flits : y.vc # w
  BY <1>6 DEF OutInv, OutCrossbarInv
<1>8. Sends(q) => OutInjects(s, x, t)
  <2> SUFFICES ASSUME Sends(q) PROVE OutInjects(s, x, t)
    OBVIOUS
  <2>1. OutInjected(s, x, t)
    BY <1>1, <1>6 DEF OutRun
  <2>2. x \in Entry /\ x.vc = v
    BY <1>3, <1>6 DEF Entry
  <2>3. OutOpened(s) => \A y \in s[1].flits : y.vc # x.vc
    BY <1>1, <1>7, <2>2 DEF Sends
  <2> QED
    BY <1>7, <2>1, <2>2, <2>3 DEF OutInjects
<1>9. ~Sends(q) => t = s /\ oCredits' = oCredits
  BY <1>1, <1>6 DEF OutRun
<1>10. Sends(q) => oCredits' = [oCredits EXCEPT ![v] = @ - 1]
  BY <1>1 DEF OutRun
<1>11. x.vc = v /\ x.flit = q.flit
  BY <1>6
<1>12. t \in Seq(OutMap)
  BY <1>7, <1>8, <1>9, InjectMaps DEF OutInjects
<1>13. OutTypes'
  <2>1. oq' \in [Vcs -> QueueType] /\ oPipeEvent' \in [Vcs -> {"none", "now", "next"}]
    BY <1>2, <1>3, <1>4
  <2>2. oRequest' \in [Vcs -> OS!Requests \cup {None}]
    <3>1. CASE AsksNow(q)
      <4>1. PICK z : z = OutRequest(v, r.flit)
        OBVIOUS
      <4>2. r.flit.size \in Main!PacketSizes
        BY <1>3, <3>1 DEF Main!Flits
      <4>3. z \in OS!Requests
        BY <4>1, <4>2 DEF OutRequest, OS!Requests
      <4>4. oRequest' = [oRequest EXCEPT ![v] = z]
        BY <1>1, <3>1, <4>1 DEF OutRun
      <4> QED
        BY <4>3, <4>4 DEF OutInv, OutTypes
    <3>2. CASE ~AsksNow(q)
      BY <1>1, <3>2 DEF OutRun, OutInv, OutTypes
    <3> QED
      BY <3>1, <3>2
  <2>3. oCredits' \in [Vcs -> Int]
    BY <1>9, <1>10 DEF OutInv, OutTypes
  <2> QED
    BY <1>4, <2>1, <2>2, <2>3 DEF OutInv, OutTypes
<1>14. QueuesMinded'
  <2>1. /\ oEventAction' = IF AsksNow(q) THEN "RUNALLOC" ELSE oEventAction
        /\ \A w \in Vcs \ {v} : oRequest'[w] = oRequest[w]
        /\ oRequest'[v] # None <=> AsksNow(q) \/ oRequest[v] # None
    <3>1. CASE AsksNow(q)
      <4>1. PICK z : z = OutRequest(v, r.flit)
        OBVIOUS
      <4>2. oRequest' = [oRequest EXCEPT ![v] = z] /\ oEventAction' = "RUNALLOC"
        BY <1>1, <3>1, <4>1 DEF OutRun
      <4>3. r.flit.size \in Main!PacketSizes
        BY <1>3, <3>1 DEF Main!Flits
      <4>4. z \in OS!Requests
        BY <4>1, <4>3 DEF OutRequest, OS!Requests
      <4>5. z # None
        BY <4>4, OutputSettings DEF OS!SchedulerAssumption
      <4> QED
        BY <3>1, <4>2, <4>5 DEF OutInv, OutTypes
    <3>2. CASE ~AsksNow(q)
      BY <1>1, <3>2 DEF OutRun
    <3> QED
      BY <3>1, <3>2
  <2>2. Staged(r) /\ Minded(r, oPipeEvent'[v], oRequest'[v] # None, oEventAction')
    <3>1. oPipeEvent'[v] = IF r.buffer # <<>> THEN "next" ELSE "none"
      BY <1>2, <1>4
    <3> QED
      BY <1>2, <1>3, <2>1, <3>1 DEF Minded
  <2>3. ASSUME NEW w \in Vcs \ {v}
        PROVE  Staged(oq[w]) /\ Minded(oq[w], oPipeEvent[w], oRequest[w] # None, oEventAction')
    <3>1. Staged(oq[w]) /\ Minded(oq[w], oPipeEvent[w], oRequest[w] # None, oEventAction)
      BY DEF OutInv, QueuesMinded
    <3> QED
      BY <2>1, <3>1 DEF Minded
  <2> QED
    BY <1>5, <2>1, <2>2, <2>3 DEF QueuesMinded
<1>15. OutCrossbarInv'
  <2>1. \A i \in DOMAIN t : OnePerVc(t[i]) /\ t[i].wait <= OutXbarLatency
    BY <1>7, <1>8, <1>9, OutInjectCounts DEF OutInjects
  <2>2. ASSUME NEW w \in Vcs, oq'[w].fsm = "ready", OutOpened(t)
        PROVE  \A y \in t[1].flits : y.vc # w
    <3>1. w # v /\ oq[w].fsm = "ready"
      BY <1>3, <1>5, <2>2
    <3>2. OutOpened(s) => \A y \in s[1].flits : y.vc # w
      BY <1>7, <3>1
    <3>3. CASE Sends(q)
      BY <1>8, <1>11, <3>1, <3>2, <3>3, OutInjectCounts DEF OutInjects
    <3>4. CASE ~Sends(q)
      BY <1>9, <2>2, <3>2, <3>4
    <3> QED
      BY <3>3, <3>4
  <2> QED
    BY <1>4, <1>6, <1>12, <2>1, <2>2 DEF OutCrossbarInv
<1>16. SlotsTaken'
  <2>1. down \in [Vcs -> Nat]
    BY MainTypes
  <2>2. down' = IF Pulls(q) THEN [down EXCEPT ![v] = @ - 1] ELSE down
    BY <1>1 DEF OutRun
  <2>3. down'[v] = down[v] - (IF Pulls(q) THEN 1 ELSE 0) /\ \A w \in Vcs \ {v} : down'[w] = down[w]
    BY <2>1, <2>2
  <2>4. \A w \in Vcs : down[w] = Len(oq[w].buffer)
    BY DEF OutInv, SlotsTaken
  <2>5. down'[v] = Len(oq'[v].buffer)
    BY <1>1, <1>3, <1>5, <2>3, <2>4
  <2> QED
    BY <1>5, <2>3, <2>4, <2>5 DEF SlotsTaken
<1>17. OutCredits'
  <2> SUFFICES ASSUME NEW w \in Vcs
               PROVE  oCredits'[w] + oIncrCredits[w] + InOutCrossbar(w)' + away[w] = Depth
    BY <1>4 DEF OutCredits
  <2>1. InOutCrossbar(w) = Cardinality(OutWith(s, w)) /\ InOutCrossbar(w)' = Cardinality(OutWith(t, w))
    BY <1>6 DEF InOutCrossbar, OutWith
  <2>2. PICK i, j \in Nat : i = Cardinality(OutWith(s, w)) /\ j = Cardinality(OutWith(t, w))
    BY <1>7, <1>12, OutCounted
  <2>3. oCredits[w] + oIncrCredits[w] + i + away[w] = Depth
    BY <2>1, <2>2 DEF OutInv, OutCredits
  <2>4. oCredits \in [Vcs -> Int] /\ oIncrCredits[w] \in Nat /\ away[w] \in Nat
    BY DEF OutInv, OutTypes
  <2>5. oCredits'[w] + j = oCredits[w] + i
    <3>1. CASE Sends(q)
      <4>1. j = IF w = v THEN i + 1 ELSE i
        BY <1>8, <1>11, <2>2, <3>1, OutInjectCounts DEF OutInjects
      <4>2. oCredits'[w] = IF w = v THEN oCredits[w] - 1 ELSE oCredits[w]
        BY <1>10, <2>4, <3>1
      <4> QED
        BY <2>2, <2>4, <4>1, <4>2
    <3>2. CASE ~Sends(q)
      BY <1>9, <2>2, <3>2
    <3> QED
      BY <3>1, <3>2
  <2>6. PICK k \in Int : k = oCredits'[w]
    BY <1>13 DEF OutTypes
  <2> QED
    BY <2>1, <2>2, <2>3, <2>4, <2>5, <2>6
<1>18. InLine'
  <2> SUFFICES ASSUME NEW w \in Vcs
               PROVE  delivered[w] = sent[w] \o InFlight(w)' \o OQ!Contents(oq'[w])
    BY <1>4 DEF InLine
  <2>1. InFlight(w) = OutLine(s, w) /\ InFlight(w)' = OutLine(t, w)
    BY <1>6, <1>7, <1>12, InFlightIs, InFlightNext
  <2>2. PICK a, c, d, k : /\ a = OutLine(s, w) /\ c = OQ!Contents(oq'[w]) /\ d = sent[w]
                          /\ k = IF w = v /\ Sends(q) THEN <<q.flit>> ELSE <<>>
    OBVIOUS
  <2>3. a \in Seq(Main!Flits) /\ c \in Seq(Main!Flits) /\ d \in Seq(Main!Flits) /\ k \in Seq(Main!Flits)
    <3>1. oq'[w] \in QueueType
      BY <1>13 DEF OutTypes
    <3>2. k \in Seq(Main!Flits)
      BY <1>3, <2>2
    <3> QED
      BY <1>7, <2>2, <3>1, <3>2, OutLineType, ContentsType DEF OutInv, OutTypes
  <2>4. \A z \in Seq(Main!Flits) : <<>> \o z = z /\ z \o <<>> = z
    OBVIOUS
  <2>5. OutLine(t, w) = a \o k
    <3>1. CASE Sends(q)
      <4>1. LineGrows(s, t, w, k)
        BY <1>8, <1>11, <2>2, <3>1, OutInjectAppends
      <4> QED
        BY <2>2, <4>1 DEF LineGrows
    <3>2. CASE ~Sends(q)
      BY <1>9, <2>2, <2>3, <2>4, <3>2
    <3> QED
      BY <3>1, <3>2
  <2>6. OQ!Contents(oq[w]) = k \o c
    <3>1. CASE w = v
      BY <1>1, <1>3, <1>5, <2>2, <3>1
    <3>2. CASE w # v
      BY <1>5, <2>2, <2>3, <2>4, <3>2
    <3> QED
      BY <3>1, <3>2
  <2>7. delivered[w] = (d \o a) \o (k \o c)
    BY <2>1, <2>2, <2>6 DEF OutInv, InLine
  <2>8. d \o a \in Seq(Main!Flits)
    BY <2>3
  <2>9. ((d \o a) \o k) \o c = (d \o a) \o (k \o c) /\ (d \o a) \o k = d \o (a \o k)
    <3>1. PICK e : e = d \o a
      OBVIOUS
    <3>2. (e \o k) \o c = e \o (k \o c)
      BY <2>3, <2>8, <3>1, ConcatAssociative
    <3>3. (d \o a) \o k = d \o (a \o k)
      BY <2>3, ConcatAssociative
    <3> QED
      BY <3>1, <3>2, <3>3
  <2> QED
    BY <2>1, <2>2, <2>5, <2>7, <2>9
<1> QED
  BY <1>13, <1>14, <1>15, <1>16, <1>17, <1>18 DEF OutInv

(* Every step keeps the invariant of the output side ...                   *)
LEMMA OutInvNext ==
  ASSUME MainInv, OutInv, [Next]_vars
  PROVE  OutInv'
<1>1. CASE MainSchedulers \/ \E c \in Clients : FlitArrives(c) \/ PipelineEvent(c)
  <2>1. UNCHANGED <<outVars, delivered, down>>
    BY <1>1 DEF MainSchedulers, FlitArrives, PipelineEvent, Main!VcSchedulerEvent,
                Main!CrossbarSchedulerEvent, Main!RoutingResponse, Main!FlitArrives,
                Main!PipelineEvent, Main!netVars
  <2>2. \E e \in {0, 1, 2} : epsilon' = e /\ epsilon <= e
    BY <1>1 DEF MainSchedulers, FlitArrives, PipelineEvent, Main!VcSchedulerEvent,
                Main!CrossbarSchedulerEvent, Main!RoutingResponse, At, Main!At, Main!MayRun
  <2> QED
    BY <2>1, <2>2, OutQuiet
<1>2. CASE UNCHANGED vars
  <2>1. UNCHANGED <<outVars, delivered, down, epsilon>>
    BY <1>2 DEF vars, mainVars
  <2>2. epsilon' \in Int /\ epsilon <= epsilon'
    BY <2>1, EpsilonIs
  <2> QED
    BY <2>1, <2>2, OutQuiet
<1>3. ASSUME NEW v \in Vcs, OutPipelineEvent(v) PROVE OutInv'
  BY <1>3, OutPipelineRuns, OutPipelineKeeps DEF OutInv, QueuesMinded
<1> QED
  BY <1>1, <1>2, <1>3, OutMainCrossbarEvent, OutSchedulerEventKeeps, OutCrossbarEventKeeps,
     CreditArrivesKeeps, OutTickKeeps
     DEF Next, EngineStep

(* ... which holds at the start.                                           *)
LEMMA OutInvInit == Init => OutInv
<1> SUFFICES ASSUME Init PROVE OutInv
  OBVIOUS
<1>1. /\ oq = [v \in Vcs |-> OQ!EmptyQueue] /\ oPipeEvent = [v \in Vcs |-> "none"] /\ oXbar = <<>>
      /\ sent = [v \in Vcs |-> <<>>] /\ away = [v \in Vcs |-> 0]
      /\ oRequest = [v \in Vcs |-> None] /\ oCredits = [v \in Vcs |-> Depth]
      /\ oIncrCredits = [v \in Vcs |-> 0] /\ oEventAction = "NONE"
      /\ delivered = [v \in Vcs |-> <<>>] /\ down = [v \in Vcs |-> 0]
  BY DEF Init, OS!SchedInit, Main!Init
<1>2. Depth \in Nat
  BY OutputSettings DEF OS!SchedulerAssumption
<1>3. OQ!EmptyQueue \in QueueType /\ Staged(OQ!EmptyQueue) /\ OQ!Contents(OQ!EmptyQueue) = <<>>
      /\ OQ!EmptyQueue.fsm = "empty" /\ OQ!EmptyQueue.buffer = <<>>
  BY DEF OQ!EmptyQueue, QueueType, Staged, OQ!Contents
<1>4. oXbar \in Seq(OutMap) /\ DOMAIN oXbar = {} /\ ~OutOpened(oXbar)
  BY <1>1 DEF OutOpened
<1>5. OutTypes
  BY <1>1, <1>2, <1>3 DEF OutTypes
<1>6. QueuesMinded
  BY <1>1, <1>3 DEF QueuesMinded, Minded
<1>7. OutCrossbarInv
  BY <1>4 DEF OutCrossbarInv
<1>8. SlotsTaken
  BY <1>1, <1>3 DEF SlotsTaken
<1>9. OutCredits
  <2>1. ASSUME NEW v PROVE InOutCrossbar(v) = 0
    <3>1. {i \in DOMAIN oXbar : \E x \in oXbar[i].flits : x.vc = v} = {}
      BY <1>4
    <3> QED
      BY <3>1, FS_EmptySet DEF InOutCrossbar
  <2> QED
    BY <1>1, <1>2, <2>1 DEF OutCredits
<1>10. InLine
  <2> SUFFICES ASSUME NEW v \in Vcs
               PROVE  delivered[v] = sent[v] \o InFlight(v) \o OQ!Contents(oq[v])
    BY DEF InLine
  <2>1. InFlight(v) = <<>>
    <3>1. PICK s : s = oXbar
      OBVIOUS
    <3>2. OutLine(s, v) = <<>>
      BY <1>1, <1>4, <3>1, OutLineType
    <3> QED
      BY <1>4, <3>1, <3>2, InFlightIs
  <2>2. delivered[v] = <<>> /\ sent[v] = <<>> /\ OQ!Contents(oq[v]) = <<>>
    BY <1>1, <1>3
  <2>3. <<>> \o <<>> = <<>>
    OBVIOUS
  <2> QED
    BY <2>1, <2>2, <2>3
<1> QED
  BY <1>5, <1>6, <1>7, <1>8, <1>9, <1>10 DEF OutInv

(* The router keeps its invariant, whatever its settings.                  *)
THEOREM IoqInvAlways == Spec => []IoqInv
<1>1. Init => IoqInv
  <2> SUFFICES ASSUME Init PROVE IoqInv
    OBVIOUS
  <2>1. Main!Init
    BY DEF Init
  <2>2. MainInv
    BY <2>1, Main!RouterInvInit, Main!OrderInit, MainSettings, MainVcAllocator, MainXbarAllocator
       DEF MainInv
  <2> QED
    BY <2>2, OutInvInit DEF IoqInv
<1>2. IoqInv /\ [Next]_vars => IoqInv'
  BY MainNext, OutInvNext DEF IoqInv
<1> QED
  BY <1>1, <1>2, PTL DEF Spec

-----------------------------------------------------------------------------
(* The slots of the output queues are the main scheduler's credits, those  *)
(* of the next router the output scheduler's, and each is counted once.    *)
THEOREM SlotsOnce == Spec => []SlotsAreCredits
<1>1. IoqInv => SlotsAreCredits
  <2> SUFFICES ASSUME IoqInv, NEW v \in Vcs
               PROVE  /\ credits[v] + incrCredits[v] + Main!InCrossbar(v) + Len(oq[v].buffer) = OutDepth
                      /\ oCredits[v] + oIncrCredits[v] + InOutCrossbar(v) + away[v] = Depth
    BY DEF SlotsAreCredits
  <2>1. credits[v] + incrCredits[v] + Main!InCrossbar(v) + down[v] = OutDepth
    BY DEF IoqInv, MainInv, Main!RouterInv, Main!CreditInv, Main!CreditsConserved
  <2>2. down[v] = Len(oq[v].buffer)
    BY DEF IoqInv, OutInv, SlotsTaken
  <2> QED
    BY <2>1, <2>2 DEF IoqInv, OutInv, OutCredits
<1> QED
  BY <1>1, IoqInvAlways, PTL

(* No queue is left asleep with a flit in it, on either side.              *)
THEOREM NoQueueSleeps == Spec => []NoLostWakeup
<1>1. IoqInv => NoLostWakeup
  <2> SUFFICES ASSUME IoqInv PROVE NoLostWakeup
    OBVIOUS
  <2>1. Main!NoLostWakeup
    BY Main!QueuesWakeUp, MainSettings, MainVcAllocator, MainXbarAllocator
       DEF IoqInv, MainInv, Main!RouterInv, Main!VcInv
  <2>2. ASSUME NEW v \in Vcs, OQ!Contents(oq[v]) # <<>>
        PROVE  \/ oPipeEvent[v] # "none"
               \/ oq[v].fsm = "waiting" /\ oRequest[v] # None /\ oEventAction = "RUNALLOC"
    <3>1. Staged(oq[v]) /\ Minded(oq[v], oPipeEvent[v], oRequest[v] # None, oEventAction)
      BY DEF IoqInv, OutInv, QueuesMinded
    <3>2. ~(oq[v].fsm = "empty" /\ oq[v].buffer = <<>>)
      BY <2>2, <3>1 DEF Staged, OQ!Contents
    <3> QED
      BY <3>1, <3>2 DEF Minded
  <2> QED
    BY <2>1, <2>2 DEF NoLostWakeup
<1> QED
  BY <1>1, IoqInvAlways, PTL

(* What leaves the router on a VC is whole packets, in the order in which  *)
(* the main crossbar delivered them.                                       *)
THEOREM OutputInOrder == Spec => []OutputOrder
<1>1. IoqInv => OutputOrder
  <2> SUFFICES ASSUME IoqInv PROVE OutputOrder
    OBVIOUS
  <2>1. Main!OrderIsKept
    BY Main!OrderFollows, MainSettings, MainVcAllocator, MainXbarAllocator DEF IoqInv, MainInv
  <2> QED
    BY <2>1 DEF Main!OrderIsKept, IoqInv, OutInv, InLine, OutputOrder
<1> QED
  BY <1>1, IoqInvAlways, PTL

-----------------------------------------------------------------------------
(* The packets that the output queues send, as the output scheduler sees   *)
(* them.  What a queue sends is a run of whole packets.                    *)
InPackets(D) ==
  /\ D # <<>> => D[1].index = 1
  /\ \A i \in 2..Len(D) : IF D[i - 1].index = D[i - 1].size THEN D[i].index = 1
                          ELSE D[i] = [D[i - 1] EXCEPT !.index = @ + 1]

RestAfter(D, k) == IF k = 0 THEN 0 ELSE D[k].size - D[k].index
Begun(v, D, k) ==
  IF RestAfter(D, k) > 0 THEN [vc |-> v, size |-> D[k].size, left |-> RestAfter(D, k)] ELSE None
From(v, f) == [vc |-> v, size |-> f.size, left |-> f.size - f.index + 1]
SendingOf(v, D, q) ==
  LET left == Len(D) - Len(OQ!Contents(q))
      rest == IF left = 0 THEN 0 ELSE D[left].size - D[left].index
  IN IF rest > 0
     THEN [vc |-> v, size |-> D[left].size, left |-> rest]
     ELSE IF q.flit # None
     THEN [vc |-> v, size |-> q.flit.size, left |-> q.flit.size]
     ELSE None

(* The numbers of a flit.                                                  *)
LEMMA OutFlitNumbers ==
  ASSUME NEW f \in Main!Flits
  PROVE  f.index \in Nat \ {0} /\ f.size \in Nat \ {0} /\ f.size \in Main!PacketSizes
<1>1. Main!PacketSizes \subseteq Nat \ {0}
  BY OutputSettings DEF OS!SchedulerAssumption
<1> QED
  BY <1>1 DEF Main!Flits

(* No flit is beyond the end of its packet.                                *)
LEMMA NeverBeyond ==
  ASSUME NEW D \in Seq(Main!Flits), InPackets(D), NEW j \in 1..Len(D)
  PROVE  D[j].index <= D[j].size
<1>1. PICK n \in Nat : n = Len(D)
  OBVIOUS
<1>2. \A i \in 1..n : D[i].index \in Nat \ {0} /\ D[i].size \in Nat \ {0}
  <2> SUFFICES ASSUME NEW i \in 1..n PROVE D[i].index \in Nat \ {0} /\ D[i].size \in Nat \ {0}
    OBVIOUS
  <2>1. D[i] \in Main!Flits
    BY <1>1
  <2> QED
    BY <2>1, OutFlitNumbers
<1>3. PICK X : X = {k \in 0..n : k # 0 => D[k].index <= D[k].size}
  OBVIOUS
<1>4. ASSUME NEW k \in X, k \in 0..n, k < n PROVE k + 1 \in X
  <2>0. k + 1 \in 1..n /\ k + 1 \in 0..n
    BY <1>4
  <2>1. CASE k = 0
    <3>1. D[k + 1].index = 1
      BY <1>1, <1>4, <2>1 DEF InPackets
    <3> QED
      BY <1>2, <1>3, <2>0, <3>1
  <2>2. CASE k # 0
    <3>1. k + 1 \in 2..n /\ (k + 1) - 1 = k /\ k \in 1..n
      BY <1>4, <2>2
    <3>2. IF D[k].index = D[k].size THEN D[k + 1].index = 1
          ELSE D[k + 1] = [D[k] EXCEPT !.index = @ + 1]
      BY <1>1, <3>1 DEF InPackets
    <3>3. D[k].index <= D[k].size
      BY <1>3, <2>2
    <3>4. D[k + 1].index <= D[k + 1].size
      <4>1. CASE D[k].index = D[k].size
        BY <1>2, <2>0, <3>2, <4>1
      <4>2. CASE D[k].index # D[k].size
        <5>1. PICK f : f = D[k]
          OBVIOUS
        <5>2. f \in Main!Flits /\ D[k + 1] = [f EXCEPT !.index = @ + 1]
          BY <1>1, <3>1, <3>2, <4>2, <5>1
        <5>3. D[k + 1].index = f.index + 1 /\ D[k + 1].size = f.size
          BY <5>2 DEF Main!Flits
        <5>4. PICK a, b \in Nat : a = f.index /\ b = f.size
          BY <1>2, <3>1, <5>1
        <5>5. a + 1 <= b
          BY <3>3, <4>2, <5>1, <5>4
        <5> QED
          BY <5>3, <5>4, <5>5
      <4> QED
        BY <4>1, <4>2
    <3> QED
      BY <1>3, <2>0, <3>4
  <2> QED
    BY <2>1, <2>2
<1>5. 0 \in X
  BY <1>3
<1>6. 0..n \subseteq X
  BY <1>4, <1>5, InductionUpTo
<1>7. j \in 0..n /\ j # 0
  BY <1>1
<1> QED
  BY <1>3, <1>6, <1>7

(* The flit that comes next goes on with the packet or begins one.         *)
ComesNext(D, k, v, f) ==
  /\ f \in Main!Flits /\ f.index <= f.size /\ From(v, f) \in OS!Packets
  /\ RestAfter(D, k + 1) = f.size - f.index
  /\ IF RestAfter(D, k) > 0
     THEN Begun(v, D, k) = From(v, f)
     ELSE Begun(v, D, k) = None /\ f.index = 1

(* It does so wherever it is in the sequence.                              *)
LEMMA NextFlit ==
  ASSUME NEW D \in Seq(Main!Flits), InPackets(D), NEW k \in Nat, k < Len(D), NEW v \in Vcs,
         NEW f, f = D[k + 1]
  PROVE  ComesNext(D, k, v, f)
<1>1. k + 1 \in 1..Len(D) /\ k + 1 # 0
  OBVIOUS
<1>2. f \in Main!Flits /\ f.index <= f.size
  BY <1>1, NeverBeyond
<1>3. f.index \in Nat \ {0} /\ f.size \in Nat \ {0} /\ f.size \in Main!PacketSizes
  BY <1>2, OutFlitNumbers
<1>4. From(v, f) \in OS!Packets
  <2>1. f.size - f.index + 1 \in Nat \ {0}
    BY <1>2, <1>3
  <2> QED
    BY <1>3, <2>1 DEF From, OS!Packets
<1>5. RestAfter(D, k + 1) = f.size - f.index
  BY <1>1 DEF RestAfter
<1>6. CASE k = 0
  <2>1. f.index = 1 /\ RestAfter(D, k) = 0
    BY <1>6 DEF InPackets, RestAfter
  <2> QED
    BY <1>2, <1>4, <1>5, <2>1 DEF Begun, ComesNext
<1>7. CASE k # 0
  <2>1. PICK g : g = D[k]
    OBVIOUS
  <2>2. k + 1 \in 2..Len(D) /\ (k + 1) - 1 = k /\ k \in 1..Len(D)
    BY <1>7
  <2>3. g \in Main!Flits /\ g.index <= g.size
    BY <2>1, <2>2, NeverBeyond
  <2>4. g.index \in Nat \ {0} /\ g.size \in Nat \ {0}
    BY <2>3, OutFlitNumbers
  <2>5. IF g.index = g.size THEN f.index = 1 ELSE f = [g EXCEPT !.index = @ + 1]
    BY <2>1, <2>2 DEF InPackets
  <2>6. RestAfter(D, k) = g.size - g.index
    BY <1>7, <2>1 DEF RestAfter
  <2>7. CASE g.index = g.size
    <3>1. RestAfter(D, k) = 0 /\ f.index = 1
      BY <2>4, <2>5, <2>6, <2>7
    <3> QED
      BY <1>2, <1>4, <1>5, <3>1 DEF Begun, ComesNext
  <2>8. CASE g.index # g.size
    <3>1. f.index = g.index + 1 /\ f.size = g.size
      BY <2>3, <2>5, <2>8 DEF Main!Flits
    <3>2. RestAfter(D, k) > 0 /\ RestAfter(D, k) = f.size - f.index + 1
      <4>1. PICK a, b \in Nat : a = g.index /\ b = g.size
        BY <2>4
      <4>2. a < b /\ RestAfter(D, k) = b - a /\ f.size = b /\ f.index = a + 1
        BY <2>3, <2>6, <2>8, <3>1, <4>1
      <4>3. b - a > 0 /\ b - a = b - (a + 1) + 1
        BY <4>2
      <4> QED
        BY <4>2, <4>3
    <3>3. Begun(v, D, k) = From(v, f)
      BY <2>1, <3>1, <3>2 DEF Begun, From
    <3> QED
      BY <1>2, <1>4, <1>5, <3>2, <3>3 DEF ComesNext
  <2> QED
    BY <2>7, <2>8
<1> QED
  BY <1>6, <1>7

(* What a queue is sending, when k flits have left it.                     *)
Offering(D, k, v, q) ==
  /\ k \in Nat /\ RestAfter(D, k) \in Nat
  /\ q.flit # None => k < Len(D) /\ D[k + 1] = q.flit
  /\ SendingOf(v, D, q) = IF q.flit # None THEN From(v, q.flit) ELSE Begun(v, D, k)

(* It sends the packet of the flit that it offers, or one that it has      *)
(* begun.                                                                  *)
LEMMA Offers ==
  ASSUME NEW D \in Seq(Main!Flits), InPackets(D), NEW q \in QueueType, NEW v \in Vcs,
         NEW g \in Seq(Main!Flits), D = g \o OQ!Contents(q), NEW k, k = Len(g)
  PROVE  Offering(D, k, v, q)
<1>1. PICK C : C = OQ!Contents(q)
  OBVIOUS
<1>2. C \in Seq(Main!Flits) /\ D = g \o C
  BY <1>1, ContentsType
<1>3. PICK n \in Nat : n = Len(C)
  BY <1>2
<1>4. k \in Nat /\ Len(D) = k + n /\ Len(D) - n = k /\ \A i \in 1..n : D[k + i] = C[i]
  BY <1>2, <1>3
<1>5. RestAfter(D, k) \in Nat
  <2>1. CASE k = 0
    BY <2>1 DEF RestAfter
  <2>2. CASE k # 0
    <3>1. k \in 1..Len(D) /\ D[k] \in Main!Flits
      BY <1>3, <1>4, <2>2
    <3>2. D[k].index <= D[k].size /\ D[k].index \in Nat /\ D[k].size \in Nat
      BY <3>1, NeverBeyond, OutFlitNumbers
    <3> QED
      BY <2>2, <3>2 DEF RestAfter
  <2> QED
    BY <2>1, <2>2
<1>6. q.flit # None => k < Len(D) /\ D[k + 1] = q.flit
  <2> SUFFICES ASSUME q.flit # None PROVE k < Len(D) /\ D[k + 1] = q.flit
    OBVIOUS
  <2>1. q.flit \in Main!Flits /\ q.buffer \in Seq(Main!Flits)
    BY DEF QueueType
  <2>2. C = <<q.flit>> \o q.buffer
    BY <1>1 DEF OQ!Contents
  <2>3. C[1] = q.flit /\ n >= 1
    BY <1>3, <2>1, <2>2
  <2> QED
    BY <1>3, <1>4, <2>3
<1>7. SendingOf(v, D, q) = IF RestAfter(D, k) > 0
                           THEN [vc |-> v, size |-> D[k].size, left |-> RestAfter(D, k)]
                           ELSE IF q.flit # None
                           THEN [vc |-> v, size |-> q.flit.size, left |-> q.flit.size]
                           ELSE None
  BY <1>1, <1>3, <1>4 DEF SendingOf, RestAfter
<1>8. CASE q.flit # None
  <2>1. PICK f : f = q.flit
    OBVIOUS
  <2>2. /\ f \in Main!Flits
        /\ IF RestAfter(D, k) > 0 THEN Begun(v, D, k) = From(v, f) ELSE f.index = 1
    <3>1. k \in Nat /\ k < Len(D) /\ f = D[k + 1]
      BY <1>4, <1>6, <1>8, <2>1
    <3>2. ComesNext(D, k, v, f)
      BY <3>1, NextFlit
    <3> QED
      BY <3>2 DEF ComesNext
  <2>3. f.size \in Nat
    BY <2>2, OutFlitNumbers
  <2>4. CASE RestAfter(D, k) > 0
    BY <1>4, <1>5, <1>6, <1>7, <1>8, <2>1, <2>2, <2>4 DEF Begun, Offering
  <2>5. CASE ~(RestAfter(D, k) > 0)
    <3>1. From(v, f) = [vc |-> v, size |-> f.size, left |-> f.size]
      BY <2>2, <2>3, <2>5 DEF From
    <3> QED
      BY <1>4, <1>5, <1>6, <1>7, <1>8, <2>1, <2>5, <3>1 DEF Offering
  <2> QED
    BY <2>4, <2>5
<1>9. CASE q.flit = None
  BY <1>4, <1>5, <1>7, <1>9 DEF Begun, Offering
<1> QED
  BY <1>8, <1>9

(* What a run of the pipeline does to the packet that the queue sends: a   *)
(* granted flit takes one off, and a request is for the next flit of the   *)
(* packet or the head of another.                                          *)
GrantUsed(p, uses) ==
  IF ~uses THEN p ELSE IF p.left = 1 THEN None ELSE [p EXCEPT !.left = @ - 1]
RunSends(v, q, p, n) ==
  LET a == GrantUsed(p, Sends(q))
  IN /\ Sends(q) => p # None /\ p.vc = v
     /\ ~AsksNow(q) => n = a
     /\ AsksNow(q) => /\ n # None /\ OutRequest(v, After(q).flit) = OS!NextRequest(n)
                      /\ \/ n = a
                         \/ a = None /\ \E z \in Main!PacketSizes : n = [vc |-> v, size |-> z, left |-> z]

(* It does so to what SendingOf says before and after.                     *)
LEMMA RunSendsNext ==
  ASSUME NEW D \in Seq(Main!Flits), InPackets(D), NEW q \in QueueType, Staged(q), q.fsm # "waiting",
         NEW v \in Vcs, NEW g \in Seq(Main!Flits), D = g \o OQ!Contents(q),
         NEW p, p = SendingOf(v, D, q), NEW n, n = SendingOf(v, D, After(q))
  PROVE  RunSends(v, q, p, n)
<1>1. PICK r, a : r = After(q) /\ a = GrantUsed(p, Sends(q))
  OBVIOUS
<1>2. /\ r \in QueueType /\ Staged(r) /\ (r.fsm = "waiting" \/ r.fsm = "empty")
      /\ r.fsm = "waiting" <=> AsksNow(q)
      /\ Sends(q) => q.flit \in Main!Flits
      /\ OQ!Contents(q) = (IF Sends(q) THEN <<q.flit>> ELSE <<>>) \o OQ!Contents(r)
  BY <1>1, AfterKeeps
<1>3. PICK j : j = IF Sends(q) THEN <<q.flit>> ELSE <<>>
  OBVIOUS
<1>4. PICK h : h = g \o j
  OBVIOUS
<1>5. j \in Seq(Main!Flits) /\ h \in Seq(Main!Flits) /\ D = h \o OQ!Contents(r)
  <2>1. j \in Seq(Main!Flits) /\ OQ!Contents(r) \in Seq(Main!Flits)
    BY <1>2, <1>3, ContentsType
  <2>2. PICK c \in Seq(Main!Flits) : c = OQ!Contents(r)
    BY <2>1
  <2>3. (g \o j) \o c = g \o (j \o c)
    BY <2>1, <2>2, ConcatAssociative
  <2>4. D = g \o (j \o c)
    BY <1>2, <1>3, <2>2
  <2>5. h \in Seq(Main!Flits)
    BY <1>4, <2>1
  <2> QED
    BY <1>4, <2>1, <2>2, <2>3, <2>4, <2>5
<1>6. PICK k, m : k = Len(g) /\ m = Len(h)
  OBVIOUS
<1>7. k \in Nat /\ m = IF Sends(q) THEN k + 1 ELSE k
  <2>1. Len(j) = IF Sends(q) THEN 1 ELSE 0
    BY <1>3
  <2>2. Len(h) = Len(g) + Len(j) /\ Len(g) \in Nat
    BY <1>4, <1>5
  <2> QED
    BY <1>6, <2>1, <2>2
<1>8. /\ RestAfter(D, k) \in Nat
      /\ q.flit # None => k < Len(D) /\ D[k + 1] = q.flit
      /\ p = IF q.flit # None THEN From(v, q.flit) ELSE Begun(v, D, k)
  <2>1. Offering(D, k, v, q)
    BY <1>6, Offers
  <2> QED
    BY <2>1 DEF Offering
<1>9. /\ m \in Nat /\ RestAfter(D, m) \in Nat
      /\ r.flit # None => m < Len(D) /\ D[m + 1] = r.flit
      /\ n = IF r.flit # None THEN From(v, r.flit) ELSE Begun(v, D, m)
  <2>1. Offering(D, m, v, r)
    BY <1>2, <1>5, <1>6, Offers
  <2> QED
    BY <1>1, <2>1 DEF Offering
<1>10. Sends(q) => q.flit # None /\ p = From(v, q.flit) /\ a = Begun(v, D, m)
  <2> SUFFICES ASSUME Sends(q) PROVE q.flit # None /\ p = From(v, q.flit) /\ a = Begun(v, D, m)
    OBVIOUS
  <2>1. PICK f : f = q.flit
    OBVIOUS
  <2>2. f # None
    BY <2>1 DEF Sends, Staged
  <2>3. ComesNext(D, k, v, f)
    BY <1>7, <1>8, <2>1, <2>2, NextFlit
  <2>4. f \in Main!Flits /\ f.index <= f.size /\ RestAfter(D, m) = f.size - f.index
    BY <1>7, <2>3 DEF ComesNext
  <2>5. PICK x, z \in Nat : x = f.index /\ z = f.size
    BY <2>4, OutFlitNumbers
  <2>6. p = [vc |-> v, size |-> z, left |-> z - x + 1]
    BY <1>8, <2>1, <2>2, <2>5 DEF From
  <2>7. D[m].size = z /\ x <= z /\ RestAfter(D, m) = z - x
    <3>1. D[m] = f
      BY <1>7, <1>8, <2>1, <2>2
    <3> QED
      BY <2>4, <2>5, <3>1
  <2>8. a = IF p.left = 1 THEN None ELSE [p EXCEPT !.left = @ - 1]
    BY <1>1 DEF GrantUsed
  <2>9. CASE z = x
    <3>1. a = None /\ RestAfter(D, m) = 0
      BY <2>6, <2>7, <2>8, <2>9
    <3>2. Begun(v, D, m) = None
      BY <3>1 DEF Begun
    <3> QED
      BY <1>8, <2>1, <2>2, <3>1, <3>2
  <2>10. CASE z # x
    <3>1. p.left # 1 /\ z - x > 0 /\ (z - x + 1) - 1 = z - x
      BY <2>6, <2>7, <2>10
    <3>2. a = [vc |-> v, size |-> z, left |-> (z - x + 1) - 1]
      <4>1. PICK y : y = z - x + 1
        OBVIOUS
      <4>2. p = [vc |-> v, size |-> z, left |-> y]
        BY <2>6, <4>1
      <4>3. [p EXCEPT !.left = @ - 1] = [vc |-> v, size |-> z, left |-> y - 1]
        BY <4>2
      <4> QED
        BY <2>8, <3>1, <4>1, <4>3
    <3>3. Begun(v, D, m) = [vc |-> v, size |-> z, left |-> z - x]
      BY <2>7, <3>1 DEF Begun
    <3> QED
      BY <1>8, <2>1, <2>2, <3>1, <3>2, <3>3
  <2> QED
    BY <2>9, <2>10
<1>11. ~Sends(q) => a = p /\ m = k
  BY <1>1, <1>7 DEF GrantUsed
<1>12. ~AsksNow(q) => n = a
  <2> SUFFICES ASSUME ~AsksNow(q) PROVE n = a
    OBVIOUS
  <2>1. n = Begun(v, D, m)
    BY <1>2, <1>9 DEF Staged
  <2>2. CASE Sends(q)
    BY <1>10, <2>1, <2>2
  <2>3. CASE ~Sends(q)
    <3>1. q.fsm = "empty"
      BY <2>3 DEF QueueType, Sends, AsksNow
    <3>2. q.flit = None
      BY <3>1 DEF Staged
    <3> QED
      BY <1>8, <1>11, <2>1, <2>3, <3>2
  <2> QED
    BY <2>2, <2>3
<1>13. AsksNow(q) => /\ n # None /\ OutRequest(v, r.flit) = OS!NextRequest(n)
                     /\ \/ n = a
                        \/ a = None /\ \E z \in Main!PacketSizes : n = [vc |-> v, size |-> z, left |-> z]
  <2> SUFFICES ASSUME AsksNow(q)
               PROVE  /\ n # None /\ OutRequest(v, r.flit) = OS!NextRequest(n)
                      /\ \/ n = a
                         \/ a = None /\ \E z \in Main!PacketSizes : n = [vc |-> v, size |-> z, left |-> z]
    OBVIOUS
  <2>1. PICK f : f = r.flit
    OBVIOUS
  <2>2. f # None
    BY <1>2, <2>1 DEF Staged
  <2>3. ComesNext(D, m, v, f)
    BY <1>9, <2>1, <2>2, NextFlit
  <2>4. /\ f \in Main!Flits /\ f.index <= f.size /\ n = From(v, f) /\ n \in OS!Packets
        /\ IF RestAfter(D, m) > 0 THEN Begun(v, D, m) = n ELSE Begun(v, D, m) = None /\ f.index = 1
    BY <1>9, <2>1, <2>2, <2>3 DEF ComesNext
  <2>5. PICK x, z \in Nat : x = f.index /\ z = f.size /\ z \in Main!PacketSizes /\ x # 0
    BY <2>4, OutFlitNumbers
  <2>6. n # None
    BY <2>4, OutputSettings DEF OS!SchedulerAssumption
  <2>7. n = [vc |-> v, size |-> z, left |-> z - x + 1] /\ x <= z
    BY <2>4, <2>5 DEF From
  <2>8. OutRequest(v, f) = OS!NextRequest(n)
    <3>1. OutRequest(v, f) = [vc |-> v, head |-> x = 1, tail |-> x = z, size |-> z]
      BY <2>5 DEF OutRequest
    <3>2. OS!NextRequest(n) = [vc |-> v, head |-> z - x + 1 = z, tail |-> z - x + 1 = 1, size |-> z]
      BY <2>7 DEF OS!NextRequest
    <3>3. (x = 1) = (z - x + 1 = z) /\ (x = z) = (z - x + 1 = 1)
      OBVIOUS
    <3> QED
      BY <3>1, <3>2, <3>3
  <2>9. CASE Sends(q) \/ q.flit = None
    <3>1. a = Begun(v, D, m)
      BY <1>8, <1>10, <1>11, <2>9
    <3>2. CASE RestAfter(D, m) > 0
      BY <2>1, <2>4, <2>6, <2>8, <3>1, <3>2
    <3>3. CASE ~(RestAfter(D, m) > 0)
      <4>1. a = None /\ x = 1
        BY <2>4, <2>5, <3>1, <3>3
      <4>2. n = [vc |-> v, size |-> z, left |-> z]
        BY <2>7, <4>1
      <4> QED
        BY <2>1, <2>5, <2>6, <2>8, <4>1, <4>2
    <3> QED
      BY <3>2, <3>3
  <2>10. CASE ~Sends(q) /\ q.flit # None
    <3>1. q.fsm = "toRequest"
      BY <2>10 DEF QueueType, Sends, Staged
    <3>2. ~Pulls(q)
      BY <3>1 DEF Pulls
    <3>3. f = q.flit
      BY <1>1, <2>1, <2>10, <3>2 DEF After
    <3>4. n = a
      BY <1>8, <1>11, <2>4, <2>10, <3>3
    <3> QED
      BY <2>1, <2>6, <2>8, <3>4
  <2> QED
    BY <2>9, <2>10
<1>14. Sends(q) => p # None /\ p.vc = v
  <2> SUFFICES ASSUME Sends(q) PROVE p # None /\ p.vc = v
    OBVIOUS
  <2>1. p = From(v, q.flit) /\ q.flit # None
    BY <1>10
  <2>2. ComesNext(D, k, v, q.flit)
    BY <1>7, <1>8, <2>1, NextFlit
  <2>3. p \in OS!Packets
    BY <2>1, <2>2 DEF ComesNext
  <2>4. p # None
    BY <2>3, OutputSettings DEF OS!SchedulerAssumption
  <2> QED
    BY <2>1, <2>4 DEF From
<1> QED
  BY <1>1, <1>12, <1>13, <1>14 DEF RunSends
-----------------------------------------------------------------------------
(* A grant is used in the cycle in which it is given: before the output    *)
(* queues run nothing is due in the next cycle, and a queue with a grant   *)
(* runs in this one, with no event of the scheduler before it.             *)
OutSettled ==
  \A v \in Vcs :
    /\ epsilon < 2 => oPipeEvent[v] # "next"
    /\ oq[v].fsm = "ready" => oPipeEvent[v] = "now" /\ (epsilon = 0 => oEventAction = "NONE")

(* Every step keeps that.                                                  *)
LEMMA OutSettledNext ==
  ASSUME MainInv, OutInv, OutSettled, [Next]_vars
  PROVE  OutSettled'
<1>0. epsilon \in {0, 1, 2} /\ \A v \in Vcs : oq[v] \in QueueType /\ oPipeEvent[v] \in {"none", "now", "next"}
  BY EpsilonIs DEF OutInv, OutTypes
<1>1. ASSUME UNCHANGED <<oq, oPipeEvent>>, epsilon' \in {0, 1, 2}, epsilon <= epsilon',
             oEventAction' = oEventAction \/ epsilon' # 0
      PROVE  OutSettled'
  BY <1>0, <1>1 DEF OutSettled
<1>2. CASE MainSchedulers \/ \E c \in Clients : FlitArrives(c) \/ PipelineEvent(c)
  <2>1. UNCHANGED <<oq, oPipeEvent, oEventAction>>
    BY <1>2 DEF MainSchedulers, FlitArrives, PipelineEvent, outVars, oSchedVars
  <2>2. \E e \in {0, 1, 2} : epsilon' = e /\ epsilon <= e
    BY <1>2 DEF MainSchedulers, FlitArrives, PipelineEvent, Main!VcSchedulerEvent,
                Main!CrossbarSchedulerEvent, Main!RoutingResponse, At, Main!At, Main!MayRun
  <2> QED
    BY <1>1, <2>1, <2>2
<1>3. CASE UNCHANGED vars
  BY <1>0, <1>1, <1>3 DEF vars, outVars, oSchedVars
<1>4. CASE OutCrossbarEvent \/ CreditArrives
  <2>1. UNCHANGED <<oq, oPipeEvent>> /\ epsilon' = 1 /\ epsilon <= 1
    BY <1>4 DEF OutCrossbarEvent, CreditArrives, At, Main!At, Main!MayRun
  <2> QED
    BY <1>1, <2>1
<1>5. CASE MainCrossbarEvent
  <2>1. epsilon' = 1 /\ epsilon <= 1
    BY <1>5 DEF MainCrossbarEvent, At, Main!At, Main!MayRun
  <2>2. ASSUME NEW v \in Vcs
        PROVE  /\ oq'[v].fsm = oq[v].fsm
               /\ oPipeEvent'[v] = oPipeEvent[v] \/ oPipeEvent'[v] = Main!Woken(oPipeEvent[v])
    <3>1. CASE \E f \in Main!Flits : Receives(v, f)
      <4>1. PICK f \in Main!Flits : Receives(v, f)
        BY <3>1
      <4>2. PICK r : r = oq'[v]
        OBVIOUS
      <4>3. r = OQ!Received(oq[v], f) /\ oPipeEvent'[v] = Main!Woken(oPipeEvent[v])
        BY <4>1, <4>2 DEF Receives
      <4>4. r.fsm = oq[v].fsm
        BY <1>0, <4>3, ReceivedIs
      <4> QED
        BY <4>2, <4>3, <4>4
    <3> QED
      BY <1>5, <3>1, OutReceives
  <2> QED
    BY <1>0, <2>1, <2>2 DEF OutSettled, Main!Woken
<1>6. CASE OutSchedulerEvent
  <2>1. epsilon' = 0 /\ epsilon = 0 /\ oEventAction # "NONE" /\ oEventAction' = "NONE"
    BY <1>0, <1>6 DEF OutSchedulerEvent, At, Main!At, Main!MayRun, OS!CreditsOnly, OS!RunAlloc
  <2>2. \A v \in Vcs : oq[v].fsm # "ready" /\ oPipeEvent[v] # "next"
    BY <2>1 DEF OutSettled
  <2>3. ASSUME NEW v \in Vcs
        PROVE  \/ oq'[v] = oq[v] /\ oPipeEvent'[v] = oPipeEvent[v]
               \/ oPipeEvent'[v] = Main!Woken(oPipeEvent[v])
    BY <1>6 DEF OutSchedulerEvent
  <2> QED
    BY <1>0, <2>1, <2>2, <2>3 DEF OutSettled, Main!Woken
<1>7. CASE Tick
  <2>1. /\ UNCHANGED <<oq, oEventAction>> /\ epsilon' = 0
        /\ \A v \in Vcs : oPipeEvent[v] # "now"
        /\ oPipeEvent' = [v \in Vcs |-> IF oPipeEvent[v] = "next" THEN "now" ELSE oPipeEvent[v]]
    BY <1>7 DEF Tick, Main!Tick, oSchedVars
  <2>2. \A v \in Vcs : oq[v].fsm # "ready"
    BY <2>1 DEF OutSettled
  <2> QED
    BY <1>0, <2>1, <2>2 DEF OutSettled
<1>8. ASSUME NEW v \in Vcs, OutPipelineEvent(v) PROVE OutSettled'
  <2>1. OutRun(v)
    BY <1>8, OutPipelineRuns DEF OutInv, QueuesMinded
  <2>2. epsilon' = 2
    BY <2>1 DEF OutRun, At, Main!At
  <2>3. PICK q, r : q = oq[v] /\ r = After(q)
    OBVIOUS
  <2>4. r.fsm # "ready"
    BY <2>3 DEF After
  <2>5. ASSUME NEW w \in Vcs, w # v
        PROVE  oq'[w] = oq[w] /\ oPipeEvent'[w] = oPipeEvent[w]
    BY <2>1, <2>5 DEF OutRun, OutInv, OutTypes
  <2>6. oq'[v] = r
    BY <2>1, <2>3 DEF OutRun, OutInv, OutTypes
  <2>7. ASSUME NEW w \in Vcs, oq'[w].fsm = "ready" PROVE oPipeEvent'[w] = "now"
    <3>1. w # v
      BY <2>4, <2>6, <2>7
    <3> QED
      BY <2>5, <2>7, <3>1 DEF OutSettled
  <2> QED
    BY <2>2, <2>7 DEF OutSettled
<1> QED
  BY <1>2, <1>3, <1>4, <1>5, <1>6, <1>7, <1>8 DEF Next, EngineStep

(* It holds at the start.                                                  *)
LEMMA OutSettledInit == Init => OutSettled
BY DEF Init, Main!Init, OQ!EmptyQueue, OutSettled

(* What is delivered for a VC is a run of whole packets.                   *)
LEMMA WholePackets ==
  ASSUME MainInv, NEW v \in Vcs
  PROVE  delivered[v] \in Seq(Main!Flits) /\ InPackets(delivered[v])
<1>1. delivered[v] \in Seq(Main!Flits)
  BY MainTypes
<1>2. Main!PacketsStayTogether
  BY Main!OrderFollows, MainSettings, MainVcAllocator, MainXbarAllocator
     DEF MainInv, Main!OrderIsKept
<1>3. InPackets(delivered[v])
  BY <1>2 DEF Main!PacketsStayTogether, Main!IQ!IsHead, Main!IQ!IsTail, InPackets
<1> QED
  BY <1>1, <1>3

(* The slots of the next router that are in use.                           *)
Taken(v) == InOutCrossbar(v) + away[v]

(* They are those without a credit.                                        *)
LEMMA TakenSum ==
  OutInv => \A v \in Vcs : /\ Taken(v) \in Nat
                           /\ Taken(v) = Depth - oCredits[v] - oIncrCredits[v]
<1> SUFFICES ASSUME OutInv, NEW v \in Vcs
             PROVE  Taken(v) \in Nat /\ Taken(v) = Depth - oCredits[v] - oIncrCredits[v]
  OBVIOUS
<1>1. PICK s : s = oXbar
  OBVIOUS
<1>2. s \in Seq(OutMap) /\ InOutCrossbar(v) = Cardinality(OutWith(s, v))
  BY <1>1 DEF OutInv, OutCrossbarInv, InOutCrossbar, OutWith
<1>3. PICK n \in Nat : n = InOutCrossbar(v)
  BY <1>2, OutCounted
<1>4. PICK a, i \in Nat : a = away[v] /\ i = oIncrCredits[v]
  BY DEF OutInv, OutTypes
<1>5. PICK c \in Int : c = oCredits[v]
  BY DEF OutInv, OutTypes
<1>6. c + i + n + a = Depth /\ Taken(v) = n + a
  BY <1>3, <1>4, <1>5 DEF OutInv, OutCredits, Taken
<1> QED
  BY <1>4, <1>5, <1>6

(* The slots in use before and after a step.                               *)
LEMMA TakenAfter ==
  ASSUME OutInv, OutInv'
  PROVE  \A v \in Vcs : /\ Taken(v) \in Nat
                        /\ Taken(v) = Depth - oCredits[v] - oIncrCredits[v]
                        /\ Taken(v)' = Depth - oCredits'[v] - oIncrCredits'[v]
<1>1. \A v \in Vcs : /\ Taken(v) \in Nat
                     /\ Taken(v) = Depth - oCredits[v] - oIncrCredits[v]
  BY TakenSum
<1>2. (\A v \in Vcs : /\ Taken(v) \in Nat
                      /\ Taken(v) = Depth - oCredits[v] - oIncrCredits[v])'
  BY TakenSum, PTL
<1> QED
  BY <1>1, <1>2

(* What a queue sends, before and after a step.                            *)
LEMMA SendingIs ==
  \A v \in Vcs : /\ Sending(v) = SendingOf(v, delivered[v], oq[v])
                 /\ Sending(v)' = SendingOf(v, delivered'[v], oq'[v])
BY DEF Sending, SendingOf

(* A step that leaves the output scheduler, what the queues send and their *)
(* grants alone is a stuttering step of the scheduler's specification.     *)
LEMMA OutStutters ==
  ASSUME OutInv, OutInv', UNCHANGED oSchedVars,
         \A v \in Vcs : Sending(v)' = Sending(v),
         \A v \in Vcs : oq'[v].fsm = oq[v].fsm
  PROVE  UNCHANGED OS!vars
<1>1. UNCHANGED <<oRequest, oCredits, oIncrCredits, oPortLocks, oEventAction>>
  BY DEF oSchedVars
<1>2. UNCHANGED [v \in Vcs |-> Sending(v)]
  OBVIOUS
<1>3. UNCHANGED {v \in Vcs : oq[v].fsm = "ready"}
  OBVIOUS
<1>4. UNCHANGED [v \in Vcs |-> InOutCrossbar(v) + away[v]]
  BY <1>1, TakenAfter DEF Taken
<1> QED
  BY <1>1, <1>2, <1>3, <1>4 DEF OS!vars

(* A flit more behind it does not change what a queue sends.               *)
LEMMA ReceivedSends ==
  ASSUME NEW D \in Seq(Main!Flits), NEW q \in QueueType, NEW g \in Seq(Main!Flits),
         D = g \o OQ!Contents(q), NEW v \in Vcs, NEW f \in Main!Flits
  PROVE  SendingOf(v, Append(D, f), OQ!Received(q, f)) = SendingOf(v, D, q)
<1>0. PICK E, r : E = Append(D, f) /\ r = OQ!Received(q, f)
  OBVIOUS
<1> SUFFICES SendingOf(v, E, r) = SendingOf(v, D, q)
  BY <1>0
<1>1. PICK C, B : C = OQ!Contents(q) /\ B = OQ!Contents(r)
  OBVIOUS
<1>2. C \in Seq(Main!Flits) /\ B = C \o <<f>> /\ r.flit = q.flit /\ D = g \o C
  BY <1>0, <1>1, ReceivedIs, ContentsType
<1>3. PICK k, n \in Nat : k = Len(g) /\ n = Len(C)
  BY <1>2
<1>4. Len(D) = k + n /\ Len(B) = n + 1 /\ Len(E) = k + n + 1
  BY <1>0, <1>2, <1>3
<1>5. Len(D) - Len(C) = k /\ Len(E) - Len(B) = k
  BY <1>3, <1>4
<1>6. k # 0 => E[k] = D[k]
  BY <1>0, <1>3, <1>4
<1>7. SendingOf(v, D, q) = LET rest == RestAfter(D, k)
                           IN IF rest > 0 THEN [vc |-> v, size |-> D[k].size, left |-> rest]
                              ELSE IF q.flit # None
                              THEN [vc |-> v, size |-> q.flit.size, left |-> q.flit.size]
                              ELSE None
  BY <1>1, <1>5 DEF SendingOf, RestAfter
<1>8. SendingOf(v, E, r) = LET rest == RestAfter(E, k)
                           IN IF rest > 0 THEN [vc |-> v, size |-> E[k].size, left |-> rest]
                              ELSE IF r.flit # None
                              THEN [vc |-> v, size |-> r.flit.size, left |-> r.flit.size]
                              ELSE None
  BY <1>1, <1>5 DEF SendingOf, RestAfter
<1>9. RestAfter(E, k) = RestAfter(D, k)
  BY <1>6 DEF RestAfter
<1>10. CASE k = 0
  <2>1. ~(RestAfter(D, k) > 0)
    BY <1>10 DEF RestAfter
  <2> QED
    BY <1>2, <1>7, <1>8, <1>9, <2>1
<1>11. CASE k # 0
  <2>1. PICK t, h, y : t = RestAfter(D, k) /\ h = q.flit /\ y = D[k]
    OBVIOUS
  <2>2. RestAfter(E, k) = t /\ r.flit = h /\ E[k] = y
    BY <1>2, <1>6, <1>9, <1>11, <2>1
  <2> QED
    BY <1>7, <1>8, <2>1, <2>2
<1> QED
  BY <1>10, <1>11

(* What has left a queue, and what is in it.                               *)
LEMMA LineOf ==
  ASSUME OutInv, NEW v \in Vcs
  PROVE  \E g \in Seq(Main!Flits) : /\ g = sent[v] \o InFlight(v)
                                    /\ delivered[v] = g \o OQ!Contents(oq[v])
<1>1. PICK s : s = oXbar
  OBVIOUS
<1>2. s \in Seq(OutMap) /\ InFlight(v) = OutLine(s, v)
  BY <1>1, InFlightIs DEF OutInv, OutCrossbarInv
<1>3. OutLine(s, v) \in Seq(Main!Flits)
  BY <1>2, OutLineType
<1>4. sent[v] \o InFlight(v) \in Seq(Main!Flits)
  BY <1>2, <1>3 DEF OutInv, OutTypes
<1>5. delivered[v] = (sent[v] \o InFlight(v)) \o OQ!Contents(oq[v])
  BY DEF OutInv, InLine
<1> QED
  BY <1>4, <1>5

(* The clients that the output scheduler grants have asked.                *)
LEMMA OutWinnersAsked ==
  ASSUME NEW g \in OutAllocations(OS!Unmasked)
  PROVE  \A v \in OS!Winners(g) : v \in Vcs /\ oRequest[v] # None
<1>1. OS!Unmasked \in SUBSET (Vcs \X {OutPort})
  BY DEF OS!Unmasked
<1>2. OS!OnePerResource(OS!Unmasked, g)
  BY <1>1, OutputAllocator DEF OS!GrantAssumption
<1>3. \A x \in g : x \in Vcs \X {OutPort} /\ oRequest[x[1]] # None
  BY <1>2 DEF OS!OnePerResource, OS!Unmasked, OS!Requesters
<1> QED
  BY <1>3 DEF OS!Winners

(* The output scheduler's own event.                                       *)
LEMMA OutSchedulerSteps ==
  ASSUME MainInv, OutInv, OutInv', OutSettled, OutSchedulerEvent
  PROVE  OS!ProcessEvent
<1>1. epsilon = 0 /\ oEventAction # "NONE" /\ UNCHANGED <<delivered, oXbar, away>>
  BY EpsilonIs DEF OutSchedulerEvent, At, Main!At, Main!MayRun, OS!CreditsOnly, OS!RunAlloc, mainVars
<1>2. {v \in Vcs : oq[v].fsm = "ready"} = {}
  BY <1>1 DEF OutSettled
<1>3. UNCHANGED [v \in Vcs |-> InOutCrossbar(v) + away[v]]
  BY <1>1 DEF InOutCrossbar
<1>4. CASE OS!CreditsOnly /\ UNCHANGED <<oq, oPipeEvent>>
  <2>1. UNCHANGED [v \in Vcs |-> Sending(v)]
    BY <1>1, <1>4 DEF Sending
  <2>2. UNCHANGED {v \in Vcs : oq[v].fsm = "ready"}
    BY <1>4
  <2> QED
    BY <1>2, <1>3, <1>4, <2>1, <2>2 DEF OS!ProcessEvent
<1>5. ASSUME NEW g \in OutAllocations(OS!Unmasked), OS!RunAlloc(g),
             oq' = [v \in Vcs |-> IF oRequest[v] = None THEN oq[v]
                                  ELSE OQ!Response(oq[v], v \in OS!Winners(g))]
      PROVE  OS!ProcessEvent
  <2>1. ASSUME NEW v \in Vcs
        PROVE  /\ oq'[v].fsm = "ready" <=> v \in OS!Winners(g)
               /\ Sending(v)' = Sending(v)
    <3>1. oq[v] \in QueueType
      BY DEF OutInv, OutTypes
    <3>2. CASE oRequest[v] = None
      <4>1. oq'[v] = oq[v] /\ v \notin OS!Winners(g)
        BY <1>5, <3>2, OutWinnersAsked
      <4> QED
        BY <1>1, <1>2, <4>1, SendingIs
    <3>3. CASE oRequest[v] # None
      <4>1. PICK q, r, b : q = oq[v] /\ r = oq'[v] /\ b = (v \in OS!Winners(g))
        OBVIOUS
      <4>2. r = OQ!Response(q, b)
        BY <1>5, <3>3, <4>1
      <4>3. /\ r \in QueueType /\ r.buffer = q.buffer /\ r.flit = q.flit
            /\ OQ!Contents(r) = OQ!Contents(q)
        BY <3>1, <4>1, <4>2, ResponseIs
      <4>4. r.fsm = IF b THEN "ready" ELSE "toRequest"
        BY <3>1, <4>1, <4>2 DEF OQ!Response, QueueType
      <4>5. SendingOf(v, delivered[v], r) = SendingOf(v, delivered[v], q)
        BY <4>3 DEF SendingOf
      <4>6. Sending(v)' = Sending(v)
        BY <1>1, <4>1, <4>5, SendingIs
      <4> QED
        BY <4>1, <4>4, <4>6
    <3> QED
      BY <3>2, <3>3
  <2>2. \A v \in OS!Winners(g) : v \in Vcs
    BY OutWinnersAsked
  <2>3. {v \in Vcs : oq[v].fsm = "ready"}' = OS!Winners(g)
    BY <2>1, <2>2
  <2>4. UNCHANGED [v \in Vcs |-> Sending(v)]
    BY <2>1
  <2> QED
    BY <1>2, <1>3, <1>5, <2>3, <2>4 DEF OS!ProcessEvent
<1> QED
  BY <1>4, <1>5 DEF OutSchedulerEvent

(* A credit message of the channel.                                        *)
LEMMA OutCreditSteps ==
  ASSUME OutInv, OutInv', CreditArrives
  PROVE  OS!CreditReturn
<1>1. PICK S \in (SUBSET {v \in Vcs : away[v] > 0}) \ {{}} :
        /\ OS!IncrementCreditCount(S)
        /\ away' = [v \in Vcs |-> IF v \in S THEN away[v] - 1 ELSE away[v]]
  BY DEF CreditArrives
<1>2. UNCHANGED <<oRequest, oCredits, oPortLocks, oq, oXbar, delivered>>
  BY DEF CreditArrives
<1>3. UNCHANGED [v \in Vcs |-> Sending(v)]
  BY <1>2 DEF Sending
<1>4. UNCHANGED {v \in Vcs : oq[v].fsm = "ready"}
  BY <1>2
<1>5. \A v \in Vcs : InOutCrossbar(v)' = InOutCrossbar(v)
  BY <1>2 DEF InOutCrossbar
<1>6. \A v \in Vcs : InOutCrossbar(v) \in Nat /\ away[v] \in Nat
  <2> SUFFICES ASSUME NEW v \in Vcs PROVE InOutCrossbar(v) \in Nat /\ away[v] \in Nat
    OBVIOUS
  <2>1. PICK s : s = oXbar
    OBVIOUS
  <2>2. s \in Seq(OutMap) /\ InOutCrossbar(v) = Cardinality(OutWith(s, v))
    BY <2>1 DEF OutInv, OutCrossbarInv, InOutCrossbar, OutWith
  <2> QED
    BY <2>2, OutCounted DEF OutInv, OutTypes
<1> DEFINE u == [v \in Vcs |-> InOutCrossbar(v) + away[v]]
<1>7. u' = [v \in Vcs |-> IF v \in S THEN u[v] - 1 ELSE u[v]]
  <2>1. PICK F, d, w : F = [v \in Vcs |-> InOutCrossbar(v)] /\ d = away /\ w = away'
    OBVIOUS
  <2>2. /\ \A v \in Vcs : F[v] \in Nat /\ d[v] \in Nat
        /\ w = [v \in Vcs |-> IF v \in S THEN d[v] - 1 ELSE d[v]]
    BY <1>1, <1>6, <2>1
  <2>3. u = [v \in Vcs |-> F[v] + d[v]]
    BY <2>1
  <2>4. u' = [v \in Vcs |-> F[v] + w[v]]
    BY <1>5, <2>1
  <2>5. \A n, m \in Nat : n + (m - 1) = n + m - 1
    OBVIOUS
  <2> HIDE DEF u
  <2>6. [v \in Vcs |-> F[v] + w[v]] = [v \in Vcs |-> IF v \in S THEN u[v] - 1 ELSE u[v]]
    BY <2>2, <2>3, <2>5
  <2> QED
    BY <2>4, <2>6
<1>8. S \in (SUBSET {v \in Vcs : u[v] > 0}) \ {{}}
  <2>1. \A v \in S : v \in Vcs /\ InOutCrossbar(v) + away[v] > 0
    BY <1>1, <1>6
  <2> QED
    BY <1>1, <2>1
<1> QED
  BY <1>1, <1>2, <1>3, <1>4, <1>7, <1>8 DEF OS!CreditReturn

(* A run of an output queue's pipeline: what changes of the three things   *)
(* that the output scheduler sees.                                         *)
OsRun(v, ready, P, N, G, H, u, w, n) ==
  /\ P = [x \in Vcs |-> Sending(x)] /\ N = [x \in Vcs |-> Sending(x)]'
  /\ G = {x \in Vcs : oq[x].fsm = "ready"}
  /\ H = {x \in Vcs : oq[x].fsm = "ready"}'
  /\ u = [x \in Vcs |-> InOutCrossbar(x) + away[x]]
  /\ w = [x \in Vcs |-> InOutCrossbar(x) + away[x]]'
  /\ ready <=> v \in G
  /\ N = [P EXCEPT ![v] = n]
  /\ H = G \ {v}
  /\ w = IF ready THEN [u EXCEPT ![v] = @ + 1] ELSE u
  /\ IF ready THEN oCredits' = [oCredits EXCEPT ![v] = @ - 1] ELSE oCredits' = oCredits
  /\ oIncrCredits' = oIncrCredits /\ oPortLocks' = oPortLocks

(* It changes them for its own VC only.                                    *)
LEMMA OsRuns ==
  ASSUME OutInv, OutInv', NEW v \in Vcs, OutRun(v), NEW ready, ready = Sends(oq[v]),
         NEW n, n = Sending(v)'
  PROVE  \E P, N, G, H, u, w : OsRun(v, ready, P, N, G, H, u, w, n)
<1>1. /\ \A x \in Vcs \ {v} : oq'[x] = oq[x]
      /\ oq'[v].fsm # "ready"
  <2>1. oq' = [oq EXCEPT ![v] = After(oq[v])] /\ oq \in [Vcs -> QueueType]
    BY DEF OutRun, OutInv, OutTypes
  <2>2. After(oq[v]).fsm # "ready"
    BY DEF After
  <2> QED
    BY <2>1, <2>2
<1>2. UNCHANGED <<delivered, oIncrCredits, oPortLocks>>
  BY DEF OutRun
<1>3. PICK P, N : P = [x \in Vcs |-> Sending(x)] /\ N = [x \in Vcs |-> Sending(x)]'
  OBVIOUS
<1>4. N = [P EXCEPT ![v] = n]
  <2>1. \A x \in Vcs \ {v} : Sending(x)' = Sending(x)
    BY <1>1, <1>2, SendingIs
  <2> QED
    BY <1>3, <2>1
<1>5. PICK G, H : G = {x \in Vcs : oq[x].fsm = "ready"} /\ H = {x \in Vcs : oq[x].fsm = "ready"}'
  OBVIOUS
<1>6. H = G \ {v} /\ (ready <=> v \in G)
  <2>1. ready <=> v \in G
    BY <1>5 DEF Sends
  <2>2. \A x \in Vcs : oq'[x].fsm = "ready" <=> (oq[x].fsm = "ready" /\ x # v)
    BY <1>1
  <2>3. H = G \ {v}
    BY <1>5, <2>2
  <2> QED
    BY <2>1, <2>3
<1>7. PICK u, w : /\ u = [x \in Vcs |-> InOutCrossbar(x) + away[x]]
                  /\ w = [x \in Vcs |-> InOutCrossbar(x) + away[x]]'
  OBVIOUS
<1>8. IF ready THEN oCredits' = [oCredits EXCEPT ![v] = @ - 1] ELSE oCredits' = oCredits
  BY DEF OutRun
<1>9. w = IF ready THEN [u EXCEPT ![v] = @ + 1] ELSE u
  <2>1. PICK C, I, B, D : C = oCredits /\ I = oIncrCredits /\ B = oCredits' /\ D = Depth
    OBVIOUS
  <2>2. C \in [Vcs -> Int] /\ I \in [Vcs -> Nat] /\ D \in Nat
    BY <2>1, OutputSettings DEF OutInv, OutTypes, OS!SchedulerAssumption
  <2>3. u = [x \in Vcs |-> D - C[x] - I[x]]
    BY <1>7, <2>1, TakenAfter DEF Taken
  <2>4. w = [x \in Vcs |-> D - B[x] - I[x]]
    <3>1. \A x \in Vcs : Taken(x)' = D - B[x] - I[x]
      BY <1>2, <2>1, TakenAfter
    <3> QED
      BY <1>7, <3>1 DEF Taken
  <2>5. CASE ready
    <3>1. B = [C EXCEPT ![v] = @ - 1]
      BY <1>8, <2>1, <2>5
    <3>2. \A l, m \in Int, k \in Nat : l - (m - 1) - k = (l - m - k) + 1
      OBVIOUS
    <3>3. w = [u EXCEPT ![v] = @ + 1]
      BY <2>2, <2>3, <2>4, <3>1, <3>2
    <3> QED
      BY <2>5, <3>3
  <2>6. CASE ~ready
    BY <1>8, <2>1, <2>3, <2>4, <2>6
  <2> QED
    BY <2>5, <2>6
<1>10. OsRun(v, ready, P, N, G, H, u, w, n)
  BY <1>2, <1>3, <1>4, <1>5, <1>6, <1>7, <1>8, <1>9 DEF OsRun
<1> QED
  BY <1>10

(* A packet that a queue sends is on the queue's own VC.                   *)
LEMMA SendsOnItsVc ==
  ASSUME NEW v, NEW D, NEW q, SendingOf(v, D, q) # None
  PROVE  SendingOf(v, D, q).vc = v
BY DEF SendingOf

(* A queue that waits is left as it is.                                    *)
LEMMA WaitingStays ==
  ASSUME NEW q \in QueueType, q.fsm = "waiting"
  PROVE  After(q) = q /\ ~Sends(q) /\ ~AsksNow(q)
BY DEF QueueType, After, Sends, Pulls, AsksNow

(* A run of a pipeline is a step of a client of the output scheduler.      *)
LEMMA OutPipelineSteps ==
  ASSUME MainInv, OutInv, OutInv', NEW v \in Vcs, OutPipelineEvent(v)
  PROVE  [OS!Next]_(OS!vars)
<1>1. OutRun(v)
  BY OutPipelineRuns DEF OutInv, QueuesMinded
<1>2. PICK q, r : q = oq[v] /\ r = After(q)
  OBVIOUS
<1>3. /\ q \in QueueType /\ Staged(q) /\ (q.fsm = "waiting" <=> oRequest[v] # None)
      /\ oq \in [Vcs -> QueueType]
  BY <1>2 DEF OutInv, OutTypes, QueuesMinded, Minded
<1>4. oq' = [oq EXCEPT ![v] = r] /\ UNCHANGED <<delivered, oIncrCredits, oPortLocks>>
  BY <1>1, <1>2 DEF OutRun
<1>5. /\ IF AsksNow(q)
         THEN /\ oRequest' = [oRequest EXCEPT ![v] = OutRequest(v, r.flit)]
              /\ oEventAction' = "RUNALLOC"
         ELSE UNCHANGED <<oRequest, oEventAction>>
      /\ ~Sends(q) => oCredits' = oCredits
  BY <1>1, <1>2 DEF OutRun
<1>6. CASE q.fsm = "waiting"
  <2>1. r = q /\ ~Sends(q) /\ ~AsksNow(q)
    BY <1>2, <1>3, <1>6, WaitingStays
  <2>2. oq' = oq
    BY <1>2, <1>3, <1>4, <2>1
  <2>3. UNCHANGED oSchedVars
    BY <1>4, <1>5, <2>1 DEF oSchedVars
  <2>4. \A x \in Vcs : Sending(x)' = Sending(x)
    BY <1>4, <2>2, SendingIs
  <2>5. UNCHANGED OS!vars
    BY <2>2, <2>3, <2>4, OutStutters
  <2> QED
    BY <2>5
<1>7. CASE q.fsm # "waiting"
  <2>1. PICK ready, p, n : ready = Sends(q) /\ p = Sending(v) /\ n = Sending(v)'
    OBVIOUS
  <2>2. RunSends(v, q, p, n)
    <3>1. PICK D : D = delivered[v]
      OBVIOUS
    <3>2. D \in Seq(Main!Flits) /\ InPackets(D)
      BY <3>1, WholePackets
    <3>3. PICK g \in Seq(Main!Flits) : D = g \o OQ!Contents(q)
      BY <1>2, <3>1, LineOf
    <3>4. p = SendingOf(v, D, q)
      BY <1>2, <2>1, <3>1, SendingIs
    <3>5. oq'[v] = r /\ delivered'[v] = D
      BY <1>3, <1>4, <3>1
    <3>6. n = SendingOf(v, D, After(q))
      BY <1>2, <2>1, <3>5, SendingIs
    <3> QED
      BY <1>3, <1>7, <3>2, <3>3, <3>4, <3>6, RunSendsNext
  <2>3. PICK P, N, G, H, u, w : OsRun(v, ready, P, N, G, H, u, w, n)
    BY <1>1, <1>2, <2>1, OsRuns
  <2>4. /\ [x \in Vcs |-> Sending(x)] = P /\ [x \in Vcs |-> Sending(x)]' = N
        /\ {x \in Vcs : oq[x].fsm = "ready"} = G
        /\ {x \in Vcs : oq[x].fsm = "ready"}' = H
        /\ [x \in Vcs |-> InOutCrossbar(x) + away[x]] = u
        /\ [x \in Vcs |-> InOutCrossbar(x) + away[x]]' = w
    BY <2>3 DEF OsRun
  <2>5. /\ ready <=> v \in G
        /\ N = [P EXCEPT ![v] = n] /\ H = G \ {v}
        /\ w = IF ready THEN [u EXCEPT ![v] = @ + 1] ELSE u
        /\ IF ready THEN oCredits' = [oCredits EXCEPT ![v] = @ - 1] ELSE oCredits' = oCredits
        /\ UNCHANGED <<oIncrCredits, oPortLocks>>
    BY <2>3 DEF OsRun
  <2>6. P[v] = p /\ \A x \in Vcs : P[x] = Sending(x)
    BY <2>1, <2>4
  <2>7. PICK a : a = GrantUsed(p, ready)
    OBVIOUS
  <2>8. /\ ready => p # None /\ p.vc = v
        /\ ~AsksNow(q) => n = a
        /\ AsksNow(q) => /\ n # None /\ OutRequest(v, r.flit) = OS!NextRequest(n)
                         /\ \/ n = a
                            \/ a = None /\ \E z \in Main!PacketSizes : n = [vc |-> v, size |-> z, left |-> z]
    BY <1>2, <2>1, <2>2, <2>7 DEF RunSends
  <2>9. IF AsksNow(q) THEN OS!RequestFlit(v, OutRequest(v, r.flit))
        ELSE UNCHANGED <<oRequest, oEventAction>>
    BY <1>5 DEF OS!RequestFlit
  <2>10. oRequest[v] = None
    BY <1>3, <1>7
  <2>11. OS!PacketAfterGrant(v) = a
    BY <2>4, <2>5, <2>6, <2>7 DEF OS!PacketAfterGrant, GrantUsed
  <2>12. OS!UseGrant(v)
    <3>1. CASE ready
      BY <2>4, <2>5, <2>6, <2>8, <3>1 DEF OS!UseGrant, OS!DecrementCreditCount
    <3>2. CASE ~ready
      BY <2>4, <2>5, <3>2 DEF OS!UseGrant
    <3> QED
      BY <3>1, <3>2
  <2>13. CASE ready /\ ~AsksNow(q)
    <3>1. OS!ClientStep(v)
      BY <2>4, <2>5, <2>8, <2>9, <2>10, <2>11, <2>12, <2>13 DEF OS!ClientStep
    <3> QED
      BY <3>1 DEF OS!Next
  <2>14. CASE AsksNow(q) /\ n = a
    <3>1. OS!ClientStep(v)
      BY <2>4, <2>5, <2>8, <2>9, <2>10, <2>11, <2>12, <2>14 DEF OS!ClientStep
    <3> QED
      BY <3>1 DEF OS!Next
  <2>15. CASE AsksNow(q) /\ n # a
    <3>1. a = None
      BY <2>8, <2>15
    <3>2. PICK z \in Main!PacketSizes : n = [vc |-> v, size |-> z, left |-> z]
      BY <2>8, <2>15
    <3>3. \A x \in Vcs \ {v} : P[x] # None => P[x].vc # v
      BY <2>6, SendingIs, SendsOnItsVc
    <3>4. N = [P EXCEPT ![v] = [vc |-> v, size |-> z, left |-> z]]
          /\ OS!RequestFlit(v, OS!NextRequest([vc |-> v, size |-> z, left |-> z]))
      BY <2>5, <2>8, <2>9, <2>15, <3>2
    <3>5. OS!ClientStep(v)
      BY <2>4, <2>5, <2>10, <2>11, <2>12, <3>1, <3>3, <3>4 DEF OS!ClientStep
    <3> QED
      BY <3>5 DEF OS!Next
  <2>16. CASE ~ready /\ ~AsksNow(q)
    <3>1. n = p
      BY <2>7, <2>8, <2>16 DEF GrantUsed
    <3>2. N = P
      BY <2>4, <2>5, <2>6, <3>1
    <3>3. H = G /\ w = u /\ oCredits' = oCredits
      BY <2>5, <2>16
    <3> QED
      BY <2>4, <2>5, <2>9, <2>16, <3>2, <3>3 DEF OS!vars
  <2> QED
    BY <2>13, <2>14, <2>15, <2>16
<1> QED
  BY <1>6, <1>7

(* The other steps are none of its business.                               *)
LEMMA OutOtherSteps ==
  ASSUME MainInv, OutInv, OutInv',
         \/ MainSchedulers \/ MainCrossbarEvent \/ OutCrossbarEvent \/ Tick \/ UNCHANGED vars
         \/ \E c \in Clients : FlitArrives(c) \/ PipelineEvent(c)
  PROVE  UNCHANGED OS!vars
<1>1. UNCHANGED oSchedVars
  BY DEF MainSchedulers, MainCrossbarEvent, OutCrossbarEvent, Tick, vars, outVars, FlitArrives,
         PipelineEvent
<1>2. CASE MainCrossbarEvent
  <2>1. ASSUME NEW v \in Vcs PROVE oq'[v].fsm = oq[v].fsm /\ Sending(v)' = Sending(v)
    <3>1. CASE \E f \in Main!Flits : Receives(v, f)
      <4>1. PICK f \in Main!Flits : Receives(v, f)
        BY <3>1
      <4>2. PICK q, r, D, E : q = oq[v] /\ r = oq'[v] /\ D = delivered[v] /\ E = delivered'[v]
        OBVIOUS
      <4>3. q \in QueueType /\ D \in Seq(Main!Flits)
        BY <4>2, MainTypes DEF OutInv, OutTypes
      <4>4. r = OQ!Received(q, f) /\ E = Append(D, f)
        BY <4>1, <4>2 DEF Receives
      <4>5. r.fsm = q.fsm
        BY <4>3, <4>4, ReceivedIs
      <4>6. PICK g \in Seq(Main!Flits) : D = g \o OQ!Contents(q)
        BY <4>2, LineOf
      <4>7. SendingOf(v, Append(D, f), OQ!Received(q, f)) = SendingOf(v, D, q)
        BY <4>3, <4>6, ReceivedSends
      <4> QED
        BY <4>2, <4>4, <4>5, <4>7, SendingIs
    <3>2. CASE oq'[v] = oq[v] /\ delivered'[v] = delivered[v]
      BY <3>2, SendingIs
    <3> QED
      BY <1>2, <3>1, <3>2, OutReceives
  <2> QED
    BY <1>1, <2>1, OutStutters
<1>3. CASE \/ MainSchedulers \/ OutCrossbarEvent \/ Tick \/ UNCHANGED vars
           \/ \E c \in Clients : FlitArrives(c) \/ PipelineEvent(c)
  <2>1. UNCHANGED <<oq, delivered>>
    <3>1. CASE MainSchedulers \/ \E c \in Clients : FlitArrives(c) \/ PipelineEvent(c)
      BY <3>1 DEF MainSchedulers, FlitArrives, PipelineEvent, outVars, Main!VcSchedulerEvent,
                  Main!CrossbarSchedulerEvent, Main!RoutingResponse, Main!FlitArrives,
                  Main!PipelineEvent, Main!netVars
    <3>2. CASE OutCrossbarEvent \/ UNCHANGED vars
      BY <3>2 DEF OutCrossbarEvent, vars, outVars, mainVars
    <3>3. CASE Tick
      BY <3>3 DEF Tick, Main!Tick
    <3> QED
      BY <1>3, <3>1, <3>2, <3>3
  <2>2. \A v \in Vcs : Sending(v)' = Sending(v)
    BY <2>1, SendingIs
  <2> QED
    BY <1>1, <2>1, <2>2, OutStutters
<1> QED
  BY <1>2, <1>3

(* The output queues are the clients, and the channel is the neighbour,    *)
(* that the output scheduler expects ...                                   *)
LEMMA OsNext ==
  ASSUME MainInv, OutInv, OutInv', OutSettled, [Next]_vars
  PROVE  [OS!Next]_(OS!vars)
<1>1. CASE OutSchedulerEvent
  BY <1>1, OutSchedulerSteps DEF OS!Next
<1>2. CASE CreditArrives
  BY <1>2, OutCreditSteps DEF OS!Next
<1>3. ASSUME NEW v \in Vcs, OutPipelineEvent(v) PROVE [OS!Next]_(OS!vars)
  BY <1>3, OutPipelineSteps
<1>4. CASE \/ MainSchedulers \/ MainCrossbarEvent \/ OutCrossbarEvent \/ Tick \/ UNCHANGED vars
           \/ \E c \in Clients : FlitArrives(c) \/ PipelineEvent(c)
  BY <1>4, OutOtherSteps
<1> QED
  BY <1>1, <1>2, <1>3, <1>4 DEF Next, EngineStep

(* ... from the start.                                                     *)
LEMMA OsInit == Init => OS!Init
<1> SUFFICES ASSUME Init PROVE OS!Init
  OBVIOUS
<1>1. OutInv
  BY OutInvInit
<1>2. /\ oq = [v \in Vcs |-> OQ!EmptyQueue] /\ delivered = [v \in Vcs |-> <<>>]
      /\ oCredits = [v \in Vcs |-> Depth] /\ oIncrCredits = [v \in Vcs |-> 0]
  BY DEF Init, OS!SchedInit, Main!Init
<1>3. ASSUME NEW v \in Vcs PROVE Sending(v) = None
  <2>1. oq[v].flit = None /\ OQ!Contents(oq[v]) = <<>> /\ delivered[v] = <<>>
    BY <1>2 DEF OQ!EmptyQueue, OQ!Contents
  <2>2. Len(delivered[v]) - Len(OQ!Contents(oq[v])) = 0
    BY <2>1
  <2> QED
    BY <2>1, <2>2, SendingIs DEF SendingOf
<1>4. \A v \in Vcs : oq[v].fsm # "ready"
  BY <1>2 DEF OQ!EmptyQueue
<1>5. ASSUME NEW v \in Vcs PROVE InOutCrossbar(v) + away[v] = 0
  <2>1. oCredits[v] = Depth /\ oIncrCredits[v] = 0 /\ Depth \in Nat
    BY <1>2, OutputSettings DEF OS!SchedulerAssumption
  <2> QED
    BY <1>1, <2>1, TakenSum DEF Taken
<1>6. OS!SchedInit
  BY DEF Init
<1> QED
  BY <1>3, <1>4, <1>5, <1>6 DEF OS!Init

(* The input queues and the output queues are the well-behaved clients of  *)
(* their crossbar schedulers, and the output queues and the channel the    *)
(* well-behaved neighbours: the router implements the specification of the *)
(* crossbar scheduler twice, whatever its settings.                        *)
THEOREM UsesSchedulers == Spec => UsesBothSchedulers
<1>1. Init => Main!XS!Init /\ OS!Init /\ OutSettled
  <2> SUFFICES ASSUME Init PROVE Main!XS!Init /\ OS!Init /\ OutSettled
    OBVIOUS
  <2>1. Main!XS!Init
    BY Main!XsInit, MainSettings, MainVcAllocator, MainXbarAllocator DEF Init
  <2> QED
    BY <2>1, OsInit, OutSettledInit
<1>2. IoqInv /\ OutSettled /\ [Next]_vars => OutSettled'
  BY OutSettledNext DEF IoqInv
<1>3. IoqInv /\ IoqInv' /\ [Next]_vars => [Main!XS!Next]_(Main!XS!vars)
  <2> SUFFICES ASSUME IoqInv, IoqInv', [Next]_vars PROVE [Main!XS!Next]_(Main!XS!vars)
    OBVIOUS
  <2>1. Main!RouterStep
    BY StepsOfMain DEF IoqInv
  <2> QED
    BY <2>1, Main!RouterStepsXs, MainSettings, MainVcAllocator, MainXbarAllocator
       DEF IoqInv, MainInv
<1>4. IoqInv /\ IoqInv' /\ OutSettled /\ [Next]_vars => [OS!Next]_(OS!vars)
  BY OsNext DEF IoqInv
<1> QED
  BY <1>1, <1>2, <1>3, <1>4, IoqInvAlways, PTL
     DEF Spec, UsesBothSchedulers, Main!UsesCrossbarScheduler, Main!XS!Spec, OS!Spec

(* No buffer overflows, in the output queues or in the next router, and a  *)
(* flit never leaves without a credit.                                     *)
NoOverflow ==
  \A v \in Vcs : Len(oq[v].buffer) <= OutDepth /\ away[v] <= Depth /\ oCredits[v] >= 0

(* That follows for any sizes of buffers and packets from the credits of   *)
(* the two schedulers, which never go below zero.                          *)
THEOREM OutputsNeverOverflow == Spec => []NoOverflow
<1>1. IoqInv /\ Main!XS!CreditConservation /\ OS!CreditConservation => NoOverflow
  <2> SUFFICES ASSUME IoqInv, Main!XS!CreditConservation, OS!CreditConservation, NEW v \in Vcs
               PROVE  Len(oq[v].buffer) <= OutDepth /\ away[v] <= Depth /\ oCredits[v] >= 0
    BY DEF NoOverflow
  <2>1. oCredits[v] >= 0
    BY DEF OS!CreditConservation
  <2>2. away[v] <= Depth
    <3>1. PICK a, i \in Nat : a = away[v] /\ i = oIncrCredits[v]
      BY DEF IoqInv, OutInv, OutTypes
    <3>2. PICK c \in Int : c = oCredits[v]
      BY DEF IoqInv, OutInv, OutTypes
    <3>3. PICK s : s = oXbar
      OBVIOUS
    <3>4. s \in Seq(OutMap) /\ InOutCrossbar(v) = Cardinality(OutWith(s, v))
      BY <3>3 DEF IoqInv, OutInv, OutCrossbarInv, InOutCrossbar, OutWith
    <3>5. PICK n \in Nat : n = InOutCrossbar(v)
      BY <3>4, OutCounted
    <3>6. c + i + n + a = Depth
      BY <3>1, <3>2, <3>5 DEF IoqInv, OutInv, OutCredits
    <3> QED
      BY <2>1, <3>1, <3>2, <3>6
  <2>3. Len(oq[v].buffer) <= OutDepth
    <3>1. down[v] = Len(oq[v].buffer)
      BY DEF IoqInv, OutInv, SlotsTaken
    <3>2. Main!InCrossbar(v) \in Nat /\ Main!Used(v) = OutDepth - credits[v] - incrCredits[v]
      BY Main!UsedIs, MainSettings, MainVcAllocator, MainXbarAllocator
         DEF IoqInv, MainInv, Main!RouterInv
    <3>3. PICK m, i, d \in Nat : m = Main!InCrossbar(v) /\ i = incrCredits[v] /\ d = down[v]
      BY <3>2 DEF IoqInv, MainInv, Main!RouterInv, Main!CreditInv, Main!CreditTypes
    <3>4. PICK c \in Int : c = credits[v] /\ c >= 0
      BY DEF IoqInv, MainInv, Main!RouterInv, Main!CreditInv, Main!CreditTypes,
             Main!XS!CreditConservation
    <3>5. OutDepth \in Nat /\ m + d = OutDepth - c - i
      BY <3>2, <3>3, <3>4, MainSettings DEF Main!Used, Main!RouterAssumption
    <3>6. d <= OutDepth
      BY <3>3, <3>4, <3>5
    <3> QED
      BY <3>1, <3>3, <3>6
  <2> QED
    BY <2>1, <2>2, <2>3
<1>2. Main!XS!Spec => []Main!XS!CreditConservation
  BY Main!XS!CreditsAreConserved, Main!XsSettings, Main!XsAllocator,
     MainSettings, MainVcAllocator, MainXbarAllocator
<1>3. OS!Spec => []OS!CreditConservation
  BY OS!CreditsAreConserved, OutputSettings, OutputAllocator
<1> QED
  BY <1>1, <1>2, <1>3, IoqInvAlways, UsesSchedulers, PTL
     DEF UsesBothSchedulers, Main!UsesCrossbarScheduler
=============================================================================
