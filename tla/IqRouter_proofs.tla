-------------------------- MODULE IqRouter_proofs --------------------------
(***************************************************************************)
(* The input-queued router for every number of queues, VCs and ports,      *)
(* every buffer depth, latency and traffic, each flow control style and    *)
(* every allocator the schedulers may have: no queue is left asleep with a *)
(* flit in it, every buffer slot is accounted for and none overflows, both *)
(* schedulers are used as their own specifications say, and on every VC    *)
(* downstream the flits of a packet arrive in order, none missing, none    *)
(* twice and no other packet's between them.                               *)
(***************************************************************************)
EXTENDS IqRouter, BoundedInduction, FiniteSetTheorems, TLAPS

-----------------------------------------------------------------------------
(* What arrives.                                                           *)

(* The flits of the packets so far.                                        *)
LEMMA SumUnfolds ==
  ASSUME NEW s \in Seq(Nat \ {0})
  PROVE  /\ SumTo(s, 0) = 0
         /\ \A n \in 1..Len(s) : SumTo(s, n) = SumTo(s, n - 1) + s[n]
         /\ \A n \in 0..Len(s) : SumTo(s, n) \in Nat
<1> DEFINE L == Len(s)
           Body(f) == [i \in 0..L |-> IF i = 0 THEN 0 ELSE f[i - 1] + s[i]]
           sum == CHOOSE f : f = Body(f)
           S == (0..L) \X Nat
           first == <<0, 0>>
           step == [x \in S |-> IF x[1] < L THEN <<x[1] + 1, x[2] + s[x[1] + 1]>> ELSE x]
<1>0. L \in Nat /\ \A i \in 1..L : s[i] \in Nat
  OBVIOUS
<1>1. first \in S /\ step \in [S -> S]
  <2>1. ASSUME NEW x \in S, x[1] < L PROVE <<x[1] + 1, x[2] + s[x[1] + 1]>> \in S
    <3>1. x[1] \in 0..L /\ x[2] \in Nat
      OBVIOUS
    <3>2. x[1] + 1 \in 1..L
      BY <1>0, <2>1, <3>1
    <3>3. x[1] + 1 \in 0..L /\ x[2] + s[x[1] + 1] \in Nat
      BY <1>0, <3>1, <3>2
    <3> QED
      BY <3>3
  <2>2. first \in S
    BY <1>0
  <2> QED
    BY <2>1, <2>2
<1>2. PICK g : Steps(g, L, S, first, step)
  <2> HIDE DEF L, S, first, step
  <2> QED
    BY <1>0, <1>1, RecursionExists
<1>3. g \in [0..L -> S] /\ g[0] = <<0, 0>> /\ \A k \in 1..L : g[k] = step[g[k - 1]]
  BY <1>2 DEF Steps
<1>4. \A k \in 0..L : g[k][1] = k
  <2> DEFINE X == {k \in 0..L : g[k][1] = k}
  <2>1. 0 \in X
    BY <1>0, <1>3
  <2>2. ASSUME NEW k \in X, k \in 0..L /\ k < L PROVE k + 1 \in X
    <3>1. k + 1 \in 1..L /\ (k + 1) - 1 = k
      BY <1>0, <2>2
    <3>2. g[k + 1] = step[g[k]]
      BY <1>3, <3>1
    <3>3. g[k] \in S /\ g[k][1] = k
      BY <1>3
    <3>4. g[k + 1] = <<k + 1, g[k][2] + s[k + 1]>>
      BY <2>2, <3>2, <3>3
    <3> QED
      BY <3>1, <3>4
  <2> HIDE DEF X, L
  <2>3. 0..L \subseteq X
    BY <1>0, <2>1, <2>2, InductionUpTo
  <2> QED
    BY <2>3 DEF X
<1>5. [k \in 0..L |-> g[k][2]] = Body([k \in 0..L |-> g[k][2]])
  <2>1. ASSUME NEW k \in 1..L PROVE g[k][2] = g[k - 1][2] + s[k]
    <3>1. k - 1 \in 0..L /\ k - 1 < L /\ (k - 1) + 1 = k
      BY <1>0
    <3>2. g[k - 1] \in S /\ g[k - 1][1] = k - 1
      BY <1>3, <1>4, <3>1
    <3>3. g[k] = <<k, g[k - 1][2] + s[k]>>
      BY <1>3, <3>1, <3>2
    <3> QED
      BY <3>3
  <2>2. g[0][2] = 0
    BY <1>3
  <2> DEFINE f == [k \in 0..L |-> g[k][2]]
  <2>3. \A k \in 0..L : f[k] = IF k = 0 THEN 0 ELSE f[k - 1] + s[k]
    <3> SUFFICES ASSUME NEW k \in 0..L, k # 0 PROVE f[k] = f[k - 1] + s[k]
      BY <2>2
    <3>1. k \in 1..L /\ k - 1 \in 0..L
      BY <1>0
    <3> QED
      BY <2>1, <3>1
  <2> HIDE DEF L
  <2> QED
    BY <2>3
<1>6. sum = Body(sum)
  <2> HIDE DEF Body
  <2> QED
    BY <1>5
<1>7. \A n : SumTo(s, n) = sum[n]
  BY DEF SumTo
<1> HIDE DEF sum
<1>8. sum[0] = 0 /\ \A k \in 1..L : sum[k] = sum[k - 1] + s[k]
  <2>1. \A k \in 0..L : sum[k] = IF k = 0 THEN 0 ELSE sum[k - 1] + s[k]
    BY <1>6
  <2>2. 0 \in 0..L /\ \A k \in 1..L : k \in 0..L /\ k # 0
    BY <1>0
  <2> HIDE DEF L
  <2> QED
    BY <2>1, <2>2
<1>9. \A k \in 0..L : sum[k] \in Nat
  <2> DEFINE X == {k \in 0..L : sum[k] \in Nat}
  <2>1. 0 \in X
    BY <1>0, <1>8
  <2>2. ASSUME NEW k \in X, k \in 0..L /\ k < L PROVE k + 1 \in X
    <3>1. k + 1 \in 1..L /\ k + 1 \in 0..L /\ (k + 1) - 1 = k
      BY <1>0, <2>2
    <3>2. sum[k + 1] = sum[k] + s[k + 1]
      BY <1>8, <3>1
    <3> QED
      BY <1>0, <3>1, <3>2
  <2> HIDE DEF X, L
  <2>3. 0..L \subseteq X
    BY <1>0, <2>1, <2>2, InductionUpTo
  <2> QED
    BY <2>3 DEF X
<1> QED
  BY <1>7, <1>8, <1>9

(* The sums rise.                                                          *)
LEMMA SumsRise ==
  ASSUME NEW s \in Seq(Nat \ {0}), NEW m \in 0..Len(s), NEW n \in 0..Len(s), m <= n
  PROVE  SumTo(s, m) <= SumTo(s, n)
<1> DEFINE L == Len(s)
           X == {k \in 0..L : \A j \in 0..k : SumTo(s, j) <= SumTo(s, k)}
<1>1. L \in Nat /\ \A i \in 1..L : s[i] \in Nat
  OBVIOUS
<1>2. 0 \in X
  <2>1. SumTo(s, 0) \in Nat /\ 0..0 = {0} /\ 0 \in 0..L
    BY <1>1, SumUnfolds
  <2> QED
    BY <2>1
<1>3. ASSUME NEW k \in X, k \in 0..L /\ k < L PROVE k + 1 \in X
  <2>1. k + 1 \in 1..L /\ k + 1 \in 0..L /\ (k + 1) - 1 = k /\ 0..(k + 1) = (0..k) \cup {k + 1}
    BY <1>1, <1>3
  <2>2. SumTo(s, k + 1) = SumTo(s, k) + s[k + 1]
    BY <2>1, SumUnfolds
  <2>3. \A j \in 0..L : SumTo(s, j) \in Nat
    BY SumUnfolds
  <2>4. s[k + 1] \in Nat
    BY <1>1, <2>1
  <2>5. ASSUME NEW j \in 0..k PROVE SumTo(s, j) <= SumTo(s, k + 1)
    <3>1. SumTo(s, j) <= SumTo(s, k) /\ j \in 0..L
      BY <1>3
    <3> QED
      BY <1>3, <2>2, <2>3, <2>4, <3>1
  <2>6. SumTo(s, k + 1) <= SumTo(s, k + 1)
    BY <2>1, <2>3
  <2> QED
    BY <2>1, <2>5, <2>6
<1> HIDE DEF X, L
<1>4. 0..L \subseteq X
  BY <1>1, <1>2, <1>3, InductionUpTo
<1> QED
  BY <1>4 DEF X, L

(* Flit i belongs to exactly one packet.                                   *)
Holds(c, n, i) == SumTo(Traffic[c], n - 1) < i /\ i <= SumTo(Traffic[c], n)

(* Every flit that is to arrive belongs to exactly one packet of its       *)
(* queue's traffic.                                                        *)
LEMMA PacketOfFlit ==
  ASSUME NEW c \in Clients, NEW i \in 1..TotalFlits(c)
  PROVE  /\ TotalFlits(c) \in Nat
         /\ \E n \in 1..Len(Traffic[c]) : Holds(c, n, i)
         /\ \A m, n \in 1..Len(Traffic[c]) : Holds(c, m, i) /\ Holds(c, n, i) => m = n
<1> DEFINE s == Traffic[c]
           L == Len(s)
           T == {n \in 0..L : i <= SumTo(s, n)}
<1>0. s \in Seq(Nat \ {0}) /\ L \in Nat
  BY RouterAssumption
<1>1. SumTo(s, 0) = 0 /\ \A n \in 0..L : SumTo(s, n) \in Nat
  BY <1>0, SumUnfolds
<1>2. TotalFlits(c) \in Nat /\ i \in Nat /\ 0 < i /\ i <= SumTo(s, L)
  BY <1>0, <1>1 DEF TotalFlits
<1>3. PICK m \in T : \A k \in T : m <= k
  <2>1. L \in T /\ T \in SUBSET Nat
    BY <1>0, <1>2
  <2> HIDE DEF T
  <2> QED
    BY <2>1, LeastNumber
<1>4. m \in 0..L /\ i <= SumTo(s, m) /\ m # 0
  BY <1>1, <1>2, <1>3
<1>5. m - 1 \in 0..L /\ m \in 1..L /\ m - 1 < m
  BY <1>0, <1>4
<1>6. m - 1 \notin T
  BY <1>0, <1>3, <1>5
<1>7. Holds(c, m, i)
  BY <1>1, <1>2, <1>4, <1>5, <1>6 DEF Holds
<1>8. ASSUME NEW k \in 1..L, NEW n \in 1..L, Holds(c, k, i), Holds(c, n, i), k < n PROVE FALSE
  <2>1. k \in 0..L /\ n - 1 \in 0..L /\ k <= n - 1
    BY <1>0, <1>8
  <2>2. SumTo(s, k) <= SumTo(s, n - 1)
    BY <1>0, <2>1, SumsRise
  <2>3. SumTo(s, k) \in Nat /\ SumTo(s, n - 1) \in Nat
    BY <1>1, <2>1
  <2>4. i <= SumTo(s, k) /\ SumTo(s, n - 1) < i
    BY <1>8 DEF Holds
  <2> HIDE DEF s
  <2> QED
    BY <1>2, <2>2, <2>3, <2>4
<1>9. ASSUME NEW k \in 1..L, NEW n \in 1..L, Holds(c, k, i), Holds(c, n, i) PROVE k = n
  <2>1. ~(k < n) /\ ~(n < k)
    BY <1>8, <1>9
  <2> QED
    BY <1>0, <2>1
<1> QED
  BY <1>2, <1>5, <1>7, <1>9

(* Flit i is one of its packet; the next flit starts a packet exactly when *)
(* this one ends one, and otherwise is the next of the same packet.        *)
Open(c, i) == i > 0 /\ ~IQ!IsTail(FlitNumber(c, i))

(* A flit is numbered by its packet and by its place in it.                *)
LEMMA PlaceOfFlit ==
  ASSUME NEW c \in Clients, NEW i \in 1..TotalFlits(c), NEW n \in 1..Len(Traffic[c]), Holds(c, n, i)
  PROVE  FlitNumber(c, i) = [client |-> c, packet |-> n, index |-> i - SumTo(Traffic[c], n - 1),
                             size |-> Traffic[c][n]]
<1> DEFINE m == CHOOSE k \in 1..Len(Traffic[c]) : Holds(c, k, i)
<1>1. m \in 1..Len(Traffic[c]) /\ Holds(c, m, i)
  BY PacketOfFlit
<1> HIDE DEF m
<1>2. m = n
  BY <1>1, PacketOfFlit
<1>3. FlitNumber(c, i) = IQ!FlitOf(c, m, i - SumTo(Traffic[c], m - 1), Traffic[c][m])
  BY DEF FlitNumber, Holds, m
<1> QED
  BY <1>2, <1>3 DEF IQ!FlitOf

(* Packets have at least one flit.                                         *)
LEMMA SizesPositive == PacketSizes \subseteq Nat \ {0}
BY RouterAssumption DEF PacketSizes

(* The numbers that a flit carries.                                        *)
LEMMA FlitNumbers ==
  ASSUME NEW f \in Flits
  PROVE  f.index \in Nat \ {0} /\ f.size \in Nat \ {0} /\ f.size \in PacketSizes
BY SizesPositive DEF Flits

(* What arrives are flits, and none has an index beyond the size of its    *)
(* packet.                                                                 *)
LEMMA FlitsArrive ==
  ASSUME NEW c \in Clients, NEW i \in 1..TotalFlits(c)
  PROVE  /\ FlitNumber(c, i) \in Flits
         /\ FlitNumber(c, i).index <= FlitNumber(c, i).size
<1> DEFINE s == Traffic[c]
<1>1. PICK n \in 1..Len(s) : Holds(c, n, i)
  BY PacketOfFlit
<1>2. FlitNumber(c, i) = [client |-> c, packet |-> n, index |-> i - SumTo(s, n - 1), size |-> s[n]]
  BY <1>1, PlaceOfFlit
<1>3. s \in Seq(Nat \ {0}) /\ Len(s) \in Nat
  BY RouterAssumption
<1>4. n \in Nat /\ n - 1 \in 0..Len(s) /\ s[n] \in Nat /\ s[n] \in PacketSizes
  BY <1>1, <1>3 DEF PacketSizes
<1>5. SumTo(s, n - 1) \in Nat /\ SumTo(s, n) = SumTo(s, n - 1) + s[n]
  BY <1>1, <1>3, <1>4, SumUnfolds
<1>6. i \in Nat /\ SumTo(s, n - 1) < i /\ i <= SumTo(s, n)
  BY <1>1, PacketOfFlit DEF Holds
<1> HIDE DEF s
<1>7. i - SumTo(s, n - 1) \in Nat \ {0} /\ i - SumTo(s, n - 1) <= s[n]
  BY <1>4, <1>5, <1>6
<1> QED
  BY <1>2, <1>4, <1>7 DEF Flits

(* The first flit that arrives at a queue is a head flit.                  *)
LEMMA FirstFlit ==
  ASSUME NEW c \in Clients, 1 \in 1..TotalFlits(c)
  PROVE  IQ!IsHead(FlitNumber(c, 1))
<1> DEFINE s == Traffic[c]
<1>1. s \in Seq(Nat \ {0}) /\ Len(s) \in Nat
  BY RouterAssumption
<1>2. PICK n \in 1..Len(s) : Holds(c, n, 1)
  BY PacketOfFlit
<1>3. FlitNumber(c, 1) = [client |-> c, packet |-> n, index |-> 1 - SumTo(s, n - 1), size |-> s[n]]
  BY <1>2, PlaceOfFlit
<1>4. SumTo(s, n - 1) \in Nat /\ SumTo(s, n - 1) < 1
  <2>1. n - 1 \in 0..Len(s)
    BY <1>1
  <2> QED
    BY <1>1, <1>2, <2>1, SumUnfolds DEF Holds
<1> HIDE DEF s
<1>5. 1 - SumTo(s, n - 1) = 1
  BY <1>4
<1> QED
  BY <1>3, <1>5 DEF IQ!IsHead

(* After the tail of a packet arrives a head, after any other flit the     *)
(* next of its packet.                                                     *)
LEMMA NextFlitFollows ==
  ASSUME NEW c \in Clients, NEW i \in 1..TotalFlits(c), i + 1 \in 1..TotalFlits(c)
  PROVE  /\ IQ!IsTail(FlitNumber(c, i)) => IQ!IsHead(FlitNumber(c, i + 1))
         /\ ~IQ!IsTail(FlitNumber(c, i)) =>
              /\ FlitNumber(c, i + 1) = [FlitNumber(c, i) EXCEPT !.index = @ + 1]
              /\ ~IQ!IsHead(FlitNumber(c, i + 1))
<1> DEFINE s == Traffic[c]
           L == Len(s)
           S(k) == SumTo(s, k)
<1>1. s \in Seq(Nat \ {0}) /\ L \in Nat
  BY RouterAssumption
<1>2. PICK n \in 1..L : Holds(c, n, i)
  BY PacketOfFlit
<1>3. FlitNumber(c, i) = [client |-> c, packet |-> n, index |-> i - S(n - 1), size |-> s[n]]
  BY <1>2, PlaceOfFlit
<1>4. n \in Nat /\ n - 1 \in 0..L /\ n \in 0..L /\ s[n] \in Nat
  BY <1>1
<1>5. S(n - 1) \in Nat /\ S(n) \in Nat /\ S(n) = S(n - 1) + s[n]
  BY <1>1, <1>4, SumUnfolds
<1>6. i \in Nat /\ S(n - 1) < i /\ i <= S(n)
  BY <1>2, PacketOfFlit DEF Holds
<1>7. CASE i < S(n)
  <2>1. Holds(c, n, i + 1)
    <3>1. S(n - 1) < i + 1 /\ i + 1 <= S(n)
      <4> HIDE DEF S
      <4> QED
        BY <1>5, <1>6, <1>7
    <3> QED
      BY <3>1 DEF Holds
  <2>2. FlitNumber(c, i + 1) = [client |-> c, packet |-> n, index |-> (i + 1) - S(n - 1), size |-> s[n]]
    BY <2>1, PlaceOfFlit
  <2> HIDE DEF S, s
  <2>3. PICK k \in Nat : k = i - S(n - 1)
    BY <1>5, <1>6
  <2>4. (i + 1) - S(n - 1) = k + 1 /\ k # s[n] /\ k + 1 # 1
    <3>1. PICK m, l \in Nat : m = S(n - 1) /\ l = s[n]
      BY <1>4, <1>5
    <3>2. i \in Nat /\ k = i - m /\ m < i /\ i < m + l
      BY <1>5, <1>6, <1>7, <2>3, <3>1
    <3>3. (i + 1) - m = k + 1 /\ k # l /\ k + 1 # 1
      BY <3>2
    <3> QED
      BY <3>1, <3>3
  <2>5. FlitNumber(c, i) = [client |-> c, packet |-> n, index |-> k, size |-> s[n]]
    BY <1>3, <2>3
  <2>6. FlitNumber(c, i + 1) = [client |-> c, packet |-> n, index |-> k + 1, size |-> s[n]]
    BY <2>2, <2>4
  <2> QED
    BY <2>4, <2>5, <2>6 DEF IQ!IsHead, IQ!IsTail
<1>8. CASE i = S(n)
  <2>1. i + 1 <= S(L)
    BY PacketOfFlit DEF TotalFlits
  <2>2. n + 1 \in 1..L /\ n + 1 \in 0..L /\ (n + 1) - 1 = n
    <3>1. n # L
      <4> HIDE DEF S, s
      <4> QED
        BY <1>5, <1>6, <1>8, <2>1
    <3> QED
      BY <1>1, <1>4, <3>1
  <2>3. S(n + 1) = S(n) + s[n + 1] /\ s[n + 1] \in Nat \ {0}
    <3>1. SumTo(s, n + 1) = SumTo(s, (n + 1) - 1) + s[n + 1]
      BY <1>1, <2>2, SumUnfolds
    <3>2. s[n + 1] \in Nat \ {0}
      BY <1>1, <2>2
    <3> QED
      BY <2>2, <3>1, <3>2
  <2>4. Holds(c, n + 1, i + 1)
    <3>1. S(n) < i + 1 /\ i + 1 <= S(n + 1)
      <4> HIDE DEF S, s
      <4> QED
        BY <1>5, <1>6, <1>8, <2>3
    <3> QED
      BY <2>2, <3>1 DEF Holds
  <2>5. FlitNumber(c, i + 1) = [client |-> c, packet |-> n + 1, index |-> (i + 1) - S(n), size |-> s[n + 1]]
    <3>1. FlitNumber(c, i + 1) = [client |-> c, packet |-> n + 1, index |-> (i + 1) - S((n + 1) - 1),
                                  size |-> s[n + 1]]
      BY <2>2, <2>4, PlaceOfFlit
    <3> QED
      BY <2>2, <3>1
  <2> HIDE DEF S, s
  <2>6. (i + 1) - S(n) = 1 /\ i - S(n - 1) = s[n]
    BY <1>4, <1>5, <1>6, <1>8
  <2>7. IQ!IsTail(FlitNumber(c, i))
    BY <1>3, <2>6 DEF IQ!IsTail
  <2>8. IQ!IsHead(FlitNumber(c, i + 1))
    BY <2>5, <2>6 DEF IQ!IsHead
  <2> QED
    BY <2>7, <2>8
<1> HIDE DEF S
<1> QED
  BY <1>5, <1>6, <1>7, <1>8

(* The traffic of a queue is finite.                                       *)
LEMMA FlitsAreCounted ==
  ASSUME NEW c \in Clients
  PROVE  TotalFlits(c) \in Nat
<1>1. Traffic[c] \in Seq(Nat \ {0}) /\ Len(Traffic[c]) \in 0..Len(Traffic[c])
  BY RouterAssumption
<1> QED
  BY <1>1, SumUnfolds DEF TotalFlits

(* A flit is a head exactly if no packet is open before it.                *)
LEMMA HeadsFollowTails ==
  ASSUME NEW c \in Clients, NEW k \in Nat, k + 1 <= TotalFlits(c)
  PROVE  IQ!IsHead(FlitNumber(c, k + 1)) <=> ~Open(c, k)
<1>1. PICK T \in Nat : T = TotalFlits(c)
  BY FlitsAreCounted
<1>2. k + 1 \in 1..TotalFlits(c)
  BY <1>1
<1>3. CASE k = 0
  BY <1>2, <1>3, FirstFlit DEF Open
<1>4. CASE k # 0
  <2>1. k \in 1..TotalFlits(c) /\ k > 0
    BY <1>1, <1>4
  <2> QED
    BY <1>2, <2>1, NextFlitFollows DEF Open
<1> QED
  BY <1>3, <1>4

-----------------------------------------------------------------------------
(* One input queue: a, the flits that have arrived at it, are numbered;    *)
(* the buffer and each stage hold the numbers that follow on one another.  *)
States == {"empty", "toRequest", "waiting", "ready"}

QueueType ==
  [buffer : Seq(Flits),
   rfe : [fsm : States, flit : Flits \cup {None}, route : SUBSET Vcs, wait : Int],
   vca : [fsm : States, flit : Flits \cup {None}, route : SUBSET Vcs, vc : Vcs \cup {None}],
   swa : [fsm : States, flit : Flits \cup {None}, vc : Vcs \cup {None}]]

In(s) == IF s.flit = None THEN 0 ELSE 1
LeftBuffer(q, a) == a - Len(q.buffer)
LeftRfe(q, a) == LeftBuffer(q, a) - In(q.rfe)
LeftVca(q, a) == LeftRfe(q, a) - In(q.vca)
LeftSwa(q, a) == LeftVca(q, a) - In(q.swa)

Numbered(c, a, q) ==
  /\ a <= TotalFlits(c) /\ LeftSwa(q, a) >= 0
  /\ \A i \in 1..Len(q.buffer) : q.buffer[i] = FlitNumber(c, LeftBuffer(q, a) + i)
  /\ q.rfe.flit # None => q.rfe.flit = FlitNumber(c, LeftBuffer(q, a))
  /\ q.vca.flit # None => q.vca.flit = FlitNumber(c, LeftRfe(q, a))
  /\ q.swa.flit # None => q.swa.flit = FlitNumber(c, LeftVca(q, a))

(* A stage that is not empty has a flit.                                   *)
Filled(q) == /\ q.rfe.fsm = "empty" <=> q.rfe.flit = None
             /\ q.vca.fsm = "empty" <=> q.vca.flit = None
             /\ q.swa.fsm = "empty" <=> q.swa.flit = None

(* vca has the VC of a packet from its head's grant until its tail leaves, *)
(* swa that of the flit in it.                                             *)
VcKept(c, a, q) ==
  /\ q.vca.fsm = "empty" => IF Open(c, LeftVca(q, a)) THEN q.vca.vc \in Vcs ELSE q.vca.vc = None
  /\ q.vca.fsm \in {"toRequest", "waiting"} => q.vca.vc = None /\ IQ!IsHead(q.vca.flit)
  /\ q.vca.fsm = "ready" => q.vca.vc \in Vcs
  /\ q.swa.fsm # "empty" => q.swa.vc \in Vcs /\ (~IQ!IsTail(q.swa.flit) => q.vca.vc = q.swa.vc)
  /\ q.swa.fsm = "empty" => q.swa.vc = None

QueueInv(c, a, q) == q \in QueueType /\ Filled(q) /\ Numbered(c, a, q) /\ VcKept(c, a, q)

(* How many flits have left the buffer, of those that have arrived.        *)
LEMMA BufferNumbers ==
  ASSUME NEW a \in Nat, NEW q \in QueueType
  PROVE  /\ Len(q.buffer) \in Nat /\ LeftBuffer(q, a) = a - Len(q.buffer)
         /\ LeftBuffer(q, a) \in Int /\ LeftBuffer(q, a) <= a
<1>1. Len(q.buffer) \in Nat
  <2>1. q.buffer \in Seq(Flits)
    BY DEF QueueType
  <2> QED
    BY <2>1
<1>2. PICK n \in Nat : n = Len(q.buffer)
  BY <1>1
<1>3. LeftBuffer(q, a) = a - n
  BY <1>2 DEF LeftBuffer
<1> QED
  BY <1>2, <1>3

(* A flit that goes into the crossbar leaves the queue in order.           *)
LEMMA InjectKeeps ==
  ASSUME NEW c, NEW a \in Nat, NEW q, QueueInv(c, a, q)
  PROVE  QueueInv(c, a, IQ!AfterInject(q))
<1> DEFINE r == IQ!AfterInject(q)
<1>1. SUFFICES ASSUME q.swa.fsm = "ready" PROVE QueueInv(c, a, r)
  BY DEF IQ!AfterInject, IQ!InjectReady
<1>2. r = [q EXCEPT !.swa = [fsm |-> "empty", flit |-> None, vc |-> None]]
  BY <1>1 DEF IQ!AfterInject, IQ!InjectReady, IQ!EmptySwa
<1>3. r = [buffer |-> q.buffer, rfe |-> q.rfe, vca |-> q.vca,
           swa |-> [fsm |-> "empty", flit |-> None, vc |-> None]]
  BY <1>2 DEF QueueInv, QueueType
<1> HIDE DEF r
<1>4. r \in QueueType
  BY <1>3 DEF QueueInv, QueueType, States
<1>5. Filled(r)
  BY <1>3 DEF QueueInv, Filled
<1>6. LeftBuffer(r, a) = LeftBuffer(q, a) /\ LeftRfe(r, a) = LeftRfe(q, a) /\ LeftVca(r, a) = LeftVca(q, a)
  BY <1>3 DEF LeftBuffer, LeftRfe, LeftVca
<1>7. Len(q.buffer) \in Nat
  BY DEF QueueInv, QueueType
<1>8. LeftSwa(q, a) = LeftVca(q, a) - 1 /\ LeftSwa(r, a) = LeftVca(q, a) /\ LeftVca(q, a) \in Int
  BY <1>1, <1>3, <1>6, <1>7 DEF LeftSwa, LeftVca, LeftRfe, LeftBuffer, In, QueueInv, Filled
<1>9. Numbered(c, a, r)
  BY <1>3, <1>6, <1>8 DEF QueueInv, Numbered
<1>10. VcKept(c, a, r)
  BY <1>3, <1>6 DEF QueueInv, VcKept
<1> QED
  BY <1>4, <1>5, <1>9, <1>10 DEF QueueInv

(* The second stage moves the next flit of a packet, and its VC with it,   *)
(* to swa.                                                                 *)
LEMMA LoadSwaKeeps ==
  ASSUME NEW c, NEW a \in Nat, NEW q, QueueInv(c, a, q)
  PROVE  QueueInv(c, a, IQ!AfterLoadSwa(q))
<1> DEFINE r == IQ!AfterLoadSwa(q)
           vc == IF IQ!IsTail(q.vca.flit) THEN None ELSE q.vca.vc
<1>1. SUFFICES ASSUME q.swa.fsm = "empty", q.vca.fsm = "ready" PROVE QueueInv(c, a, r)
  BY DEF IQ!AfterLoadSwa
<1>2. r = [buffer |-> q.buffer, rfe |-> q.rfe,
           vca |-> [fsm |-> "empty", flit |-> None, route |-> {}, vc |-> vc],
           swa |-> [fsm |-> "toRequest", flit |-> q.vca.flit, vc |-> q.vca.vc]]
  BY <1>1 DEF QueueInv, QueueType, IQ!AfterLoadSwa
<1> HIDE DEF r
<1>3. q.vca.flit \in Flits /\ q.vca.flit # None /\ q.vca.vc \in Vcs /\ q.swa.flit = None
  BY <1>1 DEF QueueInv, QueueType, Filled, VcKept
<1>4. r \in QueueType
  <2>1. vc \in Vcs \cup {None}
    BY <1>3
  <2> HIDE DEF vc
  <2> QED
    BY <1>2, <1>3, <2>1 DEF QueueInv, QueueType, States
<1>5. Filled(r)
  BY <1>2, <1>3 DEF QueueInv, Filled
<1>6. LeftBuffer(r, a) = LeftBuffer(q, a) /\ LeftRfe(r, a) = LeftRfe(q, a)
  BY <1>2 DEF LeftBuffer, LeftRfe
<1>7. LeftRfe(q, a) \in Int
  <2>1. Len(q.buffer) \in Nat
    BY DEF QueueInv, QueueType
  <2> QED
    BY <2>1 DEF LeftRfe, LeftBuffer, In
<1>8. /\ LeftVca(q, a) = LeftRfe(q, a) - 1 /\ LeftSwa(q, a) = LeftRfe(q, a) - 1
      /\ LeftVca(r, a) = LeftRfe(q, a) /\ LeftSwa(r, a) = LeftRfe(q, a) - 1
  BY <1>2, <1>3, <1>6, <1>7 DEF LeftSwa, LeftVca, In
<1>9. q.vca.flit = FlitNumber(c, LeftRfe(q, a)) /\ LeftRfe(q, a) > 0
  BY <1>3, <1>7, <1>8 DEF QueueInv, Numbered
<1>10. Numbered(c, a, r)
  BY <1>2, <1>6, <1>8, <1>9 DEF QueueInv, Numbered
<1>11. VcKept(c, a, r)
  BY <1>2, <1>3, <1>8, <1>9 DEF VcKept, Open
<1> QED
  BY <1>4, <1>5, <1>10, <1>11 DEF QueueInv

(* Nothing moves.                                                          *)
SameFlits(q, r) ==
  /\ r.buffer = q.buffer
  /\ r.rfe.flit = q.rfe.flit /\ r.vca.flit = q.vca.flit /\ r.swa.flit = q.swa.flit

(* A stage that moves no flit keeps the flits' numbers.                    *)
LEMMA NothingMoves ==
  ASSUME NEW c, NEW a, NEW q, NEW r, SameFlits(q, r)
  PROVE  /\ LeftBuffer(r, a) = LeftBuffer(q, a) /\ LeftRfe(r, a) = LeftRfe(q, a)
         /\ LeftVca(r, a) = LeftVca(q, a) /\ LeftSwa(r, a) = LeftSwa(q, a)
         /\ Numbered(c, a, q) => Numbered(c, a, r)
<1>1. /\ LeftBuffer(r, a) = LeftBuffer(q, a) /\ LeftRfe(r, a) = LeftRfe(q, a)
      /\ LeftVca(r, a) = LeftVca(q, a) /\ LeftSwa(r, a) = LeftSwa(q, a)
  BY DEF SameFlits, LeftSwa, LeftVca, LeftRfe, LeftBuffer, In
<1> QED
  BY <1>1 DEF SameFlits, Numbered

(* A request to the crossbar scheduler moves no flit.                      *)
LEMMA SubmitSwaKeeps ==
  ASSUME NEW c, NEW a \in Nat, NEW q, QueueInv(c, a, q)
  PROVE  QueueInv(c, a, IQ!AfterSubmitSwa(q))
<1> DEFINE r == IQ!AfterSubmitSwa(q)
<1>1. SUFFICES ASSUME q.swa.fsm = "toRequest" PROVE QueueInv(c, a, r)
  BY DEF IQ!AfterSubmitSwa, IQ!SwaAsks
<1>2. r = [buffer |-> q.buffer, rfe |-> q.rfe, vca |-> q.vca,
           swa |-> [fsm |-> "waiting", flit |-> q.swa.flit, vc |-> q.swa.vc]]
  BY <1>1 DEF QueueInv, QueueType, IQ!AfterSubmitSwa, IQ!SwaAsks
<1> HIDE DEF r
<1>3. r \in QueueType /\ Filled(r)
  BY <1>1, <1>2 DEF QueueInv, QueueType, Filled, States
<1>4. SameFlits(q, r)
  BY <1>2 DEF SameFlits
<1>5. Numbered(c, a, r) /\ LeftVca(r, a) = LeftVca(q, a)
  BY <1>4, NothingMoves DEF QueueInv
<1>6. VcKept(c, a, r)
  BY <1>1, <1>2, <1>5 DEF QueueInv, VcKept
<1> QED
  BY <1>3, <1>5, <1>6 DEF QueueInv

(* The fourth stage moves a routed head, or the next body flit, to vca.    *)
LEMMA LoadVcaKeeps ==
  ASSUME NEW c \in Clients, NEW a \in Nat, NEW q, QueueInv(c, a, q)
  PROVE  QueueInv(c, a, IQ!AfterLoadVca(q))
<1> DEFINE r == IQ!AfterLoadVca(q)
           fsm == IF IQ!IsHead(q.rfe.flit) THEN "toRequest" ELSE "ready"
<1>1. SUFFICES ASSUME q.vca.fsm = "empty", q.rfe.fsm = "ready" PROVE QueueInv(c, a, r)
  BY DEF IQ!AfterLoadVca
<1>2. r = [buffer |-> q.buffer, rfe |-> [fsm |-> "empty", flit |-> None, route |-> {}, wait |-> 0],
           vca |-> [fsm |-> fsm, flit |-> q.rfe.flit, route |-> q.rfe.route, vc |-> q.vca.vc],
           swa |-> q.swa]
  BY <1>1 DEF QueueInv, QueueType, IQ!AfterLoadVca, IQ!EmptyRfe
<1> HIDE DEF r
<1>3. /\ q.rfe.flit \in Flits /\ q.rfe.flit # None /\ q.vca.flit = None
      /\ q.rfe.route \in SUBSET Vcs /\ q.vca.vc \in Vcs \cup {None}
  BY <1>1 DEF QueueInv, QueueType, Filled
<1>4. r \in QueueType
  <2>1. fsm \in States
    BY DEF States
  <2> HIDE DEF fsm
  <2> QED
    BY <1>2, <1>3, <2>1 DEF QueueInv, QueueType, States
<1>5. Filled(r)
  BY <1>2, <1>3 DEF QueueInv, Filled
<1>6. LeftBuffer(r, a) = LeftBuffer(q, a)
  BY <1>2 DEF LeftBuffer
<1>7. LeftBuffer(q, a) \in Int /\ LeftBuffer(q, a) <= a
  BY BufferNumbers DEF QueueInv
<1>8. PICK k \in Int : LeftBuffer(q, a) = k + 1 /\ k + 1 <= a
  <2>1. PICK n \in Int : n = LeftBuffer(q, a)
    BY <1>7
  <2>2. n = (n - 1) + 1 /\ n - 1 \in Int
    OBVIOUS
  <2> QED
    BY <1>7, <2>1, <2>2
<1>9. /\ LeftRfe(q, a) = k /\ LeftVca(q, a) = k
      /\ LeftRfe(r, a) = k + 1 /\ LeftVca(r, a) = k
      /\ LeftSwa(r, a) = LeftSwa(q, a)
  BY <1>2, <1>3, <1>6, <1>8 DEF LeftSwa, LeftVca, LeftRfe, In
<1>10. k \in Nat /\ k + 1 <= TotalFlits(c) /\ q.rfe.flit = FlitNumber(c, k + 1)
  <2>1. k >= 0
    BY <1>9 DEF QueueInv, Numbered, LeftSwa, In
  <2>2. a <= TotalFlits(c)
    BY DEF QueueInv, Numbered
  <2>3. TotalFlits(c) \in Nat
    BY FlitsAreCounted
  <2> QED
    BY <1>3, <1>8, <2>1, <2>2, <2>3 DEF QueueInv, Numbered
<1>11. Numbered(c, a, r)
  BY <1>2, <1>3, <1>6, <1>8, <1>9, <1>10 DEF QueueInv, Numbered
<1>12. IQ!IsHead(q.rfe.flit) <=> ~Open(c, k)
  BY <1>10, HeadsFollowTails
<1>13. IF Open(c, k) THEN q.vca.vc \in Vcs ELSE q.vca.vc = None
  BY <1>1, <1>9 DEF QueueInv, VcKept
<1>14. VcKept(c, a, r)
  BY <1>2, <1>12, <1>13 DEF QueueInv, VcKept
<1> QED
  BY <1>4, <1>5, <1>11, <1>14 DEF QueueInv

(* A request to the VC scheduler moves no flit.                            *)
LEMMA SubmitVcaKeeps ==
  ASSUME NEW c, NEW a \in Nat, NEW q, QueueInv(c, a, q)
  PROVE  QueueInv(c, a, IQ!AfterSubmitVca(q))
<1> DEFINE r == IQ!AfterSubmitVca(q)
<1>1. SUFFICES ASSUME q.vca.fsm = "toRequest", r # q PROVE QueueInv(c, a, r)
  BY DEF IQ!AfterSubmitVca, IQ!VcaAsks
<1>2. r = [buffer |-> q.buffer, rfe |-> q.rfe,
           vca |-> [fsm |-> "waiting", flit |-> q.vca.flit, route |-> q.vca.route, vc |-> q.vca.vc],
           swa |-> q.swa]
  BY <1>1 DEF QueueInv, QueueType, IQ!AfterSubmitVca, IQ!VcaAsks
<1> HIDE DEF r
<1>3. r \in QueueType /\ Filled(r)
  BY <1>1, <1>2 DEF QueueInv, QueueType, Filled, States
<1>4. SameFlits(q, r)
  BY <1>2 DEF SameFlits
<1>5. Numbered(c, a, r) /\ LeftVca(r, a) = LeftVca(q, a)
  BY <1>4, NothingMoves DEF QueueInv
<1>6. VcKept(c, a, r)
  BY <1>1, <1>2, <1>5 DEF QueueInv, VcKept
<1> QED
  BY <1>3, <1>5, <1>6 DEF QueueInv

(* The sixth stage takes the next flit from the buffer.                    *)
LEMMA LoadRfeKeeps ==
  ASSUME NEW c, NEW a \in Nat, NEW q, QueueInv(c, a, q)
  PROVE  QueueInv(c, a, IQ!AfterLoadRfe(q))
<1> DEFINE r == IQ!AfterLoadRfe(q)
           b == q.buffer
<1>1. SUFFICES ASSUME q.rfe.fsm = "empty", b # <<>> PROVE QueueInv(c, a, r)
  BY DEF IQ!AfterLoadRfe, IQ!PullsFlit
<1>2. r = [buffer |-> Tail(b), rfe |-> [fsm |-> "toRequest", flit |-> Head(b), route |-> {}, wait |-> 0],
           vca |-> q.vca, swa |-> q.swa]
  BY <1>1 DEF QueueInv, QueueType, IQ!AfterLoadRfe, IQ!PullsFlit, IQ!EmptyRfe
<1> HIDE DEF r
<1>3. /\ b \in Seq(Flits) /\ Len(b) \in Nat \ {0} /\ Head(b) = b[1] /\ Head(b) \in Flits
      /\ Tail(b) \in Seq(Flits) /\ Len(Tail(b)) = Len(b) - 1
      /\ \A i \in 1..Len(Tail(b)) : Tail(b)[i] = b[i + 1]
  <2>1. b \in Seq(Flits)
    BY DEF QueueInv, QueueType
  <2> HIDE DEF b
  <2> QED
    BY <1>1, <2>1
<1>4. q.rfe.flit = None /\ Head(b) # None
  BY <1>1, <1>3, RouterAssumption DEF QueueInv, Filled
<1>5. r \in QueueType /\ Filled(r)
  BY <1>2, <1>3, <1>4 DEF QueueInv, QueueType, Filled, States
<1>6. PICK k \in Int : k = LeftBuffer(q, a)
  BY BufferNumbers DEF QueueInv
<1>7. LeftBuffer(r, a) = k + 1
  <2>1. k = a - Len(b)
    BY <1>6 DEF LeftBuffer
  <2>2. LeftBuffer(r, a) = a - (Len(b) - 1)
    BY <1>2, <1>3 DEF LeftBuffer
  <2> HIDE DEF b
  <2> QED
    BY <1>3, <2>1, <2>2
<1>8. /\ LeftRfe(q, a) = k /\ LeftRfe(r, a) = k
      /\ LeftVca(r, a) = LeftVca(q, a) /\ LeftSwa(r, a) = LeftSwa(q, a)
  BY <1>2, <1>4, <1>6, <1>7 DEF LeftRfe, LeftVca, LeftSwa, In
<1>9. \A i \in 1..Len(b) : b[i] = FlitNumber(c, k + i)
  BY <1>6 DEF QueueInv, Numbered
<1>10. \A i \in 1..Len(r.buffer) : r.buffer[i] = FlitNumber(c, (k + 1) + i)
  <2>1. r.buffer = Tail(b)
    BY <1>2
  <2> HIDE DEF b
  <2>2. ASSUME NEW i \in 1..Len(Tail(b)) PROVE Tail(b)[i] = FlitNumber(c, (k + 1) + i)
    <3>1. i + 1 \in 1..Len(b) /\ k + (i + 1) = (k + 1) + i
      BY <1>3
    <3> QED
      BY <1>3, <1>9, <3>1
  <2> QED
    BY <2>1, <2>2
<1>11. Numbered(c, a, r)
  <2>1. Head(b) = FlitNumber(c, k + 1)
    BY <1>3, <1>9
  <2> QED
    BY <1>2, <1>7, <1>8, <1>10, <2>1 DEF QueueInv, Numbered
<1>12. VcKept(c, a, r)
  BY <1>2, <1>8 DEF QueueInv, VcKept
<1> QED
  BY <1>5, <1>11, <1>12 DEF QueueInv

(* A head that was taken from the buffer is given to the routing algorithm *)
(* in the same run.                                                        *)
LEMMA SubmitRfeKeeps ==
  ASSUME NEW c, NEW a \in Nat, NEW q, QueueInv(c, a, q)
  PROVE  QueueInv(c, a, IQ!AfterSubmitRfe(q)) /\ IQ!AfterSubmitRfe(q).rfe.fsm # "toRequest"
<1> DEFINE r == IQ!AfterSubmitRfe(q)
<1>1. SUFFICES ASSUME q.rfe.fsm = "toRequest" PROVE QueueInv(c, a, r) /\ r.rfe.fsm # "toRequest"
  BY DEF IQ!AfterSubmitRfe
<1>2. PICK f, w : /\ f \in {"waiting", "ready"} /\ w \in Int
                  /\ r = [buffer |-> q.buffer,
                          rfe |-> [fsm |-> f, flit |-> q.rfe.flit, route |-> q.rfe.route, wait |-> w],
                          vca |-> q.vca, swa |-> q.swa]
  <2>1. RoutingLatency \in Int
    BY RouterAssumption
  <2>2. CASE IQ!IsHead(q.rfe.flit)
    <3>1. r = [buffer |-> q.buffer,
               rfe |-> [fsm |-> "waiting", flit |-> q.rfe.flit, route |-> q.rfe.route,
                        wait |-> RoutingLatency],
               vca |-> q.vca, swa |-> q.swa]
      BY <1>1, <2>2 DEF QueueInv, QueueType, IQ!AfterSubmitRfe
    <3> QED
      BY <2>1, <3>1
  <2>3. CASE ~IQ!IsHead(q.rfe.flit)
    <3>1. r = [buffer |-> q.buffer,
               rfe |-> [fsm |-> "ready", flit |-> q.rfe.flit, route |-> q.rfe.route,
                        wait |-> q.rfe.wait],
               vca |-> q.vca, swa |-> q.swa]
      BY <1>1, <2>3 DEF QueueInv, QueueType, IQ!AfterSubmitRfe
    <3>2. q.rfe.wait \in Int
      BY DEF QueueInv, QueueType
    <3> QED
      BY <3>1, <3>2
  <2> QED
    BY <2>2, <2>3
<1> HIDE DEF r
<1>3. r \in QueueType /\ Filled(r)
  BY <1>1, <1>2 DEF QueueInv, QueueType, Filled, States
<1>4. SameFlits(q, r)
  BY <1>2 DEF SameFlits
<1>5. Numbered(c, a, r) /\ LeftVca(r, a) = LeftVca(q, a)
  BY <1>4, NothingMoves DEF QueueInv
<1>6. VcKept(c, a, r)
  BY <1>1, <1>2, <1>5 DEF QueueInv, VcKept
<1> QED
  BY <1>2, <1>3, <1>5, <1>6 DEF QueueInv

(* The responses, a flit that arrives and the clock.                       *)
LEMMA RouteResponseKeeps ==
  ASSUME NEW c, NEW a \in Nat, NEW q, QueueInv(c, a, q), q.rfe.fsm = "waiting",
         NEW route \in SUBSET Vcs
  PROVE  /\ QueueInv(c, a, IQ!RouteResponse(q, route))
         /\ IQ!RouteResponse(q, route) =
              [buffer |-> q.buffer,
               rfe |-> [fsm |-> "ready", flit |-> q.rfe.flit, route |-> route, wait |-> q.rfe.wait],
               vca |-> q.vca, swa |-> q.swa]
<1> DEFINE r == IQ!RouteResponse(q, route)
<1>1. q.rfe = [fsm |-> q.rfe.fsm, flit |-> q.rfe.flit, route |-> q.rfe.route, wait |-> q.rfe.wait]
  BY DEF QueueInv, QueueType
<1>2. r = [buffer |-> q.buffer,
           rfe |-> [fsm |-> "ready", flit |-> q.rfe.flit, route |-> route, wait |-> q.rfe.wait],
           vca |-> q.vca, swa |-> q.swa]
  <2>1. PICK q1 : q1 = [q EXCEPT !.rfe.fsm = "ready"]
    OBVIOUS
  <2>2. q1 = [buffer |-> q.buffer,
              rfe |-> [fsm |-> "ready", flit |-> q.rfe.flit, route |-> q.rfe.route, wait |-> q.rfe.wait],
              vca |-> q.vca, swa |-> q.swa]
    BY <1>1, <2>1 DEF QueueInv, QueueType
  <2>3. r = [q1 EXCEPT !.rfe.route = route]
    BY <2>1 DEF IQ!RouteResponse
  <2> QED
    BY <2>2, <2>3
<1> HIDE DEF r
<1>3. r \in QueueType /\ Filled(r)
  BY <1>2 DEF QueueInv, QueueType, Filled, States
<1>4. SameFlits(q, r)
  BY <1>2 DEF SameFlits
<1>5. Numbered(c, a, r) /\ LeftVca(r, a) = LeftVca(q, a)
  BY <1>4, NothingMoves DEF QueueInv
<1>6. VcKept(c, a, r)
  BY <1>2, <1>5 DEF QueueInv, VcKept
<1> QED
  BY <1>2, <1>3, <1>5, <1>6 DEF QueueInv, r

(* A cycle passes for a queue that waits for its route.                    *)
LEMMA TimePasses ==
  ASSUME NEW c, NEW a \in Nat, NEW q, QueueInv(c, a, q)
  PROVE  /\ QueueInv(c, a, [q EXCEPT !.rfe.wait = @ - 1])
         /\ [q EXCEPT !.rfe.wait = @ - 1] =
              [buffer |-> q.buffer,
               rfe |-> [fsm |-> q.rfe.fsm, flit |-> q.rfe.flit, route |-> q.rfe.route,
                        wait |-> q.rfe.wait - 1],
               vca |-> q.vca, swa |-> q.swa]
<1> DEFINE r == [q EXCEPT !.rfe.wait = @ - 1]
<1>1. r = [q EXCEPT !.rfe = [fsm |-> q.rfe.fsm, flit |-> q.rfe.flit, route |-> q.rfe.route,
                             wait |-> q.rfe.wait - 1]]
  BY DEF QueueInv, QueueType
<1>2. r = [buffer |-> q.buffer,
           rfe |-> [fsm |-> q.rfe.fsm, flit |-> q.rfe.flit, route |-> q.rfe.route,
                    wait |-> q.rfe.wait - 1],
           vca |-> q.vca, swa |-> q.swa]
  BY <1>1 DEF QueueInv, QueueType
<1> HIDE DEF r
<1>3. q.rfe.wait - 1 \in Int
  BY DEF QueueInv, QueueType
<1>4. r \in QueueType /\ Filled(r)
  BY <1>2, <1>3 DEF QueueInv, QueueType, Filled, States
<1>5. SameFlits(q, r)
  BY <1>2 DEF SameFlits
<1>6. Numbered(c, a, r) /\ LeftVca(r, a) = LeftVca(q, a)
  BY <1>5, NothingMoves DEF QueueInv
<1>7. VcKept(c, a, r)
  BY <1>2, <1>6 DEF QueueInv, VcKept
<1> QED
  BY <1>2, <1>4, <1>6, <1>7 DEF QueueInv, r

(* The response of the VC scheduler gives vca a VC or has it ask again.    *)
LEMMA VcResponseKeeps ==
  ASSUME NEW c, NEW a \in Nat, NEW q, QueueInv(c, a, q), q.vca.fsm = "waiting",
         NEW granted \in Vcs \cup {None}
  PROVE  /\ QueueInv(c, a, IQ!VcResponse(q, granted))
         /\ IQ!VcResponse(q, granted) =
              [buffer |-> q.buffer, rfe |-> q.rfe,
               vca |-> [fsm |-> IF granted = None THEN "toRequest" ELSE "ready",
                        flit |-> q.vca.flit, route |-> q.vca.route, vc |-> granted],
               swa |-> q.swa]
<1> DEFINE r == IQ!VcResponse(q, granted)
           f == IF granted = None THEN "toRequest" ELSE "ready"
<1>1. q.vca.vc = None
  BY DEF QueueInv, VcKept
<1>2. /\ q = [buffer |-> q.buffer, rfe |-> q.rfe, vca |-> q.vca, swa |-> q.swa]
      /\ q.vca = [fsm |-> q.vca.fsm, flit |-> q.vca.flit, route |-> q.vca.route, vc |-> q.vca.vc]
  BY DEF QueueInv, QueueType
<1>3. r = [buffer |-> q.buffer, rfe |-> q.rfe,
           vca |-> [fsm |-> f, flit |-> q.vca.flit, route |-> q.vca.route, vc |-> granted],
           swa |-> q.swa]
  <2>1. CASE granted = None
    BY <1>1, <1>2, <2>1 DEF IQ!VcResponse
  <2>2. CASE granted # None
    <3>1. PICK q1 : q1 = [q EXCEPT !.vca.fsm = "ready"]
      OBVIOUS
    <3>2. q1 = [buffer |-> q.buffer, rfe |-> q.rfe,
                vca |-> [fsm |-> "ready", flit |-> q.vca.flit, route |-> q.vca.route, vc |-> q.vca.vc],
                swa |-> q.swa]
      BY <1>2, <3>1
    <3>3. r = [q1 EXCEPT !.vca.vc = granted]
      BY <2>2, <3>1 DEF IQ!VcResponse
    <3> QED
      BY <2>2, <3>2, <3>3
  <2> QED
    BY <2>1, <2>2
<1> HIDE DEF r
<1>4. r \in QueueType /\ Filled(r)
  <2>1. f \in States /\ f # "empty"
    BY DEF States
  <2> HIDE DEF f
  <2> QED
    BY <1>3, <2>1 DEF QueueInv, QueueType, Filled
<1>5. SameFlits(q, r)
  BY <1>3 DEF SameFlits
<1>6. Numbered(c, a, r) /\ LeftVca(r, a) = LeftVca(q, a)
  BY <1>5, NothingMoves DEF QueueInv
<1>7. VcKept(c, a, r)
  <2>1. None \notin Vcs
    BY RouterAssumption
  <2>2. q.swa.fsm # "empty" => q.swa.vc \in Vcs /\ IQ!IsTail(q.swa.flit)
    BY <1>1, <2>1 DEF QueueInv, VcKept
  <2>3. IQ!IsHead(q.vca.flit)
    BY DEF QueueInv, VcKept
  <2>4. q.swa.fsm = "empty" => q.swa.vc = None
    BY DEF QueueInv, VcKept
  <2> QED
    BY <1>3, <2>2, <2>3, <2>4 DEF VcKept
<1> QED
  BY <1>3, <1>4, <1>6, <1>7 DEF QueueInv, r, f

(* The response of the crossbar scheduler releases the flit in swa or has  *)
(* it ask again.                                                           *)
LEMMA XbarResponseKeeps ==
  ASSUME NEW c, NEW a \in Nat, NEW q, QueueInv(c, a, q), q.swa.fsm = "waiting",
         NEW f \in {"toRequest", "ready"}
  PROVE  /\ QueueInv(c, a, [q EXCEPT !.swa.fsm = f])
         /\ [q EXCEPT !.swa.fsm = f] =
              [buffer |-> q.buffer, rfe |-> q.rfe, vca |-> q.vca,
               swa |-> [fsm |-> f, flit |-> q.swa.flit, vc |-> q.swa.vc]]
<1> DEFINE r == [q EXCEPT !.swa.fsm = f]
<1>1. r = [q EXCEPT !.swa = [fsm |-> f, flit |-> q.swa.flit, vc |-> q.swa.vc]]
  BY DEF QueueInv, QueueType
<1>2. r = [buffer |-> q.buffer, rfe |-> q.rfe, vca |-> q.vca,
           swa |-> [fsm |-> f, flit |-> q.swa.flit, vc |-> q.swa.vc]]
  BY <1>1 DEF QueueInv, QueueType
<1> HIDE DEF r
<1>3. f \in States /\ f # "empty"
  BY DEF States
<1>4. r \in QueueType /\ Filled(r)
  <2> QED
    BY <1>2, <1>3 DEF QueueInv, QueueType, Filled
<1>5. SameFlits(q, r)
  BY <1>2 DEF SameFlits
<1>6. Numbered(c, a, r) /\ LeftVca(r, a) = LeftVca(q, a)
  BY <1>5, NothingMoves DEF QueueInv
<1>7. VcKept(c, a, r)
  <2> QED
    BY <1>2, <1>3, <1>6 DEF QueueInv, VcKept
<1> QED
  BY <1>2, <1>4, <1>6, <1>7 DEF QueueInv, r

(* A flit that arrives goes to the end of the buffer.                      *)
LEMMA ArrivalKeeps ==
  ASSUME NEW c \in Clients, NEW a \in Nat, NEW q, QueueInv(c, a, q), a < TotalFlits(c)
  PROVE  /\ QueueInv(c, a + 1, [q EXCEPT !.buffer = Append(@, FlitNumber(c, a + 1))])
         /\ Len(Append(q.buffer, FlitNumber(c, a + 1))) = Len(q.buffer) + 1
<1> DEFINE b == q.buffer
           r == [q EXCEPT !.buffer = Append(@, FlitNumber(c, a + 1))]
<1>1. a + 1 \in 1..TotalFlits(c)
  BY FlitsAreCounted
<1>2. PICK f \in Flits : f = FlitNumber(c, a + 1)
  BY <1>1, FlitsArrive
<1>3. r = [buffer |-> Append(b, f), rfe |-> q.rfe, vca |-> q.vca, swa |-> q.swa]
  <2>1. q = [buffer |-> b, rfe |-> q.rfe, vca |-> q.vca, swa |-> q.swa]
    BY DEF QueueInv, QueueType
  <2> HIDE DEF b
  <2>2. r = [q EXCEPT !.buffer = Append(b, f)]
    BY <1>2 DEF b
  <2> QED
    BY <2>1, <2>2
<1> HIDE DEF r
<1>4. /\ b \in Seq(Flits) /\ Append(b, f) \in Seq(Flits) /\ Len(b) \in Nat
      /\ Len(Append(b, f)) = Len(b) + 1
      /\ \A i \in 1..Len(b) : Append(b, f)[i] = b[i]
      /\ Append(b, f)[Len(b) + 1] = f
  <2>1. b \in Seq(Flits)
    BY DEF QueueInv, QueueType
  <2> HIDE DEF b
  <2> QED
    BY <2>1
<1>5. r \in QueueType /\ Filled(r)
  BY <1>3, <1>4 DEF QueueInv, QueueType, Filled
<1>6. PICK n \in Nat : n = Len(b)
  BY <1>4
<1>7. LeftBuffer(q, a) = a - n /\ LeftBuffer(r, a + 1) = a - n
  <2>1. LeftBuffer(r, a + 1) = (a + 1) - (n + 1)
    BY <1>3, <1>4, <1>6 DEF LeftBuffer
  <2>2. LeftBuffer(q, a) = a - n
    BY <1>6 DEF LeftBuffer
  <2> QED
    BY <2>1, <2>2
<1>8. /\ LeftRfe(r, a + 1) = LeftRfe(q, a) /\ LeftVca(r, a + 1) = LeftVca(q, a)
      /\ LeftSwa(r, a + 1) = LeftSwa(q, a)
  BY <1>3, <1>7 DEF LeftSwa, LeftVca, LeftRfe, In
<1>9. \A i \in 1..Len(r.buffer) : r.buffer[i] = FlitNumber(c, (a - n) + i)
  <2>1. \A i \in 1..n : b[i] = FlitNumber(c, (a - n) + i)
    BY <1>6, <1>7 DEF QueueInv, Numbered
  <2>2. /\ (a - n) + (n + 1) = a + 1
        /\ r.buffer = Append(b, f) /\ Len(r.buffer) = n + 1
    <3>1. (a - n) + (n + 1) = a + 1
      OBVIOUS
    <3>2. r.buffer = Append(b, f)
      BY <1>3
    <3> QED
      BY <1>4, <1>6, <3>1, <3>2
  <2> HIDE DEF b
  <2>3. ASSUME NEW i \in 1..(n + 1) PROVE r.buffer[i] = FlitNumber(c, (a - n) + i)
    <3>1. CASE i = n + 1
      BY <1>2, <1>4, <1>6, <2>2, <3>1
    <3>2. CASE i # n + 1
      <4>1. i \in 1..n
        BY <3>2
      <4> QED
        BY <1>4, <1>6, <2>1, <2>2, <4>1
    <3> QED
      BY <3>1, <3>2
  <2> QED
    BY <2>2, <2>3
<1>10. a + 1 <= TotalFlits(c)
  BY <1>1
<1>11. Numbered(c, a + 1, r)
  BY <1>3, <1>7, <1>8, <1>9, <1>10 DEF QueueInv, Numbered
<1>12. VcKept(c, a + 1, r)
  BY <1>3, <1>8 DEF QueueInv, VcKept
<1> QED
  BY <1>2, <1>4, <1>5, <1>11, <1>12 DEF QueueInv, r

(* One run of the pipeline.  A queue that will not run again by itself     *)
(* waits for a response, or for flits.                                     *)
Asleep(q) == /\ q.buffer = <<>>
             /\ q.rfe.fsm \in {"empty", "waiting"}
             /\ q.vca.fsm # "ready"
             /\ q.vca.fsm = "toRequest" => q.swa.fsm = "waiting"
             /\ q.swa.fsm \in {"empty", "waiting"}

PipelineRun(q0, q1, q2, q3, q4, q5, q6, q7) ==
  /\ q1 = IQ!AfterInject(q0) /\ q2 = IQ!AfterLoadSwa(q1) /\ q3 = IQ!AfterSubmitSwa(q2)
  /\ q4 = IQ!AfterLoadVca(q3) /\ q5 = IQ!AfterSubmitVca(q4) /\ q6 = IQ!AfterLoadRfe(q5)
  /\ q7 = IQ!AfterSubmitRfe(q6)

(* All stages of a run together keep the queue's invariant.                *)
LEMMA PipelineKeeps ==
  ASSUME NEW c \in Clients, NEW a \in Nat, NEW q0, QueueInv(c, a, q0),
         NEW q1, NEW q2, NEW q3, NEW q4, NEW q5, NEW q6, NEW q7,
         PipelineRun(q0, q1, q2, q3, q4, q5, q6, q7)
  PROVE  /\ QueueInv(c, a, q1) /\ QueueInv(c, a, q2) /\ QueueInv(c, a, q3) /\ QueueInv(c, a, q4)
         /\ QueueInv(c, a, q5) /\ QueueInv(c, a, q6) /\ QueueInv(c, a, q7)
         /\ q7.rfe.fsm # "toRequest"
<1>1. QueueInv(c, a, q1)
  BY InjectKeeps DEF PipelineRun
<1>2. QueueInv(c, a, q2)
  BY <1>1, LoadSwaKeeps DEF PipelineRun
<1>3. QueueInv(c, a, q3)
  BY <1>2, SubmitSwaKeeps DEF PipelineRun
<1>4. QueueInv(c, a, q4)
  BY <1>3, LoadVcaKeeps DEF PipelineRun
<1>5. QueueInv(c, a, q5)
  BY <1>4, SubmitVcaKeeps DEF PipelineRun
<1>6. QueueInv(c, a, q6)
  BY <1>5, LoadRfeKeeps DEF PipelineRun
<1>7. QueueInv(c, a, q7) /\ q7.rfe.fsm # "toRequest"
  BY <1>6, SubmitRfeKeeps DEF PipelineRun
<1> QED
  BY <1>1, <1>2, <1>3, <1>4, <1>5, <1>6, <1>7

(* What the stages do to each other's states.                              *)
Changes(q0, q2, q4, q5, q7) ==
  /\ IF IQ!VcaAsks(q4) THEN q7.vca.fsm = "waiting" ELSE q7.vca.fsm = "waiting" <=> q0.vca.fsm = "waiting"
  /\ IF IQ!SwaAsks(q2)
     THEN q7.swa = [fsm |-> "waiting", flit |-> q2.swa.flit, vc |-> q2.swa.vc]
     ELSE q7.swa.fsm = "waiting" <=> q0.swa.fsm = "waiting"
  /\ q0.swa.fsm = "waiting" => ~IQ!SwaAsks(q2) /\ q7.swa = q0.swa
  /\ q0.vca.fsm = "waiting" => ~IQ!VcaAsks(q4)
  /\ q7.swa.fsm \in {"empty", "waiting"}
  /\ q4.vca.route \in SUBSET Vcs
  /\ Len(q7.buffer) = IF IQ!PullsFlit(q5) THEN Len(q0.buffer) - 1 ELSE Len(q0.buffer)
  /\ q7.rfe.fsm # "toRequest" /\ ~IQ!RunsAgain(q7) => Asleep(q7)

(* What a run changes outside the queue depends on the queue before it and *)
(* between its stages as it should.                                        *)
LEMMA PipelineEffects ==
  ASSUME NEW q0 \in QueueType, NEW q1 \in QueueType, NEW q2 \in QueueType, NEW q3 \in QueueType,
         NEW q4 \in QueueType, NEW q5 \in QueueType, NEW q6 \in QueueType, NEW q7 \in QueueType,
         PipelineRun(q0, q1, q2, q3, q4, q5, q6, q7)
  PROVE  Changes(q0, q2, q4, q5, q7)
<1>1. /\ q1.buffer = q0.buffer /\ q1.rfe = q0.rfe /\ q1.vca = q0.vca
      /\ IF q0.swa.fsm = "ready" THEN q1.swa.fsm = "empty" ELSE q1.swa = q0.swa
  BY DEF PipelineRun, IQ!AfterInject, IQ!InjectReady, IQ!EmptySwa, QueueType
<1>2. /\ q2.buffer = q1.buffer /\ q2.rfe = q1.rfe
      /\ IF q1.swa.fsm = "empty" /\ q1.vca.fsm = "ready"
         THEN q2.swa.fsm = "toRequest" /\ q2.vca.fsm = "empty"
         ELSE q2.swa = q1.swa /\ q2.vca = q1.vca
  BY DEF PipelineRun, IQ!AfterLoadSwa, QueueType
<1>3. /\ q3.buffer = q2.buffer /\ q3.rfe = q2.rfe /\ q3.vca = q2.vca
      /\ IF q2.swa.fsm = "toRequest"
         THEN q3.swa = [fsm |-> "waiting", flit |-> q2.swa.flit, vc |-> q2.swa.vc]
         ELSE q3.swa = q2.swa
  BY DEF PipelineRun, IQ!AfterSubmitSwa, IQ!SwaAsks, QueueType
<1>4. /\ q4.buffer = q3.buffer /\ q4.swa = q3.swa
      /\ IF q3.vca.fsm = "empty" /\ q3.rfe.fsm = "ready"
         THEN q4.vca.fsm \in {"toRequest", "ready"}
         ELSE q4.vca = q3.vca
  BY DEF PipelineRun, IQ!AfterLoadVca, QueueType
<1>5. /\ q5.buffer = q4.buffer /\ q5.swa = q4.swa /\ q5.rfe = q4.rfe
      /\ IF IQ!VcaAsks(q4) THEN q5.vca.fsm = "waiting" ELSE q5.vca = q4.vca
  BY DEF PipelineRun, IQ!AfterSubmitVca, QueueType
<1>6. /\ q6.swa = q5.swa /\ q6.vca = q5.vca
      /\ q6.buffer = IF IQ!PullsFlit(q5) THEN Tail(q5.buffer) ELSE q5.buffer
  BY DEF PipelineRun, IQ!AfterLoadRfe, QueueType
<1>7. q7.swa = q6.swa /\ q7.vca = q6.vca /\ q7.buffer = q6.buffer
  BY DEF PipelineRun, IQ!AfterSubmitRfe, QueueType
<1>8. q0.swa.fsm \in States /\ q0.vca.fsm \in States /\ q7.rfe.fsm \in States
  BY DEF QueueType
<1>9. q7.swa = q3.swa /\ q7.vca = q5.vca
  BY <1>4, <1>5, <1>6, <1>7
<1>10. q3.swa.fsm \in {"empty", "waiting"}
  <2>1. q1.swa.fsm \in {"empty", "toRequest", "waiting"}
    BY <1>1, <1>8 DEF States
  <2>2. q2.swa.fsm \in {"empty", "toRequest", "waiting"}
    BY <1>2, <2>1
  <2> QED
    BY <1>3, <2>2
<1>11. IF IQ!SwaAsks(q2)
       THEN q7.swa = [fsm |-> "waiting", flit |-> q2.swa.flit, vc |-> q2.swa.vc]
       ELSE q7.swa.fsm = "waiting" <=> q0.swa.fsm = "waiting"
  BY <1>1, <1>2, <1>3, <1>9 DEF IQ!SwaAsks
<1>12. q0.swa.fsm = "waiting" => ~IQ!SwaAsks(q2) /\ q7.swa = q0.swa
  BY <1>1, <1>2, <1>3, <1>9 DEF IQ!SwaAsks
<1>13. q4.vca.fsm = "waiting" <=> q0.vca.fsm = "waiting"
  BY <1>1, <1>2, <1>3, <1>4
<1>14. IF IQ!VcaAsks(q4) THEN q7.vca.fsm = "waiting" ELSE q7.vca.fsm = "waiting" <=> q0.vca.fsm = "waiting"
  BY <1>5, <1>9, <1>13
<1>15. q0.vca.fsm = "waiting" => ~IQ!VcaAsks(q4)
  BY <1>13 DEF IQ!VcaAsks
<1>16. q4.vca.route \in SUBSET Vcs
  BY DEF QueueType
<1>17. Len(q7.buffer) = IF IQ!PullsFlit(q5) THEN Len(q0.buffer) - 1 ELSE Len(q0.buffer)
  <2>1. q5.buffer = q0.buffer /\ q0.buffer \in Seq(Flits)
    BY <1>1, <1>2, <1>3, <1>4, <1>5 DEF QueueType
  <2>2. PICK b \in Seq(Flits) : b = q0.buffer
    BY <2>1
  <2>3. q7.buffer = IF IQ!PullsFlit(q5) THEN Tail(b) ELSE b
    BY <1>6, <1>7, <2>1, <2>2
  <2>4. IQ!PullsFlit(q5) => b # <<>>
    BY <2>1, <2>2 DEF IQ!PullsFlit
  <2>5. b # <<>> => Len(Tail(b)) = Len(b) - 1
    OBVIOUS
  <2> QED
    BY <2>2, <2>3, <2>4, <2>5
<1>18. ASSUME q7.rfe.fsm # "toRequest", ~IQ!RunsAgain(q7) PROVE Asleep(q7)
  <2>1. q7.vca.fsm # "ready" /\ q7.rfe.fsm # "ready" /\ q7.buffer = <<>>
    BY <1>18 DEF IQ!RunsAgain
  <2>2. q7.rfe.fsm \in {"empty", "waiting"}
    BY <1>8, <1>18, <2>1 DEF States
  <2>3. q7.vca.fsm = "toRequest" => q7.swa.fsm = "waiting"
    BY <1>5, <1>9, <1>4, <1>10 DEF IQ!VcaAsks
  <2> QED
    BY <1>9, <1>10, <2>1, <2>2, <2>3 DEF Asleep
<1> QED
  BY <1>9, <1>10, <1>11, <1>12, <1>14, <1>15, <1>16, <1>17, <1>18 DEF Changes

-----------------------------------------------------------------------------
(* The input side of the router: what holds of every queue between two     *)
(* events.                                                                 *)
InputTypes ==
  /\ iq \in [Clients -> QueueType] /\ pipeEvent \in [Clients -> {"none", "now", "next"}]
  /\ arrived \in [Clients -> Nat] /\ freeSlots \in [Clients -> Int]
  /\ requests \in SUBSET (Clients \X Vcs) /\ clientRequested \in SUBSET Clients
  /\ allocEventSet \in BOOLEAN
  /\ request \in [Clients -> XS!Requests \cup {None}]
  /\ eventAction \in {"NONE", "CREDITS", "RUNALLOC"}
  /\ epsilon \in {0, 1, 2}

(* The flits are in order, and every slot is free for upstream or taken.   *)
QueueOK(c, q, a, free) ==
  QueueInv(c, a, q) /\ q.rfe.fsm # "toRequest" /\ Len(q.buffer) + free = Depth

(* A stage that waits for a scheduler has asked it, and has an event that  *)
(* will answer.                                                            *)
Answerable(q, asked, alloc, req, event) ==
  /\ q.vca.fsm = "waiting" <=> asked
  /\ asked => alloc
  /\ q.swa.fsm = "waiting" <=> req # None
  /\ req # None => req = XbarRequest(q.swa) /\ event = "RUNALLOC"

(* A queue without an event of its own has nothing to do; a grant of the   *)
(* crossbar is used in the cycle in which it is given.                     *)
OnTime(q, pipe, e, event) ==
  /\ pipe = "none" => Asleep(q)
  /\ e < 2 => pipe # "next"
  /\ q.swa.fsm = "ready" => pipe = "now" /\ (e = 0 => event = "NONE")

ClientInv(c) ==
  /\ QueueOK(c, iq[c], arrived[c], freeSlots[c])
  /\ Answerable(iq[c], c \in clientRequested, allocEventSet, request[c], eventAction)
  /\ OnTime(iq[c], pipeEvent[c], epsilon, eventAction)

(* Two grants of a cycle are for two ports.                                *)
PortsApart ==
  \A c, d \in Clients :
    c # d /\ iq[c].swa.fsm = "ready" /\ iq[d].swa.fsm = "ready"
      => PortOf[iq[c].swa.vc] # PortOf[iq[d].swa.vc]

InputInv == InputTypes /\ (\A c \in Clients : ClientInv(c)) /\ PortsApart

(* The invariant of the input side holds at the start.                     *)
LEMMA InputInit == Init => InputInv
<1> SUFFICES ASSUME Init PROVE InputInv
  OBVIOUS
<1> DEFINE q == IQ!EmptyQueue
<1>1. q = [buffer |-> <<>>,
           rfe |-> [fsm |-> "empty", flit |-> None, route |-> {}, wait |-> 0],
           vca |-> [fsm |-> "empty", flit |-> None, route |-> {}, vc |-> None],
           swa |-> [fsm |-> "empty", flit |-> None, vc |-> None]]
  BY DEF IQ!EmptyQueue, IQ!EmptyRfe, IQ!EmptySwa
<1> HIDE DEF q
<1>2. q \in QueueType
  BY <1>1 DEF QueueType, States
<1>8. q.buffer = <<>>
  BY <1>1
<1>9. Len(q.buffer) = 0
  BY <1>8
<1>3. ASSUME NEW c \in Clients PROVE QueueInv(c, 0, q)
  <2>1. LeftBuffer(q, 0) = 0
    BY <1>9 DEF LeftBuffer
  <2>2. LeftRfe(q, 0) = 0 /\ LeftVca(q, 0) = 0 /\ LeftSwa(q, 0) = 0
    BY <1>1, <2>1 DEF LeftSwa, LeftVca, LeftRfe, In
  <2>3. 0 <= TotalFlits(c)
    BY FlitsAreCounted
  <2>4. Numbered(c, 0, q)
    BY <1>1, <1>9, <2>1, <2>2, <2>3 DEF Numbered
  <2>5. Filled(q) /\ VcKept(c, 0, q)
    BY <1>1, <2>2 DEF Filled, VcKept, Open
  <2> QED
    BY <1>2, <2>4, <2>5 DEF QueueInv
<1>4. Depth \in Nat /\ XS!SchedInit /\ VS!SchedInit
  BY RouterAssumption DEF Init
<1>5. ASSUME NEW c \in Clients PROVE ClientInv(c)
  <2>1. iq[c] = q /\ arrived[c] = 0 /\ freeSlots[c] = Depth /\ pipeEvent[c] = "none" /\ request[c] = None
    BY <1>4 DEF Init, q, XS!SchedInit
  <2>2. clientRequested = {} /\ epsilon = 0 /\ eventAction = "NONE"
    BY <1>4 DEF Init, VS!SchedInit, XS!SchedInit
  <2>3. QueueOK(c, q, 0, Depth)
    <3>1. q.rfe.fsm = "empty"
      BY <1>1
    <3> QED
      BY <1>3, <1>4, <1>9, <3>1 DEF QueueOK
  <2>4. Answerable(q, FALSE, allocEventSet, None, "NONE")
    BY <1>1 DEF Answerable
  <2>5. OnTime(q, "none", 0, "NONE")
    BY <1>1 DEF OnTime, Asleep
  <2>6. Answerable(q, c \in clientRequested, allocEventSet, None, "NONE")
    BY <1>1, <2>2 DEF Answerable
  <2> QED
    BY <2>1, <2>2, <2>3, <2>5, <2>6 DEF ClientInv
<1>6. PortsApart
  BY <1>1 DEF Init, PortsApart, q
<1>7. InputTypes
  <2>1. /\ iq = [c \in Clients |-> q] /\ pipeEvent = [c \in Clients |-> "none"]
        /\ arrived = [c \in Clients |-> 0] /\ freeSlots = [c \in Clients |-> Depth]
        /\ epsilon = 0
    BY DEF Init, q
  <2>2. /\ requests = {} /\ clientRequested = {} /\ allocEventSet = FALSE
        /\ request = [c \in Clients |-> None] /\ eventAction = "NONE"
    BY <1>4 DEF VS!SchedInit, XS!SchedInit
  <2>3. /\ iq \in [Clients -> QueueType] /\ pipeEvent \in [Clients -> {"none", "now", "next"}]
        /\ arrived \in [Clients -> Nat] /\ freeSlots \in [Clients -> Int]
        /\ request \in [Clients -> XS!Requests \cup {None}]
    BY <1>2, <1>4, <2>1, <2>2
  <2> QED
    BY <2>1, <2>2, <2>3 DEF InputTypes
<1> QED
  BY <1>5, <1>6, <1>7 DEF InputInv

(* An event that is none of the input side's business.                     *)
Elsewhere(e) ==
  /\ At(e)
  /\ UNCHANGED <<iq, pipeEvent, arrived, freeSlots, requests, clientRequested, allocEventSet, request>>
  /\ eventAction' \in {"NONE", "CREDITS", "RUNALLOC"}
  /\ eventAction' = "RUNALLOC" <=> eventAction = "RUNALLOC"
  /\ e = 0 /\ eventAction = "NONE" => eventAction' = "NONE"

(* An event that touches no input queue keeps the invariant of the input   *)
(* side.                                                                   *)
LEMMA InputElsewhere ==
  ASSUME InputInv, NEW e \in {0, 1, 2}, Elsewhere(e)
  PROVE  InputInv'
<1>1. epsilon' = e /\ epsilon <= e /\ epsilon \in {0, 1, 2}
  BY DEF Elsewhere, At, MayRun, InputInv, InputTypes
<1>2. epsilon' < 2 => epsilon < 2
  BY <1>1
<1>3. epsilon' = 0 => epsilon = 0 /\ e = 0
  BY <1>1
<1>4. InputTypes'
  BY <1>1 DEF Elsewhere, InputInv, InputTypes
<1>5. PortsApart'
  BY DEF Elsewhere, InputInv, PortsApart
<1>6. ASSUME NEW c \in Clients PROVE ClientInv(c)'
  <2>1. ClientInv(c)
    BY DEF InputInv
  <2>2. OnTime(iq[c], pipeEvent[c], epsilon', eventAction')
    BY <1>2, <1>3, <2>1 DEF ClientInv, OnTime, Elsewhere
  <2>3. Answerable(iq[c], c \in clientRequested, allocEventSet, request[c], eventAction')
    BY <2>1 DEF ClientInv, Answerable, Elsewhere
  <2> QED
    BY <2>1, <2>2, <2>3 DEF ClientInv, Elsewhere
<1> QED
  BY <1>4, <1>5, <1>6 DEF InputInv

(* The VC scheduler's event answers every queue that asked, and wakes it.  *)
LEMMA InputVcSchedulerEvent ==
  ASSUME InputInv, VcSchedulerEvent
  PROVE  InputInv'
<1>1. epsilon = 0 /\ epsilon' = 0
  BY DEF VcSchedulerEvent, At, MayRun, InputInv, InputTypes
<1>2. PICK g \in VcAllocations(VS!Unmasked) :
        /\ VS!Allocate(g)
        /\ iq' = [c \in Clients |->
                    IF c \notin clientRequested THEN iq[c]
                    ELSE IQ!VcResponse(iq[c], IF VS!GrantsTo(g, c) = {} THEN None
                                              ELSE CHOOSE v \in VS!GrantsTo(g, c) : TRUE)]
  BY DEF VcSchedulerEvent
<1>3. /\ requests' \in SUBSET (Clients \X Vcs) /\ clientRequested' = {} /\ allocEventSet' = FALSE
      /\ UNCHANGED <<request, eventAction, arrived, freeSlots>>
  BY <1>2 DEF VcSchedulerEvent, VS!Allocate, InputInv, InputTypes, xsVars, netVars
<1>4. g \subseteq Clients \X Vcs
  <2>1. VS!Unmasked \in SUBSET (Clients \X Vcs)
    BY DEF VS!Unmasked, InputInv, InputTypes
  <2>2. VS!Matching(VS!Unmasked, g)
    BY <1>2, <2>1, VcAllocatorAssumption
  <2> QED
    BY <2>1, <2>2 DEF VS!Matching
<1>5. ASSUME NEW c \in Clients
      PROVE  /\ iq'[c] \in QueueType /\ pipeEvent'[c] \in {"none", "now", "next"}
             /\ iq'[c].swa = iq[c].swa
             /\ ClientInv(c)'
  <2>1. ClientInv(c) /\ pipeEvent[c] \in {"none", "now", "next"}
    BY DEF InputInv, InputTypes
  <2>2. CASE c \notin clientRequested
    <3>1. iq'[c] = iq[c] /\ pipeEvent'[c] = pipeEvent[c]
      BY <1>2, <2>2 DEF VcSchedulerEvent
    <3>2. Answerable(iq[c], c \in clientRequested', allocEventSet', request[c], eventAction)
      BY <1>3, <2>1, <2>2 DEF ClientInv, Answerable
    <3>3. iq[c] \in QueueType
      BY DEF InputInv, InputTypes
    <3> QED
      BY <1>1, <1>3, <2>1, <3>1, <3>2, <3>3 DEF ClientInv
  <2>3. CASE c \in clientRequested
    <3>1. PICK v \in Vcs \cup {None} : iq'[c] = IQ!VcResponse(iq[c], v)
      <4>1. VS!GrantsTo(g, c) \subseteq Vcs
        BY <1>4 DEF VS!GrantsTo
      <4>2. (IF VS!GrantsTo(g, c) = {} THEN None ELSE CHOOSE v \in VS!GrantsTo(g, c) : TRUE) \in Vcs \cup {None}
        BY <4>1
      <4> QED
        BY <1>2, <2>3, <4>2
    <3>2. QueueInv(c, arrived[c], iq[c]) /\ iq[c].vca.fsm = "waiting" /\ arrived[c] \in Nat
      BY <2>1, <2>3 DEF ClientInv, QueueOK, Answerable, InputInv, InputTypes
    <3>3. PICK f \in {"toRequest", "ready"} :
            /\ QueueInv(c, arrived[c], iq'[c])
            /\ iq'[c] = [buffer |-> iq[c].buffer, rfe |-> iq[c].rfe,
                         vca |-> [fsm |-> f, flit |-> iq[c].vca.flit, route |-> iq[c].vca.route, vc |-> v],
                         swa |-> iq[c].swa]
      BY <3>1, <3>2, VcResponseKeeps
    <3>4. pipeEvent'[c] \in {"now"}
      BY <1>1, <2>1, <2>3 DEF VcSchedulerEvent, Woken, ClientInv, OnTime
    <3>5. QueueOK(c, iq'[c], arrived[c], freeSlots[c])
      BY <2>1, <3>3 DEF ClientInv, QueueOK
    <3>6. Answerable(iq'[c], c \in clientRequested', allocEventSet', request[c], eventAction)
      BY <1>3, <2>1, <3>3 DEF ClientInv, Answerable
    <3>7. OnTime(iq'[c], pipeEvent'[c], 0, eventAction)
      BY <1>1, <2>1, <3>3, <3>4 DEF ClientInv, OnTime
    <3>8. iq'[c] \in QueueType /\ iq'[c].swa = iq[c].swa
      BY <3>3 DEF QueueInv
    <3> QED
      BY <1>1, <1>3, <3>4, <3>5, <3>6, <3>7, <3>8 DEF ClientInv
  <2> QED
    BY <2>2, <2>3
<1>6. InputTypes'
  <2>1. iq' \in [Clients -> QueueType]
    BY <1>2, <1>5
  <2>2. pipeEvent' \in [Clients -> {"none", "now", "next"}]
    BY <1>5 DEF VcSchedulerEvent
  <2> QED
    BY <1>1, <1>3, <2>1, <2>2 DEF InputInv, InputTypes
<1>7. PortsApart'
  BY <1>5 DEF InputInv, PortsApart
<1> QED
  BY <1>5, <1>6, <1>7 DEF InputInv

(* The winners of the crossbar asked for it, each for a port of its own.   *)
LEMMA WinnersAsked ==
  ASSUME InputInv, NEW g \in XbarAllocations(XS!Unmasked)
  PROVE  /\ \A c \in XS!Winners(g) : c \in Clients /\ request[c] # None
         /\ \A c, d \in XS!Winners(g) : c # d => PortOf[request[c].vc] # PortOf[request[d].vc]
<1>1. XS!Unmasked \in SUBSET (Clients \X Ports)
  BY DEF XS!Unmasked
<1>2. XS!OnePerResource(XS!Unmasked, g)
  BY <1>1, XbarAllocatorAssumption
<1>3. \A x \in g : /\ x \in Clients \X Ports
                   /\ request[x[1]] # None /\ PortOf[request[x[1]].vc] = x[2]
  BY <1>2 DEF XS!OnePerResource, XS!Unmasked, XS!Requesters
<1>4. \A x, y \in g : x[2] = y[2] => x = y
  BY <1>2 DEF XS!OnePerResource
<1> QED
  BY <1>3, <1>4 DEF XS!Winners

(* An allocation of the crossbar scheduler answers every queue that asked, *)
(* and wakes it.                                                           *)
LEMMA InputRunAlloc ==
  ASSUME InputInv, At(0), NEW g \in XbarAllocations(XS!Unmasked), XS!RunAlloc(g),
         iq' = [c \in Clients |-> IF request[c] = None THEN iq[c]
                                  ELSE IQ!XbarResponse(iq[c], c \in XS!Winners(g))],
         pipeEvent' = [c \in Clients |-> IF request[c] # None THEN Woken(pipeEvent[c])
                                         ELSE pipeEvent[c]],
         UNCHANGED <<requests, clientRequested, allocEventSet, arrived, freeSlots>>
  PROVE  InputInv'
<1>1. epsilon = 0 /\ epsilon' = 0
  BY DEF At, MayRun, InputInv, InputTypes
<1>2. /\ eventAction = "RUNALLOC" /\ eventAction' = "NONE"
      /\ request' = [c \in Clients |-> None]
  BY DEF XS!RunAlloc
<1>3. ASSUME NEW c \in Clients
      PROVE  /\ iq'[c] \in QueueType /\ pipeEvent'[c] \in {"none", "now", "next"}
             /\ iq'[c].swa.fsm = "ready" => c \in XS!Winners(g) /\ iq'[c].swa.vc = request[c].vc
             /\ ClientInv(c)'
  <2>1. ClientInv(c) /\ pipeEvent[c] \in {"none", "now", "next"} /\ arrived[c] \in Nat
    BY DEF InputInv, InputTypes
  <2>2. iq[c].swa.fsm # "ready"
    BY <1>1, <1>2, <2>1 DEF ClientInv, OnTime
  <2>3. CASE request[c] = None
    <3>1. iq'[c] = iq[c] /\ pipeEvent'[c] = pipeEvent[c] /\ request'[c] = None
      BY <1>2, <2>3
    <3>2. Answerable(iq[c], c \in clientRequested, allocEventSet, request'[c], eventAction')
      BY <2>1, <2>3, <3>1 DEF ClientInv, Answerable
    <3>3. OnTime(iq[c], pipeEvent[c], 0, eventAction')
      BY <1>1, <1>2, <2>1 DEF ClientInv, OnTime
    <3>4. iq[c] \in QueueType
      BY DEF InputInv, InputTypes
    <3> QED
      BY <1>1, <2>1, <2>2, <3>1, <3>2, <3>3, <3>4 DEF ClientInv
  <2>4. CASE request[c] # None
    <3>1. QueueInv(c, arrived[c], iq[c]) /\ iq[c].swa.fsm = "waiting"
      BY <2>1, <2>4 DEF ClientInv, QueueOK, Answerable
    <3>2. PICK f \in {"toRequest", "ready"} :
            (f = "ready" => c \in XS!Winners(g)) /\ iq'[c] = [iq[c] EXCEPT !.swa.fsm = f]
      BY <2>4 DEF IQ!XbarResponse
    <3>4. /\ QueueInv(c, arrived[c], iq'[c])
          /\ iq'[c] = [buffer |-> iq[c].buffer, rfe |-> iq[c].rfe, vca |-> iq[c].vca,
                       swa |-> [fsm |-> f, flit |-> iq[c].swa.flit, vc |-> iq[c].swa.vc]]
      <4>1. PICK q, a : q = iq[c] /\ a = arrived[c]
        OBVIOUS
      <4>2. a \in Nat /\ QueueInv(c, a, q) /\ q.swa.fsm = "waiting"
        BY <2>1, <3>1, <4>1
      <4>3. /\ QueueInv(c, a, [q EXCEPT !.swa.fsm = f])
            /\ [q EXCEPT !.swa.fsm = f] =
                 [buffer |-> q.buffer, rfe |-> q.rfe, vca |-> q.vca,
                  swa |-> [fsm |-> f, flit |-> q.swa.flit, vc |-> q.swa.vc]]
        BY <4>2, XbarResponseKeeps
      <4>4. iq'[c] = [q EXCEPT !.swa.fsm = f]
        BY <3>2, <4>1
      <4> QED
        BY <4>1, <4>3, <4>4
    <3>5. /\ iq'[c].buffer = iq[c].buffer /\ iq'[c].rfe = iq[c].rfe /\ iq'[c].vca = iq[c].vca
          /\ iq'[c].swa.vc = iq[c].swa.vc
          /\ iq'[c].swa.fsm = f
      BY <3>4
    <3>6. pipeEvent'[c] = "now"
      BY <1>1, <2>1, <2>4 DEF Woken, ClientInv, OnTime
    <3>7. QueueOK(c, iq'[c], arrived[c], freeSlots[c])
      BY <2>1, <3>4, <3>5 DEF ClientInv, QueueOK
    <3>8. Answerable(iq'[c], c \in clientRequested, allocEventSet, request'[c], eventAction')
      BY <1>2, <2>1, <3>5 DEF ClientInv, Answerable
    <3>9. OnTime(iq'[c], pipeEvent'[c], 0, eventAction')
      BY <1>2, <3>6 DEF OnTime
    <3>10. iq'[c] \in QueueType
      BY <3>4 DEF QueueInv
    <3>11. request[c].vc = iq[c].swa.vc
      BY <2>1, <2>4 DEF ClientInv, Answerable, XbarRequest
    <3>12. iq'[c].swa.fsm = "ready" => c \in XS!Winners(g)
      BY <3>2, <3>5
    <3> QED
      BY <1>1, <3>5, <3>6, <3>7, <3>8, <3>9, <3>10, <3>11, <3>12 DEF ClientInv
  <2> QED
    BY <2>3, <2>4
<1>4. InputTypes'
  <2>1. iq' \in [Clients -> QueueType] /\ pipeEvent' \in [Clients -> {"none", "now", "next"}]
    BY <1>3
  <2>2. request' \in [Clients -> XS!Requests \cup {None}]
    BY <1>2
  <2> QED
    BY <1>1, <1>2, <2>1, <2>2 DEF InputInv, InputTypes
<1>5. PortsApart'
  <2> SUFFICES ASSUME NEW c \in Clients, NEW d \in Clients, c # d,
                      iq'[c].swa.fsm = "ready", iq'[d].swa.fsm = "ready"
               PROVE  PortOf[iq'[c].swa.vc] # PortOf[iq'[d].swa.vc]
    BY DEF PortsApart
  <2> QED
    BY <1>3, WinnersAsked
<1> QED
  BY <1>3, <1>4, <1>5 DEF InputInv

(* The crossbar scheduler's event, with or without an allocation.          *)
LEMMA InputXbarSchedulerEvent ==
  ASSUME InputInv, CrossbarSchedulerEvent
  PROVE  InputInv'
<1>1. CASE XS!CreditsOnly /\ UNCHANGED iqVars
  <2>1. Elsewhere(0)
    BY <1>1 DEF Elsewhere, CrossbarSchedulerEvent, XS!CreditsOnly, iqVars, vcVars, netVars
  <2> QED
    BY <2>1, InputElsewhere
<1>2. CASE ~(XS!CreditsOnly /\ UNCHANGED iqVars)
  <2>1. PICK g \in XbarAllocations(XS!Unmasked) :
          /\ XS!RunAlloc(g)
          /\ iq' = [c \in Clients |->
                      IF request[c] = None THEN iq[c]
                      ELSE IQ!XbarResponse(iq[c], c \in XS!Winners(g))]
          /\ pipeEvent' = [c \in Clients |-> IF request[c] # None THEN Woken(pipeEvent[c])
                                             ELSE pipeEvent[c]]
    BY <1>2 DEF CrossbarSchedulerEvent
  <2>2. At(0) /\ UNCHANGED <<requests, clientRequested, allocEventSet, arrived, freeSlots>>
    BY DEF CrossbarSchedulerEvent, vcVars, netVars
  <2> QED
    BY <2>1, <2>2, InputRunAlloc
<1> QED
  BY <1>1, <1>2

(* An event of one queue, which tells the others nothing.                  *)
OnlyQueue(c) ==
  /\ \A d \in Clients \ {c} : /\ iq'[d] = iq[d] /\ pipeEvent'[d] = pipeEvent[d]
                              /\ arrived'[d] = arrived[d] /\ freeSlots'[d] = freeSlots[d]
                              /\ d \in clientRequested' <=> d \in clientRequested
                              /\ request'[d] = request[d]
  /\ allocEventSet => allocEventSet'
  /\ epsilon' = 0 \/ epsilon' = 1 \/ epsilon' = 2
  /\ epsilon <= epsilon'
  /\ eventAction = "RUNALLOC" => eventAction' = "RUNALLOC"
  /\ eventAction = "NONE" => eventAction' = "NONE" \/ epsilon' = 2

(* An event of one queue says nothing of the others.                       *)
LEMMA OthersUntouched ==
  ASSUME InputInv, NEW c \in Clients, OnlyQueue(c), NEW d \in Clients \ {c}
  PROVE  ClientInv(d)'
<1>1. ClientInv(d) /\ epsilon \in {0, 1, 2}
  BY DEF InputInv, InputTypes
<1>2. /\ iq'[d] = iq[d] /\ pipeEvent'[d] = pipeEvent[d]
      /\ arrived'[d] = arrived[d] /\ freeSlots'[d] = freeSlots[d]
      /\ d \in clientRequested' <=> d \in clientRequested
      /\ request'[d] = request[d]
  BY DEF OnlyQueue
<1>3. QueueOK(d, iq[d], arrived[d], freeSlots[d])
  BY <1>1 DEF ClientInv
<1>4. Answerable(iq[d], d \in clientRequested', allocEventSet', request[d], eventAction')
  BY <1>1, <1>2 DEF ClientInv, Answerable, OnlyQueue
<1>5. epsilon' < 2 => epsilon < 2
  BY <1>1 DEF OnlyQueue
<1>6. epsilon' = 0 => epsilon = 0 /\ (eventAction = "NONE" => eventAction' = "NONE")
  BY <1>1 DEF OnlyQueue
<1>7. OnTime(iq[d], pipeEvent[d], epsilon', eventAction')
  BY <1>1, <1>5, <1>6 DEF ClientInv, OnTime
<1> QED
  BY <1>2, <1>3, <1>4, <1>7 DEF ClientInv

(* The routing algorithm answers and wakes the queue.                      *)
LEMMA InputRoutingResponse ==
  ASSUME InputInv, NEW c \in Clients, RoutingResponse(c)
  PROVE  InputInv'
<1>1. epsilon = 0 /\ epsilon' = 0
  BY DEF RoutingResponse, At, MayRun, InputInv, InputTypes
<1>2. PICK route \in Routes[c] : iq' = [iq EXCEPT ![c] = IQ!RouteResponse(@, route)]
  BY DEF RoutingResponse
<1>3. /\ pipeEvent' = [pipeEvent EXCEPT ![c] = Woken(@)]
      /\ UNCHANGED <<requests, clientRequested, allocEventSet, request, eventAction, arrived, freeSlots>>
  BY DEF RoutingResponse, vcVars, xsVars, netVars
<1>4. /\ ClientInv(c) /\ iq \in [Clients -> QueueType]
      /\ pipeEvent \in [Clients -> {"none", "now", "next"}] /\ arrived[c] \in Nat
  BY DEF InputInv, InputTypes
<1>5. QueueInv(c, arrived[c], iq[c]) /\ iq[c].rfe.fsm = "waiting" /\ route \in SUBSET Vcs
  BY <1>4, RouterAssumption DEF ClientInv, QueueOK, RoutingResponse, RoutingDue
<1>6. iq'[c] = IQ!RouteResponse(iq[c], route) /\ \A d \in Clients \ {c} : iq'[d] = iq[d]
  BY <1>2, <1>4
<1>7. /\ QueueInv(c, arrived[c], iq'[c])
      /\ iq'[c].buffer = iq[c].buffer /\ iq'[c].vca = iq[c].vca /\ iq'[c].swa = iq[c].swa
      /\ iq'[c].rfe.fsm = "ready"
  <2>1. /\ QueueInv(c, arrived[c], iq'[c])
        /\ iq'[c] = [buffer |-> iq[c].buffer,
                     rfe |-> [fsm |-> "ready", flit |-> iq[c].rfe.flit, route |-> route, wait |-> iq[c].rfe.wait],
                     vca |-> iq[c].vca, swa |-> iq[c].swa]
    BY <1>4, <1>5, <1>6, RouteResponseKeeps
  <2> QED
    BY <2>1
<1>8. pipeEvent'[c] = "now" /\ \A d \in Clients \ {c} : pipeEvent'[d] = pipeEvent[d]
  BY <1>1, <1>3, <1>4 DEF Woken, ClientInv, OnTime
<1>9. QueueOK(c, iq'[c], arrived[c], freeSlots[c])
  BY <1>4, <1>7 DEF ClientInv, QueueOK
<1>10. Answerable(iq'[c], c \in clientRequested, allocEventSet, request[c], eventAction)
  BY <1>4, <1>7 DEF ClientInv, Answerable
<1>11. OnTime(iq'[c], pipeEvent'[c], epsilon', eventAction)
  BY <1>1, <1>4, <1>7, <1>8 DEF ClientInv, OnTime
<1>12. ClientInv(c)'
  BY <1>3, <1>9, <1>10, <1>11 DEF ClientInv
<1>13. OnlyQueue(c)
  BY <1>1, <1>3, <1>6, <1>8 DEF OnlyQueue
<1>14. \A d \in Clients : ClientInv(d)'
  BY <1>12, <1>13, OthersUntouched
<1>15. InputTypes'
  <2>1. iq' \in [Clients -> QueueType] /\ pipeEvent' \in [Clients -> {"none", "now", "next"}]
    <3>1. iq'[c] \in QueueType
      BY <1>7 DEF QueueInv
    <3> QED
      BY <1>2, <1>3, <1>4, <1>6, <1>8, <3>1
  <2> QED
    BY <1>1, <1>3, <2>1 DEF InputInv, InputTypes
<1>16. PortsApart'
  <2>1. \A d \in Clients : iq'[d].swa = iq[d].swa
    BY <1>6, <1>7
  <2> QED
    BY <2>1 DEF InputInv, PortsApart
<1> QED
  BY <1>14, <1>15, <1>16 DEF InputInv

(* A flit that arrives takes a slot and wakes the queue.                   *)
LEMMA InputFlitArrives ==
  ASSUME InputInv, NEW c \in Clients, FlitArrives(c)
  PROVE  InputInv'
<1>1. epsilon \in {0, 1} /\ epsilon' = 1
  BY DEF FlitArrives, At, MayRun, InputInv, InputTypes
<1>2. /\ iq' = [iq EXCEPT ![c].buffer = Append(@, FlitNumber(c, arrived[c] + 1))]
      /\ pipeEvent' = [pipeEvent EXCEPT ![c] = Woken(@)]
      /\ arrived' = [arrived EXCEPT ![c] = @ + 1]
      /\ freeSlots' = [freeSlots EXCEPT ![c] = @ - 1]
      /\ UNCHANGED <<requests, clientRequested, allocEventSet, request, eventAction>>
      /\ arrived[c] < TotalFlits(c)
  BY DEF FlitArrives, vcVars, xsVars
<1>3. /\ ClientInv(c) /\ iq \in [Clients -> QueueType]
      /\ pipeEvent \in [Clients -> {"none", "now", "next"}]
      /\ arrived \in [Clients -> Nat] /\ freeSlots \in [Clients -> Int]
  BY DEF InputInv, InputTypes
<1>4. PICK a \in Nat, n \in Int : a = arrived[c] /\ n = freeSlots[c]
  BY <1>3
<1>5. /\ arrived'[c] = a + 1 /\ freeSlots'[c] = n - 1
      /\ \A d \in Clients \ {c} : arrived'[d] = arrived[d] /\ freeSlots'[d] = freeSlots[d]
  BY <1>2, <1>3, <1>4
<1>6. iq'[c] = [iq[c] EXCEPT !.buffer = Append(@, FlitNumber(c, a + 1))]
  BY <1>2, <1>3, <1>4
<1>7. \A d \in Clients \ {c} : iq'[d] = iq[d]
  BY <1>2, <1>3
<1>8. QueueInv(c, a, iq[c]) /\ Len(iq[c].buffer) + n = Depth /\ iq[c].rfe.fsm # "toRequest"
  BY <1>3, <1>4 DEF ClientInv, QueueOK
<1>9. QueueInv(c, a + 1, iq'[c]) /\ Len(Append(iq[c].buffer, FlitNumber(c, a + 1))) = Len(iq[c].buffer) + 1
  <2>1. PICK q : q = iq[c]
    OBVIOUS
  <2>2. QueueInv(c, a, q) /\ a < TotalFlits(c)
    BY <1>2, <1>4, <1>8, <2>1
  <2>3. /\ QueueInv(c, a + 1, [q EXCEPT !.buffer = Append(@, FlitNumber(c, a + 1))])
        /\ Len(Append(q.buffer, FlitNumber(c, a + 1))) = Len(q.buffer) + 1
    BY <2>2, ArrivalKeeps
  <2>4. iq'[c] = [q EXCEPT !.buffer = Append(@, FlitNumber(c, a + 1))]
    BY <1>6, <2>1
  <2> QED
    BY <2>1, <2>3, <2>4
<1>10. /\ iq'[c].buffer = Append(iq[c].buffer, FlitNumber(c, a + 1))
       /\ iq'[c].rfe = iq[c].rfe /\ iq'[c].vca = iq[c].vca /\ iq'[c].swa = iq[c].swa
  BY <1>3, <1>6 DEF QueueType
<1>11. QueueOK(c, iq'[c], a + 1, n - 1)
  <2>1. PICK b \in Nat : b = Len(iq[c].buffer)
    <3>1. iq[c] \in QueueType
      BY <1>3
    <3> QED
      BY <3>1, BufferNumbers
  <2>2. Len(iq'[c].buffer) = b + 1 /\ b + n = Depth
    BY <1>8, <1>9, <1>10, <2>1
  <2>3. (b + 1) + (n - 1) = Depth
    BY <2>2
  <2> QED
    BY <1>8, <1>9, <1>10, <2>2, <2>3 DEF QueueOK
<1>12. pipeEvent'[c] = "now" /\ \A d \in Clients \ {c} : pipeEvent'[d] = pipeEvent[d]
  BY <1>1, <1>2, <1>3 DEF Woken, ClientInv, OnTime
<1>13. Answerable(iq'[c], c \in clientRequested, allocEventSet, request[c], eventAction)
  BY <1>3, <1>10 DEF ClientInv, Answerable
<1>14. OnTime(iq'[c], pipeEvent'[c], epsilon', eventAction)
  BY <1>1, <1>12 DEF OnTime
<1>15. ClientInv(c)'
  BY <1>2, <1>5, <1>11, <1>13, <1>14 DEF ClientInv
<1>16. OnlyQueue(c)
  <2>1. epsilon <= epsilon'
    BY <1>1
  <2> QED
    BY <1>1, <1>2, <1>5, <1>7, <1>12, <2>1 DEF OnlyQueue
<1>17. \A d \in Clients : ClientInv(d)'
  BY <1>15, <1>16, OthersUntouched
<1>18. InputTypes'
  <2>1. iq'[c] \in QueueType
    BY <1>9 DEF QueueInv
  <2>2. /\ iq' \in [Clients -> QueueType]
        /\ pipeEvent' \in [Clients -> {"none", "now", "next"}]
    BY <1>2, <1>3, <1>7, <1>12, <2>1
  <2>3. arrived' \in [Clients -> Nat] /\ freeSlots' \in [Clients -> Int]
    <3>1. a + 1 \in Nat /\ n - 1 \in Int
      OBVIOUS
    <3> QED
      BY <1>2, <1>3, <1>5, <3>1
  <2> QED
    BY <1>1, <1>2, <2>2, <2>3 DEF InputInv, InputTypes
<1>19. PortsApart'
  <2>1. \A d \in Clients : iq'[d].swa = iq[d].swa
    BY <1>7, <1>10
  <2> QED
    BY <2>1 DEF InputInv, PortsApart
<1> QED
  BY <1>17, <1>18, <1>19 DEF InputInv

(* The next cycle begins only when no queue can still be run and no grant  *)
(* is unused.                                                              *)
LEMMA InputTick ==
  ASSUME InputInv, Tick
  PROVE  InputInv' /\ \A c \in Clients : iq[c].swa.fsm # "ready"
<1>1. /\ epsilon' = 0
      /\ pipeEvent' = [c \in Clients |-> IF pipeEvent[c] = "next" THEN "now" ELSE pipeEvent[c]]
      /\ iq' = [c \in Clients |-> IF iq[c].rfe.fsm = "waiting"
                                  THEN [iq[c] EXCEPT !.rfe.wait = @ - 1] ELSE iq[c]]
      /\ UNCHANGED <<requests, clientRequested, allocEventSet, request, eventAction, arrived, freeSlots>>
      /\ \A c \in Clients : pipeEvent[c] # "now"
  BY DEF Tick, PipelineDue, vcVars, xsVars
<1>2. ASSUME NEW c \in Clients
      PROVE  /\ iq[c].swa.fsm # "ready"
             /\ iq'[c] \in QueueType /\ pipeEvent'[c] \in {"none", "now", "next"}
             /\ iq'[c].swa = iq[c].swa /\ ClientInv(c)'
  <2>1. ClientInv(c) /\ pipeEvent[c] \in {"none", "now", "next"} /\ arrived[c] \in Nat
    BY DEF InputInv, InputTypes
  <2>2. QueueInv(c, arrived[c], iq[c]) /\ iq[c].swa.fsm # "ready"
    BY <1>1, <2>1 DEF ClientInv, QueueOK, OnTime
  <2>3. /\ QueueInv(c, arrived[c], iq'[c])
        /\ iq'[c].buffer = iq[c].buffer /\ iq'[c].vca = iq[c].vca /\ iq'[c].swa = iq[c].swa
        /\ iq'[c].rfe.fsm = iq[c].rfe.fsm
    <3>1. CASE iq[c].rfe.fsm = "waiting"
      <4>1. PICK q, a : q = iq[c] /\ a = arrived[c]
        OBVIOUS
      <4>2. a \in Nat /\ QueueInv(c, a, q)
        BY <2>1, <2>2, <4>1
      <4>3. /\ QueueInv(c, a, [q EXCEPT !.rfe.wait = @ - 1])
            /\ [q EXCEPT !.rfe.wait = @ - 1] =
                 [buffer |-> q.buffer,
                  rfe |-> [fsm |-> q.rfe.fsm, flit |-> q.rfe.flit, route |-> q.rfe.route,
                           wait |-> q.rfe.wait - 1],
                  vca |-> q.vca, swa |-> q.swa]
        BY <4>2, TimePasses
      <4>4. iq'[c] = [q EXCEPT !.rfe.wait = @ - 1]
        BY <1>1, <3>1, <4>1
      <4> QED
        BY <4>1, <4>3, <4>4
    <3>2. CASE iq[c].rfe.fsm # "waiting"
      BY <1>1, <2>2, <3>2
    <3> QED
      BY <3>1, <3>2
  <2>4. QueueOK(c, iq'[c], arrived[c], freeSlots[c])
    BY <2>1, <2>3 DEF ClientInv, QueueOK
  <2>5. Answerable(iq'[c], c \in clientRequested, allocEventSet, request[c], eventAction)
    BY <2>1, <2>3 DEF ClientInv, Answerable
  <2>6. OnTime(iq'[c], pipeEvent'[c], 0, eventAction)
    <3>1. pipeEvent'[c] # "next" /\ (pipeEvent'[c] = "none" => pipeEvent[c] = "none")
      BY <1>1
    <3>2. pipeEvent[c] = "none" => Asleep(iq'[c])
      BY <2>1, <2>3 DEF ClientInv, OnTime, Asleep
    <3> QED
      BY <2>2, <2>3, <3>1, <3>2 DEF OnTime
  <2>7. iq'[c] \in QueueType
    BY <2>3 DEF QueueInv
  <2>8. pipeEvent'[c] \in {"none", "now", "next"}
    BY <1>1, <2>1
  <2>9. ClientInv(c)'
    BY <1>1, <2>4, <2>5, <2>6 DEF ClientInv
  <2> QED
    BY <2>2, <2>3, <2>7, <2>8, <2>9
<1>3. InputTypes'
  <2>1. iq' \in [Clients -> QueueType] /\ pipeEvent' \in [Clients -> {"none", "now", "next"}]
    BY <1>1, <1>2
  <2> QED
    BY <1>1, <2>1 DEF InputInv, InputTypes
<1>4. PortsApart'
  BY <1>2 DEF InputInv, PortsApart
<1> QED
  BY <1>2, <1>3, <1>4 DEF InputInv

(* One pipeline event: what the run of the queue asks for, and the run.    *)
Wants(c, q0, q2, q4, q5, q7) ==
  /\ iq' = [iq EXCEPT ![c] = q7]
  /\ pipeEvent' = [pipeEvent EXCEPT ![c] = IF IQ!RunsAgain(q7) THEN "next" ELSE "none"]
  /\ IF IQ!InjectReady(q0)
     THEN /\ InjectFlit(PortOf[q0.swa.vc], [flit |-> q0.swa.flit, vc |-> q0.swa.vc])
          /\ XS!DecrementCreditCount(q0.swa.vc)
     ELSE UNCHANGED <<xbar, credits>>
  /\ IF IQ!InjectReady(q0) /\ IQ!IsTail(q0.swa.flit)
     THEN VS!ReleaseVc(q0.swa.vc)
     ELSE UNCHANGED vcTaken
  /\ IF IQ!SwaAsks(q2)
     THEN XS!RequestFlit(c, XbarRequest(q2.swa))
     ELSE UNCHANGED <<request, eventAction>>
  /\ IF IQ!VcaAsks(q4)
     THEN VS!RequestVcs(c, q4.vca.route)
     ELSE UNCHANGED <<requests, clientRequested, allocEventSet>>
  /\ freeSlots' = [freeSlots EXCEPT ![c] = IF IQ!PullsFlit(q5) THEN @ + 1 ELSE @]

Run(c, q0, q1, q2, q3, q4, q5, q6, q7) ==
  /\ q0 = iq[c] /\ PipelineRun(q0, q1, q2, q3, q4, q5, q6, q7)
  /\ Wants(c, q0, q2, q4, q5, q7)
  /\ UNCHANGED <<incrCredits, down, arrived>>

(* A run of a pipeline, with the queue after each of its stages.           *)
LEMMA PipelineEventRuns ==
  ASSUME NEW c \in Clients, PipelineEvent(c)
  PROVE  \E q0, q1, q2, q3, q4, q5, q6, q7 : Run(c, q0, q1, q2, q3, q4, q5, q6, q7)
<1>1. PICK q0 \in {iq[c]} : \E q1 \in {IQ!AfterInject(q0)} : \E q2 \in {IQ!AfterLoadSwa(q1)} :
        \E q3 \in {IQ!AfterSubmitSwa(q2)} : \E q4 \in {IQ!AfterLoadVca(q3)} :
        \E q5 \in {IQ!AfterSubmitVca(q4)} : \E q6 \in {IQ!AfterLoadRfe(q5)} :
        \E q7 \in {IQ!AfterSubmitRfe(q6)} : Wants(c, q0, q2, q4, q5, q7)
  BY DEF PipelineEvent, Wants
<1>2. PICK q1 \in {IQ!AfterInject(q0)} : \E q2 \in {IQ!AfterLoadSwa(q1)} :
        \E q3 \in {IQ!AfterSubmitSwa(q2)} : \E q4 \in {IQ!AfterLoadVca(q3)} :
        \E q5 \in {IQ!AfterSubmitVca(q4)} : \E q6 \in {IQ!AfterLoadRfe(q5)} :
        \E q7 \in {IQ!AfterSubmitRfe(q6)} : Wants(c, q0, q2, q4, q5, q7)
  BY <1>1, Zenon
<1>3. PICK q2 \in {IQ!AfterLoadSwa(q1)} :
        \E q3 \in {IQ!AfterSubmitSwa(q2)} : \E q4 \in {IQ!AfterLoadVca(q3)} :
        \E q5 \in {IQ!AfterSubmitVca(q4)} : \E q6 \in {IQ!AfterLoadRfe(q5)} :
        \E q7 \in {IQ!AfterSubmitRfe(q6)} : Wants(c, q0, q2, q4, q5, q7)
  BY <1>2, Zenon
<1>4. PICK q3 \in {IQ!AfterSubmitSwa(q2)} : \E q4 \in {IQ!AfterLoadVca(q3)} :
        \E q5 \in {IQ!AfterSubmitVca(q4)} : \E q6 \in {IQ!AfterLoadRfe(q5)} :
        \E q7 \in {IQ!AfterSubmitRfe(q6)} : Wants(c, q0, q2, q4, q5, q7)
  BY <1>3, Zenon
<1>5. PICK q4 \in {IQ!AfterLoadVca(q3)} : \E q5 \in {IQ!AfterSubmitVca(q4)} :
        \E q6 \in {IQ!AfterLoadRfe(q5)} : \E q7 \in {IQ!AfterSubmitRfe(q6)} :
          Wants(c, q0, q2, q4, q5, q7)
  BY <1>4, Zenon
<1>6. PICK q5 \in {IQ!AfterSubmitVca(q4)} : \E q6 \in {IQ!AfterLoadRfe(q5)} :
        \E q7 \in {IQ!AfterSubmitRfe(q6)} : Wants(c, q0, q2, q4, q5, q7)
  BY <1>5, Zenon
<1>7. PICK q6 \in {IQ!AfterLoadRfe(q5)} :
        \E q7 \in {IQ!AfterSubmitRfe(q6)} : Wants(c, q0, q2, q4, q5, q7)
  BY <1>6, Zenon
<1>8. PICK q7 \in {IQ!AfterSubmitRfe(q6)} : Wants(c, q0, q2, q4, q5, q7)
  BY <1>7, Zenon
<1>9. q0 = iq[c] /\ PipelineRun(q0, q1, q2, q3, q4, q5, q6, q7)
  BY <1>1, <1>2, <1>3, <1>4, <1>5, <1>6, <1>7, <1>8 DEF PipelineRun
<1> QED
  BY <1>8, <1>9 DEF Run, PipelineEvent

(* A run of a pipeline leaves every flit with something that runs the      *)
(* queue again.                                                            *)
LEMMA InputPipelineEvent ==
  ASSUME InputInv, NEW c \in Clients, PipelineEvent(c)
  PROVE  InputInv'
<1>1. epsilon' = 2 /\ pipeEvent[c] = "now" /\ epsilon <= 2
  BY DEF PipelineEvent, At, MayRun, InputInv, InputTypes
<1>2. PICK q0, q1, q2, q3, q4, q5, q6, q7 : Run(c, q0, q1, q2, q3, q4, q5, q6, q7)
  BY PipelineEventRuns
<1>3. /\ ClientInv(c) /\ iq \in [Clients -> QueueType]
      /\ pipeEvent \in [Clients -> {"none", "now", "next"}]
      /\ arrived \in [Clients -> Nat] /\ freeSlots \in [Clients -> Int]
      /\ request \in [Clients -> XS!Requests \cup {None}]
  BY DEF InputInv, InputTypes
<1>4. PICK a \in Nat, n \in Int : a = arrived[c] /\ n = freeSlots[c]
  BY <1>3
<1>5. q0 = iq[c] /\ PipelineRun(q0, q1, q2, q3, q4, q5, q6, q7)
  BY <1>2 DEF Run
<1>6. QueueInv(c, a, q0) /\ Len(q0.buffer) + n = Depth /\ q0.rfe.fsm # "toRequest"
  BY <1>3, <1>4, <1>5 DEF ClientInv, QueueOK
<1>7. /\ QueueInv(c, a, q1) /\ QueueInv(c, a, q2) /\ QueueInv(c, a, q3) /\ QueueInv(c, a, q4)
      /\ QueueInv(c, a, q5) /\ QueueInv(c, a, q6) /\ QueueInv(c, a, q7)
      /\ q7.rfe.fsm # "toRequest"
  BY <1>5, <1>6, PipelineKeeps
<1>8. /\ IF IQ!VcaAsks(q4) THEN q7.vca.fsm = "waiting" ELSE q7.vca.fsm = "waiting" <=> q0.vca.fsm = "waiting"
      /\ IF IQ!SwaAsks(q2)
         THEN q7.swa = [fsm |-> "waiting", flit |-> q2.swa.flit, vc |-> q2.swa.vc]
         ELSE q7.swa.fsm = "waiting" <=> q0.swa.fsm = "waiting"
      /\ q0.swa.fsm = "waiting" => ~IQ!SwaAsks(q2) /\ q7.swa = q0.swa
      /\ q7.swa.fsm \in {"empty", "waiting"}
      /\ q4.vca.route \in SUBSET Vcs
      /\ Len(q7.buffer) = IF IQ!PullsFlit(q5) THEN Len(q0.buffer) - 1 ELSE Len(q0.buffer)
      /\ ~IQ!RunsAgain(q7) => Asleep(q7)
  <2>1. /\ q0 \in QueueType /\ q1 \in QueueType /\ q2 \in QueueType /\ q3 \in QueueType
        /\ q4 \in QueueType /\ q5 \in QueueType /\ q6 \in QueueType /\ q7 \in QueueType
    BY <1>6, <1>7 DEF QueueInv
  <2>2. Changes(q0, q2, q4, q5, q7)
    BY <1>5, <2>1, PipelineEffects
  <2> QED
    BY <1>7, <2>2 DEF Changes
<1>9. iq'[c] = q7 /\ \A d \in Clients \ {c} : iq'[d] = iq[d]
  BY <1>2, <1>3 DEF Run, Wants
<1>10. /\ pipeEvent'[c] = IF IQ!RunsAgain(q7) THEN "next" ELSE "none"
       /\ \A d \in Clients \ {c} : pipeEvent'[d] = pipeEvent[d]
  BY <1>2, <1>3 DEF Run, Wants
<1>11. /\ freeSlots'[c] = IF IQ!PullsFlit(q5) THEN n + 1 ELSE n
       /\ \A d \in Clients \ {c} : freeSlots'[d] = freeSlots[d]
       /\ arrived' = arrived
  BY <1>2, <1>3, <1>4 DEF Run, Wants
<1>12. QueueOK(c, q7, a, freeSlots'[c])
  <2>1. PICK b \in Nat : b = Len(q0.buffer)
    <3>1. q0 \in QueueType
      BY <1>3, <1>5
    <3> QED
      BY <3>1, BufferNumbers
  <2>2. CASE IQ!PullsFlit(q5)
    <3>1. Len(q7.buffer) = b - 1 /\ freeSlots'[c] = n + 1 /\ b + n = Depth
      BY <1>6, <1>8, <1>11, <2>1, <2>2
    <3>2. (b - 1) + (n + 1) = b + n
      OBVIOUS
    <3> QED
      BY <1>7, <3>1, <3>2 DEF QueueOK
  <2>3. CASE ~IQ!PullsFlit(q5)
    <3>1. Len(q7.buffer) = b /\ freeSlots'[c] = n /\ b + n = Depth
      BY <1>6, <1>8, <1>11, <2>1, <2>3
    <3> QED
      BY <1>7, <3>1 DEF QueueOK
  <2> QED
    BY <2>2, <2>3
<1>13. /\ request'[c] = IF IQ!SwaAsks(q2) THEN XbarRequest(q2.swa) ELSE request[c]
       /\ \A d \in Clients \ {c} : request'[d] = request[d]
       /\ eventAction' = IF IQ!SwaAsks(q2) THEN "RUNALLOC" ELSE eventAction
  BY <1>2, <1>3 DEF Run, Wants, XS!RequestFlit
<1>14. IQ!SwaAsks(q2) => XbarRequest(q2.swa) \in XS!Requests /\ XbarRequest(q7.swa) = XbarRequest(q2.swa)
  <2> SUFFICES ASSUME IQ!SwaAsks(q2)
               PROVE  XbarRequest(q2.swa) \in XS!Requests /\ XbarRequest(q7.swa) = XbarRequest(q2.swa)
    OBVIOUS
  <2>1. q2.swa.vc \in Vcs /\ q2.swa.flit \in Flits
    BY <1>7 DEF IQ!SwaAsks, QueueInv, QueueType, Filled, VcKept
  <2>2. XbarRequest(q2.swa) \in XS!Requests
    BY <2>1 DEF XbarRequest, XS!Requests, Flits, IQ!IsHead, IQ!IsTail
  <2>3. q7.swa.vc = q2.swa.vc /\ q7.swa.flit = q2.swa.flit
    BY <1>8
  <2> QED
    BY <2>2, <2>3 DEF XbarRequest
<1>15. IF IQ!VcaAsks(q4)
       THEN clientRequested' = clientRequested \cup {c} /\ allocEventSet' = TRUE
       ELSE UNCHANGED <<clientRequested, allocEventSet>>
  BY <1>2 DEF Run, Wants, VS!RequestVcs
<1>16. Answerable(q7, c \in clientRequested', allocEventSet', request'[c], eventAction')
  <2>1. Answerable(q0, c \in clientRequested, allocEventSet, request[c], eventAction)
    BY <1>3, <1>5 DEF ClientInv
  <2>2. /\ q7.vca.fsm = "waiting" <=> c \in clientRequested'
        /\ c \in clientRequested' => allocEventSet'
    BY <1>8, <1>15, <2>1 DEF Answerable
  <2>3. /\ q7.swa.fsm = "waiting" <=> request'[c] # None
        /\ request'[c] # None => request'[c] = XbarRequest(q7.swa) /\ eventAction' = "RUNALLOC"
    <3>1. CASE IQ!SwaAsks(q2)
      <4>1. None \notin XS!Requests
        BY RouterAssumption
      <4> QED
        BY <1>8, <1>13, <1>14, <3>1, <4>1
    <3>2. CASE ~IQ!SwaAsks(q2)
      BY <1>8, <1>13, <2>1, <3>2 DEF Answerable
    <3> QED
      BY <3>1, <3>2
  <2> QED
    BY <2>2, <2>3 DEF Answerable
<1>17. OnTime(q7, pipeEvent'[c], 2, eventAction')
  BY <1>8, <1>10 DEF OnTime
<1>18. ClientInv(c)'
  BY <1>1, <1>4, <1>9, <1>11, <1>12, <1>16, <1>17 DEF ClientInv
<1>19. OnlyQueue(c)
  <2>1. \A d \in Clients \ {c} : d \in clientRequested' <=> d \in clientRequested
    BY <1>15
  <2>2. allocEventSet => allocEventSet'
    BY <1>15
  <2> QED
    BY <1>1, <1>9, <1>10, <1>11, <1>13, <2>1, <2>2 DEF OnlyQueue
<1>20. \A d \in Clients : ClientInv(d)'
  BY <1>18, <1>19, OthersUntouched
<1>21. InputTypes'
  <2>1. q7 \in QueueType
    BY <1>7 DEF QueueInv
  <2>2. iq' \in [Clients -> QueueType] /\ pipeEvent' \in [Clients -> {"none", "now", "next"}]
    BY <1>2, <1>3, <1>9, <1>10, <2>1 DEF Run, Wants
  <2>3. freeSlots' \in [Clients -> Int]
    <3>1. freeSlots'[c] \in Int
      BY <1>11
    <3> QED
      BY <1>2, <1>3, <1>11, <3>1 DEF Run, Wants
  <2>4. request' \in [Clients -> XS!Requests \cup {None}]
    <3>1. request'[c] \in XS!Requests \cup {None}
      BY <1>3, <1>13, <1>14
    <3> QED
      BY <1>2, <1>3, <1>13, <3>1 DEF Run, Wants, XS!RequestFlit
  <2>5. /\ requests' \in SUBSET (Clients \X Vcs) /\ clientRequested' \in SUBSET Clients
        /\ allocEventSet' \in BOOLEAN
    <3>1. /\ requests \in SUBSET (Clients \X Vcs) /\ clientRequested \in SUBSET Clients
          /\ allocEventSet \in BOOLEAN
      BY DEF InputInv, InputTypes
    <3>2. CASE IQ!VcaAsks(q4)
      <4>1. requests' = requests \cup ({c} \X q4.vca.route)
        BY <1>2, <3>2 DEF Run, Wants, VS!RequestVcs
      <4>2. {c} \X q4.vca.route \subseteq Clients \X Vcs
        BY <1>8
      <4> QED
        BY <1>15, <3>1, <3>2, <4>1, <4>2
    <3>3. CASE ~IQ!VcaAsks(q4)
      <4>1. requests' = requests
        BY <1>2, <3>3 DEF Run, Wants
      <4> QED
        BY <1>15, <3>1, <3>3, <4>1
    <3> QED
      BY <3>2, <3>3
  <2>6. eventAction' \in {"NONE", "CREDITS", "RUNALLOC"}
    BY <1>13 DEF InputInv, InputTypes
  <2> QED
    BY <1>1, <1>3, <1>11, <2>2, <2>3, <2>4, <2>5, <2>6 DEF InputTypes
<1>22. PortsApart'
  BY <1>8, <1>9 DEF InputInv, PortsApart
<1> QED
  BY <1>20, <1>21, <1>22 DEF InputInv

(* Nothing happens.                                                        *)
LEMMA InputStutters ==
  ASSUME InputInv, UNCHANGED vars
  PROVE  InputInv'
<1>1. UNCHANGED <<iq, pipeEvent, arrived, freeSlots, requests, clientRequested, allocEventSet,
                  request, eventAction, epsilon>>
  BY DEF vars, vcVars, xsVars, iqVars, netVars
<1>2. InputTypes' /\ PortsApart'
  BY <1>1 DEF InputInv, InputTypes, PortsApart
<1>3. ASSUME NEW c \in Clients PROVE ClientInv(c)'
  BY <1>1 DEF InputInv, ClientInv
<1> QED
  BY <1>2, <1>3 DEF InputInv

(* The proofs are about the steps of a router that is part of something    *)
(* larger: its own events, credits that come back from any slots that are  *)
(* taken, and events that are none of its business.                        *)
CreditStep(e, S) ==
  /\ At(e)
  /\ S \in (SUBSET {v \in Vcs : down[v] > 0}) \ {{}}
  /\ XS!IncrementCreditCount(S)
  /\ down' = [v \in Vcs |-> IF v \in S THEN down[v] - 1 ELSE down[v]]
  /\ UNCHANGED <<vcVars, request, credits, portLocks, iqVars, xbar, delivered, arrived, freeSlots>>

Idle(e) ==
  /\ At(e)
  /\ UNCHANGED <<vcVars, xsVars, iqVars, xbar, delivered, down, arrived, freeSlots>>

RouterStep ==
  \/ VcSchedulerEvent \/ CrossbarSchedulerEvent \/ CrossbarEvent \/ Tick
  \/ \E c \in Clients : RoutingResponse(c) \/ FlitArrives(c) \/ PipelineEvent(c)
  \/ \E e \in {1, 2} : \E S \in SUBSET Vcs : CreditStep(e, S)
  \/ \E e \in {0, 1, 2} : Idle(e)
  \/ UNCHANGED vars

(* The router's own steps are such steps.                                  *)
LEMMA NextIsRouterStep == [Next]_vars => RouterStep
<1> SUFFICES ASSUME NEW p \in Ports, CreditArrives(p) PROVE RouterStep
  BY DEF Next, RouterStep
<1>1. PICK S \in (SUBSET {v \in Vcs : PortOf[v] = p /\ down[v] > 0}) \ {{}} :
         /\ XS!IncrementCreditCount(S)
         /\ down' = [v \in Vcs |-> IF v \in S THEN down[v] - 1 ELSE down[v]]
  BY DEF CreditArrives
<1>2. S \in SUBSET Vcs /\ S \in (SUBSET {v \in Vcs : down[v] > 0}) \ {{}}
  OBVIOUS
<1>3. CreditStep(1, S)
  BY <1>1, <1>2 DEF CreditArrives, CreditStep
<1> QED
  BY <1>2, <1>3 DEF RouterStep

(* Every step keeps the invariant of the input side.                       *)
LEMMA InputNext ==
  ASSUME InputInv, RouterStep
  PROVE  InputInv'
<1>1. CASE VcSchedulerEvent
  BY <1>1, InputVcSchedulerEvent
<1>2. CASE CrossbarSchedulerEvent
  BY <1>2, InputXbarSchedulerEvent
<1>3. CASE CrossbarEvent
  <2>1. Elsewhere(1)
    BY <1>3 DEF Elsewhere, CrossbarEvent, iqVars, vcVars, xsVars, InputInv, InputTypes
  <2> QED
    BY <2>1, InputElsewhere
<1>4. CASE Tick
  BY <1>4, InputTick
<1>5. ASSUME NEW c \in Clients, RoutingResponse(c) PROVE InputInv'
  BY <1>5, InputRoutingResponse
<1>6. ASSUME NEW c \in Clients, FlitArrives(c) PROVE InputInv'
  BY <1>6, InputFlitArrives
<1>7. ASSUME NEW c \in Clients, PipelineEvent(c) PROVE InputInv'
  BY <1>7, InputPipelineEvent
<1>8. ASSUME NEW e \in {1, 2}, NEW S \in SUBSET Vcs, CreditStep(e, S) PROVE InputInv'
  <2>1. Elsewhere(e)
    BY <1>8 DEF Elsewhere, CreditStep, iqVars, vcVars, XS!IncrementCreditCount, InputInv, InputTypes
  <2> QED
    BY <2>1, InputElsewhere
<1>9. CASE UNCHANGED vars
  BY <1>9, InputStutters
<1>10. ASSUME NEW e \in {0, 1, 2}, Idle(e) PROVE InputInv'
  <2>1. Elsewhere(e)
    BY <1>10 DEF Elsewhere, Idle, iqVars, vcVars, xsVars, InputInv, InputTypes
  <2> QED
    BY <2>1, InputElsewhere
<1> QED
  BY <1>1, <1>2, <1>3, <1>4, <1>5, <1>6, <1>7, <1>8, <1>9, <1>10 DEF RouterStep

(* Between any two events the flits of every queue follow each other, and  *)
(* every stage that waits has asked and will be answered.                  *)
THEOREM InputSideCorrect == Spec => []InputInv
<1>1. Init => InputInv
  BY InputInit
<1>2. InputInv /\ [Next]_vars => InputInv'
  BY InputNext, NextIsRouterStep
<1> QED
  BY <1>1, <1>2, PTL DEF Spec

(* A queue with empty stages and an empty buffer has no flit.              *)
LEMMA NothingLeft ==
  ASSUME NEW q, q.buffer = <<>>, q.rfe.flit = None, q.vca.flit = None, q.swa.flit = None
  PROVE  IQ!Contents(q) = <<>>
BY DEF IQ!Contents, IQ!InStage

(* The invariant of the input side has that no wake-up is lost.            *)
LEMMA QueuesWakeUp == InputInv => NoLostWakeup
<1> SUFFICES ASSUME InputInv, NEW c \in Clients, IQ!Contents(iq[c]) # <<>>, pipeEvent[c] = "none",
                    iq[c].rfe.fsm # "waiting"
             PROVE  \/ iq[c].vca.fsm = "waiting" /\ c \in clientRequested /\ allocEventSet
                    \/ iq[c].swa.fsm = "waiting" /\ request[c] # None /\ eventAction = "RUNALLOC"
  BY DEF NoLostWakeup
<1>1. ClientInv(c) /\ iq[c].vca.fsm \in States
  BY DEF InputInv, InputTypes, QueueType
<1>2. Asleep(iq[c])
  BY <1>1 DEF ClientInv, OnTime
<1>3. Filled(iq[c])
  BY <1>1 DEF ClientInv, QueueOK, QueueInv
<1>4. CASE iq[c].vca.fsm = "empty" /\ iq[c].swa.fsm = "empty"
  BY <1>2, <1>3, <1>4, NothingLeft DEF Asleep, Filled
<1>5. CASE iq[c].vca.fsm = "waiting"
  BY <1>1, <1>5 DEF ClientInv, Answerable
<1>6. CASE iq[c].swa.fsm = "waiting"
  BY <1>1, <1>6 DEF ClientInv, Answerable
<1> QED
  BY <1>1, <1>2, <1>4, <1>5, <1>6 DEF Asleep, States

(* No wake-up is lost: an input queue that holds a flit has an event or a  *)
(* response coming.                                                        *)
THEOREM NoWakeupLost == Spec => []NoLostWakeup
  BY InputSideCorrect, QueuesWakeUp, PTL

-----------------------------------------------------------------------------
(* The crossbar: maps in flight, and in how many of them there is a flit   *)
(* for VC v.                                                               *)
Entry == [flit : Flits, vc : Vcs]
CrossbarMap == [wait : Int, map : [Ports -> SUBSET Entry]]
With(s, v) == {i \in DOMAIN s : \E x \in s[i].map[PortOf[v]] : x.vc = v}

(* A port has one flit of each map at most, of one of its VCs.             *)
OneFlit(m) == \A p \in Ports : \A x, y \in m.map[p] : x = y /\ PortOf[x.vc] = p

(* The maps that have a flit for a VC can be counted.                      *)
LEMMA Counted ==
  ASSUME NEW s \in Seq(CrossbarMap), NEW v
  PROVE  /\ Len(s) \in Nat /\ DOMAIN s = 1..Len(s) /\ With(s, v) \in SUBSET (1..Len(s))
         /\ IsFiniteSet(With(s, v)) /\ Cardinality(With(s, v)) \in Nat
<1>1. Len(s) \in Nat /\ DOMAIN s = 1..Len(s)
  OBVIOUS
<1>2. With(s, v) \in SUBSET (1..Len(s))
  BY <1>1 DEF With
<1>3. IsFiniteSet(1..Len(s))
  BY <1>1, FS_Interval
<1>4. IsFiniteSet(With(s, v))
  BY <1>2, <1>3, FS_Subset
<1> QED
  BY <1>1, <1>2, <1>4, FS_CardinalityType

(* inject(): a flit more for its VC.                                       *)
Injected(s, p, x, t) ==
  t = IF s # <<>> /\ Head(s).wait = XbarLatency
      THEN [s EXCEPT ![1].map[p] = @ \cup {x}]
      ELSE <<[wait |-> XbarLatency,
              map |-> [o \in Ports |-> IF o = p THEN {x} ELSE {}]]>> \o s

(* A flit that is injected is one more on its VC and on no other.          *)
LEMMA InjectCounts ==
  ASSUME NEW s \in Seq(CrossbarMap), NEW x \in Entry, NEW p \in Ports, PortOf[x.vc] = p, NEW t,
         s # <<>> /\ Head(s).wait = XbarLatency => s[1].map[p] = {},
         Injected(s, p, x, t)
  PROVE  /\ t \in Seq(CrossbarMap)
         /\ \A v \in Vcs : Cardinality(With(t, v)) =
                             IF v = x.vc THEN Cardinality(With(s, v)) + 1
                             ELSE Cardinality(With(s, v))
         /\ (\A i \in DOMAIN s : OneFlit(s[i])) => \A i \in DOMAIN t : OneFlit(t[i])
         /\ (\A i \in DOMAIN s : s[i].wait <= XbarLatency) => \A i \in DOMAIN t : t[i].wait <= XbarLatency
         /\ t # <<>> /\ t[1].wait = XbarLatency
         /\ \A q \in Ports \ {p} :
              (s # <<>> /\ s[1].wait = XbarLatency => s[1].map[q] = {}) => t[1].map[q] = {}
<1> DEFINE n == Len(s)
<1>0. n \in Nat /\ DOMAIN s = 1..n /\ (s # <<>> => n > 0 /\ Head(s) = s[1] /\ s[1] \in CrossbarMap)
  OBVIOUS
<1>1. XbarLatency \in Nat /\ x.vc \in Vcs /\ PortOf \in [Vcs -> Ports]
  BY RouterAssumption DEF Entry
<1>2. CASE s # <<>> /\ Head(s).wait = XbarLatency
  <2>1. s[1] \in CrossbarMap /\ s[1].map[p] = {} /\ s[1].wait = XbarLatency /\ 1 \in 1..n
    BY <1>0, <1>2
  <2>2. PICK m : m = [s[1] EXCEPT !.map[p] = @ \cup {x}]
    OBVIOUS
  <2>3. t = [s EXCEPT ![1] = m]
    BY <1>2, <2>2 DEF Injected
  <2>4. m = [wait |-> XbarLatency, map |-> [s[1].map EXCEPT ![p] = {x}]]
    BY <2>1, <2>2 DEF CrossbarMap
  <2>5. m \in CrossbarMap /\ m.map[p] = {x} /\ m.wait = XbarLatency /\ \A q \in Ports \ {p} : m.map[q] = s[1].map[q]
    BY <1>1, <2>1, <2>4 DEF CrossbarMap
  <2>6. t \in Seq(CrossbarMap) /\ DOMAIN t = 1..n /\ t[1] = m /\ t # <<>> /\ \A i \in 1..n : i # 1 => t[i] = s[i]
    <3>1. PICK U : U = CrossbarMap
      OBVIOUS
    <3>2. s \in Seq(U) /\ s # <<>> /\ m \in U
      BY <1>2, <2>5, <3>1
    <3>3. /\ t \in Seq(U) /\ DOMAIN t = 1..Len(s) /\ t # <<>> /\ t[1] = m
          /\ \A i \in 1..Len(s) : i # 1 => t[i] = s[i]
      BY <2>3, <3>2, FirstReplaced
    <3> QED
      BY <3>1, <3>3
  <2>7. ASSUME NEW v \in Vcs
        PROVE Cardinality(With(t, v)) = IF v = x.vc THEN Cardinality(With(s, v)) + 1
                                        ELSE Cardinality(With(s, v))
    <3>1. CASE v = x.vc
      <4>1. With(t, v) = With(s, v) \cup {1} /\ 1 \notin With(s, v)
        BY <1>0, <2>1, <2>5, <2>6, <3>1 DEF With
      <4> QED
        BY <3>1, <4>1, Counted, FS_AddElement
    <3>2. CASE v # x.vc
      <4>1. (\E y \in m.map[PortOf[v]] : y.vc = v) <=> (\E y \in s[1].map[PortOf[v]] : y.vc = v)
        BY <1>1, <2>1, <2>5, <3>2
      <4>2. ASSUME NEW i \in 1..n
            PROVE (\E y \in t[i].map[PortOf[v]] : y.vc = v) <=> (\E y \in s[i].map[PortOf[v]] : y.vc = v)
        BY <2>6, <4>1
      <4>3. With(t, v) = With(s, v)
        BY <1>0, <2>6, <4>2 DEF With
      <4> QED
        BY <3>2, <4>3
    <3> QED
      BY <3>1, <3>2
  <2>8. OneFlit(s[1]) => OneFlit(m)
    BY <1>1, <2>5 DEF OneFlit
  <2>9. m.wait <= XbarLatency
    BY <1>1, <2>5
  <2>10. (\A i \in DOMAIN s : OneFlit(s[i])) => \A i \in DOMAIN t : OneFlit(t[i])
    BY <1>0, <2>1, <2>6, <2>8
  <2>11. (\A i \in DOMAIN s : s[i].wait <= XbarLatency) => \A i \in DOMAIN t : t[i].wait <= XbarLatency
    BY <1>0, <2>1, <2>6, <2>9
  <2>12. \A q \in Ports \ {p} :
           (s # <<>> /\ s[1].wait = XbarLatency => s[1].map[q] = {}) => t[1].map[q] = {}
    BY <1>2, <2>1, <2>5, <2>6
  <2> QED
    BY <2>5, <2>6, <2>7, <2>10, <2>11, <2>12
<1>3. CASE ~(s # <<>> /\ Head(s).wait = XbarLatency)
  <2>1. PICK m : m = [wait |-> XbarLatency, map |-> [o \in Ports |-> IF o = p THEN {x} ELSE {}]]
    OBVIOUS
  <2>2. t = <<m>> \o s
    BY <1>3, <2>1 DEF Injected
  <2>3. m \in CrossbarMap /\ m.map[p] = {x} /\ m.wait = XbarLatency /\ \A q \in Ports \ {p} : m.map[q] = {}
    BY <1>1, <2>1 DEF CrossbarMap
  <2>4. /\ t \in Seq(CrossbarMap) /\ DOMAIN t = 1..(n + 1) /\ t[1] = m /\ t # <<>>
        /\ \A i \in 1..n : t[i + 1] = s[i]
        /\ \A j \in 1..(n + 1) : j # 1 => \E i \in 1..n : j = i + 1
    <3>1. PICK U : U = CrossbarMap
      OBVIOUS
    <3>2. s \in Seq(U) /\ m \in U
      BY <2>3, <3>1
    <3>3. /\ t \in Seq(U) /\ DOMAIN t = 1..(Len(s) + 1) /\ t # <<>> /\ t[1] = m
          /\ \A i \in 1..Len(s) : t[i + 1] = s[i]
          /\ \A j \in 1..(Len(s) + 1) : j # 1 => \E i \in 1..Len(s) : j = i + 1
      BY <2>2, <3>2, PutInFront
    <3> QED
      BY <3>1, <3>3
  <2>5. \A j \in 1..(n + 1) : j = 1 \/ \E i \in 1..n : j = i + 1 /\ t[j] = s[i]
    BY <2>4
  <2>6. ASSUME NEW v \in Vcs
        PROVE Cardinality(With(t, v)) = IF v = x.vc THEN Cardinality(With(s, v)) + 1
                                        ELSE Cardinality(With(s, v))
    <3>1. PICK T : T = {i + 1 : i \in With(s, v)}
      OBVIOUS
    <3>2. With(s, v) \in SUBSET (1..n)
      BY Counted
    <3>3. Cardinality(T) = Cardinality(With(s, v)) /\ Cardinality(T \cup {1}) = Cardinality(With(s, v)) + 1
      BY <1>0, <3>1, <3>2, ShiftedSet
    <3>4. \A i \in 1..n : i + 1 \in With(t, v) <=> i \in With(s, v)
      <4>1. \A i \in 1..n : i + 1 \in DOMAIN t
        BY <1>0, <2>4
      <4> QED
        BY <1>0, <2>4, <4>1 DEF With
    <3>5. 1 \in With(t, v) <=> v = x.vc
      <4>1. PortOf[v] \in Ports /\ 1 \in DOMAIN t
        BY <1>0, <1>1, <2>4
      <4>2. (\E y \in m.map[PortOf[v]] : y.vc = v) <=> v = x.vc
        BY <1>1, <2>3, <4>1
      <4> QED
        BY <2>4, <4>1, <4>2 DEF With
    <3>6. With(t, v) \subseteq 1..(n + 1)
      BY <2>4 DEF With
    <3>7. \A j \in 1..(n + 1) : j # 1 => (j \in With(t, v) <=> j \in T)
      <4> SUFFICES ASSUME NEW j \in 1..(n + 1), j # 1 PROVE j \in With(t, v) <=> j \in T
        OBVIOUS
      <4>1. PICK i \in 1..n : j = i + 1
        BY <2>5
      <4>2. i + 1 \in T <=> i \in With(s, v)
        BY <1>0, <3>1, <3>2
      <4> QED
        BY <3>4, <4>1, <4>2
    <3>8. T \subseteq 1..(n + 1) /\ 1 \notin T /\ 1 \in 1..(n + 1)
      BY <1>0, <3>1, <3>2
    <3>9. CASE v = x.vc
      <4>1. With(t, v) = T \cup {1}
        BY <3>5, <3>6, <3>7, <3>8, <3>9
      <4> QED
        BY <3>3, <3>9, <4>1
    <3>10. CASE v # x.vc
      <4>1. With(t, v) \subseteq T
        BY <3>5, <3>6, <3>7, <3>10
      <4>2. T \subseteq With(t, v)
        BY <3>7, <3>8
      <4> QED
        <5>1. With(t, v) = T
          BY <4>1, <4>2
        <5> QED
          BY <3>3, <3>10, <5>1
    <3> QED
      BY <3>9, <3>10
  <2>7. OneFlit(m)
    BY <1>1, <2>3 DEF OneFlit
  <2>8. (\A i \in DOMAIN s : OneFlit(s[i])) => \A i \in DOMAIN t : OneFlit(t[i])
    <3> SUFFICES ASSUME \A i \in DOMAIN s : OneFlit(s[i]), NEW j \in 1..(n + 1) PROVE OneFlit(t[j])
      BY <2>4
    <3>1. \A i \in 1..n : OneFlit(s[i])
      BY <1>0
    <3> HIDE DEF n
    <3>2. t[j] = m \/ \E i \in 1..n : t[j] = s[i]
      BY <2>4, <2>5
    <3> QED
      BY <2>7, <3>1, <3>2
  <2>9. (\A i \in DOMAIN s : s[i].wait <= XbarLatency) => \A i \in DOMAIN t : t[i].wait <= XbarLatency
    <3> SUFFICES ASSUME \A i \in DOMAIN s : s[i].wait <= XbarLatency, NEW j \in 1..(n + 1)
                 PROVE  t[j].wait <= XbarLatency
      BY <2>4
    <3>1. \A i \in 1..n : s[i].wait <= XbarLatency
      BY <1>0
    <3>2. m.wait <= XbarLatency
      BY <1>1, <2>3
    <3> HIDE DEF n
    <3>3. t[j] = m \/ \E i \in 1..n : t[j] = s[i]
      BY <2>4, <2>5
    <3> QED
      BY <3>1, <3>2, <3>3
  <2> QED
    BY <2>3, <2>4, <2>6, <2>8, <2>9
<1> QED
  BY <1>2, <1>3

(* The oldest map leaves: a flit less for each VC it has one for.          *)
Leaving(s, v) == {x.flit : x \in {y \in s[Len(s)].map[PortOf[v]] : y.vc = v}}

(* What the oldest map delivers is no longer in the crossbar.              *)
LEMMA DeliveryCounts ==
  ASSUME NEW s \in Seq(CrossbarMap), s # <<>>, NEW t, t = SubSeq(s, 1, Len(s) - 1), NEW v \in Vcs,
         OneFlit(s[Len(s)])
  PROVE  /\ Cardinality(Leaving(s, v)) \in Nat
         /\ Cardinality(With(t, v)) + Cardinality(Leaving(s, v)) = Cardinality(With(s, v))
<1> DEFINE n == Len(s)
           F == Leaving(s, v)
           m == s[n]
<1>1. /\ t \in Seq(CrossbarMap) /\ n \in Nat \ {0} /\ m \in CrossbarMap /\ DOMAIN t = 1..(n - 1)
      /\ \A i \in 1..(n - 1) : t[i] = s[i]
  BY LastDropped
<1>2. DOMAIN s = 1..n /\ n \in 1..n /\ (1..(n - 1)) \cup {n} = 1..n /\ n \notin 1..(n - 1)
  BY <1>1
<1>3. PortOf[v] \in Ports
  BY RouterAssumption
<1>4. \A x, y \in m.map[PortOf[v]] : x = y
  BY <1>3 DEF OneFlit
<1>5. With(t, v) = With(s, v) \ {n} /\ (n \in With(s, v) <=> \E x \in m.map[PortOf[v]] : x.vc = v)
  <2> HIDE DEF n, m
  <2>1. \A i \in 1..(n - 1) : i \in With(t, v) <=> i \in With(s, v)
    BY <1>1, <1>2 DEF With
  <2>2. With(t, v) \subseteq 1..(n - 1) /\ With(s, v) \subseteq 1..n
    BY <1>1, <1>2 DEF With
  <2>3. n \in With(s, v) <=> \E x \in m.map[PortOf[v]] : x.vc = v
    BY <1>2 DEF With, m
  <2> QED
    BY <1>2, <2>1, <2>2, <2>3
<1>6. CASE \E x \in m.map[PortOf[v]] : x.vc = v
  <2>1. PICK x \in m.map[PortOf[v]] : x.vc = v
    BY <1>6
  <2>2. F = {x.flit}
    BY <1>4, <2>1 DEF Leaving
  <2>3. Cardinality(F) = 1
    BY <2>2, FS_Singleton
  <2>4. Cardinality(With(t, v)) = Cardinality(With(s, v)) - 1
    BY <1>5, <1>6, Counted, FS_RemoveElement
  <2>5. Cardinality(With(s, v)) \in Nat
    BY Counted
  <2> QED
    BY <2>3, <2>4, <2>5
<1>7. CASE ~\E x \in m.map[PortOf[v]] : x.vc = v
  <2>1. F = {}
    BY <1>7 DEF Leaving
  <2>2. Cardinality(F) = 0
    BY <2>1, FS_EmptySet
  <2>3. With(t, v) = With(s, v)
    BY <1>5, <1>7
  <2>4. Cardinality(With(s, v)) \in Nat
    BY Counted
  <2> QED
    BY <2>2, <2>3, <2>4
<1> QED
  BY <1>6, <1>7

-----------------------------------------------------------------------------
(* Credits.  No map is open between two cycles, and a port that a granted  *)
(* queue is about to use has no flit in the open map.                      *)
Opened(s) == s # <<>> /\ s[1].wait = XbarLatency

CrossbarInv ==
  /\ xbar \in Seq(CrossbarMap)
  /\ \A i \in DOMAIN xbar : OneFlit(xbar[i]) /\ xbar[i].wait <= XbarLatency
  /\ epsilon < 2 => ~Opened(xbar)
  /\ \A c \in Clients :
       iq[c].swa.fsm = "ready" /\ Opened(xbar) => xbar[1].map[PortOf[iq[c].swa.vc]] = {}

CreditTypes ==
  /\ credits \in [Vcs -> Int] /\ incrCredits \in [Vcs -> Nat] /\ down \in [Vcs -> Nat]

(* Every slot downstream is in one place.                                  *)
CreditsConserved ==
  \A v \in Vcs : credits[v] + incrCredits[v] + InCrossbar(v) + down[v] = DownDepth

CreditInv == CrossbarInv /\ CreditTypes /\ CreditsConserved

(* The count of the flits inside the crossbar, in terms of its maps.       *)
LEMMA CrossbarCounts == \A v : InCrossbar(v) = Cardinality(With(xbar, v))
BY DEF InCrossbar, With

(* All credits are there at the start.                                     *)
LEMMA CreditInit == Init => CreditInv
<1> SUFFICES ASSUME Init PROVE CreditInv
  OBVIOUS
<1>1. xbar = <<>> /\ down = [v \in Vcs |-> 0] /\ XS!SchedInit
  BY DEF Init
<1>2. credits = [v \in Vcs |-> DownDepth] /\ incrCredits = [v \in Vcs |-> 0]
  BY <1>1 DEF XS!SchedInit
<1>3. DownDepth \in Nat
  BY RouterAssumption
<1>4. CreditTypes
  BY <1>1, <1>2, <1>3 DEF CreditTypes
<1>5. CrossbarInv
  BY <1>1 DEF CrossbarInv, Opened
<1>6. ASSUME NEW v \in Vcs PROVE InCrossbar(v) = 0
  <2>1. With(xbar, v) = {}
    BY <1>1 DEF With
  <2> QED
    BY <2>1, CrossbarCounts, FS_EmptySet
<1>7. CreditsConserved
  BY <1>1, <1>2, <1>3, <1>6 DEF CreditsConserved
<1> QED
  BY <1>4, <1>5, <1>7 DEF CreditInv

(* Before the pipelines run no map is open, so the grants conflict with    *)
(* none.                                                                   *)
LEMMA CrossbarBefore2 ==
  ASSUME CrossbarInv, NEW e \in {0, 1}, At(e), epsilon \in {0, 1, 2}, UNCHANGED xbar
  PROVE  CrossbarInv'
<1>1. epsilon < 2 /\ epsilon' = e
  BY DEF At, MayRun
<1>2. ~Opened(xbar)
  BY <1>1 DEF CrossbarInv
<1> QED
  BY <1>2 DEF CrossbarInv

(* Nor do they if neither the queues nor the crossbar change.              *)
LEMMA CrossbarLeft ==
  ASSUME CrossbarInv, NEW e \in {0, 1, 2}, At(e), epsilon \in {0, 1, 2}, UNCHANGED <<xbar, iq>>
  PROVE  CrossbarInv'
<1>1. epsilon <= e /\ epsilon' = e
  BY DEF At, MayRun
<1>2. epsilon' < 2 => ~Opened(xbar)
  BY <1>1 DEF CrossbarInv
<1> QED
  BY <1>2 DEF CrossbarInv, Opened

(* Only the scheduler's own event, which adds the credits that came back.  *)
LEMMA CreditsApplied ==
  ASSUME CreditTypes, CreditsConserved, XS!ApplyCredits, UNCHANGED <<xbar, down>>
  PROVE  CreditTypes' /\ CreditsConserved'
<1>1. /\ credits' = [v \in Vcs |-> credits[v] + incrCredits[v]]
      /\ incrCredits' = [v \in Vcs |-> 0]
  BY DEF XS!ApplyCredits, XS!Available
<1>2. CreditTypes'
  BY <1>1 DEF CreditTypes
<1>3. ASSUME NEW v \in Vcs
      PROVE credits'[v] + incrCredits'[v] + InCrossbar(v)' + down'[v] = DownDepth
  <2>1. InCrossbar(v)' = InCrossbar(v)
    BY DEF InCrossbar
  <2>2. credits'[v] = credits[v] + incrCredits[v] /\ incrCredits'[v] = 0
    BY <1>1
  <2>3. credits[v] + incrCredits[v] + InCrossbar(v) + down[v] = DownDepth
    BY DEF CreditsConserved
  <2>4. credits[v] \in Int /\ incrCredits[v] \in Nat
    BY DEF CreditTypes
  <2> QED
    BY <2>1, <2>2, <2>3, <2>4
<1> QED
  BY <1>2, <1>3 DEF CreditsConserved

(* An event that touches neither credits nor the crossbar keeps the count. *)
LEMMA CreditsUntouched ==
  ASSUME CreditInv, NEW e \in {0, 1}, At(e), epsilon \in {0, 1, 2},
         UNCHANGED <<xbar, credits, incrCredits, down>>
  PROVE  CreditInv'
<1>1. CrossbarInv'
  BY CrossbarBefore2 DEF CreditInv
<1>2. CreditTypes' /\ CreditsConserved'
  BY DEF CreditInv, CreditTypes, CreditsConserved, InCrossbar
<1> QED
  BY <1>1, <1>2 DEF CreditInv

(* Adding the returned credits moves them from one count to another, and   *)
(* each grant is behind a credit.                                          *)
LEMMA CreditXbarSchedulerEvent ==
  ASSUME InputInv, CreditInv, CrossbarSchedulerEvent
  PROVE  CreditInv'
<1>1. XS!ApplyCredits
  BY DEF CrossbarSchedulerEvent, XS!CreditsOnly, XS!RunAlloc
<1>2. At(0) /\ UNCHANGED <<xbar, down>> /\ epsilon \in {0, 1, 2}
  BY DEF CrossbarSchedulerEvent, netVars, InputInv, InputTypes
<1>3. CrossbarInv'
  BY <1>2, CrossbarBefore2 DEF CreditInv
<1> QED
  BY <1>1, <1>2, <1>3, CreditsApplied DEF CreditInv

(* A delivery moves flits from the crossbar downstream.                    *)
LEMMA CreditCrossbarEvent ==
  ASSUME InputInv, CreditInv, CrossbarEvent
  PROVE  CreditInv'
<1> DEFINE F(v) == Leaving(xbar, v)
<1>1. /\ xbar # <<>> /\ xbar' = SubSeq(xbar, 1, Len(xbar) - 1)
      /\ down' = [v \in Vcs |-> down[v] + Cardinality(F(v))]
      /\ At(1) /\ epsilon \in {0, 1, 2} /\ UNCHANGED <<credits, incrCredits, iq>>
  BY DEF CrossbarEvent, CrossbarDue, xsVars, iqVars, InputInv, InputTypes, Leaving
<1>2. PICK U : U = CrossbarMap
  OBVIOUS
<1>3. xbar \in Seq(U)
  BY <1>2 DEF CreditInv, CrossbarInv
<1>4. /\ xbar' \in Seq(U) /\ Len(xbar) \in Nat \ {0} /\ DOMAIN xbar' = 1..(Len(xbar) - 1)
      /\ \A i \in 1..(Len(xbar) - 1) : xbar'[i] = xbar[i]
      /\ xbar' # <<>> => xbar'[1] = xbar[1]
  BY <1>1, <1>3, LastDropped
<1>5. /\ Len(xbar) \in DOMAIN xbar
      /\ \A i \in DOMAIN xbar' : i \in DOMAIN xbar /\ xbar'[i] = xbar[i]
  BY <1>3, <1>4
<1>6. epsilon < 2 /\ epsilon' = 1
  BY <1>1 DEF At, MayRun
<1>7. ~Opened(xbar)'
  BY <1>1, <1>4, <1>6 DEF CreditInv, CrossbarInv, Opened
<1>8. CrossbarInv'
  BY <1>2, <1>4, <1>5, <1>7 DEF CreditInv, CrossbarInv
<1>9. ASSUME NEW v \in Vcs
      PROVE  /\ down'[v] \in Nat
             /\ credits[v] + incrCredits[v] + InCrossbar(v)' + down'[v] = DownDepth
  <2>1. /\ Cardinality(F(v)) \in Nat
        /\ Cardinality(With(xbar', v)) + Cardinality(F(v)) = Cardinality(With(xbar, v))
    <3>1. OneFlit(xbar[Len(xbar)]) /\ xbar \in Seq(CrossbarMap)
      BY <1>5 DEF CreditInv, CrossbarInv
    <3>2. PICK s, t : s = xbar /\ t = xbar'
      OBVIOUS
    <3>3. s \in Seq(CrossbarMap) /\ s # <<>> /\ t = SubSeq(s, 1, Len(s) - 1) /\ OneFlit(s[Len(s)])
      BY <1>1, <3>1, <3>2
    <3>4. /\ Cardinality(Leaving(s, v)) \in Nat
          /\ Cardinality(With(t, v)) + Cardinality(Leaving(s, v)) = Cardinality(With(s, v))
      BY <3>3, DeliveryCounts
    <3>5. F(v) = Leaving(s, v)
      BY <3>2
    <3> HIDE DEF F
    <3> QED
      BY <3>2, <3>4, <3>5
  <2>2. InCrossbar(v) = Cardinality(With(xbar, v)) /\ InCrossbar(v)' = Cardinality(With(xbar', v))
    BY DEF InCrossbar, With
  <2>3. Cardinality(With(xbar, v)) \in Nat /\ Cardinality(With(xbar', v)) \in Nat
    BY <1>2, <1>3, <1>4, Counted
  <2>4. down'[v] = down[v] + Cardinality(F(v))
    BY <1>1
  <2>5. credits[v] \in Int /\ incrCredits[v] \in Nat /\ down[v] \in Nat
    BY DEF CreditInv, CreditTypes
  <2>6. credits[v] + incrCredits[v] + InCrossbar(v) + down[v] = DownDepth
    BY DEF CreditInv, CreditsConserved
  <2> QED
    BY <2>1, <2>2, <2>3, <2>4, <2>5, <2>6
<1>10. CreditTypes'
  BY <1>1, <1>9 DEF CreditInv, CreditTypes
<1>11. CreditsConserved'
  BY <1>1, <1>9 DEF CreditsConserved
<1> QED
  BY <1>8, <1>10, <1>11 DEF CreditInv

(* A credit that returns is one flit less downstream.                      *)
LEMMA CreditCreditStep ==
  ASSUME InputInv, CreditInv, NEW e \in {1, 2}, NEW S \in SUBSET Vcs, CreditStep(e, S)
  PROVE  CreditInv'
<1>1. /\ S \in SUBSET {v \in Vcs : down[v] > 0}
      /\ incrCredits' = [v \in Vcs |-> IF v \in S THEN incrCredits[v] + 1 ELSE incrCredits[v]]
      /\ down' = [v \in Vcs |-> IF v \in S THEN down[v] - 1 ELSE down[v]]
  BY DEF CreditStep, XS!IncrementCreditCount
<1>2. At(e) /\ epsilon \in {0, 1, 2} /\ UNCHANGED <<credits, xbar, iq>>
  BY DEF CreditStep, iqVars, InputInv, InputTypes
<1>3. CrossbarInv'
  BY <1>2, CrossbarLeft DEF CreditInv
<1>4. ASSUME NEW v \in Vcs
      PROVE  /\ down'[v] \in Nat /\ incrCredits'[v] \in Nat
             /\ credits[v] + incrCredits'[v] + InCrossbar(v) + down'[v] = DownDepth
  <2>1. credits[v] \in Int /\ incrCredits[v] \in Nat /\ down[v] \in Nat /\ InCrossbar(v) \in Nat
    BY Counted, CrossbarCounts DEF CreditInv, CreditTypes, CrossbarInv
  <2>2. credits[v] + incrCredits[v] + InCrossbar(v) + down[v] = DownDepth
    BY DEF CreditInv, CreditsConserved
  <2>3. CASE v \in S
    <3>1. down[v] > 0 /\ down'[v] = down[v] - 1 /\ incrCredits'[v] = incrCredits[v] + 1
      BY <1>1, <2>3
    <3> QED
      BY <2>1, <2>2, <3>1
  <2>4. CASE v \notin S
    <3>1. down'[v] = down[v] /\ incrCredits'[v] = incrCredits[v]
      BY <1>1, <2>4
    <3> QED
      BY <2>1, <2>2, <3>1
  <2> QED
    BY <2>3, <2>4
<1>5. CreditTypes'
  BY <1>1, <1>2, <1>4 DEF CreditInv, CreditTypes
<1>6. CreditsConserved'
  BY <1>2, <1>4 DEF CreditsConserved, InCrossbar
<1> QED
  BY <1>3, <1>5, <1>6 DEF CreditInv

(* The clock: all waits get shorter.                                       *)
LEMMA CrossbarTick ==
  ASSUME InputInv, CrossbarInv, Tick
  PROVE  CrossbarInv' /\ \A v \in Vcs : InCrossbar(v)' = InCrossbar(v)
<1>1. xbar' = [i \in DOMAIN xbar |-> [xbar[i] EXCEPT !.wait = @ - 1]] /\ epsilon' = 0
  BY DEF Tick
<1>2. PICK s, t : s = xbar /\ t = xbar'
  OBVIOUS
<1>3. s \in Seq(CrossbarMap) /\ t = [i \in DOMAIN s |-> [s[i] EXCEPT !.wait = @ - 1]]
  BY <1>1, <1>2 DEF CrossbarInv
<1>4. PICK n \in Nat : n = Len(s) /\ DOMAIN s = 1..n /\ \A i \in 1..n : s[i] \in CrossbarMap
  BY <1>3
<1>5. ASSUME NEW i \in 1..n
      PROVE t[i] \in CrossbarMap /\ t[i].map = s[i].map /\ t[i].wait = s[i].wait - 1
  <2>1. t[i] = [s[i] EXCEPT !.wait = @ - 1]
    BY <1>3, <1>4
  <2>2. s[i] \in CrossbarMap
    BY <1>4
  <2> QED
    BY <2>1, <2>2 DEF CrossbarMap
<1>6. t \in Seq(CrossbarMap) /\ DOMAIN t = 1..n /\ (t # <<>> => s # <<>> /\ 1 \in 1..n)
  <2> HIDE DEF CrossbarMap
  <2>1. DOMAIN t = 1..n
    BY <1>3, <1>4
  <2>2. t \in [1..n -> CrossbarMap]
    BY <1>3, <1>4, <1>5
  <2>3. t \in Seq(CrossbarMap) /\ Len(t) = n
    BY <1>4, <2>2
  <2>4. t # <<>> => 1 \in 1..n
    BY <1>4, <2>3
  <2>5. t # <<>> => s # <<>>
    BY <1>3, <1>4, <2>3
  <2> QED
    BY <2>1, <2>3, <2>4, <2>5
<1>7. \A i \in 1..n : OneFlit(s[i]) /\ s[i].wait <= XbarLatency /\ s[i].wait \in Int
  BY <1>2, <1>4 DEF CrossbarInv, CrossbarMap
<1>8. \A i \in 1..n : OneFlit(t[i]) /\ t[i].wait < XbarLatency
  <2>1. XbarLatency \in Int
    BY RouterAssumption
  <2> QED
    BY <1>5, <1>7, <2>1 DEF OneFlit
<1>9. ~Opened(t) /\ \A i \in 1..n : t[i].wait <= XbarLatency
  <2>1. XbarLatency \in Int /\ \A i \in 1..n : t[i].wait \in Int
    BY <1>5, <1>7, RouterAssumption
  <2> QED
    BY <1>6, <1>8, <2>1 DEF Opened
<1>10. CrossbarInv'
  BY <1>2, <1>6, <1>8, <1>9 DEF CrossbarInv
<1>11. ASSUME NEW v \in Vcs PROVE InCrossbar(v)' = InCrossbar(v)
  <2>1. With(t, v) = With(s, v)
    BY <1>4, <1>5, <1>6 DEF With
  <2>2. InCrossbar(v) = Cardinality(With(s, v)) /\ InCrossbar(v)' = Cardinality(With(t, v))
    BY <1>2 DEF InCrossbar, With
  <2> QED
    BY <2>1, <2>2
<1> QED
  BY <1>10, <1>11

(* The clock moves when all grants of the cycle are used.                  *)
LEMMA CreditTick ==
  ASSUME InputInv, CreditInv, Tick
  PROVE  CreditInv'
<1>1. CrossbarInv' /\ \A v \in Vcs : InCrossbar(v)' = InCrossbar(v)
  BY CrossbarTick DEF CreditInv
<1>2. UNCHANGED <<credits, incrCredits, down>>
  BY DEF Tick, xsVars
<1> QED
  BY <1>1, <1>2 DEF CreditInv, CreditTypes, CreditsConserved

(* A flit that is injected takes a credit; no port gets a second one in    *)
(* this cycle.                                                             *)
LEMMA CreditPipelineEvent ==
  ASSUME InputInv, CreditInv, NEW c \in Clients, PipelineEvent(c)
  PROVE  CreditInv'
<1>1. PICK q0, q1, q2, q3, q4, q5, q6, q7 : Run(c, q0, q1, q2, q3, q4, q5, q6, q7)
  BY PipelineEventRuns
<1>2. epsilon' = 2 /\ UNCHANGED <<incrCredits, down>>
  BY <1>1 DEF PipelineEvent, At
<1>3. iq \in [Clients -> QueueType] /\ ClientInv(c) /\ arrived[c] \in Nat
  BY DEF InputInv, InputTypes
<1>4. iq'[c].swa.fsm # "ready" /\ \A d \in Clients \ {c} : iq'[d] = iq[d]
  <2>1. /\ q0 \in QueueType /\ q1 \in QueueType /\ q2 \in QueueType /\ q3 \in QueueType
        /\ q4 \in QueueType /\ q5 \in QueueType /\ q6 \in QueueType /\ q7 \in QueueType
    <3>1. QueueInv(c, arrived[c], q0) /\ PipelineRun(q0, q1, q2, q3, q4, q5, q6, q7)
      BY <1>1, <1>3 DEF Run, ClientInv, QueueOK
    <3>2. PICK a \in Nat : a = arrived[c]
      BY <1>3
    <3>3. /\ QueueInv(c, a, q1) /\ QueueInv(c, a, q2) /\ QueueInv(c, a, q3) /\ QueueInv(c, a, q4)
          /\ QueueInv(c, a, q5) /\ QueueInv(c, a, q6) /\ QueueInv(c, a, q7)
      BY <3>1, <3>2, PipelineKeeps
    <3> QED
      BY <3>1, <3>3 DEF QueueInv
  <2>2. Changes(q0, q2, q4, q5, q7)
    BY <1>1, <2>1, PipelineEffects DEF Run
  <2>3. iq' = [iq EXCEPT ![c] = q7]
    BY <1>1 DEF Run, Wants
  <2> QED
    BY <1>3, <2>2, <2>3 DEF Changes
<1>5. CASE ~IQ!InjectReady(q0)
  <2>1. UNCHANGED <<xbar, credits>>
    BY <1>1, <1>5 DEF Run, Wants
  <2>2. CrossbarInv'
    BY <1>2, <1>4, <2>1 DEF CreditInv, CrossbarInv
  <2> QED
    BY <1>2, <2>1, <2>2 DEF CreditInv, CreditTypes, CreditsConserved, InCrossbar
<1>6. CASE IQ!InjectReady(q0)
  <2>1. PICK p, x, s, t : /\ p = PortOf[q0.swa.vc] /\ x = [flit |-> q0.swa.flit, vc |-> q0.swa.vc]
                          /\ s = xbar /\ t = xbar'
    OBVIOUS
  <2>2. q0 = iq[c] /\ q0.swa.fsm = "ready" /\ InjectFlit(p, x) /\ XS!DecrementCreditCount(x.vc)
    BY <1>1, <1>6, <2>1 DEF Run, Wants, IQ!InjectReady
  <2>3. x \in Entry /\ p = PortOf[x.vc] /\ p \in Ports
    <3>1. q0.swa.vc \in Vcs /\ q0.swa.flit \in Flits
      BY <1>3, <2>2 DEF ClientInv, QueueOK, QueueInv, QueueType, Filled, VcKept
    <3> QED
      BY <2>1, <3>1, RouterAssumption DEF Entry
  <2>4. Injected(s, p, x, t)
    BY <2>1, <2>2 DEF InjectFlit, Injected
  <2>5. s \in Seq(CrossbarMap) /\ \A i \in DOMAIN s : OneFlit(s[i]) /\ s[i].wait <= XbarLatency
    BY <2>1 DEF CreditInv, CrossbarInv
  <2>6. s # <<>> => Head(s) = s[1]
    BY <2>5
  <2>7. \A d \in Clients : iq[d].swa.fsm = "ready" /\ Opened(s) => s[1].map[PortOf[iq[d].swa.vc]] = {}
    BY <2>1 DEF CreditInv, CrossbarInv
  <2>8. s # <<>> /\ Head(s).wait = XbarLatency => s[1].map[p] = {}
    BY <2>1, <2>2, <2>6, <2>7 DEF Opened
  <2>9. /\ t \in Seq(CrossbarMap)
        /\ \A v \in Vcs : Cardinality(With(t, v)) =
                            IF v = x.vc THEN Cardinality(With(s, v)) + 1
                            ELSE Cardinality(With(s, v))
        /\ \A i \in DOMAIN t : OneFlit(t[i])
        /\ \A i \in DOMAIN t : t[i].wait <= XbarLatency
        /\ \A q \in Ports \ {p} :
             (s # <<>> /\ s[1].wait = XbarLatency => s[1].map[q] = {}) => t[1].map[q] = {}
    BY <2>3, <2>4, <2>5, <2>8, InjectCounts
  <2>10. ASSUME NEW d \in Clients, iq'[d].swa.fsm = "ready" PROVE t[1].map[PortOf[iq'[d].swa.vc]] = {}
    <3>1. d # c /\ iq'[d] = iq[d]
      BY <1>4, <2>10
    <3>2. iq[d].swa.vc \in Vcs
      <4>1. ClientInv(d)
        BY DEF InputInv
      <4> QED
        BY <2>10, <3>1, <4>1 DEF ClientInv, QueueOK, QueueInv, VcKept
    <3>3. PortOf[iq[d].swa.vc] # p /\ PortOf[iq[d].swa.vc] \in Ports
      BY <2>1, <2>2, <2>10, <3>1, <3>2, RouterAssumption DEF InputInv, PortsApart
    <3> QED
      BY <2>7, <2>9, <2>10, <3>1, <3>3 DEF Opened
  <2>11. CrossbarInv'
    BY <1>2, <2>1, <2>9, <2>10 DEF CrossbarInv
  <2>12. credits' = [credits EXCEPT ![x.vc] = @ - 1] /\ x.vc \in Vcs
    BY <2>2, <2>3 DEF XS!DecrementCreditCount, Entry
  <2>13. CreditTypes'
    BY <1>2, <2>12 DEF CreditInv, CreditTypes
  <2>14. ASSUME NEW v \in Vcs
         PROVE credits'[v] + incrCredits[v] + InCrossbar(v)' + down[v] = DownDepth
    <3>1. InCrossbar(v) = Cardinality(With(s, v)) /\ InCrossbar(v)' = Cardinality(With(t, v))
      BY <2>1 DEF InCrossbar, With
    <3>2. Cardinality(With(s, v)) \in Nat
      BY <2>5, Counted
    <3>3. credits[v] \in Int /\ incrCredits[v] \in Nat /\ down[v] \in Nat
      BY DEF CreditInv, CreditTypes
    <3>4. credits[v] + incrCredits[v] + InCrossbar(v) + down[v] = DownDepth
      BY DEF CreditInv, CreditsConserved
    <3>5. CASE v = x.vc
      <4>1. credits'[v] = credits[v] - 1 /\ InCrossbar(v)' = InCrossbar(v) + 1
        BY <2>9, <2>12, <3>1, <3>5 DEF CreditInv, CreditTypes
      <4> QED
        BY <3>1, <3>2, <3>3, <3>4, <4>1
    <3>6. CASE v # x.vc
      <4>1. credits'[v] = credits[v] /\ InCrossbar(v)' = InCrossbar(v)
        BY <2>9, <2>12, <3>1, <3>6 DEF CreditInv, CreditTypes
      <4> QED
        BY <3>4, <4>1
    <3> QED
      BY <3>5, <3>6
  <2>15. CreditsConserved'
    BY <1>2, <2>14 DEF CreditsConserved
  <2> QED
    BY <2>11, <2>13, <2>15 DEF CreditInv
<1> QED
  BY <1>5, <1>6

(* Every step conserves the credits.                                       *)
LEMMA CreditNext ==
  ASSUME InputInv, CreditInv, RouterStep
  PROVE  CreditInv'
<1>0. epsilon \in {0, 1, 2}
  BY DEF InputInv, InputTypes
<1>1. CASE VcSchedulerEvent
  <2>1. At(0) /\ UNCHANGED <<xbar, credits, incrCredits, down>>
    BY <1>1 DEF VcSchedulerEvent, xsVars, netVars
  <2> QED
    BY <1>0, <2>1, CreditsUntouched
<1>2. CASE CrossbarSchedulerEvent
  BY <1>2, CreditXbarSchedulerEvent
<1>3. CASE CrossbarEvent
  BY <1>3, CreditCrossbarEvent
<1>4. CASE Tick
  BY <1>4, CreditTick
<1>5. ASSUME NEW c \in Clients, RoutingResponse(c) PROVE CreditInv'
  <2>1. At(0) /\ UNCHANGED <<xbar, credits, incrCredits, down>>
    BY <1>5 DEF RoutingResponse, xsVars, netVars
  <2> QED
    BY <1>0, <2>1, CreditsUntouched
<1>6. ASSUME NEW c \in Clients, FlitArrives(c) PROVE CreditInv'
  <2>1. At(1) /\ UNCHANGED <<xbar, credits, incrCredits, down>>
    BY <1>6 DEF FlitArrives, xsVars
  <2> QED
    BY <1>0, <2>1, CreditsUntouched
<1>7. ASSUME NEW c \in Clients, PipelineEvent(c) PROVE CreditInv'
  BY <1>7, CreditPipelineEvent
<1>8. ASSUME NEW e \in {1, 2}, NEW S \in SUBSET Vcs, CreditStep(e, S) PROVE CreditInv'
  BY <1>8, CreditCreditStep
<1>9. CASE UNCHANGED vars
  <2>1. UNCHANGED <<xbar, credits, incrCredits, down, epsilon, iq>>
    BY <1>9 DEF vars, xsVars, iqVars, netVars
  <2> QED
    BY <2>1 DEF CreditInv, CrossbarInv, CreditTypes, CreditsConserved, InCrossbar
<1>10. ASSUME NEW e \in {0, 1, 2}, Idle(e) PROVE CreditInv'
  <2>1. At(e) /\ UNCHANGED <<xbar, credits, incrCredits, down, iq>>
    BY <1>10 DEF Idle, xsVars, iqVars
  <2>2. CrossbarInv'
    BY <1>0, <2>1, CrossbarLeft DEF CreditInv
  <2> QED
    BY <2>1, <2>2 DEF CreditInv, CreditTypes, CreditsConserved, InCrossbar
<1> QED
  BY <1>1, <1>2, <1>3, <1>4, <1>5, <1>6, <1>7, <1>8, <1>9, <1>10 DEF RouterStep

(* Every buffer slot downstream is in one place: free and known to be,     *)
(* about to be counted, taken by a flit in the crossbar or downstream.     *)
THEOREM SlotsConserved == Spec => []CreditsConserved
<1>1. Init => InputInv /\ CreditInv
  BY InputInit, CreditInit
<1>2. (InputInv /\ CreditInv) /\ [Next]_vars => (InputInv /\ CreditInv)'
  BY InputNext, CreditNext, NextIsRouterStep
<1>3. InputInv /\ CreditInv => CreditsConserved
  BY DEF CreditInv
<1> QED
  BY <1>1, <1>2, <1>3, PTL DEF Spec

-----------------------------------------------------------------------------
(* The router implements the specifications of its two schedulers.         *)
(* The schedulers' own assumptions follow from the router's.               *)
LEMMA VsClients == VS!ClientAssumption
BY RouterAssumption DEF VS!ClientAssumption

(* The VC scheduler's assumption on its allocator is the router's.         *)
LEMMA VsAllocator == VS!AllocatorAssumption
BY VcAllocatorAssumption DEF VS!AllocatorAssumption, VS!Matching

(* The crossbar scheduler's assumption on its settings is the router's.    *)
LEMMA XsSettings == XS!SchedulerAssumption
BY SizesPositive, RouterAssumption DEF XS!SchedulerAssumption

(* The crossbar scheduler's assumption on its allocator is the router's.   *)
LEMMA XsAllocator == XS!GrantAssumption
BY XbarAllocatorAssumption DEF XS!GrantAssumption

(* A packet is open after a flit only if another flit follows.             *)
LEMMA OpenHasNext ==
  ASSUME NEW c \in Clients, NEW k \in Nat, k <= TotalFlits(c), Open(c, k)
  PROVE  k < TotalFlits(c)
<1> DEFINE s == Traffic[c]
           L == Len(s)
<1>1. s \in Seq(Nat \ {0}) /\ L \in Nat
  BY RouterAssumption
<1>2. TotalFlits(c) \in Nat /\ TotalFlits(c) = SumTo(s, L)
  BY FlitsAreCounted DEF TotalFlits
<1>3. SUFFICES ASSUME k = TotalFlits(c) PROVE FALSE
  BY <1>2
<1>4. k > 0
  BY DEF Open
<1>5. L # 0
  <2>1. SumTo(s, 0) = 0
    BY <1>1, SumUnfolds
  <2> HIDE DEF L, s
  <2> QED
    BY <1>2, <1>3, <1>4, <2>1
<1>6. L \in 1..L /\ L - 1 \in 0..L
  BY <1>1, <1>5
<1>7. SumTo(s, L) = SumTo(s, L - 1) + s[L] /\ SumTo(s, L - 1) \in Nat /\ s[L] \in Nat \ {0}
  BY <1>1, <1>6, SumUnfolds
<1>8. Holds(c, L, k)
  <2> HIDE DEF L, s
  <2>1. SumTo(s, L - 1) < k /\ k <= SumTo(s, L)
    BY <1>2, <1>3, <1>7
  <2> QED
    BY <2>1 DEF Holds, L, s
<1>9. k \in 1..TotalFlits(c)
  BY <1>2, <1>3, <1>4
<1>10. FlitNumber(c, k) = [client |-> c, packet |-> L, index |-> k - SumTo(s, L - 1), size |-> s[L]]
  BY <1>6, <1>8, <1>9, PlaceOfFlit
<1>11. k - SumTo(s, L - 1) = s[L]
  <2> HIDE DEF L, s
  <2> QED
    BY <1>2, <1>3, <1>7
<1>12. IQ!IsTail(FlitNumber(c, k))
  BY <1>10, <1>11 DEF IQ!IsTail
<1> QED
  BY <1>12 DEF Open

(* The front of two sequences, one after the other.                        *)
LEMMA FrontOfTwo ==
  ASSUME NEW U, NEW s \in Seq(U), NEW t \in Seq(U)
  PROVE  /\ s \o t \in Seq(U) /\ Len(s \o t) = Len(s) + Len(t)
         /\ s # <<>> => s \o t # <<>> /\ Head(s \o t) = Head(s)
         /\ s = <<>> => s \o t = t
OBVIOUS

(* The front of the queue is the flit that is the next to leave.           *)
LEMMA FrontIs ==
  ASSUME NEW c \in Clients, NEW a \in Nat, NEW q, QueueInv(c, a, q)
  PROVE  /\ LeftSwa(q, a) \in Nat /\ LeftVca(q, a) \in Nat /\ LeftRfe(q, a) \in Nat
         /\ LeftBuffer(q, a) \in Nat /\ LeftSwa(q, a) <= a
         /\ IF IQ!Contents(q) = <<>> THEN LeftSwa(q, a) = a
            ELSE /\ LeftSwa(q, a) < a
                 /\ Head(IQ!Contents(q)) = FlitNumber(c, LeftSwa(q, a) + 1)
<1>1. PICK s, v, r, b : /\ s = IQ!InStage(q.swa) /\ v = IQ!InStage(q.vca)
                        /\ r = IQ!InStage(q.rfe) /\ b = q.buffer
  OBVIOUS
<1>2. /\ b \in Seq(Flits) /\ s \in Seq(Flits) /\ v \in Seq(Flits) /\ r \in Seq(Flits)
  BY <1>1 DEF IQ!InStage, QueueInv, QueueType
<1>3. IQ!Contents(q) = s \o v \o r \o b
  BY <1>1 DEF IQ!Contents
<1>4. /\ IF q.swa.flit = None THEN s = <<>> /\ In(q.swa) = 0
         ELSE s # <<>> /\ Head(s) = q.swa.flit /\ In(q.swa) = 1
      /\ IF q.vca.flit = None THEN v = <<>> /\ In(q.vca) = 0
         ELSE v # <<>> /\ Head(v) = q.vca.flit /\ In(q.vca) = 1
      /\ IF q.rfe.flit = None THEN r = <<>> /\ In(q.rfe) = 0
         ELSE r # <<>> /\ Head(r) = q.rfe.flit /\ In(q.rfe) = 1
  BY <1>1 DEF IQ!InStage, In
<1>5. PICK n \in Nat : n = Len(b) /\ (b = <<>> <=> n = 0) /\ (b # <<>> => Head(b) = b[1] /\ 1 \in 1..n)
  BY <1>2
<1>6. PICK i, j, k \in {0, 1} : i = In(q.swa) /\ j = In(q.vca) /\ k = In(q.rfe)
  BY DEF In
<1>7. /\ LeftBuffer(q, a) = a - n /\ LeftRfe(q, a) = a - n - k
      /\ LeftVca(q, a) = a - n - k - j /\ LeftSwa(q, a) = a - n - k - j - i
  BY <1>1, <1>5, <1>6 DEF LeftBuffer, LeftRfe, LeftVca, LeftSwa
<1>8. a - n - k - j - i >= 0
  BY <1>7 DEF QueueInv, Numbered
<1>9. /\ LeftSwa(q, a) \in Nat /\ LeftVca(q, a) \in Nat /\ LeftRfe(q, a) \in Nat
      /\ LeftBuffer(q, a) \in Nat /\ LeftSwa(q, a) <= a
  BY <1>6, <1>7, <1>8
<1>10. CASE q.swa.flit # None
  <2>1. IQ!Contents(q) # <<>> /\ Head(IQ!Contents(q)) = q.swa.flit
    BY <1>2, <1>3, <1>4, <1>10, FrontOfTwo
  <2>2. i = 1
    BY <1>4, <1>6, <1>10
  <2>3. LeftSwa(q, a) < a /\ LeftVca(q, a) = LeftSwa(q, a) + 1
    BY <1>6, <1>7, <2>2
  <2> QED
    BY <1>9, <1>10, <2>1, <2>3 DEF QueueInv, Numbered
<1>11. CASE q.swa.flit = None /\ q.vca.flit # None
  <2>1. IQ!Contents(q) # <<>> /\ Head(IQ!Contents(q)) = q.vca.flit
    BY <1>2, <1>3, <1>4, <1>11, FrontOfTwo
  <2>2. i = 0 /\ j = 1
    BY <1>4, <1>6, <1>11
  <2>3. LeftSwa(q, a) < a /\ LeftRfe(q, a) = LeftSwa(q, a) + 1
    BY <1>6, <1>7, <2>2
  <2> QED
    BY <1>9, <1>11, <2>1, <2>3 DEF QueueInv, Numbered
<1>12. CASE q.swa.flit = None /\ q.vca.flit = None /\ q.rfe.flit # None
  <2>1. IQ!Contents(q) # <<>> /\ Head(IQ!Contents(q)) = q.rfe.flit
    BY <1>2, <1>3, <1>4, <1>12, FrontOfTwo
  <2>2. i = 0 /\ j = 0 /\ k = 1
    BY <1>4, <1>6, <1>12
  <2>3. LeftSwa(q, a) < a /\ LeftBuffer(q, a) = LeftSwa(q, a) + 1
    BY <1>6, <1>7, <2>2
  <2> QED
    BY <1>9, <1>12, <2>1, <2>3 DEF QueueInv, Numbered
<1>13. CASE q.swa.flit = None /\ q.vca.flit = None /\ q.rfe.flit = None
  <2>1. IQ!Contents(q) = b
    BY <1>2, <1>3, <1>4, <1>13, FrontOfTwo
  <2>2. i = 0 /\ j = 0 /\ k = 0
    BY <1>4, <1>6, <1>13
  <2>3. LeftSwa(q, a) = a - n /\ LeftBuffer(q, a) = LeftSwa(q, a)
    BY <1>7, <2>2
  <2>4. CASE b = <<>>
    BY <1>5, <1>9, <2>1, <2>3, <2>4
  <2>5. CASE b # <<>>
    <3>1. Head(b) = FlitNumber(c, LeftSwa(q, a) + 1)
      BY <1>1, <1>5, <2>3, <2>5 DEF QueueInv, Numbered
    <3>2. LeftSwa(q, a) < a
      BY <1>5, <2>3, <2>5
    <3> QED
      BY <1>9, <2>1, <2>5, <3>1, <3>2
  <2> QED
    BY <2>4, <2>5
<1> QED
  BY <1>10, <1>11, <1>12, <1>13

(* What is left of a packet from flit f on.                                *)
Rest(f, v) == [vc |-> v, size |-> f.size, left |-> f.size - f.index + 1]

(* The packet that queue q is sending when k flits have left it.           *)
SendingAt(c, q, k) ==
  IF q.swa.flit # None THEN Rest(FlitNumber(c, k + 1), q.swa.vc)
  ELSE IF Open(c, k) THEN Rest(FlitNumber(c, k + 1), q.vca.vc)
  ELSE None

(* What is left of a packet from one of its flits on is a packet of the    *)
(* crossbar scheduler's clients.                                           *)
LEMMA RestIsPacket ==
  ASSUME NEW c \in Clients, NEW k \in Nat, k < TotalFlits(c), NEW v \in Vcs
  PROVE  Rest(FlitNumber(c, k + 1), v) \in XS!Packets
<1>1. k + 1 \in 1..TotalFlits(c)
  BY FlitsAreCounted
<1>2. PICK f \in Flits : f = FlitNumber(c, k + 1) /\ f.index <= f.size
  BY <1>1, FlitsArrive
<1>3. f.index \in Nat \ {0} /\ f.size \in PacketSizes /\ f.size \in Nat
  BY <1>2, FlitNumbers
<1>4. f.size - f.index + 1 \in Nat \ {0}
  BY <1>2, <1>3
<1> QED
  BY <1>2, <1>3, <1>4 DEF Rest, XS!Packets

(* The VC of an open packet is known.                                      *)
LEMMA VcOfOpen ==
  ASSUME NEW c \in Clients, NEW a \in Nat, NEW q, QueueInv(c, a, q)
  PROVE  /\ q.swa.flit # None => q.swa.vc \in Vcs /\ LeftSwa(q, a) < TotalFlits(c)
         /\ q.swa.flit = None /\ Open(c, LeftSwa(q, a)) =>
              q.vca.vc \in Vcs /\ LeftSwa(q, a) < TotalFlits(c)
<1>1. PICK k \in Nat : k = LeftSwa(q, a) /\ k <= a
  BY FrontIs
<1>2. a <= TotalFlits(c) /\ TotalFlits(c) \in Nat
  BY FlitsAreCounted DEF QueueInv, Numbered
<1>3. ASSUME q.swa.flit # None PROVE q.swa.vc \in Vcs /\ k < TotalFlits(c)
  <2>1. LeftVca(q, a) \in Nat /\ LeftVca(q, a) <= a /\ k = LeftVca(q, a) - 1
    <3>1. LeftVca(q, a) \in Nat
      BY FrontIs
    <3>2. k = LeftVca(q, a) - 1
      BY <1>1, <1>3, <3>1 DEF LeftSwa, In
    <3>3. LeftVca(q, a) <= a
      <4>1. PICK n \in Nat : n = Len(q.buffer)
        BY BufferNumbers DEF QueueInv
      <4>2. LeftVca(q, a) = a - n - In(q.rfe) - In(q.vca) /\ In(q.rfe) \in {0, 1} /\ In(q.vca) \in {0, 1}
        BY <4>1 DEF LeftVca, LeftRfe, LeftBuffer, In
      <4> QED
        BY <4>2
    <3> QED
      BY <3>1, <3>2, <3>3
  <2> QED
    BY <1>1, <1>2, <1>3, <2>1 DEF QueueInv, Filled, VcKept
<1>4. ASSUME q.swa.flit = None, Open(c, k) PROVE q.vca.vc \in Vcs /\ k < TotalFlits(c)
  <2>1. k < TotalFlits(c)
    BY <1>1, <1>2, <1>4, OpenHasNext
  <2>2. k = LeftVca(q, a)
    <3>1. LeftVca(q, a) \in Nat
      BY FrontIs
    <3> QED
      BY <1>1, <1>4, <3>1 DEF LeftSwa, In
  <2>3. CASE q.vca.fsm = "empty"
    BY <1>4, <2>1, <2>2, <2>3 DEF QueueInv, VcKept
  <2>4. CASE q.vca.fsm = "ready"
    BY <2>1, <2>4 DEF QueueInv, VcKept
  <2>5. CASE q.vca.fsm \in {"toRequest", "waiting"}
    <3>1. IQ!IsHead(q.vca.flit) /\ q.vca.flit # None
      BY <2>5 DEF QueueInv, VcKept, Filled
    <3>2. LeftRfe(q, a) = k + 1
      <4>1. LeftRfe(q, a) \in Nat
        BY FrontIs
      <4> QED
        BY <2>2, <3>1, <4>1 DEF LeftVca, In
    <3>3. q.vca.flit = FlitNumber(c, k + 1)
      BY <3>1, <3>2 DEF QueueInv, Numbered
    <3>4. k + 1 <= TotalFlits(c)
      BY <1>2, <2>1
    <3> QED
      BY <1>4, <3>1, <3>3, <3>4, HeadsFollowTails
  <2>6. q.vca.fsm \in States
    BY DEF QueueInv, QueueType
  <2> QED
    BY <2>3, <2>4, <2>5, <2>6 DEF States
<1> QED
  BY <1>1, <1>3, <1>4

(* The packet that a queue sends goes to a VC that the queue holds.        *)
LEMMA SendingFacts ==
  ASSUME NEW c \in Clients, NEW a \in Nat, NEW q, QueueInv(c, a, q)
  PROVE  LET p == SendingAt(c, q, LeftSwa(q, a))
         IN /\ p \in XS!Packets \cup {None}
            /\ p # None => p.vc \in IQ!HeldVcs(q)
<1>1. PICK k \in Nat : k = LeftSwa(q, a)
  BY FrontIs
<1>2. None \notin XS!Packets /\ None \notin Vcs
  BY RouterAssumption
<1>3. CASE q.swa.flit # None
  <2>1. q.swa.vc \in Vcs /\ k < TotalFlits(c)
    BY <1>1, <1>3, VcOfOpen
  <2>2. Rest(FlitNumber(c, k + 1), q.swa.vc) \in XS!Packets
    BY <2>1, RestIsPacket
  <2> QED
    BY <1>1, <1>2, <1>3, <2>1, <2>2 DEF SendingAt, IQ!HeldVcs, Rest
<1>4. CASE q.swa.flit = None /\ Open(c, k)
  <2>1. q.vca.vc \in Vcs /\ k < TotalFlits(c)
    BY <1>1, <1>4, VcOfOpen
  <2>2. Rest(FlitNumber(c, k + 1), q.vca.vc) \in XS!Packets
    BY <2>1, RestIsPacket
  <2> QED
    BY <1>1, <1>2, <1>4, <2>1, <2>2 DEF SendingAt, IQ!HeldVcs, Rest
<1>5. CASE q.swa.flit = None /\ ~Open(c, k)
  BY <1>1, <1>5 DEF SendingAt
<1> QED
  BY <1>3, <1>4, <1>5

(* The packet that a queue sends, from the number of its next flit.        *)
LEMMA SendingIs ==
  ASSUME NEW c \in Clients, arrived[c] \in Nat, QueueInv(c, arrived[c], iq[c])
  PROVE  Sending(c) = SendingAt(c, iq[c], LeftSwa(iq[c], arrived[c]))
<1>1. PICK q, a, k : q = iq[c] /\ a = arrived[c] /\ k = LeftSwa(iq[c], arrived[c])
  OBVIOUS
<1>2. /\ a \in Nat /\ QueueInv(c, a, q) /\ k \in Nat /\ k <= a
      /\ k = LeftSwa(q, a)
      /\ IF IQ!Contents(q) = <<>> THEN k = a
         ELSE k < a /\ Head(IQ!Contents(q)) = FlitNumber(c, k + 1)
  BY <1>1, FrontIs
<1>3. a <= TotalFlits(c) /\ TotalFlits(c) \in Nat
  BY <1>2, FlitsAreCounted DEF QueueInv, Numbered
<1>4. NextFlit(c) = IF k < TotalFlits(c) THEN FlitNumber(c, k + 1) ELSE None
  BY <1>1, <1>2, <1>3 DEF NextFlit
<1>5. CASE k < TotalFlits(c)
  <2>1. k + 1 \in 1..TotalFlits(c) /\ k + 1 <= TotalFlits(c)
    BY <1>2, <1>3, <1>5
  <2>2. PICK f \in Flits : f = FlitNumber(c, k + 1)
    BY <2>1, FlitsArrive
  <2>3. f # None /\ NextFlit(c) = f
    BY <1>4, <1>5, <2>2, RouterAssumption
  <2>4. IQ!IsHead(f) <=> ~Open(c, k)
    BY <1>2, <2>1, <2>2, HeadsFollowTails
  <2> QED
    BY <1>1, <2>2, <2>3, <2>4 DEF Sending, SendingAt, Rest
<1>6. CASE ~(k < TotalFlits(c))
  <2>1. q.swa.flit = None /\ ~Open(c, k)
    BY <1>2, <1>6, VcOfOpen
  <2> QED
    BY <1>1, <1>4, <1>6, <2>1 DEF Sending, SendingAt
<1> QED
  BY <1>5, <1>6

(* What every stage of the pipeline does to the records.                   *)
Stages(q0, q1, q2, q3, q4, q5, q6, q7) ==
  /\ /\ q1.vca = q0.vca /\ q1.rfe = q0.rfe /\ q1.buffer = q0.buffer
     /\ q1.swa = IF q0.swa.fsm = "ready" THEN IQ!EmptySwa ELSE q0.swa
  /\ /\ q2.rfe = q1.rfe /\ q2.buffer = q1.buffer
     /\ IF q1.swa.fsm = "empty" /\ q1.vca.fsm = "ready"
        THEN /\ q2.swa = [fsm |-> "toRequest", flit |-> q1.vca.flit, vc |-> q1.vca.vc]
             /\ q2.vca = [fsm |-> "empty", flit |-> None, route |-> {},
                          vc |-> IF IQ!IsTail(q1.vca.flit) THEN None ELSE q1.vca.vc]
        ELSE q2.swa = q1.swa /\ q2.vca = q1.vca
  /\ /\ q3.vca = q2.vca /\ q3.rfe = q2.rfe /\ q3.buffer = q2.buffer
     /\ q3.swa = IF q2.swa.fsm = "toRequest"
                 THEN [fsm |-> "waiting", flit |-> q2.swa.flit, vc |-> q2.swa.vc]
                 ELSE q2.swa
  /\ /\ q4.swa = q3.swa /\ q4.buffer = q3.buffer
     /\ IF q3.vca.fsm = "empty" /\ q3.rfe.fsm = "ready"
        THEN /\ q4.vca = [fsm |-> IF IQ!IsHead(q3.rfe.flit) THEN "toRequest" ELSE "ready",
                          flit |-> q3.rfe.flit, route |-> q3.rfe.route, vc |-> q3.vca.vc]
             /\ q4.rfe = IQ!EmptyRfe
        ELSE q4.vca = q3.vca /\ q4.rfe = q3.rfe
  /\ /\ q5.swa = q4.swa /\ q5.rfe = q4.rfe /\ q5.buffer = q4.buffer
     /\ q5.vca = IF IQ!VcaAsks(q4)
                 THEN [fsm |-> "waiting", flit |-> q4.vca.flit, route |-> q4.vca.route,
                       vc |-> q4.vca.vc]
                 ELSE q4.vca
  /\ /\ q6.swa = q5.swa /\ q6.vca = q5.vca
     /\ IF IQ!PullsFlit(q5)
        THEN /\ q6.rfe = [fsm |-> "toRequest", flit |-> Head(q5.buffer), route |-> {}, wait |-> 0]
             /\ q6.buffer = Tail(q5.buffer)
        ELSE q6.rfe = q5.rfe /\ q6.buffer = q5.buffer
  /\ /\ q7.swa = q6.swa /\ q7.vca = q6.vca /\ q7.buffer = q6.buffer
     /\ q7.rfe.flit = q6.rfe.flit /\ q7.rfe.route = q6.rfe.route
     /\ q7.rfe.fsm = IF q6.rfe.fsm = "toRequest"
                     THEN IF IQ!IsHead(q6.rfe.flit) THEN "waiting" ELSE "ready"
                     ELSE q6.rfe.fsm

(* What each stage of a run does to the stages' flits and VCs.             *)
LEMMA PipelineStages ==
  ASSUME NEW q0 \in QueueType, NEW q1 \in QueueType, NEW q2 \in QueueType, NEW q3 \in QueueType,
         NEW q4 \in QueueType, NEW q5 \in QueueType, NEW q6 \in QueueType, NEW q7 \in QueueType,
         PipelineRun(q0, q1, q2, q3, q4, q5, q6, q7)
  PROVE  Stages(q0, q1, q2, q3, q4, q5, q6, q7)
<1>1. /\ q1.vca = q0.vca /\ q1.rfe = q0.rfe /\ q1.buffer = q0.buffer
      /\ q1.swa = IF q0.swa.fsm = "ready" THEN IQ!EmptySwa ELSE q0.swa
  BY DEF PipelineRun, IQ!AfterInject, IQ!InjectReady, QueueType
<1>2. /\ q2.rfe = q1.rfe /\ q2.buffer = q1.buffer
      /\ IF q1.swa.fsm = "empty" /\ q1.vca.fsm = "ready"
         THEN /\ q2.swa = [fsm |-> "toRequest", flit |-> q1.vca.flit, vc |-> q1.vca.vc]
              /\ q2.vca = [fsm |-> "empty", flit |-> None, route |-> {},
                           vc |-> IF IQ!IsTail(q1.vca.flit) THEN None ELSE q1.vca.vc]
         ELSE q2.swa = q1.swa /\ q2.vca = q1.vca
  BY DEF PipelineRun, IQ!AfterLoadSwa, QueueType
<1>3. /\ q3.vca = q2.vca /\ q3.rfe = q2.rfe /\ q3.buffer = q2.buffer
      /\ q3.swa = IF q2.swa.fsm = "toRequest"
                  THEN [fsm |-> "waiting", flit |-> q2.swa.flit, vc |-> q2.swa.vc]
                  ELSE q2.swa
  <2>1. /\ q3.vca = q2.vca /\ q3.rfe = q2.rfe /\ q3.buffer = q2.buffer
        /\ IF q2.swa.fsm = "toRequest"
           THEN q3.swa = [fsm |-> "waiting", flit |-> q2.swa.flit, vc |-> q2.swa.vc]
           ELSE q3.swa = q2.swa
    BY DEF PipelineRun, IQ!AfterSubmitSwa, IQ!SwaAsks, QueueType
  <2> QED
    BY <2>1, Zenon
<1>4. /\ q4.swa = q3.swa /\ q4.buffer = q3.buffer
      /\ IF q3.vca.fsm = "empty" /\ q3.rfe.fsm = "ready"
         THEN /\ q4.vca = [fsm |-> IF IQ!IsHead(q3.rfe.flit) THEN "toRequest" ELSE "ready",
                           flit |-> q3.rfe.flit, route |-> q3.rfe.route, vc |-> q3.vca.vc]
              /\ q4.rfe = IQ!EmptyRfe
         ELSE q4.vca = q3.vca /\ q4.rfe = q3.rfe
  BY DEF PipelineRun, IQ!AfterLoadVca, QueueType
<1>5. /\ q5.swa = q4.swa /\ q5.rfe = q4.rfe /\ q5.buffer = q4.buffer
      /\ q5.vca = IF IQ!VcaAsks(q4)
                  THEN [fsm |-> "waiting", flit |-> q4.vca.flit, route |-> q4.vca.route,
                        vc |-> q4.vca.vc]
                  ELSE q4.vca
  <2>1. /\ q5.swa = q4.swa /\ q5.rfe = q4.rfe /\ q5.buffer = q4.buffer
        /\ IF IQ!VcaAsks(q4)
           THEN q5.vca = [fsm |-> "waiting", flit |-> q4.vca.flit, route |-> q4.vca.route,
                          vc |-> q4.vca.vc]
           ELSE q5.vca = q4.vca
    BY DEF PipelineRun, IQ!AfterSubmitVca, QueueType
  <2> QED
    BY <2>1, Zenon
<1>6. /\ q6.swa = q5.swa /\ q6.vca = q5.vca
      /\ IF IQ!PullsFlit(q5)
         THEN /\ q6.rfe = [fsm |-> "toRequest", flit |-> Head(q5.buffer), route |-> {}, wait |-> 0]
              /\ q6.buffer = Tail(q5.buffer)
         ELSE q6.rfe = q5.rfe /\ q6.buffer = q5.buffer
  BY DEF PipelineRun, IQ!AfterLoadRfe, IQ!EmptyRfe, QueueType
<1>7. /\ q7.swa = q6.swa /\ q7.vca = q6.vca /\ q7.buffer = q6.buffer
      /\ q7.rfe.flit = q6.rfe.flit /\ q7.rfe.route = q6.rfe.route
      /\ q7.rfe.fsm = IF q6.rfe.fsm = "toRequest"
                      THEN IF IQ!IsHead(q6.rfe.flit) THEN "waiting" ELSE "ready"
                      ELSE q6.rfe.fsm
  <2>1. CASE q6.rfe.fsm = "toRequest" /\ IQ!IsHead(q6.rfe.flit)
    <3>1. q7 = [buffer |-> q6.buffer,
                rfe |-> [fsm |-> "waiting", flit |-> q6.rfe.flit, route |-> q6.rfe.route,
                         wait |-> RoutingLatency],
                vca |-> q6.vca, swa |-> q6.swa]
      BY <2>1 DEF PipelineRun, IQ!AfterSubmitRfe, QueueType
    <3> QED
      BY <2>1, <3>1
  <2>2. CASE q6.rfe.fsm = "toRequest" /\ ~IQ!IsHead(q6.rfe.flit)
    BY <2>2 DEF PipelineRun, IQ!AfterSubmitRfe, QueueType
  <2>3. CASE q6.rfe.fsm # "toRequest"
    BY <2>3 DEF PipelineRun, IQ!AfterSubmitRfe, QueueType
  <2> QED
    BY <2>1, <2>2, <2>3
<1> QED
  BY <1>1, <1>2, <1>3, <1>4, <1>5, <1>6, <1>7 DEF Stages

(* A flit moves from stage to stage, and leaves only by the crossbar.      *)
LEMMA StagesCount ==
  ASSUME NEW a \in Nat, NEW c,
         NEW q0, NEW q1, NEW q2, NEW q3, NEW q4, NEW q5, NEW q6, NEW q7,
         Stages(q0, q1, q2, q3, q4, q5, q6, q7),
         QueueInv(c, a, q0), QueueInv(c, a, q1), QueueInv(c, a, q2), QueueInv(c, a, q3),
         QueueInv(c, a, q4), QueueInv(c, a, q5), QueueInv(c, a, q6), QueueInv(c, a, q7)
  PROVE  LeftSwa(q7, a) = IF q0.swa.fsm = "ready" THEN LeftSwa(q0, a) + 1 ELSE LeftSwa(q0, a)
<1>0. /\ Filled(q0) /\ Filled(q1) /\ Filled(q2) /\ Filled(q3)
      /\ Filled(q4) /\ Filled(q5) /\ Filled(q6) /\ Filled(q7)
      /\ q0.buffer \in Seq(Flits) /\ q5.buffer \in Seq(Flits)
  BY DEF QueueInv, QueueType
<1>1. PICK n \in Nat : n = Len(q0.buffer)
  BY <1>0
<1>2. /\ In(q0.swa) \in {0, 1} /\ In(q0.vca) \in {0, 1} /\ In(q0.rfe) \in {0, 1}
      /\ In(q1.swa) \in {0, 1} /\ In(q3.vca) \in {0, 1} /\ In(q3.swa) \in {0, 1}
      /\ In(q4.vca) \in {0, 1} /\ In(q4.rfe) \in {0, 1} /\ In(q6.rfe) \in {0, 1}
  BY DEF In
<1>3. IF q0.swa.fsm = "ready" THEN In(q0.swa) = 1 /\ In(q1.swa) = 0 ELSE In(q1.swa) = In(q0.swa)
  BY <1>0 DEF Stages, Filled, In, IQ!EmptySwa
<1>4. q1.vca = q0.vca /\ q3.rfe = q0.rfe /\ q5.buffer = q0.buffer
  BY DEF Stages
<1>5. In(q3.swa) + In(q3.vca) = In(q1.swa) + In(q0.vca)
  <2>1. q3.vca = q2.vca /\ In(q3.swa) = In(q2.swa)
    BY DEF Stages, In
  <2>2. CASE q1.swa.fsm = "empty" /\ q1.vca.fsm = "ready"
    <3>1. In(q1.swa) = 0 /\ In(q1.vca) = 1
      BY <1>0, <2>2 DEF Filled, In
    <3>2. In(q2.swa) = 1 /\ In(q2.vca) = 0
      BY <1>0, <2>2 DEF Stages, Filled, In
    <3> QED
      BY <1>4, <2>1, <3>1, <3>2
  <2>3. CASE ~(q1.swa.fsm = "empty" /\ q1.vca.fsm = "ready")
    BY <1>2, <1>4, <2>1, <2>3 DEF Stages
  <2> QED
    BY <2>2, <2>3
<1>6. In(q4.vca) + In(q4.rfe) = In(q3.vca) + In(q0.rfe)
  <2>1. CASE q3.vca.fsm = "empty" /\ q3.rfe.fsm = "ready"
    <3>1. In(q3.vca) = 0 /\ In(q3.rfe) = 1
      BY <1>0, <2>1 DEF Filled, In
    <3>2. In(q4.vca) = 1 /\ In(q4.rfe) = 0
      BY <1>0, <2>1 DEF Stages, Filled, In, IQ!EmptyRfe
    <3> QED
      BY <1>4, <3>1, <3>2
  <2>2. CASE ~(q3.vca.fsm = "empty" /\ q3.rfe.fsm = "ready")
    BY <1>2, <1>4, <2>2 DEF Stages
  <2> QED
    BY <2>1, <2>2
<1>7. In(q7.swa) = In(q3.swa) /\ In(q7.vca) = In(q4.vca) /\ In(q7.rfe) = In(q6.rfe)
  BY DEF Stages, In
<1>8. Len(q7.buffer) \in Nat /\ Len(q7.buffer) + In(q6.rfe) = n + In(q4.rfe)
  <2>1. q7.buffer = q6.buffer /\ q5.rfe = q4.rfe
    BY DEF Stages
  <2>2. CASE IQ!PullsFlit(q5)
    <3>1. In(q4.rfe) = 0 /\ q5.buffer # <<>>
      BY <1>0, <2>1, <2>2 DEF IQ!PullsFlit, Filled, In
    <3>2. In(q6.rfe) = 1
      BY <1>0, <2>2 DEF Stages, Filled, In
    <3>3. Len(Tail(q5.buffer)) = n - 1 /\ n - 1 \in Nat
      <4>1. PICK b \in Seq(Flits) : b = q5.buffer
        BY <1>0
      <4>2. b # <<>> => Len(Tail(b)) = Len(b) - 1 /\ Len(b) - 1 \in Nat
        OBVIOUS
      <4> QED
        BY <1>1, <1>4, <3>1, <4>1, <4>2
    <3>4. q7.buffer = Tail(q5.buffer)
      BY <2>1, <2>2 DEF Stages
    <3> QED
      BY <3>1, <3>2, <3>3, <3>4
  <2>3. CASE ~IQ!PullsFlit(q5)
    <3>1. q6.rfe = q4.rfe /\ q7.buffer = q0.buffer
      BY <1>4, <2>1, <2>3 DEF Stages
    <3> QED
      BY <1>1, <1>2, <3>1
  <2> QED
    BY <2>2, <2>3
<1>9. /\ LeftSwa(q0, a) = a - n - In(q0.rfe) - In(q0.vca) - In(q0.swa)
      /\ LeftSwa(q7, a) = a - Len(q7.buffer) - In(q6.rfe) - In(q4.vca) - In(q3.swa)
  BY <1>1, <1>7 DEF LeftSwa, LeftVca, LeftRfe, LeftBuffer
<1>10. PICK m \in Nat : m = Len(q7.buffer)
  BY <1>8
<1>11. PICK s0, v0, r0 \in {0, 1} : s0 = In(q0.swa) /\ v0 = In(q0.vca) /\ r0 = In(q0.rfe)
  BY <1>2
<1>12. PICK s1, v3, s3 \in {0, 1} : s1 = In(q1.swa) /\ v3 = In(q3.vca) /\ s3 = In(q3.swa)
  BY <1>2
<1>13. PICK v4, r4, r6 \in {0, 1} : v4 = In(q4.vca) /\ r4 = In(q4.rfe) /\ r6 = In(q6.rfe)
  BY <1>2
<1>14. s3 + v3 = s1 + v0 /\ v4 + r4 = v3 + r0 /\ m + r6 = n + r4
  BY <1>5, <1>6, <1>8, <1>10, <1>11, <1>12, <1>13
<1>15. PICK k, l \in Int : /\ k = LeftSwa(q0, a) /\ l = LeftSwa(q7, a)
                         /\ k = a - n - r0 - v0 - s0 /\ l = a - m - r6 - v4 - s3
  <2>1. a - n - r0 - v0 - s0 \in Int /\ a - m - r6 - v4 - s3 \in Int
    OBVIOUS
  <2>2. LeftSwa(q0, a) = a - n - r0 - v0 - s0
    BY <1>9, <1>11
  <2>3. LeftSwa(q7, a) = a - m - r6 - v4 - s3
    BY <1>9, <1>10, <1>12, <1>13
  <2> QED
    BY <2>1, <2>2, <2>3
<1>16. l = k + s0 - s1
  BY <1>14, <1>15
<1>17. IF q0.swa.fsm = "ready" THEN s0 = 1 /\ s1 = 0 ELSE s1 = s0
  BY <1>3, <1>11, <1>12
<1> QED
  BY <1>15, <1>16, <1>17

(* What the schedulers rely on: a tail has let go of the VC that the vca   *)
(* stage has, and a head that asks knows some VCs to ask for.              *)
Behaves(q) ==
  /\ q.swa.fsm # "empty" /\ IQ!IsTail(q.swa.flit) => q.vca.vc # q.swa.vc
  /\ q.rfe.fsm = "ready" /\ IQ!IsHead(q.rfe.flit) => q.rfe.route # {}
  /\ q.vca.fsm \in {"toRequest", "waiting"} => q.vca.route # {}

(* What a run of the pipeline moves.                                       *)
Moves(q0, q2, q4, q7) ==
  /\ q7.swa.flit = q2.swa.flit /\ q7.swa.vc = q2.swa.vc
  /\ IQ!SwaAsks(q2) /\ q0.swa.fsm = "toRequest" => q2.swa = q0.swa /\ q7.vca.vc = q0.vca.vc
  /\ IQ!SwaAsks(q2) /\ q0.swa.fsm # "toRequest" =>
       /\ q0.vca.fsm = "ready" /\ q0.swa.fsm \in {"empty", "ready"}
       /\ q2.swa.vc = q0.vca.vc /\ q2.swa.flit = q0.vca.flit
       /\ q7.vca.vc = IF IQ!IsTail(q0.vca.flit) THEN None ELSE q0.vca.vc
  /\ ~IQ!SwaAsks(q2) => /\ q7.vca.vc = q0.vca.vc
                        /\ q7.swa = IF q0.swa.fsm = "ready" THEN IQ!EmptySwa ELSE q0.swa
  /\ IQ!VcaAsks(q4) => q4.vca.route # {}

(* What a run amounts to: which flit was injected and which flits moved    *)
(* on.                                                                     *)
LEMMA StagesMove ==
  ASSUME NEW q0 \in QueueType, NEW q1, NEW q2, NEW q3, NEW q4, NEW q5, NEW q6, NEW q7,
         Stages(q0, q1, q2, q3, q4, q5, q6, q7), Behaves(q0), q0.rfe.fsm # "toRequest"
  PROVE  Moves(q0, q2, q4, q7)
<1>1. q7.swa = q3.swa /\ q7.vca.vc = q2.vca.vc
  BY DEF Stages
<1>2. q7.swa.flit = q2.swa.flit /\ q7.swa.vc = q2.swa.vc
  BY <1>1 DEF Stages
<1>3. q1.vca = q0.vca /\ q3.rfe = q0.rfe /\ q3.vca = q2.vca
  BY DEF Stages
<1>4. q1.swa = IF q0.swa.fsm = "ready" THEN IQ!EmptySwa ELSE q0.swa
  BY DEF Stages
<1>5. q0.swa.fsm \in States
  BY DEF QueueType
<1>6. CASE q1.swa.fsm = "empty" /\ q1.vca.fsm = "ready"
  <2>1. /\ q2.swa = [fsm |-> "toRequest", flit |-> q0.vca.flit, vc |-> q0.vca.vc]
        /\ q2.vca = [fsm |-> "empty", flit |-> None, route |-> {},
                     vc |-> IF IQ!IsTail(q0.vca.flit) THEN None ELSE q0.vca.vc]
    BY <1>3, <1>6 DEF Stages
  <2>2. q0.swa.fsm \in {"empty", "ready"} /\ q0.vca.fsm = "ready"
    BY <1>3, <1>4, <1>6
  <2>3. IQ!SwaAsks(q2)
    BY <2>1 DEF IQ!SwaAsks
  <2>4. IQ!VcaAsks(q4) => q4.vca.route # {}
    BY <1>3, <2>1 DEF Stages, IQ!VcaAsks, Behaves
  <2> QED
    BY <1>1, <1>2, <2>1, <2>2, <2>3, <2>4 DEF Moves
<1>7. CASE ~(q1.swa.fsm = "empty" /\ q1.vca.fsm = "ready")
  <2>1. q2.swa = q1.swa /\ q2.vca = q0.vca
    BY <1>3, <1>7 DEF Stages
  <2>2. IQ!SwaAsks(q2) => q0.swa.fsm = "toRequest" /\ q2.swa = q0.swa
    BY <1>4, <2>1 DEF IQ!SwaAsks, IQ!EmptySwa
  <2>3. ~IQ!SwaAsks(q2) => q7.swa = q1.swa
    BY <1>1, <2>1 DEF Stages, IQ!SwaAsks
  <2>4. IQ!VcaAsks(q4) => q4.vca.route # {}
    BY <1>3, <2>1 DEF Stages, IQ!VcaAsks, Behaves
  <2> QED
    BY <1>1, <1>2, <1>4, <2>1, <2>2, <2>3, <2>4 DEF Moves
<1> QED
  BY <1>6, <1>7

(* A run gives up a VC exactly with the tail of the packet that held it.   *)
LEMMA StagesBehave ==
  ASSUME NEW c, NEW a \in Nat, NEW q0, NEW q1, NEW q2, NEW q3, NEW q4, NEW q5, NEW q6, NEW q7,
         Stages(q0, q1, q2, q3, q4, q5, q6, q7), Moves(q0, q2, q4, q7),
         QueueInv(c, a, q0), QueueInv(c, a, q7), Behaves(q0), q0.rfe.fsm # "toRequest"
  PROVE  /\ Behaves(q7)
         /\ IQ!HeldVcs(q7) = IF q0.swa.fsm = "ready" /\ IQ!IsTail(q0.swa.flit)
                             THEN IQ!HeldVcs(q0) \ {q0.swa.vc} ELSE IQ!HeldVcs(q0)
<1>0. None \notin Vcs
  BY RouterAssumption
<1>1. q3.rfe = q0.rfe
  BY DEF Stages
<1>2. ASSUME q7.rfe.fsm = "ready", IQ!IsHead(q7.rfe.flit) PROVE q7.rfe.route # {}
  <2>1. q6.rfe.fsm = "ready" /\ q7.rfe.flit = q6.rfe.flit /\ q7.rfe.route = q6.rfe.route
    BY <1>2 DEF Stages
  <2>2. q6.rfe = q4.rfe
    BY <2>1 DEF Stages
  <2>3. q4.rfe = q0.rfe
    BY <1>1, <2>1, <2>2 DEF Stages, IQ!EmptyRfe
  <2> QED
    BY <1>2, <2>1, <2>2, <2>3 DEF Behaves
<1>3. ASSUME q7.vca.fsm \in {"toRequest", "waiting"} PROVE q7.vca.route # {}
  <2>1. q4.vca.fsm \in {"toRequest", "waiting"} /\ q7.vca.route = q4.vca.route
    BY <1>3 DEF Stages, IQ!VcaAsks
  <2>2. CASE q3.vca.fsm = "empty" /\ q3.rfe.fsm = "ready"
    BY <1>1, <2>1, <2>2 DEF Stages, Behaves
  <2>3. CASE ~(q3.vca.fsm = "empty" /\ q3.rfe.fsm = "ready")
    <3>1. q4.vca = q3.vca /\ q3.vca = q2.vca
      BY <2>3 DEF Stages
    <3>2. q2.vca = q0.vca
      BY <2>1, <3>1 DEF Stages
    <3> QED
      BY <2>1, <3>1, <3>2 DEF Behaves
  <2> QED
    BY <2>2, <2>3
<1>4. /\ q0.swa.fsm # "empty" => q0.swa.vc \in Vcs /\ (~IQ!IsTail(q0.swa.flit) => q0.vca.vc = q0.swa.vc)
      /\ q0.swa.fsm = "empty" => q0.swa.vc = None
      /\ q0.vca.fsm = "ready" => q0.vca.vc \in Vcs
      /\ q0.vca.vc \in Vcs \cup {None}
  BY DEF QueueInv, QueueType, VcKept
<1>5. CASE IQ!SwaAsks(q2) /\ q0.swa.fsm = "toRequest"
  <2>1. q7.swa.flit = q0.swa.flit /\ q7.swa.vc = q0.swa.vc /\ q7.vca.vc = q0.vca.vc
    BY <1>5 DEF Moves
  <2> QED
    BY <1>2, <1>3, <1>5, <2>1 DEF Behaves, IQ!HeldVcs
<1>6. CASE IQ!SwaAsks(q2) /\ q0.swa.fsm # "toRequest"
  <2>1. /\ q0.vca.fsm = "ready" /\ q0.swa.fsm \in {"empty", "ready"}
        /\ q7.swa.vc = q0.vca.vc /\ q7.swa.flit = q0.vca.flit
        /\ q7.vca.vc = IF IQ!IsTail(q0.vca.flit) THEN None ELSE q0.vca.vc
    BY <1>6 DEF Moves
  <2>2. Behaves(q7)
    BY <1>0, <1>2, <1>3, <1>4, <2>1 DEF Behaves
  <2>3. IQ!HeldVcs(q7) = {q0.vca.vc}
    BY <1>0, <1>4, <2>1 DEF IQ!HeldVcs
  <2>4. CASE q0.swa.fsm = "empty"
    BY <1>0, <1>4, <2>1, <2>2, <2>3, <2>4 DEF IQ!HeldVcs
  <2>5. CASE q0.swa.fsm = "ready" /\ IQ!IsTail(q0.swa.flit)
    <3>1. q0.vca.vc # q0.swa.vc
      BY <2>5 DEF Behaves
    <3> QED
      BY <1>0, <1>4, <2>1, <2>2, <2>3, <2>5, <3>1 DEF IQ!HeldVcs
  <2>6. CASE q0.swa.fsm = "ready" /\ ~IQ!IsTail(q0.swa.flit)
    BY <1>0, <1>4, <2>1, <2>2, <2>3, <2>6 DEF IQ!HeldVcs
  <2> QED
    BY <2>1, <2>4, <2>5, <2>6
<1>7. CASE ~IQ!SwaAsks(q2)
  <2>1. /\ q7.vca.vc = q0.vca.vc
        /\ q7.swa = IF q0.swa.fsm = "ready" THEN IQ!EmptySwa ELSE q0.swa
    BY <1>7 DEF Moves
  <2>2. CASE q0.swa.fsm # "ready"
    BY <1>2, <1>3, <2>1, <2>2 DEF Behaves, IQ!HeldVcs
  <2>3. CASE q0.swa.fsm = "ready"
    <3>1. q7.swa.fsm = "empty" /\ q7.swa.vc = None
      BY <2>1, <2>3 DEF IQ!EmptySwa
    <3>2. Behaves(q7)
      BY <1>2, <1>3, <3>1 DEF Behaves
    <3>3. IQ!HeldVcs(q7) = {q0.vca.vc} \ {None}
      BY <2>1, <3>1 DEF IQ!HeldVcs
    <3>4. CASE IQ!IsTail(q0.swa.flit)
      <4>1. q0.vca.vc # q0.swa.vc
        BY <2>3, <3>4 DEF Behaves
      <4> QED
        BY <1>0, <1>4, <2>3, <3>2, <3>3, <3>4, <4>1 DEF IQ!HeldVcs
    <3>5. CASE ~IQ!IsTail(q0.swa.flit)
      BY <1>0, <1>4, <2>3, <3>2, <3>3, <3>5 DEF IQ!HeldVcs
    <3> QED
      BY <3>4, <3>5
  <2> QED
    BY <2>2, <2>3
<1> QED
  BY <1>5, <1>6, <1>7

(* What is left of the packet tells heads and tails, and gets less.        *)
LEMMA RestTells ==
  ASSUME NEW c \in Clients, NEW k \in Nat, k < TotalFlits(c), NEW v, NEW s,
         s.flit = FlitNumber(c, k + 1), s.vc = v
  PROVE  /\ Rest(FlitNumber(c, k + 1), v).left = 1 <=> IQ!IsTail(FlitNumber(c, k + 1))
         /\ Rest(FlitNumber(c, k + 1), v).left = Rest(FlitNumber(c, k + 1), v).size
              <=> IQ!IsHead(FlitNumber(c, k + 1))
         /\ XbarRequest(s) = XS!NextRequest(Rest(FlitNumber(c, k + 1), v))
<1>1. k + 1 \in 1..TotalFlits(c)
  BY FlitsAreCounted
<1>2. PICK f \in Flits : f = FlitNumber(c, k + 1)
  BY <1>1, FlitsArrive
<1>3. PICK i, n \in Nat : i = f.index /\ n = f.size
  BY <1>2, FlitNumbers
<1>4. Rest(f, v) = [vc |-> v, size |-> n, left |-> n - i + 1]
  BY <1>3 DEF Rest
<1>5. (n - i + 1 = 1 <=> i = n) /\ (n - i + 1 = n <=> i = 1)
  OBVIOUS
<1> QED
  BY <1>2, <1>3, <1>4, <1>5 DEF IQ!IsTail, IQ!IsHead, XbarRequest, XS!NextRequest

(* After one more flit of an open packet, one less is left.                *)
LEMMA RestSteps ==
  ASSUME NEW c \in Clients, NEW k \in Nat, k < TotalFlits(c), NEW v, Open(c, k + 1)
  PROVE  /\ k + 1 < TotalFlits(c)
         /\ Rest(FlitNumber(c, (k + 1) + 1), v) = [Rest(FlitNumber(c, k + 1), v) EXCEPT !.left = @ - 1]
<1>1. TotalFlits(c) \in Nat
  BY FlitsAreCounted
<1>2. k + 1 < TotalFlits(c)
  <2>1. k + 1 <= TotalFlits(c) /\ k + 1 \in Nat
    BY <1>1
  <2> QED
    BY <2>1, OpenHasNext
<1>3. k + 1 \in 1..TotalFlits(c) /\ (k + 1) + 1 \in 1..TotalFlits(c)
  BY <1>1, <1>2
<1>4. PICK f \in Flits : f = FlitNumber(c, k + 1)
  BY <1>3, FlitsArrive
<1>5. FlitNumber(c, (k + 1) + 1) = [f EXCEPT !.index = @ + 1]
  BY <1>3, <1>4, NextFlitFollows DEF Open
<1>6. PICK i, n \in Nat : i = f.index /\ n = f.size
  BY <1>4, FlitNumbers
<1>7. /\ Rest(f, v) = [vc |-> v, size |-> n, left |-> n - i + 1]
      /\ Rest(FlitNumber(c, (k + 1) + 1), v) = [vc |-> v, size |-> n, left |-> n - (i + 1) + 1]
  BY <1>4, <1>5, <1>6 DEF Rest, Flits
<1>8. n - (i + 1) + 1 = (n - i + 1) - 1
  OBVIOUS
<1> QED
  BY <1>2, <1>4, <1>7, <1>8

After(p, ready) == IF ~ready THEN p ELSE IF p.left = 1 THEN None ELSE [p EXCEPT !.left = @ - 1]

(* The packet of a queue before and after a run of its pipeline, as the    *)
(* crossbar scheduler's clients have it.                                   *)
LEMMA PipelinePacket ==
  ASSUME NEW c \in Clients, NEW a \in Nat, NEW q0, NEW q2, NEW q4, NEW q7,
         QueueInv(c, a, q0), QueueInv(c, a, q7), Moves(q0, q2, q4, q7), IQ!SwaAsks(q2) => QueueInv(c, a, q2),
         LeftSwa(q7, a) = IF q0.swa.fsm = "ready" THEN LeftSwa(q0, a) + 1 ELSE LeftSwa(q0, a),
         NEW p, p = SendingAt(c, q0, LeftSwa(q0, a)),
         NEW r, r = SendingAt(c, q7, LeftSwa(q7, a))
  PROVE  LET ready == q0.swa.fsm = "ready"
         IN /\ ready => p # None /\ p.vc = q0.swa.vc
            /\ ~IQ!SwaAsks(q2) => r = After(p, ready)
            /\ IQ!SwaAsks(q2) =>
                 /\ r # None /\ XbarRequest(q2.swa) = XS!NextRequest(r)
                 /\ \/ r = After(p, ready)
                    \/ /\ After(p, ready) = None
                       /\ r.vc \in IQ!HeldVcs(q0) \cap Vcs /\ r.size \in PacketSizes
                       /\ r = [vc |-> r.vc, size |-> r.size, left |-> r.size]
<1> DEFINE ready == q0.swa.fsm = "ready"
           R(k, v) == Rest(FlitNumber(c, k + 1), v)
<1>0. None \notin Vcs /\ None \notin XS!Packets /\ TotalFlits(c) \in Nat
  BY RouterAssumption, FlitsAreCounted
<1>1. PICK k, l \in Nat : k = LeftSwa(q0, a) /\ l = LeftSwa(q7, a) /\ l = IF ready THEN k + 1 ELSE k
  BY FrontIs
<1>2. Filled(q0) /\ Filled(q7) /\ VcKept(c, a, q0) /\ p = SendingAt(c, q0, k) /\ r = SendingAt(c, q7, l)
  BY <1>1 DEF QueueInv
<1>3. q0.swa.flit # None => k < TotalFlits(c) /\ q0.swa.vc \in Vcs
  BY <1>1, VcOfOpen
<1>4. q0.swa.flit # None => p = R(k, q0.swa.vc) /\ p \in XS!Packets
  BY <1>1, <1>2, <1>3, RestIsPacket DEF SendingAt
<1>5. ASSUME ready PROVE p # None /\ p.vc = q0.swa.vc
  <2>1. q0.swa.flit # None
    BY <1>2, <1>5 DEF Filled
  <2> QED
    BY <1>0, <1>4, <2>1 DEF Rest
<1>6. ready => After(p, ready) = IF Open(c, k + 1) THEN R(k + 1, q0.swa.vc) ELSE None
  <2> SUFFICES ASSUME ready PROVE After(p, ready) = IF Open(c, k + 1) THEN R(k + 1, q0.swa.vc) ELSE None
    OBVIOUS
  <2>1. q0.swa.flit # None
    BY <1>2 DEF Filled
  <2>2. p = R(k, q0.swa.vc) /\ k < TotalFlits(c)
    BY <1>3, <1>4, <2>1
  <2>3. p.left = 1 <=> IQ!IsTail(FlitNumber(c, k + 1))
    <3>1. PICK s : s = [flit |-> FlitNumber(c, k + 1), vc |-> q0.swa.vc]
      OBVIOUS
    <3>2. s.flit = FlitNumber(c, k + 1) /\ s.vc = q0.swa.vc
      BY <3>1
    <3> QED
      BY <2>2, <3>2, RestTells
  <2>4. p.left = 1 <=> ~Open(c, k + 1)
    BY <1>1, <2>3 DEF Open
  <2>5. Open(c, k + 1) => R(k + 1, q0.swa.vc) = [p EXCEPT !.left = @ - 1]
    BY <2>2, RestSteps
  <2> QED
    BY <2>4, <2>5 DEF After
<1>7. ASSUME ready, Open(c, k + 1) PROVE q0.vca.vc = q0.swa.vc
  <2>1. q0.swa.flit = FlitNumber(c, k + 1)
    <3>1. q0.swa.flit # None
      BY <1>2, <1>7 DEF Filled
    <3>2. LeftVca(q0, a) \in Nat
      BY FrontIs
    <3>3. k = LeftVca(q0, a) - 1
      BY <1>1, <3>1, <3>2 DEF LeftSwa, In
    <3>4. LeftVca(q0, a) = k + 1
      BY <3>2, <3>3
    <3> QED
      BY <3>1, <3>4 DEF QueueInv, Numbered
  <2> QED
    BY <1>2, <1>7, <2>1 DEF VcKept, Open
<1>8. ASSUME ~IQ!SwaAsks(q2) PROVE r = After(p, ready)
  <2>1. /\ q7.vca.vc = q0.vca.vc
        /\ q7.swa = IF ready THEN IQ!EmptySwa ELSE q0.swa
    BY <1>8 DEF Moves
  <2>2. CASE ready
    <3>1. q7.swa.flit = None /\ l = k + 1
      BY <1>1, <2>1, <2>2 DEF IQ!EmptySwa
    <3>2. r = IF Open(c, k + 1) THEN R(k + 1, q7.vca.vc) ELSE None
      BY <1>2, <3>1 DEF SendingAt
    <3> QED
      BY <1>6, <1>7, <2>1, <2>2, <3>2
  <2>3. CASE ~ready
    BY <1>1, <1>2, <2>1, <2>3 DEF SendingAt, After
  <2> QED
    BY <2>2, <2>3
<1>9. ASSUME IQ!SwaAsks(q2)
      PROVE  /\ r = R(l, q2.swa.vc) /\ r # None /\ XbarRequest(q2.swa) = XS!NextRequest(r)
             /\ l < TotalFlits(c) /\ r.size \in PacketSizes /\ r.vc = q2.swa.vc /\ r.vc \in Vcs
             /\ IQ!IsHead(FlitNumber(c, l + 1)) => r = [vc |-> r.vc, size |-> r.size, left |-> r.size]
  <2>1. q7.swa.flit = q2.swa.flit /\ q7.swa.vc = q2.swa.vc
    BY DEF Moves
  <2>2. q2.swa.flit # None
    BY <1>9 DEF QueueInv, Filled, IQ!SwaAsks
  <2>3. l < TotalFlits(c) /\ q2.swa.vc \in Vcs
    BY <1>1, <2>1, <2>2, VcOfOpen
  <2>4. r = R(l, q2.swa.vc)
    BY <1>2, <2>1, <2>2 DEF SendingAt
  <2>5. r \in XS!Packets /\ r # None
    BY <1>0, <2>3, <2>4, RestIsPacket
  <2>6. q2.swa.flit = FlitNumber(c, l + 1)
    <3>1. LeftVca(q7, a) \in Nat
      BY FrontIs
    <3>2. l = LeftVca(q7, a) - 1
      BY <1>1, <2>1, <2>2, <3>1 DEF LeftSwa, In
    <3>3. LeftVca(q7, a) = l + 1
      BY <3>1, <3>2
    <3> QED
      BY <2>1, <2>2, <3>3 DEF QueueInv, Numbered
  <2>7. XbarRequest(q2.swa) = XS!NextRequest(r)
    BY <2>3, <2>4, <2>6, RestTells
  <2>8. IQ!IsHead(FlitNumber(c, l + 1)) => r.left = r.size
    BY <2>3, <2>4, <2>6, RestTells
  <2>9. r = [vc |-> r.vc, size |-> r.size, left |-> r.left] /\ r.size \in PacketSizes
    BY <2>5 DEF XS!Packets
  <2>10. r.vc = q2.swa.vc
    BY <2>4 DEF Rest
  <2> QED
    BY <2>3, <2>4, <2>5, <2>7, <2>8, <2>9, <2>10
<1>10. ASSUME IQ!SwaAsks(q2)
       PROVE  \/ r = After(p, ready)
              \/ /\ After(p, ready) = None
                 /\ r.vc \in IQ!HeldVcs(q0) \cap Vcs /\ r.size \in PacketSizes
                 /\ r = [vc |-> r.vc, size |-> r.size, left |-> r.size]
  <2>1. CASE q0.swa.fsm = "toRequest"
    <3>1. q2.swa = q0.swa /\ ~ready /\ l = k
      BY <1>1, <1>10, <2>1 DEF Moves
    <3>2. q0.swa.flit # None
      BY <1>2, <2>1 DEF Filled
    <3> QED
      BY <1>4, <1>9, <1>10, <3>1, <3>2 DEF After
  <2>2. CASE q0.swa.fsm # "toRequest"
    <3>1. /\ q0.vca.fsm = "ready" /\ q0.swa.fsm \in {"empty", "ready"}
          /\ q2.swa.vc = q0.vca.vc
      BY <1>10, <2>2 DEF Moves
    <3>2. l + 1 <= TotalFlits(c)
      BY <1>0, <1>9, <1>10
    <3>3. CASE Open(c, l)
      <4>1. CASE ready
        BY <1>1, <1>6, <1>7, <1>9, <1>10, <3>1, <3>3, <4>1
      <4>2. CASE ~ready
        <5>1. q0.swa.flit = None /\ l = k
          BY <1>1, <1>2, <3>1, <4>2 DEF Filled
        <5>2. p = R(k, q0.vca.vc)
          BY <1>2, <3>3, <5>1 DEF SendingAt
        <5> QED
          BY <1>9, <1>10, <3>1, <4>2, <5>1, <5>2 DEF After
      <4> QED
        BY <4>1, <4>2
    <3>4. CASE ~Open(c, l)
      <4>1. After(p, ready) = None
        <5>1. CASE ready
          BY <1>1, <1>6, <3>4, <5>1
        <5>2. CASE ~ready
          <6>1. q0.swa.flit = None /\ l = k
            BY <1>1, <1>2, <3>1, <5>2 DEF Filled
          <6> QED
            BY <1>2, <3>4, <5>2, <6>1 DEF SendingAt, After
        <5> QED
          BY <5>1, <5>2
      <4>2. IQ!IsHead(FlitNumber(c, l + 1))
        BY <3>2, <3>4, HeadsFollowTails
      <4>3. r.vc \in IQ!HeldVcs(q0) \cap Vcs
        BY <1>0, <1>9, <1>10, <3>1 DEF IQ!HeldVcs
      <4> QED
        BY <1>9, <1>10, <4>1, <4>2, <4>3
    <3> QED
      BY <3>3, <3>4
  <2> QED
    BY <2>1, <2>2
<1> QED
  BY <1>5, <1>8, <1>9, <1>10

-----------------------------------------------------------------------------
(* The router uses the two schedulers as they are specified.               *)
Settled == \A c \in Clients : Behaves(iq[c])

(* A step that the clients of the schedulers do not see.                   *)
Unseen(c) ==
  /\ iq'[c].swa.flit = iq[c].swa.flit /\ iq'[c].swa.vc = iq[c].swa.vc
  /\ iq'[c].vca.vc = iq[c].vca.vc
  /\ LeftSwa(iq'[c], arrived'[c]) = LeftSwa(iq[c], arrived[c])
  /\ Behaves(iq'[c])

(* What leaves a queue alone is not seen by the schedulers.                *)
LEMMA SameIsUnseen ==
  ASSUME Settled, NEW c \in Clients, iq'[c] = iq[c], arrived'[c] = arrived[c]
  PROVE  Unseen(c)
BY DEF Settled, Unseen

(* The VC scheduler does not see the crossbar scheduler's event, and no    *)
(* packet moves on in it.                                                  *)
LEMMA UnseenXbarSchedulerEvent ==
  ASSUME InputInv, Settled, CrossbarSchedulerEvent, NEW c \in Clients
  PROVE  Unseen(c)
<1>1. ClientInv(c) /\ Behaves(iq[c]) /\ arrived' = arrived /\ arrived[c] \in Nat
  BY DEF InputInv, InputTypes, Settled, CrossbarSchedulerEvent, netVars
<1>2. CASE iq'[c] = iq[c]
  BY <1>1, <1>2, SameIsUnseen
<1>3. CASE iq'[c] # iq[c]
  <2>1. PICK f \in {"toRequest", "ready"} : iq'[c] = [iq[c] EXCEPT !.swa.fsm = f] /\ request[c] # None
    <3>1. PICK g \in XbarAllocations(XS!Unmasked) :
            iq' = [d \in Clients |-> IF request[d] = None THEN iq[d]
                                     ELSE IQ!XbarResponse(iq[d], d \in XS!Winners(g))]
      BY <1>3 DEF CrossbarSchedulerEvent, iqVars
    <3> QED
      BY <1>3, <3>1 DEF IQ!XbarResponse
  <2>2. PICK q, a : q = iq[c] /\ a = arrived[c]
    OBVIOUS
  <2>3. a \in Nat /\ QueueInv(c, a, q) /\ q.swa.fsm = "waiting" /\ Behaves(q)
    BY <1>1, <2>1, <2>2 DEF ClientInv, QueueOK, Answerable
  <2>4. PICK r : r = [q EXCEPT !.swa.fsm = f]
    OBVIOUS
  <2>5. r = [buffer |-> q.buffer, rfe |-> q.rfe, vca |-> q.vca,
             swa |-> [fsm |-> f, flit |-> q.swa.flit, vc |-> q.swa.vc]]
    <3>1. q \in QueueType
      BY <2>3 DEF QueueInv
    <3> QED
      BY <2>4, <3>1 DEF QueueType
  <2>6. SameFlits(q, r) /\ Behaves(r) /\ r.swa.vc = q.swa.vc /\ r.vca.vc = q.vca.vc
    BY <2>3, <2>5 DEF SameFlits, Behaves
  <2>7. LeftSwa(r, a) = LeftSwa(q, a)
    BY <2>6, NothingMoves
  <2>8. iq'[c] = r
    BY <2>1, <2>2, <2>4
  <2> QED
    BY <1>1, <2>2, <2>6, <2>7, <2>8 DEF Unseen, SameFlits
<1> QED
  BY <1>2, <1>3

(* The schedulers do not see a routing response.                           *)
LEMMA UnseenRoutingResponse ==
  ASSUME InputInv, Settled, NEW d \in Clients, RoutingResponse(d), NEW c \in Clients
  PROVE  Unseen(c)
<1>1. /\ ClientInv(c) /\ Behaves(iq[c]) /\ arrived' = arrived /\ arrived[c] \in Nat
      /\ iq \in [Clients -> QueueType]
  BY DEF InputInv, InputTypes, Settled, RoutingResponse, netVars
<1>2. PICK route \in Routes[d] : iq' = [iq EXCEPT ![d] = IQ!RouteResponse(@, route)]
  BY DEF RoutingResponse
<1>3. CASE c # d
  BY <1>1, <1>2, <1>3, SameIsUnseen
<1>4. CASE c = d
  <2>1. PICK q, a : q = iq[c] /\ a = arrived[c]
    OBVIOUS
  <2>2. a \in Nat /\ QueueInv(c, a, q) /\ q.rfe.fsm = "waiting" /\ Behaves(q)
    BY <1>1, <1>4, <2>1 DEF ClientInv, QueueOK, RoutingResponse, RoutingDue
  <2>3. route \in SUBSET Vcs /\ route # {}
    BY RouterAssumption
  <2>4. PICK r : r = IQ!RouteResponse(q, route)
    OBVIOUS
  <2>5. r = [buffer |-> q.buffer,
             rfe |-> [fsm |-> "ready", flit |-> q.rfe.flit, route |-> route, wait |-> q.rfe.wait],
             vca |-> q.vca, swa |-> q.swa]
    BY <2>2, <2>3, <2>4, RouteResponseKeeps
  <2>6. SameFlits(q, r) /\ Behaves(r) /\ r.swa.vc = q.swa.vc /\ r.vca.vc = q.vca.vc
    BY <2>2, <2>3, <2>5 DEF SameFlits, Behaves
  <2>7. LeftSwa(r, a) = LeftSwa(q, a)
    BY <2>6, NothingMoves
  <2>8. iq'[c] = r
    BY <1>1, <1>2, <1>4, <2>1, <2>4
  <2> QED
    BY <1>1, <2>1, <2>6, <2>7, <2>8 DEF Unseen, SameFlits
<1> QED
  BY <1>3, <1>4

(* The schedulers do not see the clock.                                    *)
LEMMA UnseenTick ==
  ASSUME InputInv, Settled, Tick, NEW c \in Clients
  PROVE  Unseen(c)
<1>1. /\ ClientInv(c) /\ Behaves(iq[c]) /\ arrived' = arrived /\ arrived[c] \in Nat
      /\ iq'[c] = IF iq[c].rfe.fsm = "waiting" THEN [iq[c] EXCEPT !.rfe.wait = @ - 1] ELSE iq[c]
  BY DEF InputInv, InputTypes, Settled, Tick
<1>2. CASE iq[c].rfe.fsm # "waiting"
  BY <1>1, <1>2, SameIsUnseen
<1>3. CASE iq[c].rfe.fsm = "waiting"
  <2>1. PICK q, a : q = iq[c] /\ a = arrived[c]
    OBVIOUS
  <2>2. a \in Nat /\ QueueInv(c, a, q) /\ Behaves(q)
    BY <1>1, <2>1 DEF ClientInv, QueueOK
  <2>4. PICK r : r = [q EXCEPT !.rfe.wait = @ - 1]
    OBVIOUS
  <2>5. r = [buffer |-> q.buffer,
             rfe |-> [fsm |-> q.rfe.fsm, flit |-> q.rfe.flit, route |-> q.rfe.route,
                      wait |-> q.rfe.wait - 1],
             vca |-> q.vca, swa |-> q.swa]
    BY <2>2, <2>4, TimePasses
  <2>6. SameFlits(q, r) /\ Behaves(r) /\ r.swa.vc = q.swa.vc /\ r.vca.vc = q.vca.vc
    BY <2>2, <2>5 DEF SameFlits, Behaves
  <2>7. LeftSwa(r, a) = LeftSwa(q, a)
    BY <2>6, NothingMoves
  <2>8. iq'[c] = r
    BY <1>1, <1>3, <2>1, <2>4
  <2> QED
    BY <1>1, <2>1, <2>6, <2>7, <2>8 DEF Unseen, SameFlits
<1> QED
  BY <1>2, <1>3

(* One more flit that has arrived and one more in the queue: as many have  *)
(* left.                                                                   *)
LEMMA BothRise == \A a, n \in Nat : (a + 1) - (n + 1) = a - n
OBVIOUS

(* The schedulers do not see a flit that arrives.                          *)
LEMMA UnseenFlitArrives ==
  ASSUME InputInv, Settled, NEW d \in Clients, FlitArrives(d), NEW c \in Clients
  PROVE  Unseen(c)
<1>1. /\ iq' = [iq EXCEPT ![d].buffer = Append(@, FlitNumber(d, arrived[d] + 1))]
      /\ arrived' = [arrived EXCEPT ![d] = @ + 1]
      /\ iq \in [Clients -> QueueType] /\ arrived \in [Clients -> Nat]
      /\ Behaves(iq[c]) /\ QueueInv(c, arrived[c], iq[c]) /\ arrived[d] < TotalFlits(d)
  BY DEF FlitArrives, InputInv, InputTypes, Settled, ClientInv, QueueOK
<1>2. CASE c # d
  BY <1>1, <1>2, SameIsUnseen
<1>3. CASE c = d
  <2>1. PICK q, a : q = iq[c] /\ a = arrived[c]
    OBVIOUS
  <2>2. a \in Nat /\ QueueInv(c, a, q) /\ Behaves(q) /\ q \in QueueType /\ a < TotalFlits(c)
    BY <1>1, <1>3, <2>1
  <2>3. PICK f : f = FlitNumber(c, a + 1)
    OBVIOUS
  <2>4. Len(Append(q.buffer, f)) = Len(q.buffer) + 1
    BY <2>2, <2>3, ArrivalKeeps
  <2>5. PICK r : r = [q EXCEPT !.buffer = Append(@, f)]
    OBVIOUS
  <2>6. r.rfe = q.rfe /\ r.vca = q.vca /\ r.swa = q.swa /\ r.buffer = Append(q.buffer, f)
    BY <2>2, <2>5 DEF QueueType
  <2>7. iq'[c] = r /\ arrived'[c] = a + 1
    BY <1>1, <1>3, <2>1, <2>3, <2>5
  <2>8. PICK n \in Nat : n = Len(q.buffer)
    BY <2>2, BufferNumbers
  <2>9. LeftBuffer(r, a + 1) = LeftBuffer(q, a)
    <3>1. LeftBuffer(r, a + 1) = (a + 1) - (n + 1) /\ LeftBuffer(q, a) = a - n
      BY <2>4, <2>6, <2>8 DEF LeftBuffer
    <3> QED
      BY <2>2, <2>8, <3>1, BothRise
  <2>10. LeftSwa(r, a + 1) = LeftSwa(q, a)
    BY <2>6, <2>9 DEF LeftSwa, LeftVca, LeftRfe, In
  <2>11. Behaves(r)
    BY <2>2, <2>6 DEF Behaves
  <2> QED
    BY <2>1, <2>6, <2>7, <2>10, <2>11 DEF Unseen
<1> QED
  BY <1>2, <1>3

(* The schedulers do not see what changes no queue.                        *)
LEMMA UnseenStutter ==
  ASSUME Settled, UNCHANGED <<iq, arrived>>, NEW c \in Clients
  PROVE  Unseen(c)
BY SameIsUnseen

(* Empty pipelines are settled.                                            *)
LEMMA InitSettled == Init => Settled
<1> SUFFICES ASSUME Init, NEW c \in Clients PROVE Behaves(iq[c])
  BY DEF Settled
<1>1. iq[c] = IQ!EmptyQueue
  BY DEF Init
<1>2. PICK q : q = iq[c]
  OBVIOUS
<1>3. q.swa.fsm = "empty" /\ q.rfe.fsm = "empty" /\ q.vca.fsm = "empty"
  BY <1>1, <1>2 DEF IQ!EmptyQueue, IQ!EmptyRfe, IQ!EmptySwa
<1> QED
  BY <1>2, <1>3 DEF Behaves

-----------------------------------------------------------------------------
(* The answers of the VC scheduler: at most one VC to a queue, and one     *)
(* that no queue holds.                                                    *)
LEMMA VcGranted ==
  ASSUME VS!IInv, NEW g \in VcAllocations(VS!Unmasked), NEW c \in Clients
  PROVE  \/ VS!GrantsTo(g, c) = {}
         \/ \E v \in Vcs \ vcTaken : c \in clientRequested /\ VS!GrantsTo(g, c) = {v}
<1>1. \A v \in VS!GrantsTo(g, c) : <<c, v>> \in g /\ c \in clientRequested /\ v \in Vcs \ vcTaken
  BY VS!GrantsAreFree, VsClients, VsAllocator
<1>2. VS!Unmasked \in SUBSET (Clients \X Vcs)
  BY DEF VS!IInv, VS!TypeOK, VS!Unmasked
<1>3. VS!Matching(VS!Unmasked, g)
  BY <1>2, VcAllocatorAssumption
<1>4. \A v, w \in VS!GrantsTo(g, c) : v = w
  <2> SUFFICES ASSUME NEW v \in VS!GrantsTo(g, c), NEW w \in VS!GrantsTo(g, c) PROVE v = w
    OBVIOUS
  <2>1. <<c, v>> \in g /\ <<c, w>> \in g
    BY <1>1
  <2>2. <<c, v>> = <<c, w>>
    BY <1>3, <2>1, Zenon DEF VS!Matching
  <2> QED
    BY <2>2
<1>5. CASE VS!GrantsTo(g, c) # {}
  <2>1. PICK v : v \in VS!GrantsTo(g, c)
    BY <1>5
  <2>2. VS!GrantsTo(g, c) = {v}
    BY <1>4, <2>1
  <2> QED
    BY <1>1, <2>1, <2>2
<1> QED
  BY <1>5

(* What an answer does to a waiting queue.                                 *)
LEMMA VcAnswer ==
  ASSUME NEW c, NEW a \in Nat, NEW q, QueueInv(c, a, q), Behaves(q), q.vca.fsm = "waiting",
         NEW granted \in Vcs \cup {None}, granted \notin IQ!HeldVcs(q),
         NEW r, r = IQ!VcResponse(q, granted)
  PROVE  /\ IQ!HeldVcs(r) = IF granted = None THEN IQ!HeldVcs(q) ELSE IQ!HeldVcs(q) \cup {granted}
         /\ Behaves(r)
         /\ LeftSwa(r, a) = LeftSwa(q, a) /\ r.swa = q.swa
<1>1. r = [buffer |-> q.buffer, rfe |-> q.rfe,
           vca |-> [fsm |-> IF granted = None THEN "toRequest" ELSE "ready",
                    flit |-> q.vca.flit, route |-> q.vca.route, vc |-> granted],
           swa |-> q.swa]
  BY VcResponseKeeps
<1>2. /\ r.swa = q.swa /\ r.buffer = q.buffer /\ r.rfe = q.rfe
      /\ r.vca.flit = q.vca.flit /\ r.vca.route = q.vca.route /\ r.vca.vc = granted
      /\ r.vca.fsm = IF granted = None THEN "toRequest" ELSE "ready"
  BY <1>1
<1>3. None \notin Vcs
  BY RouterAssumption
<1>4. q.vca.vc = None /\ q.swa.vc \in Vcs \cup {None}
  BY DEF QueueInv, VcKept, QueueType
<1>5. IQ!HeldVcs(r) = IF granted = None THEN IQ!HeldVcs(q) ELSE IQ!HeldVcs(q) \cup {granted}
  BY <1>2, <1>3, <1>4 DEF IQ!HeldVcs
<1>6. Behaves(r)
  <2>1. r.swa.fsm # "empty" => r.swa.vc \in Vcs
    BY <1>2 DEF QueueInv, VcKept
  <2>2. r.swa.fsm # "empty" => r.vca.vc # r.swa.vc
    <3>1. CASE granted = None
      BY <1>2, <1>3, <2>1, <3>1
    <3>2. CASE granted # None
      BY <1>2, <1>3, <2>1, <3>2 DEF IQ!HeldVcs
    <3> QED
      BY <3>1, <3>2
  <2> QED
    BY <1>2, <2>2 DEF Behaves
<1>7. LeftSwa(r, a) = LeftSwa(q, a)
  BY <1>2 DEF LeftSwa, LeftVca, LeftRfe, LeftBuffer, In
<1> QED
  BY <1>2, <1>5, <1>6, <1>7

(* It waits with a head flit, so it is not in the middle of a packet.      *)
LEMMA VcAnswerSends ==
  ASSUME NEW c \in Clients, NEW a \in Nat, NEW q, QueueInv(c, a, q), q.vca.fsm = "waiting", NEW r,
         r.swa = q.swa
  PROVE  SendingAt(c, r, LeftSwa(q, a)) = SendingAt(c, q, LeftSwa(q, a))
<1>1. CASE q.swa.flit # None
  BY <1>1 DEF SendingAt
<1>2. CASE q.swa.flit = None
  <2>1. PICK k \in Nat : k = LeftSwa(q, a)
    BY FrontIs
  <2>2. PICK m, n \in Nat : m = LeftVca(q, a) /\ n = LeftRfe(q, a)
    BY FrontIs
  <2>3. /\ q.vca.flit # None /\ q.vca.flit = FlitNumber(c, n) /\ IQ!IsHead(q.vca.flit)
    BY <2>2 DEF QueueInv, Filled, Numbered, VcKept
  <2>4. m = n - 1 /\ k = m
    BY <1>2, <2>1, <2>2, <2>3 DEF LeftSwa, LeftVca, In
  <2>5. n <= a /\ a <= TotalFlits(c)
    <3>1. QueueInv(c, a, q) /\ q \in QueueType /\ LeftBuffer(q, a) \in Int /\ LeftBuffer(q, a) <= a
      BY BufferNumbers DEF QueueInv
    <3>2. PICK b \in Int : b = LeftBuffer(q, a)
      BY <3>1
    <3> QED
      BY <2>2, <3>1, <3>2 DEF LeftRfe, In, QueueInv, Numbered
  <2>6. TotalFlits(c) \in Nat
    BY FlitsAreCounted
  <2>7. n = k + 1 /\ k + 1 <= TotalFlits(c)
    BY <2>4, <2>5, <2>6
  <2>8. ~Open(c, k)
    BY <2>3, <2>7, HeadsFollowTails
  <2> QED
    BY <1>2, <2>1, <2>8 DEF SendingAt
<1> QED
  BY <1>1, <1>2

(* The packet of queue c as the crossbar scheduler sees it, and what an    *)
(* event does to the schedulers' view of a queue.                          *)
Packet(c) == SendingAt(c, iq[c], LeftSwa(iq[c], arrived[c]))
SameView(c) == IQ!HeldVcs(iq'[c]) = IQ!HeldVcs(iq[c]) /\ Packet(c)' = Packet(c)

(* A queue that is unchanged to the schedulers holds the same VCs and      *)
(* sends the same packet.                                                  *)
LEMMA UnseenView ==
  ASSUME NEW c \in Clients, Unseen(c)
  PROVE  SameView(c)
<1>1. PICK q, r, k : q = iq[c] /\ r = iq'[c] /\ k = LeftSwa(iq[c], arrived[c])
  OBVIOUS
<1>2. r.swa.flit = q.swa.flit /\ r.swa.vc = q.swa.vc /\ r.vca.vc = q.vca.vc
      /\ LeftSwa(iq'[c], arrived'[c]) = k
  BY <1>1 DEF Unseen
<1>3. SendingAt(c, r, k) = SendingAt(c, q, k)
  BY <1>2 DEF SendingAt
<1>4. IQ!HeldVcs(r) = IQ!HeldVcs(q)
  BY <1>2 DEF IQ!HeldVcs
<1> QED
  BY <1>1, <1>2, <1>3, <1>4 DEF SameView, Packet

(* The VC scheduler's event in the router is the event of its              *)
(* specification.                                                          *)
LEMMA VcEventSteps ==
  ASSUME InputInv, Settled, VS!IInv, VcSchedulerEvent
  PROVE  /\ Settled'
         /\ VS!ProcessEvent
         /\ \A c \in Clients : /\ Packet(c)' = Packet(c) /\ iq'[c].swa = iq[c].swa
                              /\ LeftSwa(iq'[c], arrived'[c]) = LeftSwa(iq[c], arrived[c])
<1>1. PICK g \in VcAllocations(VS!Unmasked) :
         /\ VS!Allocate(g)
         /\ iq' = [c \in Clients |->
                     IF c \notin clientRequested THEN iq[c]
                     ELSE IQ!VcResponse(iq[c], IF VS!GrantsTo(g, c) = {} THEN None
                                               ELSE CHOOSE v \in VS!GrantsTo(g, c) : TRUE)]
  BY DEF VcSchedulerEvent
<1>2. arrived' = arrived
  BY DEF VcSchedulerEvent, netVars
<1>3. ASSUME NEW c \in Clients
      PROVE  /\ Behaves(iq'[c]) /\ Packet(c)' = Packet(c) /\ iq'[c].swa = iq[c].swa
             /\ IQ!HeldVcs(iq'[c]) = IF c \in clientRequested
                                     THEN IQ!HeldVcs(iq[c]) \cup VS!GrantsTo(g, c)
                                     ELSE IQ!HeldVcs(iq[c])
             /\ LeftSwa(iq'[c], arrived'[c]) = LeftSwa(iq[c], arrived[c])
  <2>1. ClientInv(c) /\ Behaves(iq[c]) /\ arrived[c] \in Nat
    BY DEF InputInv, InputTypes, Settled
  <2>2. CASE c \notin clientRequested
    <3>1. iq'[c] = iq[c] /\ arrived'[c] = arrived[c]
      BY <1>1, <1>2, <2>2
    <3> QED
      BY <2>1, <2>2, <3>1, UnseenView, SameIsUnseen DEF SameView
  <2>3. CASE c \in clientRequested
    <3>1. PICK q, a, v, r : /\ q = iq[c] /\ a = arrived[c] /\ r = iq'[c]
                            /\ v = IF VS!GrantsTo(g, c) = {} THEN None
                                   ELSE CHOOSE w \in VS!GrantsTo(g, c) : TRUE
      OBVIOUS
    <3>2. r = IQ!VcResponse(q, v)
      BY <1>1, <2>3, <3>1
    <3>3. a \in Nat /\ QueueInv(c, a, q) /\ Behaves(q) /\ q.vca.fsm = "waiting"
      BY <2>1, <2>3, <3>1 DEF ClientInv, QueueOK, Answerable
    <3>4. \/ VS!GrantsTo(g, c) = {} /\ v = None
          \/ VS!GrantsTo(g, c) = {v} /\ v \in Vcs \ vcTaken
      BY <3>1, VcGranted
    <3>5. v \notin IQ!HeldVcs(q)
      <4>1. vcTaken = UNION {IQ!HeldVcs(iq[d]) : d \in Clients}
        BY DEF VS!IInv, VS!TakenIsHeld
      <4>2. v \in Vcs \ vcTaken => v \notin IQ!HeldVcs(q)
        BY <3>1, <4>1
      <4> QED
        BY <3>4, <4>2 DEF IQ!HeldVcs
    <3>6. /\ IQ!HeldVcs(r) = IF v = None THEN IQ!HeldVcs(q) ELSE IQ!HeldVcs(q) \cup {v}
          /\ Behaves(r) /\ LeftSwa(r, a) = LeftSwa(q, a) /\ r.swa = q.swa
      BY <3>2, <3>3, <3>4, <3>5, VcAnswer
    <3>7. SendingAt(c, r, LeftSwa(r, a)) = SendingAt(c, q, LeftSwa(q, a))
      BY <3>3, <3>6, VcAnswerSends
    <3>8. IQ!HeldVcs(r) = IQ!HeldVcs(q) \cup VS!GrantsTo(g, c)
      BY <3>4, <3>6, RouterAssumption
    <3> QED
      BY <1>2, <2>3, <3>1, <3>6, <3>7, <3>8 DEF Packet
  <2> QED
    BY <2>2, <2>3
<1>4. Settled'
  BY <1>3 DEF Settled
<1>5. VS!ProcessEvent
  <2>1. [c \in Clients |-> IQ!HeldVcs(iq'[c])] =
          [c \in Clients |-> IF c \in clientRequested
                             THEN [d \in Clients |-> IQ!HeldVcs(iq[d])][c] \cup VS!GrantsTo(g, c)
                             ELSE [d \in Clients |-> IQ!HeldVcs(iq[d])][c]]
    BY <1>3
  <2> QED
    BY <1>1, <2>1 DEF VS!ProcessEvent
<1> QED
  BY <1>3, <1>4, <1>5

-----------------------------------------------------------------------------
(* A run of the pipeline, as the two schedulers see it: q2 and q4 are the  *)
(* queue when the two requests are considered, q7 is what it leaves.       *)
SeenRun(c, q0, q2, q4, q5, q7) ==
  /\ q0 = iq[c] /\ q7 = iq'[c]
  /\ Wants(c, q0, q2, q4, q5, q7) /\ Changes(q0, q2, q4, q5, q7)
  /\ UNCHANGED <<incrCredits, down, arrived>>
  /\ Behaves(q7)
  /\ IQ!HeldVcs(q7) = IF q0.swa.fsm = "ready" /\ IQ!IsTail(q0.swa.flit)
                      THEN IQ!HeldVcs(q0) \ {q0.swa.vc} ELSE IQ!HeldVcs(q0)
  /\ IQ!VcaAsks(q4) => q4.vca.route # {}
  /\ LeftSwa(q7, arrived[c]) = IF q0.swa.fsm = "ready" THEN LeftSwa(q0, arrived[c]) + 1
                               ELSE LeftSwa(q0, arrived[c])

Continues(c, q0, q2, p, r) ==
  LET ready == q0.swa.fsm = "ready"
  IN /\ ready => p # None /\ p.vc = q0.swa.vc
     /\ ~IQ!SwaAsks(q2) => r = After(p, ready)
     /\ IQ!SwaAsks(q2) =>
          /\ r # None /\ XbarRequest(q2.swa) = XS!NextRequest(r)
          /\ \/ r = After(p, ready)
             \/ /\ After(p, ready) = None
                /\ r.vc \in IQ!HeldVcs(q0) \cap Vcs /\ r.size \in PacketSizes
                /\ r = [vc |-> r.vc, size |-> r.size, left |-> r.size]

(* A run of a pipeline as the schedulers see it: what it asks for, gives   *)
(* up and sends.                                                           *)
LEMMA PipelineSeen ==
  ASSUME InputInv, Settled, NEW c \in Clients, PipelineEvent(c)
  PROVE  \E q0, q2, q4, q5, q7 : /\ SeenRun(c, q0, q2, q4, q5, q7)
                                /\ Continues(c, q0, q2, Packet(c), Packet(c)')
<1>1. PICK q0, q1, q2, q3, q4, q5, q6, q7 : Run(c, q0, q1, q2, q3, q4, q5, q6, q7)
  BY PipelineEventRuns
<1>2. PICK a \in Nat : a = arrived[c]
  BY DEF InputInv, InputTypes
<1>3. /\ q0 = iq[c] /\ iq \in [Clients -> QueueType] /\ iq' = [iq EXCEPT ![c] = q7] /\ arrived' = arrived
      /\ PipelineRun(q0, q1, q2, q3, q4, q5, q6, q7) /\ Wants(c, q0, q2, q4, q5, q7)
      /\ UNCHANGED <<incrCredits, down, arrived>>
  BY <1>1 DEF Run, Wants, InputInv, InputTypes
<1>4. q7 = iq'[c] /\ arrived'[c] = a
  BY <1>2, <1>3
<1>5. QueueInv(c, a, q0) /\ Behaves(q0) /\ q0.rfe.fsm # "toRequest"
  BY <1>2, <1>3 DEF InputInv, ClientInv, QueueOK, Settled
<1>6. /\ QueueInv(c, a, q1) /\ QueueInv(c, a, q2) /\ QueueInv(c, a, q3) /\ QueueInv(c, a, q4)
      /\ QueueInv(c, a, q5) /\ QueueInv(c, a, q6) /\ QueueInv(c, a, q7)
  BY <1>3, <1>5, PipelineKeeps
<1>7. /\ q0 \in QueueType /\ q1 \in QueueType /\ q2 \in QueueType /\ q3 \in QueueType
      /\ q4 \in QueueType /\ q5 \in QueueType /\ q6 \in QueueType /\ q7 \in QueueType
  BY <1>5, <1>6 DEF QueueInv
<1>8. Changes(q0, q2, q4, q5, q7)
  BY <1>3, <1>7, PipelineEffects
<1>9. Stages(q0, q1, q2, q3, q4, q5, q6, q7)
  BY <1>3, <1>7, PipelineStages
<1>10. Moves(q0, q2, q4, q7)
  BY <1>5, <1>7, <1>9, StagesMove
<1>11. /\ Behaves(q7)
       /\ IQ!HeldVcs(q7) = IF q0.swa.fsm = "ready" /\ IQ!IsTail(q0.swa.flit)
                           THEN IQ!HeldVcs(q0) \ {q0.swa.vc} ELSE IQ!HeldVcs(q0)
  BY <1>5, <1>6, <1>9, <1>10, StagesBehave
<1>12. LeftSwa(q7, a) = IF q0.swa.fsm = "ready" THEN LeftSwa(q0, a) + 1 ELSE LeftSwa(q0, a)
  BY <1>5, <1>6, <1>9, StagesCount
<1>13. SeenRun(c, q0, q2, q4, q5, q7)
  <2>1. IQ!VcaAsks(q4) => q4.vca.route # {}
    BY <1>10 DEF Moves
  <2>2. LeftSwa(q7, arrived[c]) = IF q0.swa.fsm = "ready" THEN LeftSwa(q0, arrived[c]) + 1
                                 ELSE LeftSwa(q0, arrived[c])
    BY <1>2, <1>12
  <2> QED
    BY <1>3, <1>4, <1>8, <1>11, <2>1, <2>2 DEF SeenRun
<1>14. Continues(c, q0, q2, Packet(c), Packet(c)')
  <2>1. PICK p, r : p = SendingAt(c, q0, LeftSwa(q0, a)) /\ r = SendingAt(c, q7, LeftSwa(q7, a))
    OBVIOUS
  <2>2. Continues(c, q0, q2, p, r)
    BY <1>5, <1>6, <1>10, <1>12, <2>1, PipelinePacket DEF Continues
  <2>3. Packet(c) = p /\ Packet(c)' = r
    BY <1>2, <1>3, <1>4, <2>1 DEF Packet
  <2> QED
    BY <2>2, <2>3
<1> QED
  BY <1>13, <1>14

(* The other queues stay as they are.                                      *)
LEMMA OthersSeen ==
  ASSUME NEW c \in Clients, NEW q0, NEW q2, NEW q4, NEW q5, NEW q7, SeenRun(c, q0, q2, q4, q5, q7),
         InputInv, Settled, NEW d \in Clients \ {c}
  PROVE  iq'[d] = iq[d] /\ Behaves(iq'[d]) /\ SameView(d)
<1>1. iq' = [iq EXCEPT ![c] = q7] /\ arrived' = arrived /\ iq \in [Clients -> QueueType]
  BY DEF SeenRun, Wants, InputInv, InputTypes
<1>2. iq'[d] = iq[d] /\ arrived'[d] = arrived[d]
  BY <1>1
<1> QED
  BY <1>2, SameIsUnseen, UnseenView DEF Unseen

(* A run of a pipeline is a step of a client of the VC scheduler.          *)
LEMMA VcPipelineSteps ==
  ASSUME InputInv, Settled, NEW c \in Clients, PipelineEvent(c)
  PROVE  Settled' /\ [VS!Next]_(VS!vars)
<1>1. PICK q0, q2, q4, q5, q7 : SeenRun(c, q0, q2, q4, q5, q7)
  BY PipelineSeen
<1>2. \A d \in Clients \ {c} : Behaves(iq'[d]) /\ IQ!HeldVcs(iq'[d]) = IQ!HeldVcs(iq[d])
  BY <1>1, OthersSeen DEF SameView
<1>3. /\ Behaves(q7) /\ q7 = iq'[c] /\ q0 = iq[c]
      /\ IQ!HeldVcs(q7) = IF q0.swa.fsm = "ready" /\ IQ!IsTail(q0.swa.flit)
                          THEN IQ!HeldVcs(q0) \ {q0.swa.vc} ELSE IQ!HeldVcs(q0)
  BY <1>1 DEF SeenRun
<1>4. Settled'
  BY <1>2, <1>3 DEF Settled
<1> DEFINE asks == IQ!VcaAsks(q4)
           leaves == IQ!InjectReady(q0) /\ IQ!IsTail(q0.swa.flit)
           h == [d \in Clients |-> IQ!HeldVcs(iq[d])]
           H == [d \in Clients |-> IQ!HeldVcs(iq'[d])]
<1>5. IF asks THEN c \notin clientRequested /\ VS!ClientAsks(c)
              ELSE UNCHANGED <<requests, clientRequested, allocEventSet>>
  <2>1. CASE asks
    <3>1. VS!RequestVcs(c, q4.vca.route) /\ q4.vca.route \in (SUBSET Vcs) \ {{}}
      BY <1>1, <2>1 DEF SeenRun, Wants, Changes
    <3>2. c \notin clientRequested
      BY <1>1, <1>3, <2>1 DEF SeenRun, Changes, InputInv, ClientInv, Answerable
    <3> QED
      BY <2>1, <3>1, <3>2 DEF VS!ClientAsks
  <2>2. CASE ~asks
    BY <1>1, <2>2 DEF SeenRun, Wants
  <2> QED
    BY <2>1, <2>2
<1>6. IF leaves THEN /\ q0.swa.vc \in h[c] /\ vcTaken' = vcTaken \ {q0.swa.vc}
                     /\ H = [h EXCEPT ![c] = @ \ {q0.swa.vc}]
                ELSE vcTaken' = vcTaken /\ H = h
  <2>1. CASE leaves
    <3>1. vcTaken' = vcTaken \ {q0.swa.vc} /\ q0.swa.fsm = "ready"
      BY <1>1, <2>1 DEF SeenRun, Wants, VS!ReleaseVc, IQ!InjectReady
    <3>2. QueueInv(c, arrived[c], q0)
      BY <1>3 DEF InputInv, ClientInv, QueueOK
    <3>3. q0.swa.vc \in Vcs
      BY <3>1, <3>2 DEF QueueInv, VcKept
    <3>4. q0.swa.vc \in h[c]
      BY <1>3, <3>3, RouterAssumption DEF IQ!HeldVcs
    <3>5. H[c] = h[c] \ {q0.swa.vc}
      BY <1>3, <2>1, <3>1
    <3>6. H = [h EXCEPT ![c] = @ \ {q0.swa.vc}]
      BY <1>2, <3>5
    <3> QED
      BY <2>1, <3>1, <3>4, <3>6
  <2>2. CASE ~leaves
    <3>1. vcTaken' = vcTaken
      BY <1>1, <2>2 DEF SeenRun, Wants
    <3>2. H[c] = h[c]
      BY <1>3, <2>2 DEF IQ!InjectReady
    <3> QED
      BY <1>2, <2>2, <3>1, <3>2
  <2> QED
    BY <2>1, <2>2
<1>7. leaves => VS!ClientReleases(c)
  BY <1>6 DEF VS!ClientReleases, VS!ReleaseVc
<1>8. asks \/ leaves => VS!ClientStep(c)
  BY <1>5, <1>6, <1>7 DEF VS!ClientStep
<1>9. ~asks /\ ~leaves => UNCHANGED VS!vars
  BY <1>5, <1>6 DEF VS!vars
<1> QED
  BY <1>4, <1>8, <1>9 DEF VS!Next

-----------------------------------------------------------------------------
(* Every other event leaves what the VC scheduler sees as it is.           *)
OtherEvent ==
  \/ CrossbarSchedulerEvent \/ CrossbarEvent \/ Tick \/ UNCHANGED vars
  \/ \E c \in Clients : RoutingResponse(c) \/ FlitArrives(c)
  \/ \E e \in {1, 2} : \E S \in SUBSET Vcs : CreditStep(e, S)
  \/ \E e \in {0, 1, 2} : Idle(e)

(* All other events are not seen by the VC scheduler.                      *)
LEMMA OtherEventUnseen ==
  ASSUME InputInv, Settled, OtherEvent
  PROVE  (\A c \in Clients : Unseen(c)) /\ UNCHANGED vcVars
<1>1. CASE CrossbarSchedulerEvent
  BY <1>1, UnseenXbarSchedulerEvent DEF CrossbarSchedulerEvent
<1>2. CASE CrossbarEvent
  <2>1. UNCHANGED <<iq, arrived>> /\ UNCHANGED vcVars
    BY <1>2 DEF CrossbarEvent, iqVars
  <2> QED
    BY <2>1, UnseenStutter
<1>3. CASE Tick
  BY <1>3, UnseenTick DEF Tick
<1>4. CASE UNCHANGED vars
  <2>1. UNCHANGED <<iq, arrived>> /\ UNCHANGED vcVars
    BY <1>4 DEF vars, iqVars, netVars
  <2> QED
    BY <2>1, UnseenStutter
<1>5. ASSUME NEW d \in Clients, RoutingResponse(d)
      PROVE  (\A c \in Clients : Unseen(c)) /\ UNCHANGED vcVars
  BY <1>5, UnseenRoutingResponse DEF RoutingResponse
<1>6. ASSUME NEW d \in Clients, FlitArrives(d)
      PROVE  (\A c \in Clients : Unseen(c)) /\ UNCHANGED vcVars
  BY <1>6, UnseenFlitArrives DEF FlitArrives
<1>7. ASSUME NEW e \in {1, 2}, NEW S \in SUBSET Vcs, CreditStep(e, S)
      PROVE  (\A c \in Clients : Unseen(c)) /\ UNCHANGED vcVars
  <2>1. UNCHANGED <<iq, arrived>> /\ UNCHANGED vcVars
    BY <1>7 DEF CreditStep, iqVars
  <2> QED
    BY <2>1, UnseenStutter
<1>8. ASSUME NEW e \in {0, 1, 2}, Idle(e)
      PROVE  (\A c \in Clients : Unseen(c)) /\ UNCHANGED vcVars
  <2>1. UNCHANGED <<iq, arrived>> /\ UNCHANGED vcVars
    BY <1>8 DEF Idle, iqVars
  <2> QED
    BY <2>1, UnseenStutter
<1> QED
  BY <1>1, <1>2, <1>3, <1>4, <1>5, <1>6, <1>7, <1>8 DEF OtherEvent

(* All other events are stuttering steps of the VC scheduler.              *)
LEMMA VsOtherEvent ==
  ASSUME InputInv, Settled, OtherEvent
  PROVE  Settled' /\ UNCHANGED VS!vars /\ \A c \in Clients : Packet(c)' = Packet(c)
<1>1. (\A c \in Clients : Unseen(c)) /\ UNCHANGED vcVars
  BY OtherEventUnseen
<1>2. \A c \in Clients : SameView(c)
  BY <1>1, UnseenView
<1>3. Settled'
  BY <1>1 DEF Settled, Unseen
<1>4. [c \in Clients |-> IQ!HeldVcs(iq'[c])] = [c \in Clients |-> IQ!HeldVcs(iq[c])]
  BY <1>2 DEF SameView
<1> QED
  BY <1>1, <1>2, <1>3, <1>4 DEF VS!vars, vcVars, SameView

(* The input queues are the clients that the VC scheduler expects.         *)
LEMMA VsNext ==
  ASSUME InputInv, Settled, VS!IInv, RouterStep
  PROVE  Settled' /\ [VS!Next]_(VS!vars)
<1>1. CASE VcSchedulerEvent
  BY <1>1, VcEventSteps DEF VS!Next
<1>2. ASSUME NEW c \in Clients, PipelineEvent(c)
      PROVE  Settled' /\ [VS!Next]_(VS!vars)
  BY <1>2, VcPipelineSteps
<1>3. CASE OtherEvent
  BY <1>3, VsOtherEvent
<1> QED
  BY <1>1, <1>2, <1>3 DEF RouterStep, OtherEvent

(* The router starts as the VC scheduler does.                             *)
LEMMA VsInit == Init => VS!Init
<1> SUFFICES ASSUME Init PROVE VS!Init
  OBVIOUS
<1>1. \A c \in Clients : IQ!HeldVcs(iq[c]) = {}
  BY DEF Init, IQ!HeldVcs, IQ!EmptyQueue, IQ!EmptySwa
<1> QED
  BY <1>1 DEF Init, VS!Init

(* What the schedulers need of the input queues, and what they then give.  *)
VcInv == InputInv /\ Settled /\ VS!IInv

(* Every step keeps the input side's invariant, settled pipelines and the  *)
(* VC scheduler's invariant.                                               *)
LEMMA VcInvNext == VcInv /\ RouterStep => VcInv'
<1> SUFFICES ASSUME VcInv, RouterStep PROVE VcInv'
  OBVIOUS
<1>1. InputInv'
  BY InputNext DEF VcInv
<1>2. Settled' /\ [VS!Next]_(VS!vars)
  BY VsNext DEF VcInv
<1>3. VS!IInv'
  BY <1>2, VS!NextIInv, VsClients, VsAllocator DEF VcInv
<1> QED
  BY <1>1, <1>2, <1>3 DEF VcInv

(* The invariant up to the VC scheduler always holds.                      *)
LEMMA VcInvAlways == Spec => []VcInv
<1>1. Init => VcInv
  <2>1. VS!Init => VS!IInv
    BY VS!InitIInv, VsClients, VsAllocator
  <2> QED
    BY <2>1, VsInit, InputInit, InitSettled DEF VcInv
<1> QED
  BY <1>1, VcInvNext, NextIsRouterStep, PTL DEF Spec

(* In the router the VC scheduler sees nothing but its own specification:  *)
(* what is proved of it (an output VC has one holder, every request is     *)
(* answered) holds for the input queues.                                   *)
THEOREM UsesVcScheduler == Spec => VS!Spec
<1>1. VcInv /\ [Next]_vars => [VS!Next]_(VS!vars)
  BY VsNext, NextIsRouterStep DEF VcInv
<1> QED
  BY <1>1, VsInit, VcInvAlways, PTL DEF Spec, VS!Spec

-----------------------------------------------------------------------------
(* The crossbar scheduler's view of the queues and of the neighbour.       *)
LEMMA SendingIsPacket == InputInv => \A c \in Clients : Sending(c) = Packet(c)
<1> SUFFICES ASSUME InputInv, NEW c \in Clients PROVE Sending(c) = Packet(c)
  OBVIOUS
<1>1. arrived[c] \in Nat /\ QueueInv(c, arrived[c], iq[c])
  BY DEF InputInv, InputTypes, ClientInv, QueueOK
<1> QED
  BY <1>1, SendingIs DEF Packet

Used(v) == InCrossbar(v) + down[v]

(* The slots in use downstream are those without a credit.                 *)
LEMMA UsedIs ==
  CreditInv => \A v \in Vcs : /\ InCrossbar(v) \in Nat /\ down[v] \in Nat
                              /\ Used(v) = DownDepth - credits[v] - incrCredits[v]
<1> SUFFICES ASSUME CreditInv, NEW v \in Vcs
             PROVE  /\ InCrossbar(v) \in Nat /\ down[v] \in Nat
                    /\ Used(v) = DownDepth - credits[v] - incrCredits[v]
  OBVIOUS
<1>1. InCrossbar(v) \in Nat
  BY Counted, CrossbarCounts DEF CreditInv, CrossbarInv
<1>2. PICK a \in Int, b, d \in Nat : a = credits[v] /\ b = incrCredits[v] /\ d = down[v]
  BY DEF CreditInv, CreditTypes
<1>3. PICK n \in Nat : n = InCrossbar(v)
  BY <1>1
<1>4. PICK D \in Nat : D = DownDepth
  BY RouterAssumption
<1>5. a + b + n + d = D
  BY <1>2, <1>3, <1>4 DEF CreditInv, CreditsConserved
<1>6. n + d = D - a - b
  BY <1>2, <1>3, <1>4, <1>5
<1> QED
  BY <1>2, <1>3, <1>4, <1>6 DEF Used

Ready == {c \in Clients : iq[c].swa.fsm = "ready"}

(* The packets that it sees.                                               *)
LEMMA XsVar ==
  ASSUME InputInv, InputInv'
  PROVE  /\ [c \in Clients |-> Sending(c)] = [c \in Clients |-> Packet(c)]
         /\ [c \in Clients |-> Sending(c)]' = [c \in Clients |-> Packet(c)']
<1>1. \A c \in Clients : Sending(c) = Packet(c)
  BY SendingIsPacket
<1>2. (\A c \in Clients : Sending(c) = Packet(c))'
  BY SendingIsPacket, PTL
<1>3. [c \in Clients |-> Sending(c)] = [c \in Clients |-> Packet(c)]
  BY <1>1
<1>4. [c \in Clients |-> Sending(c)]' = [c \in Clients |-> Packet(c)']
  BY <1>2
<1> QED
  BY <1>3, <1>4

(* The slots in use downstream are those without a credit.                 *)
LEMMA UsedSum == CreditInv => \A v \in Vcs : Used(v) = DownDepth - credits[v] - incrCredits[v]
BY UsedIs

(* The slots in use before and after a step.                               *)
LEMMA UsedAfter ==
  ASSUME CreditInv, CreditInv'
  PROVE  \A v \in Vcs : /\ Used(v) = DownDepth - credits[v] - incrCredits[v]
                        /\ Used(v)' = DownDepth - credits'[v] - incrCredits'[v]
<1>1. \A v \in Vcs : Used(v) = DownDepth - credits[v] - incrCredits[v]
  BY UsedSum
<1>2. (\A v \in Vcs : Used(v) = DownDepth - credits[v] - incrCredits[v])'
  BY UsedSum, PTL
<1> QED
  BY <1>1, <1>2

(* A step that leaves the crossbar scheduler, the packets, the grants and  *)
(* the credits alone is a stuttering step of its.                          *)
LEMMA XsStutters ==
  ASSUME InputInv, InputInv', CreditInv, CreditInv', UNCHANGED xsVars,
         \A c \in Clients : Packet(c)' = Packet(c),
         \A c \in Clients : iq'[c].swa.fsm = "ready" <=> iq[c].swa.fsm = "ready"
  PROVE  UNCHANGED XS!vars
<1>1. UNCHANGED <<request, credits, incrCredits, portLocks, eventAction>>
  BY DEF xsVars
<1>2. UNCHANGED [c \in Clients |-> Sending(c)]
  BY XsVar
<1>3. UNCHANGED {c \in Clients : iq[c].swa.fsm = "ready"}
  OBVIOUS
<1>4. UNCHANGED [v \in Vcs |-> InCrossbar(v) + down[v]]
  BY <1>1, UsedAfter DEF Used
<1> QED
  BY <1>1, <1>2, <1>3, <1>4 DEF XS!vars

(* The events that do not touch the switch allocation stage.               *)
LEMMA SwaKept ==
  ASSUME InputInv, NEW c \in Clients,
         \/ CrossbarEvent \/ Tick \/ UNCHANGED vars
         \/ \E d \in Clients : RoutingResponse(d) \/ FlitArrives(d)
         \/ \E e \in {0, 1, 2} : Idle(e)
  PROVE  iq'[c].swa = iq[c].swa
<1>0. iq[c] \in QueueType /\ iq \in [Clients -> QueueType]
  BY DEF InputInv, InputTypes
<1>1. CASE CrossbarEvent \/ UNCHANGED vars
  BY <1>1 DEF CrossbarEvent, vars, iqVars
<1>2. CASE Tick
  <2>1. PICK q, r : q = iq[c] /\ r = [q EXCEPT !.rfe.wait = @ - 1]
    OBVIOUS
  <2>2. iq'[c] = q \/ iq'[c] = r
    BY <1>2, <2>1 DEF Tick
  <2>3. r.swa = q.swa
    BY <1>0, <2>1 DEF QueueType
  <2> QED
    BY <2>1, <2>2, <2>3
<1>3. ASSUME NEW d \in Clients, RoutingResponse(d) PROVE iq'[c].swa = iq[c].swa
  <2>1. PICK route : iq' = [iq EXCEPT ![d] = IQ!RouteResponse(@, route)]
    BY <1>3 DEF RoutingResponse
  <2>2. PICK q, r : q = iq[c] /\ r = IQ!RouteResponse(q, route)
    OBVIOUS
  <2>3. iq'[c] = q \/ iq'[c] = r
    BY <1>0, <2>1, <2>2
  <2>4. r.swa = q.swa
    BY <1>0, <2>2 DEF QueueType, IQ!RouteResponse
  <2> QED
    BY <2>2, <2>3, <2>4
<1>4. ASSUME NEW d \in Clients, FlitArrives(d) PROVE iq'[c].swa = iq[c].swa
  <2>1. PICK f : iq' = [iq EXCEPT ![d].buffer = Append(@, f)]
    BY <1>4 DEF FlitArrives
  <2>2. PICK q, r : q = iq[c] /\ r = [q EXCEPT !.buffer = Append(@, f)]
    OBVIOUS
  <2>3. iq'[c] = q \/ iq'[c] = r
    BY <1>0, <2>1, <2>2
  <2>4. r.swa = q.swa
    BY <1>0, <2>2 DEF QueueType
  <2> QED
    BY <2>2, <2>3, <2>4
<1>5. ASSUME NEW e \in {0, 1, 2}, Idle(e) PROVE iq'[c].swa = iq[c].swa
  BY <1>5 DEF Idle, iqVars
<1> QED
  BY <1>1, <1>2, <1>3, <1>4, <1>5

(* The crossbar scheduler's own event.                                     *)
LEMMA XsSchedulerSteps ==
  ASSUME InputInv, InputInv', Settled, CrossbarSchedulerEvent
  PROVE  XS!ProcessEvent
<1>1. epsilon = 0
  BY DEF CrossbarSchedulerEvent, At, MayRun, InputInv, InputTypes
<1>2. eventAction # "NONE"
  BY DEF CrossbarSchedulerEvent, XS!CreditsOnly, XS!RunAlloc
<1>3. {c \in Clients : iq[c].swa.fsm = "ready"} = {}
  BY <1>1, <1>2 DEF InputInv, ClientInv, OnTime
<1>4. UNCHANGED [c \in Clients |-> Sending(c)]
  <2>1. \A c \in Clients : Packet(c)' = Packet(c)
    BY OtherEventUnseen, UnseenView DEF OtherEvent, SameView
  <2> QED
    BY <2>1, XsVar
<1>5. UNCHANGED [v \in Vcs |-> InCrossbar(v) + down[v]]
  BY DEF CrossbarSchedulerEvent, netVars, InCrossbar
<1>6. CASE XS!CreditsOnly /\ UNCHANGED iqVars
  <2>1. UNCHANGED {c \in Clients : iq[c].swa.fsm = "ready"}
    BY <1>6 DEF iqVars
  <2> QED
    BY <1>3, <1>4, <1>5, <1>6, <2>1 DEF XS!ProcessEvent
<1>7. ASSUME NEW g \in XbarAllocations(XS!Unmasked), XS!RunAlloc(g),
             iq' = [c \in Clients |-> IF request[c] = None THEN iq[c]
                                      ELSE IQ!XbarResponse(iq[c], c \in XS!Winners(g))]
      PROVE  XS!ProcessEvent
  <2>1. ASSUME NEW c \in Clients
        PROVE  iq'[c].swa.fsm = "ready" <=> c \in XS!Winners(g)
    <3>1. iq[c] \in QueueType
      BY DEF InputInv, InputTypes
    <3>2. CASE request[c] = None
      BY <1>3, <1>7, <3>2, WinnersAsked
    <3>3. CASE request[c] # None
      <4>1. PICK q, r : q = iq[c] /\ r = iq'[c]
        OBVIOUS
      <4>2. r = [q EXCEPT !.swa.fsm = IF c \in XS!Winners(g) THEN "ready" ELSE "toRequest"]
        BY <1>7, <3>3, <4>1 DEF IQ!XbarResponse
      <4>3. r.swa.fsm = IF c \in XS!Winners(g) THEN "ready" ELSE "toRequest"
        BY <3>1, <4>1, <4>2 DEF QueueType
      <4> QED
        BY <4>1, <4>3
    <3> QED
      BY <3>2, <3>3
  <2>2. \A c \in XS!Winners(g) : c \in Clients
    BY WinnersAsked
  <2>3. {c \in Clients : iq[c].swa.fsm = "ready"}' = XS!Winners(g)
    BY <2>1, <2>2
  <2> QED
    BY <1>3, <1>4, <1>5, <1>7, <2>3 DEF XS!ProcessEvent
<1> QED
  BY <1>6, <1>7 DEF CrossbarSchedulerEvent

(* A credit message.                                                       *)
LEMMA XsCreditSteps ==
  ASSUME InputInv, InputInv', Settled, CreditInv, NEW e \in {1, 2}, NEW S \in SUBSET Vcs,
         CreditStep(e, S)
  PROVE  XS!CreditReturn
<1>1. /\ S \in (SUBSET {v \in Vcs : down[v] > 0}) \ {{}}
      /\ XS!IncrementCreditCount(S)
      /\ down' = [v \in Vcs |-> IF v \in S THEN down[v] - 1 ELSE down[v]]
  BY DEF CreditStep
<1>2. UNCHANGED <<request, credits, portLocks, iq, xbar>>
  BY DEF CreditStep, iqVars
<1>3. UNCHANGED [c \in Clients |-> Sending(c)]
  <2>1. \A c \in Clients : Packet(c)' = Packet(c)
    BY OtherEventUnseen, UnseenView DEF OtherEvent, SameView
  <2> QED
    BY <2>1, XsVar
<1>4. UNCHANGED {c \in Clients : iq[c].swa.fsm = "ready"}
  BY <1>2
<1>5. \A v \in Vcs : InCrossbar(v) \in Nat /\ down[v] \in Nat /\ InCrossbar(v)' = InCrossbar(v)
  BY <1>2, UsedIs DEF InCrossbar
<1> DEFINE u == [v \in Vcs |-> InCrossbar(v) + down[v]]
<1>6. u' = [v \in Vcs |-> IF v \in S THEN u[v] - 1 ELSE u[v]]
  <2>1. PICK F, d, w : F = [v \in Vcs |-> InCrossbar(v)] /\ d = down /\ w = down'
    OBVIOUS
  <2>2. /\ \A v \in Vcs : F[v] \in Nat /\ d[v] \in Nat
        /\ w = [v \in Vcs |-> IF v \in S THEN d[v] - 1 ELSE d[v]]
    BY <1>1, <1>5, <2>1
  <2>3. u = [v \in Vcs |-> F[v] + d[v]]
    BY <2>1
  <2>4. u' = [v \in Vcs |-> F[v] + w[v]]
    BY <1>5, <2>1
  <2>5. \A n, m \in Nat : n + (m - 1) = n + m - 1
    OBVIOUS
  <2> HIDE DEF u
  <2>6. [v \in Vcs |-> F[v] + w[v]] = [v \in Vcs |-> IF v \in S THEN u[v] - 1 ELSE u[v]]
    BY <2>2, <2>3, <2>5
  <2> QED
    BY <2>4, <2>6
<1>7. S \in (SUBSET {v \in Vcs : u[v] > 0}) \ {{}}
  <2>1. \A v \in S : v \in Vcs /\ InCrossbar(v) + down[v] > 0
    BY <1>1, <1>5
  <2> QED
    BY <1>1, <2>1
<1> QED
  BY <1>1, <1>2, <1>3, <1>4, <1>6, <1>7 DEF XS!CreditReturn

(* A run of the pipeline: what changes of the three things that the        *)
(* scheduler sees.                                                         *)
XsRun(c, ready, v, P, N, G, H, u, w, r) ==
  /\ P = [d \in Clients |-> Sending(d)] /\ N = [d \in Clients |-> Sending(d)]'
  /\ G = {d \in Clients : iq[d].swa.fsm = "ready"}
  /\ H = {d \in Clients : iq[d].swa.fsm = "ready"}'
  /\ u = [x \in Vcs |-> InCrossbar(x) + down[x]] /\ w = [x \in Vcs |-> InCrossbar(x) + down[x]]'
  /\ ready <=> c \in G
  /\ N = [P EXCEPT ![c] = r]
  /\ H = G \ {c}
  /\ w = IF ready THEN [u EXCEPT ![v] = @ + 1] ELSE u
  /\ IF ready THEN credits' = [credits EXCEPT ![v] = @ - 1] ELSE credits' = credits
  /\ incrCredits' = incrCredits /\ portLocks' = portLocks

(* What a run of a pipeline asks of the crossbar scheduler, in the terms   *)
(* of its client.                                                          *)
LEMMA XsRuns ==
  ASSUME InputInv, InputInv', Settled, CreditInv, CreditInv', NEW c \in Clients, PipelineEvent(c),
         NEW q0, NEW q2, NEW q4, NEW q5, NEW q7, SeenRun(c, q0, q2, q4, q5, q7),
         NEW ready, NEW v, NEW r, ready = (q0.swa.fsm = "ready"), v = q0.swa.vc, r = Packet(c)'
  PROVE  \E P, N, G, H, u, w : XsRun(c, ready, v, P, N, G, H, u, w, r)
<1>1. PICK P, N : /\ P = [d \in Clients |-> Sending(d)] /\ N = [d \in Clients |-> Sending(d)]'
                  /\ P = [d \in Clients |-> Packet(d)] /\ N = [d \in Clients |-> Packet(d)']
  BY XsVar
<1>2. \A d \in Clients \ {c} : SameView(d) /\ iq'[d] = iq[d]
  BY OthersSeen
<1>3. N = [P EXCEPT ![c] = Packet(c)']
  <2>1. \A d \in Clients \ {c} : Packet(d)' = Packet(d)
    BY <1>2 DEF SameView
  <2> QED
    BY <1>1, <2>1
<1>4. PICK G, H : /\ G = {d \in Clients : iq[d].swa.fsm = "ready"}
                  /\ H = {d \in Clients : iq[d].swa.fsm = "ready"}'
  OBVIOUS
<1>5. iq'[c].swa.fsm # "ready" /\ iq[c] = q0
  BY DEF SeenRun, Changes
<1>6. H = G \ {c} /\ (q0.swa.fsm = "ready" <=> c \in G)
  BY <1>2, <1>4, <1>5
<1>7. PICK u, w : /\ u = [x \in Vcs |-> InCrossbar(x) + down[x]]
                  /\ w = [x \in Vcs |-> InCrossbar(x) + down[x]]'
  OBVIOUS
<1>8. UNCHANGED <<incrCredits, portLocks>>
  BY DEF PipelineEvent
<1>9. IF q0.swa.fsm = "ready" THEN credits' = [credits EXCEPT ![q0.swa.vc] = @ - 1]
                             ELSE credits' = credits
  BY DEF SeenRun, Wants, IQ!InjectReady, XS!DecrementCreditCount
<1>10. q0.swa.fsm = "ready" => q0.swa.vc \in Vcs
  <2>1. QueueInv(c, arrived[c], q0)
    BY <1>5 DEF InputInv, ClientInv, QueueOK
  <2> QED
    BY <2>1 DEF QueueInv, VcKept
<1>11. w = IF q0.swa.fsm = "ready" THEN [u EXCEPT ![q0.swa.vc] = @ + 1] ELSE u
  <2>1. PICK C, I, B, D, y : /\ C = credits /\ I = incrCredits /\ B = credits' /\ D = DownDepth
                             /\ y = q0.swa.vc
    OBVIOUS
  <2>2. /\ C \in [Vcs -> Int] /\ I \in [Vcs -> Nat] /\ D \in Nat
    BY <2>1, RouterAssumption DEF CreditInv, CreditTypes
  <2>3. u = [x \in Vcs |-> D - C[x] - I[x]]
    BY <1>7, <2>1, UsedAfter DEF Used
  <2>4. w = [x \in Vcs |-> D - B[x] - I[x]]
    <3>1. \A x \in Vcs : Used(x)' = D - B[x] - I[x]
      BY <1>8, <2>1, UsedAfter
    <3> QED
      BY <1>7, <3>1 DEF Used
  <2>5. CASE q0.swa.fsm = "ready"
    <3>1. B = [C EXCEPT ![y] = @ - 1] /\ y \in Vcs
      BY <1>9, <1>10, <2>1, <2>5
    <3>2. \A l, m \in Int, n \in Nat : l - (m - 1) - n = (l - m - n) + 1
      OBVIOUS
    <3>3. w = [u EXCEPT ![y] = @ + 1]
      BY <2>2, <2>3, <2>4, <3>1, <3>2
    <3> QED
      BY <2>1, <2>5, <3>3
  <2>6. CASE q0.swa.fsm # "ready"
    BY <1>9, <2>1, <2>3, <2>4, <2>6
  <2> QED
    BY <2>5, <2>6
<1>12. ready <=> c \in G
  BY <1>6
<1>13. w = IF ready THEN [u EXCEPT ![v] = @ + 1] ELSE u
  BY <1>11
<1>14. IF ready THEN credits' = [credits EXCEPT ![v] = @ - 1] ELSE credits' = credits
  BY <1>9
<1>15. N = [P EXCEPT ![c] = r]
  BY <1>3
<1>16. XsRun(c, ready, v, P, N, G, H, u, w, r)
  BY <1>1, <1>4, <1>6, <1>7, <1>8, <1>12, <1>13, <1>14, <1>15 DEF XsRun
<1> QED
  BY <1>16

(* A packet that is being sent has a VC that its queue holds.              *)
LEMMA PacketHeld ==
  ASSUME InputInv, NEW c \in Clients
  PROVE  /\ Packet(c) \in XS!Packets \cup {None}
         /\ Packet(c) # None => Packet(c).vc \in IQ!HeldVcs(iq[c])
<1>1. arrived[c] \in Nat /\ QueueInv(c, arrived[c], iq[c])
  BY DEF InputInv, InputTypes, ClientInv, QueueOK
<1> QED
  BY <1>1, SendingFacts DEF Packet

(* A run of a pipeline is a step of a client of the crossbar scheduler.    *)
LEMMA XsPipelineSteps ==
  ASSUME InputInv, InputInv', Settled, VS!IInv, CreditInv, CreditInv', NEW c \in Clients,
         PipelineEvent(c)
  PROVE  [XS!Next]_(XS!vars)
<1>1. PICK q0, q2, q4, q5, q7 : /\ SeenRun(c, q0, q2, q4, q5, q7)
                                /\ Continues(c, q0, q2, Packet(c), Packet(c)')
  BY PipelineSeen
<1>2. PICK ready, v, p, r : /\ ready = (q0.swa.fsm = "ready") /\ v = q0.swa.vc
                            /\ p = Packet(c) /\ r = Packet(c)'
  OBVIOUS
<1>3. PICK P, N, G, H, u, w : XsRun(c, ready, v, P, N, G, H, u, w, r)
  BY <1>1, <1>2, XsRuns
<1>4. /\ [d \in Clients |-> Sending(d)] = P /\ [d \in Clients |-> Sending(d)]' = N
      /\ {d \in Clients : iq[d].swa.fsm = "ready"} = G
      /\ {d \in Clients : iq[d].swa.fsm = "ready"}' = H
      /\ [x \in Vcs |-> InCrossbar(x) + down[x]] = u /\ [x \in Vcs |-> InCrossbar(x) + down[x]]' = w
  BY <1>3 DEF XsRun
<1>5. P[c] = p /\ \A d \in Clients : P[d] = Packet(d)
  BY <1>2, <1>4, XsVar
<1>6. /\ ready <=> c \in G
      /\ N = [P EXCEPT ![c] = r] /\ H = G \ {c}
      /\ w = IF ready THEN [u EXCEPT ![v] = @ + 1] ELSE u
      /\ IF ready THEN credits' = [credits EXCEPT ![v] = @ - 1] ELSE credits' = credits
      /\ UNCHANGED <<incrCredits, portLocks>>
  BY <1>3 DEF XsRun
<1>7. /\ ready => p # None /\ p.vc = v
      /\ ~IQ!SwaAsks(q2) => r = After(p, ready)
      /\ IQ!SwaAsks(q2) =>
           /\ r # None /\ XbarRequest(q2.swa) = XS!NextRequest(r)
           /\ \/ r = After(p, ready)
              \/ /\ After(p, ready) = None
                 /\ r.vc \in IQ!HeldVcs(q0) \cap Vcs /\ r.size \in PacketSizes
                 /\ r = [vc |-> r.vc, size |-> r.size, left |-> r.size]
  BY <1>1, <1>2 DEF Continues
<1>8. IF IQ!SwaAsks(q2) THEN XS!RequestFlit(c, XbarRequest(q2.swa))
      ELSE UNCHANGED <<request, eventAction>>
  BY <1>1 DEF SeenRun, Wants
<1>9. ready \/ IQ!SwaAsks(q2) => request[c] = None
  <2>1. q0 = iq[c] /\ (q0.swa.fsm = "waiting" <=> request[c] # None)
    BY <1>1 DEF SeenRun, InputInv, ClientInv, Answerable
  <2>2. q0.swa.fsm = "waiting" => ~IQ!SwaAsks(q2)
    BY <1>1 DEF SeenRun, Changes
  <2> QED
    BY <1>2, <2>1, <2>2
<1>10. XS!PacketAfterGrant(c) = After(p, ready)
  BY <1>4, <1>5, <1>6 DEF XS!PacketAfterGrant, After
<1>11. XS!UseGrant(c)
  <2>1. CASE ready
    BY <1>4, <1>5, <1>6, <1>7, <2>1 DEF XS!UseGrant, XS!DecrementCreditCount
  <2>2. CASE ~ready
    BY <1>4, <1>6, <2>2 DEF XS!UseGrant
  <2> QED
    BY <2>1, <2>2
<1>12. CASE ready /\ ~IQ!SwaAsks(q2)
  <2>1. XS!ClientStep(c)
    BY <1>4, <1>6, <1>7, <1>8, <1>9, <1>10, <1>11, <1>12 DEF XS!ClientStep
  <2> QED
    BY <2>1 DEF XS!Next
<1>13. CASE IQ!SwaAsks(q2) /\ r = After(p, ready)
  <2>1. XS!ClientStep(c)
    BY <1>4, <1>6, <1>7, <1>8, <1>9, <1>10, <1>11, <1>13 DEF XS!ClientStep
  <2> QED
    BY <2>1 DEF XS!Next
<1>14. CASE IQ!SwaAsks(q2) /\ r # After(p, ready)
  <2>1. /\ After(p, ready) = None
        /\ r.vc \in IQ!HeldVcs(q0) \cap Vcs /\ r.size \in PacketSizes
        /\ r = [vc |-> r.vc, size |-> r.size, left |-> r.size]
    BY <1>7, <1>14
  <2>2. PICK x, n : x = r.vc /\ n = r.size
    OBVIOUS
  <2>3. \A d \in Clients \ {c} : P[d] # None => P[d].vc # x
    <3> SUFFICES ASSUME NEW d \in Clients \ {c}, P[d] # None, P[d].vc = x PROVE FALSE
      OBVIOUS
    <3>1. x \in IQ!HeldVcs(iq[d])
      BY <1>5, PacketHeld
    <3>2. x \in IQ!HeldVcs(iq[c])
      BY <1>1, <2>1, <2>2 DEF SeenRun
    <3>3. \A a, b \in Clients : a # b => IQ!HeldVcs(iq[a]) \cap IQ!HeldVcs(iq[b]) = {}
      BY DEF VS!IInv, VS!Exclusive
    <3> QED
      BY <3>1, <3>2, <3>3
  <2>4. r = [vc |-> x, size |-> n, left |-> n] /\ x \in Vcs /\ n \in PacketSizes
    BY <2>1, <2>2
  <2>5. N = [P EXCEPT ![c] = [vc |-> x, size |-> n, left |-> n]]
        /\ XS!RequestFlit(c, XS!NextRequest([vc |-> x, size |-> n, left |-> n]))
    BY <1>6, <1>7, <1>8, <1>14, <2>4
  <2>6. XS!ClientStep(c)
    BY <1>4, <1>6, <1>9, <1>10, <1>11, <1>14, <2>1, <2>3, <2>4, <2>5 DEF XS!ClientStep
  <2> QED
    BY <2>6 DEF XS!Next
<1>15. CASE ~ready /\ ~IQ!SwaAsks(q2)
  <2>1. r = p
    BY <1>7, <1>15 DEF After
  <2>2. N = P /\ H = G /\ w = u /\ credits' = credits
    <3>1. N = P
      <4>1. P = [d \in Clients |-> Packet(d)]
        BY <1>4, XsVar
      <4> QED
        BY <1>5, <1>6, <2>1, <4>1
    <3>2. H = G
      BY <1>6, <1>15
    <3> QED
      BY <1>6, <1>15, <3>1, <3>2
  <2> QED
    BY <1>4, <1>6, <1>8, <1>15, <2>2 DEF XS!vars
<1> QED
  BY <1>12, <1>13, <1>14, <1>15

(* The events that are neither a pipeline's nor the crossbar scheduler's,  *)
(* nor a credit's, are stuttering steps of it.                             *)
LEMMA XsOtherSteps ==
  ASSUME InputInv, InputInv', Settled, VS!IInv, CreditInv, CreditInv',
         \/ VcSchedulerEvent \/ CrossbarEvent \/ Tick \/ UNCHANGED vars
         \/ \E d \in Clients : RoutingResponse(d) \/ FlitArrives(d)
         \/ \E e \in {0, 1, 2} : Idle(e)
  PROVE  UNCHANGED XS!vars
<1>1. UNCHANGED xsVars
  BY DEF VcSchedulerEvent, CrossbarEvent, Tick, vars, RoutingResponse, FlitArrives, Idle
<1>2. CASE VcSchedulerEvent
  <2>1. \A c \in Clients : Packet(c)' = Packet(c) /\ iq'[c].swa = iq[c].swa
    BY <1>2, VcEventSteps
  <2> QED
    BY <1>1, <2>1, XsStutters
<1>3. CASE \/ CrossbarEvent \/ Tick \/ UNCHANGED vars
           \/ \E d \in Clients : RoutingResponse(d) \/ FlitArrives(d)
           \/ \E e \in {0, 1, 2} : Idle(e)
  <2>1. \A c \in Clients : iq'[c].swa = iq[c].swa
    BY <1>3, SwaKept
  <2>2. \A c \in Clients : Packet(c)' = Packet(c)
    BY <1>3, OtherEventUnseen, UnseenView DEF OtherEvent, SameView
  <2> QED
    BY <1>1, <2>1, <2>2, XsStutters
<1> QED
  BY <1>2, <1>3

(* The input queues are the clients, and the other side of the channels is *)
(* the neighbour, that the crossbar scheduler expects.                     *)
LEMMA XsNext ==
  ASSUME InputInv, InputInv', Settled, VS!IInv, CreditInv, CreditInv', RouterStep
  PROVE  [XS!Next]_(XS!vars)
<1>1. CASE CrossbarSchedulerEvent
  BY <1>1, XsSchedulerSteps DEF XS!Next
<1>2. ASSUME NEW e \in {1, 2}, NEW S \in SUBSET Vcs, CreditStep(e, S)
      PROVE  [XS!Next]_(XS!vars)
  BY <1>2, XsCreditSteps DEF XS!Next
<1>3. ASSUME NEW c \in Clients, PipelineEvent(c)
      PROVE  [XS!Next]_(XS!vars)
  BY <1>3, XsPipelineSteps
<1>4. CASE \/ VcSchedulerEvent \/ CrossbarEvent \/ Tick \/ UNCHANGED vars
           \/ \E d \in Clients : RoutingResponse(d) \/ FlitArrives(d)
           \/ \E e \in {0, 1, 2} : Idle(e)
  BY <1>4, XsOtherSteps
<1> QED
  BY <1>1, <1>2, <1>3, <1>4 DEF RouterStep

(* The router starts as the crossbar scheduler does.                       *)
LEMMA XsInit == Init => XS!Init
<1> SUFFICES ASSUME Init PROVE XS!Init
  OBVIOUS
<1>1. InputInv /\ CreditInv
  BY InputInit, CreditInit
<1>2. ASSUME NEW c \in Clients PROVE Sending(c) = None
  <2>1. PICK q, a : q = iq[c] /\ a = arrived[c]
    OBVIOUS
  <2>2. q = IQ!EmptyQueue /\ a = 0
    BY <2>1 DEF Init
  <2>3. q.swa.flit = None /\ q.vca.flit = None /\ q.rfe.flit = None /\ q.buffer = <<>>
    BY <2>2 DEF IQ!EmptyQueue, IQ!EmptyRfe, IQ!EmptySwa
  <2>4. LeftSwa(q, a) = 0
    <3>1. In(q.swa) = 0 /\ In(q.vca) = 0 /\ In(q.rfe) = 0
      BY <2>3 DEF In
    <3>2. LeftBuffer(q, a) = 0
      <4>1. Len(q.buffer) = 0
        BY <2>3
      <4> QED
        BY <2>2, <4>1 DEF LeftBuffer
    <3> QED
      BY <3>1, <3>2 DEF LeftSwa, LeftVca, LeftRfe
  <2>5. ~Open(c, 0)
    BY DEF Open
  <2> QED
    BY <1>1, <2>1, <2>3, <2>4, <2>5, SendingIsPacket DEF Packet, SendingAt
<1>3. \A c \in Clients : iq[c].swa.fsm # "ready"
  BY DEF Init, IQ!EmptyQueue, IQ!EmptySwa
<1>4. ASSUME NEW v \in Vcs PROVE InCrossbar(v) + down[v] = 0
  <2>1. credits[v] = DownDepth /\ incrCredits[v] = 0 /\ DownDepth \in Nat
    BY RouterAssumption DEF Init, XS!SchedInit
  <2> QED
    BY <1>1, <2>1, UsedSum DEF Used
<1> QED
  BY <1>2, <1>3, <1>4 DEF Init, XS!Init

(* All that the proof needs of the router's state.                         *)
RouterInv == VcInv /\ CreditInv

(* It holds at the start.                                                  *)
LEMMA RouterInvInit == Init => RouterInv
<1>1. VS!Init => VS!IInv
  BY VS!InitIInv, VsClients, VsAllocator
<1> QED
  BY <1>1, VsInit, InputInit, InitSettled, CreditInit DEF RouterInv, VcInv

(* Every step keeps it.                                                    *)
LEMMA RouterInvNext == RouterInv /\ RouterStep => RouterInv'
<1> SUFFICES ASSUME RouterInv, RouterStep PROVE RouterInv'
  OBVIOUS
<1>1. VcInv'
  BY VcInvNext DEF RouterInv
<1>2. CreditInv'
  BY CreditNext DEF RouterInv, VcInv
<1> QED
  BY <1>1, <1>2 DEF RouterInv

(* The inductive invariant of the whole router always holds.               *)
LEMMA RouterInvAlways == Spec => []RouterInv
  BY RouterInvInit, RouterInvNext, NextIsRouterStep, PTL DEF Spec

(* The router's steps are steps of the crossbar scheduler.                 *)
LEMMA RouterStepsXs == RouterInv /\ RouterInv' /\ RouterStep => [XS!Next]_(XS!vars)
  BY XsNext DEF RouterInv, VcInv

(* The same of the crossbar scheduler: every credit is accounted for, a    *)
(* grant is backed by a credit, no port is granted twice.                  *)
THEOREM ImplementsCrossbarScheduler == Spec => UsesCrossbarScheduler
<1>1. RouterInv /\ RouterInv' /\ [Next]_vars => [XS!Next]_(XS!vars)
  BY RouterStepsXs, NextIsRouterStep
<1> QED
  BY <1>1, XsInit, RouterInvAlways, PTL DEF Spec, XS!Spec, UsesCrossbarScheduler

(* No buffer overflows, here or downstream, for any sizes of buffers,      *)
(* packets and latencies and whatever routing and arbiters decide.         *)
THEOREM BuffersNeverOverflow == Spec => []NoBufferOverflows
<1>1. RouterInv /\ XS!CreditConservation => NoBufferOverflows
  <2> SUFFICES ASSUME RouterInv, XS!CreditConservation PROVE NoBufferOverflows
    OBVIOUS
  <2>1. \A c \in Clients : Len(iq[c].buffer) + freeSlots[c] = Depth
    BY DEF RouterInv, VcInv, InputInv, ClientInv, QueueOK
  <2>2. ASSUME NEW v \in Vcs PROVE InCrossbar(v) + down[v] <= DownDepth
    <3>1. PICK D, a, b \in Int : D = DownDepth /\ a = credits[v] /\ b = incrCredits[v] /\ b >= 0
      BY RouterAssumption DEF RouterInv, CreditInv, CreditTypes
    <3>2. a >= 0
      BY <3>1 DEF XS!CreditConservation
    <3>3. InCrossbar(v) + down[v] = D - a - b
      BY <3>1, UsedSum DEF Used, RouterInv
    <3> QED
      BY <3>1, <3>2, <3>3
  <2> QED
    BY <2>1, <2>2 DEF NoBufferOverflows
<1>2. XS!Spec => []XS!CreditConservation
  BY XS!CreditsAreConserved, XsSettings, XsAllocator
<1> QED
  BY <1>1, <1>2, RouterInvAlways, ImplementsCrossbarScheduler, PTL DEF UsesCrossbarScheduler

-----------------------------------------------------------------------------
(* Order.  The stream of a VC: what was delivered on it and what is in the *)
(* crossbar for it, oldest first.                                          *)
FlitsFor(m, v) == {x.flit : x \in {y \in m.map[PortOf[v]] : y.vc = v}}
Item(m, v) == IF FlitsFor(m, v) = {} THEN <<>> ELSE <<CHOOSE f \in FlitsFor(m, v) : TRUE>>
Items(s, v) == [i \in 1..Len(s) |-> Item(s[i], v)]
Stream(v) == delivered[v] \o Joined(Items(xbar, v))

(* A map has at most one flit for a VC.                                    *)
LEMMA ItemType ==
  ASSUME NEW m \in CrossbarMap, NEW v \in Vcs
  PROVE  FlitsFor(m, v) \subseteq Flits /\ Item(m, v) \in Seq(Flits)
<1>1. PortOf[v] \in Ports
  BY RouterAssumption
<1>2. FlitsFor(m, v) \subseteq Flits
  BY <1>1 DEF FlitsFor, CrossbarMap, Entry
<1>3. CASE FlitsFor(m, v) = {}
  BY <1>2, <1>3 DEF Item
<1>4. CASE FlitsFor(m, v) # {}
  <2>1. PICK f : f = CHOOSE h \in FlitsFor(m, v) : TRUE
    OBVIOUS
  <2>2. f \in Flits
    BY <1>2, <1>4, <2>1
  <2> QED
    BY <1>2, <1>4, <2>1, <2>2 DEF Item
<1> QED
  BY <1>3, <1>4

(* The items of the maps for a VC are sequences.                           *)
LEMMA ItemsType ==
  ASSUME NEW s \in Seq(CrossbarMap), NEW v \in Vcs
  PROVE  Items(s, v) \in Seq(Seq(Flits)) /\ Len(Items(s, v)) = Len(s)
<1>1. PICK n \in Nat : n = Len(s)
  OBVIOUS
<1>2. \A i \in 1..n : s[i] \in CrossbarMap
  BY <1>1
<1>3. \A i \in 1..n : Item(s[i], v) \in Seq(Flits)
  BY <1>2, ItemType
<1>4. PICK Q : Q = Seq(Flits)
  OBVIOUS
<1>5. Items(s, v) \in [1..n -> Q]
  BY <1>1, <1>3, <1>4 DEF Items
<1>6. Items(s, v) \in Seq(Q) /\ Len(Items(s, v)) = n
  BY <1>5
<1> QED
  BY <1>1, <1>4, <1>6

(* The only entry for a VC is its item; no entry for it, no item.          *)
LEMMA ItemIs ==
  ASSUME NEW m, NEW v, NEW x, m.map[PortOf[v]] = {x}
  PROVE  Item(m, v) = IF x.vc = v THEN <<x.flit>> ELSE <<>>
<1>1. CASE x.vc = v
  <2>1. FlitsFor(m, v) = {x.flit}
    BY <1>1 DEF FlitsFor
  <2>2. (CHOOSE f \in {x.flit} : TRUE) = x.flit
    OBVIOUS
  <2> QED
    BY <1>1, <2>1, <2>2 DEF Item
<1>2. CASE x.vc # v
  <2>1. FlitsFor(m, v) = {}
    BY <1>2 DEF FlitsFor
  <2> QED
    BY <1>2, <2>1 DEF Item
<1> QED
  BY <1>1, <1>2

(* A delivery is one flit or none for each VC, and takes a slot there.     *)
LEMMA CrossbarDelivers ==
  ASSUME RouterInv, CrossbarEvent, NEW v \in Vcs
  PROVE  \/ delivered'[v] = delivered[v] /\ down'[v] = down[v]
         \/ \E f \in Flits : delivered'[v] = Append(delivered[v], f) /\ down'[v] = down[v] + 1
<1>1. PICK m : m = xbar[Len(xbar)]
  OBVIOUS
<1>2. PICK F : F = FlitsFor(m, v)
  OBVIOUS
<1>3. /\ delivered'[v] = IF F = {} THEN delivered[v] ELSE Append(delivered[v], CHOOSE f \in F : TRUE)
      /\ down'[v] = down[v] + Cardinality(F)
  BY <1>1, <1>2 DEF CrossbarEvent, FlitsFor
<1>4. m \in CrossbarMap /\ OneFlit(m) /\ PortOf[v] \in Ports
  <2>1. xbar \in Seq(CrossbarMap) /\ xbar # <<>> /\ \A i \in DOMAIN xbar : OneFlit(xbar[i])
    BY DEF RouterInv, CreditInv, CrossbarInv, CrossbarEvent, CrossbarDue
  <2>2. PICK U : U = CrossbarMap
    OBVIOUS
  <2>3. xbar \in Seq(U)
    BY <2>1, <2>2
  <2>4. Len(xbar) \in DOMAIN xbar /\ xbar[Len(xbar)] \in U
    BY <2>1, <2>3
  <2> QED
    BY <1>1, <2>1, <2>2, <2>4, RouterAssumption
<1>5. F \subseteq Flits
  BY <1>2, <1>4, ItemType
<1>6. CASE F = {}
  <2>1. down[v] \in Nat /\ Cardinality(F) = 0
    BY <1>6, FS_EmptySet DEF RouterInv, CreditInv, CreditTypes
  <2> QED
    BY <1>3, <1>6, <2>1
<1>7. CASE F # {}
  <2>1. PICK f : f = CHOOSE h \in F : TRUE
    OBVIOUS
  <2>2. f \in F
    BY <1>7, <2>1
  <2>3. \A g \in F : g = f
    BY <1>2, <1>4, <2>2 DEF FlitsFor, OneFlit
  <2>4. F = {f}
    BY <2>2, <2>3
  <2>5. Cardinality(F) = 1
    BY <2>4, FS_Singleton
  <2> QED
    BY <1>3, <1>5, <1>7, <2>1, <2>2, <2>5
<1> QED
  BY <1>6, <1>7

(* An empty port of a map has no item.                                     *)
LEMMA NoItem ==
  ASSUME NEW m, NEW v, m.map[PortOf[v]] = {}
  PROVE  Item(m, v) = <<>>
<1>1. FlitsFor(m, v) = {}
  BY DEF FlitsFor
<1> QED
  BY <1>1 DEF Item

(* A flit is put into the crossbar's newest map, at its VC's port.         *)
Injects(s, p, x, t) ==
  /\ s \in Seq(CrossbarMap) /\ x \in Entry /\ p \in Ports /\ PortOf[x.vc] = p
  /\ s # <<>> /\ Head(s).wait = XbarLatency => s[1].map[p] = {}
  /\ Injected(s, p, x, t)
JoinedGrows(s, t, v, a) == Joined(Items(t, v)) = Joined(Items(s, v)) \o a

(* A flit that is injected is the last of its VC's stream, and no other    *)
(* stream changes.                                                         *)
LEMMA InjectAppends ==
  ASSUME NEW s, NEW x, NEW p, NEW t, Injects(s, p, x, t), NEW v \in Vcs,
         NEW a, a = IF v = x.vc THEN <<x.flit>> ELSE <<>>
  PROVE  JoinedGrows(s, t, v, a)
<1> SUFFICES Joined(Items(t, v)) = Joined(Items(s, v)) \o a
  BY DEF JoinedGrows
<1>0. /\ s \in Seq(CrossbarMap) /\ x \in Entry /\ p \in Ports /\ PortOf[x.vc] = p
      /\ s # <<>> /\ Head(s).wait = XbarLatency => s[1].map[p] = {}
      /\ Injected(s, p, x, t)
  BY DEF Injects
<1>1. XbarLatency \in Nat /\ x.vc \in Vcs /\ x.flit \in Flits /\ PortOf[v] \in Ports
  BY <1>0, RouterAssumption DEF Entry
<1>2. PICK U : U = CrossbarMap
  OBVIOUS
<1>3. s \in Seq(U)
  BY <1>0, <1>2
<1>4. PICK n \in Nat : n = Len(s)
  BY <1>3
<1>5. a = IF v = x.vc THEN <<x.flit>> ELSE <<>>
  OBVIOUS
<1>6. a \in Seq(Flits) /\ <<>> \in Seq(Flits)
  BY <1>1, <1>5
<1>7. t \in Seq(CrossbarMap)
  BY <1>0, InjectCounts
<1>8. PICK A, B : A = Items(s, v) /\ B = Items(t, v)
  OBVIOUS
<1>9. A \in Seq(Seq(Flits)) /\ B \in Seq(Seq(Flits)) /\ Len(A) = n /\ Len(B) = Len(t)
  BY <1>0, <1>4, <1>7, <1>8, ItemsType
<1>10. Joined(A) \in Seq(Flits)
  BY <1>9, JoinedType
<1>11. Joined(A) \o <<>> = Joined(A)
  BY <1>10, ConcatEmptySeq
<1>12. CASE s # <<>> /\ Head(s).wait = XbarLatency
  <2>1. s[1] \in CrossbarMap /\ s[1].map[p] = {} /\ s[1].wait = XbarLatency /\ 1 \in 1..n
    BY <1>0, <1>4, <1>12
  <2>2. PICK m : m = [s[1] EXCEPT !.map[p] = @ \cup {x}]
    OBVIOUS
  <2>3. t = [s EXCEPT ![1] = m]
    BY <1>0, <1>12, <2>2 DEF Injected
  <2>4. m = [wait |-> XbarLatency, map |-> [s[1].map EXCEPT ![p] = {x}]]
    BY <1>0, <2>1, <2>2 DEF CrossbarMap
  <2>5. m \in CrossbarMap /\ m.map[p] = {x} /\ \A q \in Ports \ {p} : m.map[q] = s[1].map[q]
    BY <1>0, <1>1, <2>1, <2>4 DEF CrossbarMap
  <2>6. Len(t) = n /\ t[1] = m /\ \A i \in 1..n : i # 1 => t[i] = s[i]
    <3>1. m \in U
      BY <1>2, <2>5
    <3> QED
      BY <1>3, <1>4, <1>12, <2>3, <3>1, FirstReplaced
  <2>7. A[1] = Item(s[1], v) /\ B[1] = Item(m, v) /\ \A i \in 1..n : i # 1 => A[i] = B[i]
    BY <1>4, <1>8, <2>1, <2>6 DEF Items
  <2>8. CASE PortOf[v] = p
    <3>1. A[1] = <<>>
      BY <2>1, <2>7, <2>8, NoItem
    <3>2. B[1] = a
      BY <1>5, <2>5, <2>7, <2>8, ItemIs
    <3>3. A # <<>>
      BY <1>9, <2>1
    <3>4. Joined(B) = Joined(A) \o a
      <4>0. A \in Seq(Seq(Flits)) /\ B \in Seq(Seq(Flits)) /\ a \in Seq(Flits)
        BY <1>6, <1>9
      <4>1. Len(B) = Len(A) /\ \A i \in 1..Len(A) : i # 1 => B[i] = A[i]
        BY <1>9, <2>6, <2>7
      <4> QED
        BY ONLY <3>1, <3>2, <3>3, <4>0, <4>1, JoinedFirst, Zenon
    <3> QED
      BY <1>8, <3>4
  <2>9. CASE PortOf[v] # p
    <3>1. FlitsFor(m, v) = FlitsFor(s[1], v)
      BY <1>1, <2>5, <2>9 DEF FlitsFor
    <3>2. B[1] = A[1]
      BY <2>7, <3>1 DEF Item
    <3>3. A = B
      <4>1. \A i \in 1..n : A[i] = B[i]
        BY <2>7, <3>2
      <4>2. PICK Q : Q = Seq(Flits)
        OBVIOUS
      <4>3. A \in Seq(Q) /\ B \in Seq(Q)
        BY <1>9, <4>2
      <4> QED
        BY <1>9, <2>6, <4>1, <4>3, SeqEqual
    <3>4. a = <<>>
      BY <1>0, <1>1, <1>5, <2>9
    <3> QED
      BY <1>8, <1>11, <3>3, <3>4
  <2> QED
    BY <2>8, <2>9
<1>13. CASE ~(s # <<>> /\ Head(s).wait = XbarLatency)
  <2>1. PICK m : m = [wait |-> XbarLatency, map |-> [o \in Ports |-> IF o = p THEN {x} ELSE {}]]
    OBVIOUS
  <2>2. t = <<m>> \o s
    BY <1>0, <1>13, <2>1 DEF Injected
  <2>3. m \in CrossbarMap /\ m.map[p] = {x} /\ \A q \in Ports \ {p} : m.map[q] = {}
    BY <1>0, <1>1, <2>1 DEF CrossbarMap
  <2>4. /\ Len(t) = n + 1 /\ t[1] = m /\ \A i \in 1..n : t[i + 1] = s[i]
        /\ \A j \in 1..(n + 1) : j # 1 => \E i \in 1..n : j = i + 1
    <3>1. m \in U
      BY <1>2, <2>3
    <3> QED
      BY <1>3, <1>4, <2>2, <3>1, PutInFront
  <2>5. B[1] = a
    <3>1. B[1] = Item(m, v)
      BY <1>4, <1>8, <2>4 DEF Items
    <3>2. CASE PortOf[v] = p
      BY <1>5, <2>3, <3>1, <3>2, ItemIs
    <3>3. CASE PortOf[v] # p
      <4>1. Item(m, v) = <<>>
        BY <1>1, <2>3, <3>3, NoItem
      <4> QED
        BY <1>0, <1>5, <3>1, <3>3, <4>1
    <3> QED
      BY <3>2, <3>3
  <2>6. \A i \in 1..n : B[i + 1] = A[i]
    <3>1. \A i \in 1..n : i + 1 \in 1..(n + 1)
      OBVIOUS
    <3> QED
      BY <1>4, <1>8, <2>4, <3>1 DEF Items
  <2>7. B = <<a>> \o A
    <3>1. PICK D, Q : D = <<a>> \o A /\ Q = Seq(Flits)
      OBVIOUS
    <3>2. A \in Seq(Q) /\ B \in Seq(Q) /\ a \in Q
      BY <1>6, <1>9, <3>1
    <3>3. D \in Seq(Q) /\ Len(D) = n + 1 /\ D[1] = a /\ \A i \in 1..n : D[i + 1] = A[i]
      BY <1>9, <3>1, <3>2, PutInFront
    <3>4. ASSUME NEW j \in 1..(n + 1) PROVE B[j] = D[j]
      <4>1. CASE j = 1
        BY <2>5, <3>3, <4>1
      <4>2. CASE j # 1
        <5>1. PICK i \in 1..n : j = i + 1
          BY <2>4, <4>2
        <5>2. B[i + 1] = A[i] /\ D[i + 1] = A[i]
          BY <2>6, <3>3
        <5> QED
          BY <5>1, <5>2
      <4> QED
        BY <4>1, <4>2
    <3>5. B = D
      BY <1>9, <2>4, <3>2, <3>3, <3>4, SeqEqual
    <3> QED
      BY <3>1, <3>5
  <2>8. Joined(B) = Joined(A) \o a
    BY <1>6, <1>9, <2>7, JoinedFront, Zenon
  <2> QED
    BY <1>8, <2>8
<1> QED
  BY <1>12, <1>13

(* What the oldest map delivers is the front of what is in the crossbar.   *)
LEMMA DeliveryMoves ==
  ASSUME NEW s \in Seq(CrossbarMap), s # <<>>, NEW t, t = SubSeq(s, 1, Len(s) - 1), NEW v \in Vcs
  PROVE  /\ Joined(Items(s, v)) = Item(s[Len(s)], v) \o Joined(Items(t, v))
         /\ Item(s[Len(s)], v) \in Seq(Flits) /\ Joined(Items(t, v)) \in Seq(Flits)
<1>1. PICK U : U = CrossbarMap
  OBVIOUS
<1>2. PICK n \in Nat \ {0} : n = Len(s)
  OBVIOUS
<1>3. t \in Seq(U) /\ Len(t) = n - 1 /\ \A i \in 1..(n - 1) : t[i] = s[i]
  BY <1>1, <1>2, LastDropped
<1>4. PICK A, B : A = Items(s, v) /\ B = Items(t, v)
  OBVIOUS
<1>5. A \in Seq(Seq(Flits)) /\ B \in Seq(Seq(Flits)) /\ Len(A) = n /\ Len(B) = n - 1
  BY <1>1, <1>2, <1>3, <1>4, ItemsType
<1>6. n \in 1..n /\ n - 1 \in Nat /\ \A i \in 1..(n - 1) : i \in 1..n
  OBVIOUS
<1>7. A[n] = Item(s[n], v) /\ \A i \in 1..(n - 1) : A[i] = B[i]
  BY <1>2, <1>3, <1>4, <1>6 DEF Items
<1>8. B = SubSeq(A, 1, n - 1)
  <2>1. PICK D, Q : D = SubSeq(A, 1, n - 1) /\ Q = Seq(Flits)
    OBVIOUS
  <2>2. A \in Seq(Q) /\ B \in Seq(Q) /\ A # <<>>
    BY <1>5, <2>1
  <2>3. D \in Seq(Q) /\ Len(D) = n - 1 /\ \A i \in 1..(n - 1) : D[i] = A[i]
    BY <1>5, <2>1, <2>2, LastDropped
  <2>4. B = D
    BY <1>5, <1>7, <2>2, <2>3, SeqEqual
  <2> QED
    BY <2>1, <2>4
<1>9. A # <<>>
  BY <1>5
<1>10. Joined(A) = A[n] \o Joined(B)
  <2>1. B = SubSeq(A, 1, Len(A) - 1)
    BY <1>5, <1>8
  <2>2. Joined(A) = A[Len(A)] \o Joined(B)
    BY <1>5, <1>9, <2>1, JoinedLast, Zenon
  <2> QED
    BY <1>5, <2>2
<1>11. s[n] \in CrossbarMap
  BY <1>2, <1>6
<1>12. Item(s[n], v) \in Seq(Flits) /\ Joined(B) \in Seq(Flits)
  BY <1>5, <1>11, ItemType, JoinedType
<1> QED
  BY <1>2, <1>4, <1>7, <1>10, <1>12

(* Numbered flits, one after the other.                                    *)
Follow(s, c, k) == \A i \in 1..Len(s) : s[i] = FlitNumber(c, k + i)

(* Two runs of numbered flits that meet are one.                           *)
LEMMA FollowTwo ==
  ASSUME NEW c, NEW k \in Int, NEW s \in Seq(Flits), NEW t \in Seq(Flits),
         Follow(s, c, k), Follow(t, c, k + Len(s))
  PROVE  s \o t \in Seq(Flits) /\ Len(s \o t) = Len(s) + Len(t) /\ Follow(s \o t, c, k)
<1>1. PICK m, n \in Nat : m = Len(s) /\ n = Len(t)
  OBVIOUS
<1>2. PICK u : u = s \o t
  OBVIOUS
<1>3. /\ u \in Seq(Flits) /\ Len(u) = m + n
      /\ \A i \in 1..(m + n) : u[i] = IF i <= m THEN s[i] ELSE t[i - m]
  BY <1>1, <1>2, ConcatProperties
<1>4. ASSUME NEW i \in 1..(m + n) PROVE u[i] = FlitNumber(c, k + i)
  <2>1. CASE i <= m
    <3>1. i \in 1..m
      BY <2>1
    <3> QED
      BY <1>1, <1>3, <2>1, <3>1 DEF Follow
  <2>2. CASE ~(i <= m)
    <3>1. i - m \in 1..n /\ (k + m) + (i - m) = k + i
      BY <2>2
    <3>2. t[i - m] = FlitNumber(c, (k + m) + (i - m))
      BY <1>1, <3>1 DEF Follow
    <3> QED
      BY <1>3, <2>2, <3>1, <3>2
  <2> QED
    BY <2>1, <2>2
<1> QED
  BY <1>1, <1>2, <1>3, <1>4 DEF Follow

(* What is in a queue are the last flits that have arrived, in order.      *)
LEMMA ContentsNumbered ==
  ASSUME NEW c \in Clients, NEW a \in Nat, NEW q, QueueInv(c, a, q)
  PROVE  LET r == IQ!Contents(q)
         IN /\ r \in Seq(Flits) /\ a - Len(r) = LeftSwa(q, a) /\ LeftSwa(q, a) \in Nat
            /\ \A i \in DOMAIN r : r[i] = FlitNumber(c, a - Len(r) + i)
<1>1. q \in QueueType /\ Numbered(c, a, q)
  BY DEF QueueInv
<1>2. PICK S, V, R, B : S = IQ!InStage(q.swa) /\ V = IQ!InStage(q.vca) /\ R = IQ!InStage(q.rfe) /\ B = q.buffer
  OBVIOUS
<1>3. PICK k \in Nat : k = LeftSwa(q, a)
  BY FrontIs
<1>4. PICK kv, kr, kb \in Nat : kv = LeftVca(q, a) /\ kr = LeftRfe(q, a) /\ kb = LeftBuffer(q, a)
  BY FrontIs
<1>5. S \in Seq(Flits) /\ V \in Seq(Flits) /\ R \in Seq(Flits) /\ B \in Seq(Flits)
  BY <1>1, <1>2 DEF IQ!InStage, QueueType
<1>6. kv = k + Len(S) /\ kr = kv + Len(V) /\ kb = kr + Len(R) /\ a = kb + Len(B)
  <2>1. Len(S) = In(q.swa) /\ Len(V) = In(q.vca) /\ Len(R) = In(q.rfe)
    BY <1>2 DEF IQ!InStage, In
  <2>2. Len(S) \in Nat /\ Len(V) \in Nat /\ Len(R) \in Nat /\ Len(B) \in Nat
    BY <1>5
  <2>3. k = kv - In(q.swa) /\ kv = kr - In(q.vca) /\ kr = kb - In(q.rfe) /\ kb = a - Len(B)
    BY <1>2, <1>3, <1>4 DEF LeftSwa, LeftVca, LeftRfe, LeftBuffer
  <2>4. PICK x, y, z \in Nat : x = Len(S) /\ y = Len(V) /\ z = Len(R)
    BY <2>2
  <2>5. k = kv - x /\ kv = kr - y /\ kr = kb - z
    BY <2>1, <2>3, <2>4
  <2>6. kv = k + x /\ kr = kv + y /\ kb = kr + z
    BY <2>5
  <2>7. a = kb + Len(B)
    BY <2>2, <2>3
  <2> QED
    BY <2>4, <2>6, <2>7
<1>7. Follow(S, c, k) /\ Follow(V, c, kv) /\ Follow(R, c, kr) /\ Follow(B, c, kb)
  <2>1. ASSUME q.swa.flit # None PROVE S = <<FlitNumber(c, k + 1)>>
    <3>1. In(q.swa) = 1
      BY <2>1 DEF In
    <3>2. kv = k + 1
      BY <1>3, <1>4, <3>1 DEF LeftSwa
    <3> QED
      BY <1>1, <1>2, <1>4, <2>1, <3>2 DEF Numbered, IQ!InStage
  <2>2. ASSUME q.vca.flit # None PROVE V = <<FlitNumber(c, kv + 1)>>
    <3>1. In(q.vca) = 1
      BY <2>2 DEF In
    <3>2. kr = kv + 1
      BY <1>4, <3>1 DEF LeftVca
    <3> QED
      BY <1>1, <1>2, <1>4, <2>2, <3>2 DEF Numbered, IQ!InStage
  <2>3. ASSUME q.rfe.flit # None PROVE R = <<FlitNumber(c, kr + 1)>>
    <3>1. In(q.rfe) = 1
      BY <2>3 DEF In
    <3>2. kb = kr + 1
      BY <1>4, <3>1 DEF LeftRfe
    <3> QED
      BY <1>1, <1>2, <1>4, <2>3, <3>2 DEF Numbered, IQ!InStage
  <2>4. Follow(B, c, kb)
    BY <1>1, <1>2, <1>4 DEF Numbered, Follow
  <2>5. ASSUME NEW s, NEW n, s = <<>> \/ s = <<FlitNumber(c, n + 1)>> PROVE Follow(s, c, n)
    <3>1. CASE s = <<>>
      <4>1. 1..Len(s) = {}
        BY <3>1
      <4> QED
        BY <4>1 DEF Follow
    <3>2. CASE s = <<FlitNumber(c, n + 1)>>
      <4>1. 1..Len(s) = {1} /\ s[1] = FlitNumber(c, n + 1)
        BY <3>2
      <4> QED
        BY <4>1 DEF Follow
    <3> QED
      BY <2>5, <3>1, <3>2
  <2>6. Follow(S, c, k)
    BY <1>2, <2>1, <2>5 DEF IQ!InStage
  <2>7. Follow(V, c, kv)
    BY <1>2, <2>2, <2>5 DEF IQ!InStage
  <2>8. Follow(R, c, kr)
    BY <1>2, <2>3, <2>5 DEF IQ!InStage
  <2> QED
    BY <2>4, <2>6, <2>7, <2>8
<1>8. S \o V \in Seq(Flits) /\ Len(S \o V) = Len(S) + Len(V) /\ Follow(S \o V, c, k)
  BY <1>5, <1>6, <1>7, FollowTwo
<1>9. PICK T : T = S \o V
  OBVIOUS
<1>10. T \in Seq(Flits) /\ kr = k + Len(T) /\ Follow(T, c, k) /\ Len(T) \in Nat
  <2>1. Len(S) \in Nat /\ Len(V) \in Nat
    BY <1>5
  <2> QED
    BY <1>6, <1>8, <1>9, <2>1
<1>11. T \o R \in Seq(Flits) /\ Len(T \o R) = Len(T) + Len(R) /\ Follow(T \o R, c, k)
  BY <1>5, <1>7, <1>10, FollowTwo
<1>12. PICK W : W = T \o R
  OBVIOUS
<1>13. W \in Seq(Flits) /\ kb = k + Len(W) /\ Follow(W, c, k) /\ Len(W) \in Nat
  <2>1. PICK lt, lr \in Nat : lt = Len(T) /\ lr = Len(R)
    BY <1>5, <1>10
  <2>2. kr = k + lt /\ kb = kr + lr /\ Len(W) = lt + lr
    BY <1>6, <1>10, <1>11, <1>12, <2>1
  <2>3. kb = k + (lt + lr) /\ lt + lr \in Nat
    BY <2>2
  <2> QED
    BY <1>11, <1>12, <2>2, <2>3
<1>14. W \o B \in Seq(Flits) /\ Len(W \o B) = Len(W) + Len(B) /\ Follow(W \o B, c, k)
  BY <1>5, <1>7, <1>13, FollowTwo
<1>15. PICK r : r = IQ!Contents(q)
  OBVIOUS
<1>16. r = W \o B
  BY <1>2, <1>9, <1>12, <1>15 DEF IQ!Contents
<1>17. r \in Seq(Flits) /\ a - Len(r) = k /\ Follow(r, c, k)
  <2>1. PICK lw, lb \in Nat : lw = Len(W) /\ lb = Len(B)
    BY <1>5, <1>13
  <2>2. kb = k + lw /\ a = kb + lb /\ Len(r) = lw + lb
    BY <1>6, <1>13, <1>14, <1>16, <2>1
  <2>3. a - (lw + lb) = k
    BY <2>2
  <2> QED
    BY <1>14, <1>16, <2>2, <2>3
<1>18. DOMAIN r = 1..Len(r)
  BY <1>17
<1> QED
  BY <1>3, <1>15, <1>17, <1>18 DEF Follow

(* The flits that have left the queues, as the property has them.          *)
Gone == {x.flit : x \in UNION {UNION {xbar[i].map[p] : p \in DOMAIN xbar[i].map} : i \in DOMAIN xbar}}
          \cup UNION {{delivered[v][i] : i \in DOMAIN delivered[v]} : v \in Vcs}

(* They are the flits of the streams.                                      *)
LEMMA GoneIs ==
  ASSUME CrossbarInv, delivered \in [Vcs -> Seq(Flits)]
  PROVE  Gone = UNION {Elements(Stream(v)) : v \in Vcs}
<1>1. xbar \in Seq(CrossbarMap) /\ \A i \in DOMAIN xbar : OneFlit(xbar[i])
  BY DEF CrossbarInv
<1>2. PICK s : s = xbar
  OBVIOUS
<1>3. PICK n \in Nat : n = Len(s) /\ DOMAIN s = 1..n
  BY <1>1, <1>2
<1>4. \A i \in 1..n : s[i] \in CrossbarMap /\ OneFlit(s[i])
  BY <1>1, <1>2, <1>3
<1>5. ASSUME NEW v \in Vcs, NEW f
      PROVE  f \in Elements(Stream(v)) <=>
               f \in Elements(delivered[v]) \/ \E i \in 1..n : f \in Elements(Item(s[i], v))
  <2>1. PICK A : A = Items(s, v)
    OBVIOUS
  <2>2. A \in Seq(Seq(Flits)) /\ DOMAIN A = 1..n /\ \A i \in 1..n : A[i] = Item(s[i], v)
    <3>1. A \in Seq(Seq(Flits))
      BY <1>1, <1>2, <2>1, ItemsType
    <3>2. DOMAIN A = 1..n /\ \A i \in 1..n : A[i] = Item(s[i], v)
      BY <1>3, <2>1 DEF Items
    <3> QED
      BY <3>1, <3>2
  <2>3. Joined(A) \in Seq(Flits)
    BY <2>2, JoinedType
  <2>4. Elements(delivered[v] \o Joined(A)) = Elements(delivered[v]) \cup Elements(Joined(A))
    <3>1. PICK d, j \in Seq(Flits) : d = delivered[v] /\ j = Joined(A)
      BY <2>3
    <3>2. Elements(d \o j) = Elements(d) \cup Elements(j)
      BY ElementsOfTwo
    <3> QED
      BY <3>1, <3>2
  <2>5. f \in Elements(Joined(A)) <=> \E i \in DOMAIN A : f \in Elements(A[i])
    BY <2>2, JoinedElements
  <2> QED
    BY <1>2, <2>1, <2>2, <2>4, <2>5 DEF Stream
<1>6. ASSUME NEW m \in CrossbarMap, OneFlit(m), NEW f
      PROVE  (\E p \in DOMAIN m.map : \E x \in m.map[p] : x.flit = f)
               <=> \E v \in Vcs : f \in Elements(Item(m, v))
  <2>1. DOMAIN m.map = Ports /\ \A p \in Ports : m.map[p] \subseteq Entry
    BY DEF CrossbarMap
  <2>2. ASSUME NEW p \in Ports, NEW x \in m.map[p], x.flit = f
        PROVE  \E v \in Vcs : f \in Elements(Item(m, v))
    <3>1. m.map[p] = {x} /\ x.vc \in Vcs /\ PortOf[x.vc] = p
      BY <1>6, <2>1 DEF OneFlit, Entry
    <3>2. PICK v \in Vcs : v = x.vc
      BY <3>1
    <3>3. Item(m, v) = <<x.flit>>
      <4>1. m.map[PortOf[v]] = {x} /\ x.vc = v
        BY <3>1, <3>2
      <4> QED
        BY <4>1, ItemIs
    <3>4. f \in Elements(<<x.flit>>)
      BY <2>2 DEF Elements
    <3> QED
      BY <3>3, <3>4
  <2>3. ASSUME NEW v \in Vcs, f \in Elements(Item(m, v))
        PROVE  \E p \in Ports : \E x \in m.map[p] : x.flit = f
    <3>1. FlitsFor(m, v) # {}
      <4>1. Elements(<<>>) = {}
        BY DEF Elements
      <4> QED
        BY <2>3, <4>1 DEF Item
    <3>2. PICK g : g = CHOOSE h \in FlitsFor(m, v) : TRUE
      OBVIOUS
    <3>3. g \in FlitsFor(m, v) /\ Item(m, v) = <<g>>
      BY <3>1, <3>2 DEF Item
    <3>4. f = g
      BY <2>3, <3>3 DEF Elements
    <3>5. PortOf[v] \in Ports
      BY RouterAssumption
    <3> QED
      BY <3>3, <3>4, <3>5 DEF FlitsFor
  <2> QED
    BY <2>1, <2>2, <2>3
<1>7. ASSUME NEW f
      PROVE  f \in Gone <=> \/ \E i \in 1..n : \E p \in DOMAIN s[i].map : \E x \in s[i].map[p] : x.flit = f
                            \/ \E v \in Vcs : f \in Elements(delivered[v])
  BY <1>2, <1>3 DEF Gone, Elements
<1>8. ASSUME NEW f PROVE f \in Gone <=> \E v \in Vcs : f \in Elements(Stream(v))
  <2>1. \A i \in 1..n : (\E p \in DOMAIN s[i].map : \E x \in s[i].map[p] : x.flit = f)
                           <=> \E v \in Vcs : f \in Elements(Item(s[i], v))
    BY <1>4, <1>6
  <2> QED
    BY <1>5, <1>7, <2>1
<1> QED
  BY <1>8

-----------------------------------------------------------------------------
(* What keeps the order: st[v] is the stream of VC v, left[c] the number   *)
(* of flits that have left queue c, via[c] the VC of the packet it sends.  *)
(* A stream that ends inside a packet is continued by the queue that sends *)
(* the packet, and what has left a queue are its first flits.              *)
Chain(s) ==
  /\ s # <<>> => IQ!IsHead(s[1])
  /\ \A i \in 2..Len(s) :
       IF IQ!IsTail(s[i - 1]) THEN IQ!IsHead(s[i]) ELSE s[i] = [s[i - 1] EXCEPT !.index = @ + 1]

OfClient(c, S) == {f \in S : f.client = c}
FirstFlits(c, k) == {FlitNumber(c, i) : i \in 1..k}
AllOf(st) == UNION {Elements(st[v]) : v \in Vcs}
Unfinished(s) == s # <<>> /\ ~IQ!IsTail(s[Len(s)])

Ordered(st, left, via) ==
  /\ \A v \in Vcs : Chain(st[v])
  /\ \A v \in Vcs : Unfinished(st[v]) => \E c \in Clients : Open(c, left[c]) /\ via[c] = v
  /\ \A c \in Clients : \A v \in Vcs :
       Open(c, left[c]) /\ via[c] = v => st[v] # <<>> /\ st[v][Len(st[v])] = FlitNumber(c, left[c])
  /\ \A c \in Clients : OfClient(c, AllOf(st)) = FirstFlits(c, left[c])

(* A queue that is between packets may turn to another VC.                 *)
LEMMA OrderedQuiet ==
  ASSUME NEW st, NEW left, NEW via, NEW via2, Ordered(st, left, via),
         \A c \in Clients : Open(c, left[c]) => via2[c] = via[c]
  PROVE  Ordered(st, left, via2)
BY DEF Ordered

(* One more element at the end of a sequence.                              *)
LEMMA OneMore ==
  ASSUME NEW U, NEW s \in Seq(U), NEW f \in U, NEW t, t = Append(s, f)
  PROVE  Elements(t) = Elements(s) \cup {f}
<1>1. PICK n \in Nat : n = Len(s) /\ DOMAIN s = 1..n
  OBVIOUS
<1>2. t[n + 1] = f /\ DOMAIN t = 1..(n + 1) /\ \A i \in 1..n : t[i] = s[i]
  BY <1>1
<1>3. 1..(n + 1) = (1..n) \cup {n + 1}
  OBVIOUS
<1> QED
  BY <1>1, <1>2, <1>3 DEF Elements

(* A chain grows by the flit that follows its last one.                    *)
LEMMA ChainGrows ==
  ASSUME NEW s \in Seq(Flits), Chain(s), NEW f \in Flits,
         s = <<>> => IQ!IsHead(f),
         s # <<>> => IF IQ!IsTail(s[Len(s)]) THEN IQ!IsHead(f)
                     ELSE f = [s[Len(s)] EXCEPT !.index = @ + 1]
  PROVE  Chain(s \o <<f>>)
<1>1. PICK t : t = s \o <<f>>
  OBVIOUS
<1>2. PICK n \in Nat : n = Len(s) /\ (s = <<>> <=> n = 0)
  OBVIOUS
<1>3. Len(t) = n + 1 /\ t[n + 1] = f /\ \A i \in 1..n : t[i] = s[i]
  BY <1>1, <1>2
<1>4. IQ!IsHead(t[1])
  <2>1. CASE n = 0
    BY <1>2, <1>3, <2>1
  <2>2. CASE n # 0
    BY <1>2, <1>3, <2>2 DEF Chain
  <2> QED
    BY <2>1, <2>2
<1>5. ASSUME NEW i \in 2..(n + 1)
      PROVE  IF IQ!IsTail(t[i - 1]) THEN IQ!IsHead(t[i]) ELSE t[i] = [t[i - 1] EXCEPT !.index = @ + 1]
  <2>1. PICK j \in 1..n : j = i - 1
    BY <1>5
  <2>2. t[i - 1] = s[j]
    BY <1>3, <2>1
  <2>3. CASE i = n + 1
    <3>1. t[i] = f /\ j = Len(s) /\ s # <<>>
      BY <1>2, <1>3, <2>1, <2>3
    <3> QED
      BY <2>2, <3>1
  <2>4. CASE i # n + 1
    <3>1. i \in 2..n /\ i \in 1..n
      BY <2>4
    <3>2. t[i] = s[i]
      BY <1>3, <3>1
    <3>3. IF IQ!IsTail(s[i - 1]) THEN IQ!IsHead(s[i]) ELSE s[i] = [s[i - 1] EXCEPT !.index = @ + 1]
      BY <1>2, <3>1 DEF Chain
    <3> QED
      BY <2>1, <2>2, <3>2, <3>3
  <2> QED
    BY <2>3, <2>4
<1>6. Chain(t)
  BY <1>3, <1>4, <1>5 DEF Chain
<1> QED
  BY <1>1, <1>6

(* A queue sends its next flit on the VC of its packet, which no other     *)
(* queue with an open packet sends on.                                     *)
Extends(st, left, via, c, v, st2, left2, via2) ==
  /\ st2 = [st EXCEPT ![v] = @ \o <<FlitNumber(c, left[c] + 1)>>]
  /\ left2 = [left EXCEPT ![c] = @ + 1]
  /\ left[c] + 1 <= TotalFlits(c)
  /\ Open(c, left[c]) => via[c] = v
  /\ Open(c, left[c] + 1) => via2[c] = v
  /\ \A d \in Clients \ {c} : /\ Open(d, left[d]) => via[d] # v
                              /\ Open(d, left[d]) => via2[d] = via[d]

(* The streams stay ordered when a queue sends its next flit.              *)
LEMMA OrderedExtends ==
  ASSUME NEW st \in [Vcs -> Seq(Flits)], NEW left \in [Clients -> Nat], NEW via,
         Ordered(st, left, via), NEW c \in Clients, NEW v \in Vcs, NEW st2, NEW left2, NEW via2,
         Extends(st, left, via, c, v, st2, left2, via2)
  PROVE  Ordered(st2, left2, via2)
<1>1. PICK k \in Nat : k = left[c]
  OBVIOUS
<1>2. PICK f : f = FlitNumber(c, k + 1)
  OBVIOUS
<1>3. PICK s \in Seq(Flits) : s = st[v]
  OBVIOUS
<1>4. PICK t : t = s \o <<f>>
  OBVIOUS
<1>5. TotalFlits(c) \in Nat /\ k + 1 <= TotalFlits(c) /\ k + 1 \in 1..TotalFlits(c)
  BY <1>1, FlitsAreCounted DEF Extends
<1>6. f \in Flits /\ f.client = c
  <2>1. f \in Flits
    BY <1>2, <1>5, FlitsArrive
  <2>2. PICK n \in 1..Len(Traffic[c]) : Holds(c, n, k + 1)
    BY <1>5, PacketOfFlit
  <2>3. f.client = c
    BY <1>2, <1>5, <2>2, PlaceOfFlit
  <2> QED
    BY <2>1, <2>3
<1>7. st2[v] = t /\ \A w \in Vcs \ {v} : st2[w] = st[w]
  BY <1>1, <1>2, <1>3, <1>4 DEF Extends
<1>8. left2[c] = k + 1 /\ \A d \in Clients \ {c} : left2[d] = left[d]
  BY <1>1 DEF Extends
<1>9. /\ Open(c, k) => via[c] = v
      /\ Open(c, k + 1) => via2[c] = v
      /\ \A d \in Clients \ {c} : Open(d, left[d]) => via[d] # v /\ via2[d] = via[d]
  BY <1>1 DEF Extends
<1>10. /\ t \in Seq(Flits) /\ t # <<>> /\ t[Len(t)] = f /\ Elements(t) = Elements(s) \cup {f}
  <2>1. f \in Flits
    BY <1>6
  <2>2. t \in Seq(Flits) /\ t # <<>> /\ t[Len(t)] = f
    BY <1>4, <2>1
  <2>3. t = Append(s, f)
    BY <1>4, <2>1
  <2>4. Elements(t) = Elements(s) \cup {f}
    BY <2>1, <2>3, OneMore
  <2> QED
    BY <2>2, <2>4
<1>11. IQ!IsHead(f) <=> ~Open(c, k)
  BY <1>2, <1>5, HeadsFollowTails
<1>12. Open(c, k) => s # <<>> /\ s[Len(s)] = FlitNumber(c, k)
  BY <1>1, <1>3, <1>9 DEF Ordered
<1>13. s # <<>> /\ ~IQ!IsTail(s[Len(s)]) => Open(c, k)
  <2> SUFFICES ASSUME s # <<>> /\ ~IQ!IsTail(s[Len(s)]) PROVE Open(c, k)
    OBVIOUS
  <2>1. PICK d \in Clients : Open(d, left[d]) /\ via[d] = v
    BY <1>3 DEF Ordered, Unfinished
  <2> QED
    BY <1>1, <1>9, <2>1
<1>14. Chain(t)
  <2>1. s = <<>> => IQ!IsHead(f)
    BY <1>11, <1>12
  <2>2. ASSUME s # <<>>, IQ!IsTail(s[Len(s)]) PROVE IQ!IsHead(f)
    <3>1. ~Open(c, k)
      BY <1>12, <2>2 DEF Open
    <3> QED
      BY <1>11, <3>1
  <2>3. ASSUME s # <<>>, ~IQ!IsTail(s[Len(s)]) PROVE f = [s[Len(s)] EXCEPT !.index = @ + 1]
    <3>1. Open(c, k)
      BY <1>13, <2>3
    <3>2. s[Len(s)] = FlitNumber(c, k) /\ ~IQ!IsTail(FlitNumber(c, k))
      BY <1>12, <2>3, <3>1
    <3>3. k \in 1..TotalFlits(c)
      BY <1>5, <3>1 DEF Open
    <3>4. FlitNumber(c, k + 1) = [FlitNumber(c, k) EXCEPT !.index = @ + 1]
      BY <1>5, <3>2, <3>3, NextFlitFollows
    <3> QED
      BY <1>2, <3>2, <3>4
  <2>4. Chain(s)
    BY <1>3 DEF Ordered
  <2> QED
    BY <1>4, <1>6, <2>1, <2>2, <2>3, <2>4, ChainGrows
<1>15. \A w \in Vcs : Chain(st2[w])
  BY <1>7, <1>14 DEF Ordered
<1>16. ASSUME NEW w \in Vcs, Unfinished(st2[w])
       PROVE  \E d \in Clients : Open(d, left2[d]) /\ via2[d] = w
  <2>1. CASE w = v
    <3>1. ~IQ!IsTail(f)
      BY <1>7, <1>10, <1>16, <2>1 DEF Unfinished
    <3>2. Open(c, k + 1)
      BY <1>2, <3>1 DEF Open
    <3> QED
      BY <1>8, <1>9, <2>1, <3>2
  <2>2. CASE w # v
    <3>1. Unfinished(st[w])
      BY <1>7, <1>16, <2>2
    <3>2. PICK d \in Clients : Open(d, left[d]) /\ via[d] = w
      BY <3>1 DEF Ordered
    <3>3. d # c
      BY <1>1, <1>9, <2>2, <3>2
    <3> QED
      BY <1>8, <1>9, <3>2, <3>3
  <2> QED
    BY <2>1, <2>2
<1>17. ASSUME NEW d \in Clients, NEW w \in Vcs, Open(d, left2[d]), via2[d] = w
       PROVE  st2[w] # <<>> /\ st2[w][Len(st2[w])] = FlitNumber(d, left2[d])
  <2>1. CASE d = c
    <3>1. w = v
      BY <1>8, <1>9, <1>17, <2>1
    <3> QED
      BY <1>2, <1>7, <1>8, <1>10, <2>1, <3>1
  <2>2. CASE d # c
    <3>1. Open(d, left[d]) /\ left2[d] = left[d] /\ via[d] = w /\ w # v
      BY <1>8, <1>9, <1>17, <2>2
    <3>2. st[w] # <<>> /\ st[w][Len(st[w])] = FlitNumber(d, left[d])
      BY <3>1 DEF Ordered
    <3> QED
      BY <1>7, <3>1, <3>2
  <2> QED
    BY <2>1, <2>2
<1>18. AllOf(st2) = AllOf(st) \cup {f}
  <2>1. ASSUME NEW x PROVE x \in AllOf(st2) <=> x \in AllOf(st) \/ x = f
    <3>1. x \in AllOf(st2) <=> \E w \in Vcs : x \in Elements(st2[w])
      BY DEF AllOf
    <3>2. x \in AllOf(st) <=> \E w \in Vcs : x \in Elements(st[w])
      BY DEF AllOf
    <3>3. \A w \in Vcs : x \in Elements(st2[w]) <=> x \in Elements(st[w]) \/ (w = v /\ x = f)
      BY <1>3, <1>7, <1>10
    <3> QED
      BY <3>1, <3>2, <3>3
  <2> QED
    BY <2>1
<1>19. ASSUME NEW d \in Clients PROVE OfClient(d, AllOf(st2)) = FirstFlits(d, left2[d])
  <2>1. OfClient(d, AllOf(st)) = FirstFlits(d, left[d])
    BY DEF Ordered
  <2>2. CASE d = c
    <3>1. 1..(k + 1) = (1..k) \cup {k + 1}
      OBVIOUS
    <3>2. FirstFlits(c, k + 1) = FirstFlits(c, k) \cup {f}
      BY <1>2, <3>1 DEF FirstFlits
    <3>3. OfClient(c, AllOf(st2)) = OfClient(c, AllOf(st)) \cup {f}
      BY <1>6, <1>18 DEF OfClient
    <3> QED
      BY <1>1, <1>8, <2>1, <2>2, <3>2, <3>3
  <2>3. CASE d # c
    <3>1. OfClient(d, AllOf(st2)) = OfClient(d, AllOf(st))
      BY <1>6, <1>18, <2>3 DEF OfClient
    <3> QED
      BY <1>8, <2>1, <2>3, <3>1
  <2> QED
    BY <2>2, <2>3
<1> QED
  BY <1>15, <1>16, <1>17, <1>19 DEF Ordered

-----------------------------------------------------------------------------
(* The same of the router.                                                 *)
StreamOf == [v \in Vcs |-> Stream(v)]
LeftOf == [c \in Clients |-> LeftSwa(iq[c], arrived[c])]
ViaOf == [c \in Clients |-> Packet(c).vc]
DeliveredType == delivered \in [Vcs -> Seq(Flits)]

OrderInv == DeliveredType /\ Ordered(StreamOf, LeftOf, ViaOf)

(* The streams are sequences of flits, the numbers are numbers.            *)
LEMMA StreamsType ==
  ASSUME InputInv, CrossbarInv, DeliveredType
  PROVE  StreamOf \in [Vcs -> Seq(Flits)] /\ LeftOf \in [Clients -> Nat]
<1>1. ASSUME NEW v \in Vcs PROVE Stream(v) \in Seq(Flits)
  <2>1. PICK d, j : d = delivered[v] /\ j = Joined(Items(xbar, v))
    OBVIOUS
  <2>2. d \in Seq(Flits)
    BY <2>1 DEF DeliveredType
  <2>3. j \in Seq(Flits)
    BY <2>1, ItemsType, JoinedType DEF CrossbarInv
  <2> QED
    BY <2>1, <2>2, <2>3 DEF Stream
<1>2. ASSUME NEW c \in Clients PROVE LeftSwa(iq[c], arrived[c]) \in Nat
  <2>1. PICK a, q : a = arrived[c] /\ q = iq[c] /\ a \in Nat
    BY DEF InputInv, InputTypes
  <2>2. QueueInv(c, a, q)
    BY <2>1 DEF InputInv, ClientInv, QueueOK
  <2>3. LeftSwa(q, a) \in Nat
    BY <2>1, <2>2, FrontIs
  <2> QED
    BY <2>1, <2>3
<1> QED
  BY <1>1, <1>2 DEF StreamOf, LeftOf

(* An event that leaves the streams, the numbers and the VCs of packets    *)
(* that have begun as they are.                                            *)
LEMMA OrderQuiet ==
  ASSUME OrderInv, DeliveredType', StreamOf' = StreamOf, LeftOf' = LeftOf,
         \A c \in Clients : Open(c, LeftOf[c]) => Packet(c)' = Packet(c)
  PROVE  OrderInv'
<1>1. PICK st, left, via, via2 : st = StreamOf /\ left = LeftOf /\ via = ViaOf /\ via2 = ViaOf'
  OBVIOUS
<1>2. \A c \in Clients : Open(c, left[c]) => via2[c] = via[c]
  BY <1>1 DEF ViaOf
<1>3. Ordered(st, left, via)
  BY <1>1 DEF OrderInv
<1>4. Ordered(st, left, via2)
  BY <1>2, <1>3, OrderedQuiet
<1> QED
  BY <1>1, <1>4 DEF OrderInv

(* Only a pipeline puts flits into streams: what the crossbar delivers     *)
(* goes from its front to the end of what was delivered.                   *)
LEMMA StreamsCrossbarEvent ==
  ASSUME InputInv, CrossbarInv, DeliveredType, CrossbarEvent
  PROVE  DeliveredType' /\ StreamOf' = StreamOf
<1>1. PICK s, t : s = xbar /\ t = xbar'
  OBVIOUS
<1>2. s \in Seq(CrossbarMap) /\ s # <<>> /\ t = SubSeq(s, 1, Len(s) - 1)
  BY <1>1 DEF CrossbarInv, CrossbarEvent, CrossbarDue
<1>3. ASSUME NEW v \in Vcs
      PROVE  delivered'[v] = delivered[v] \o Item(s[Len(s)], v)
  <2>1. PICK F, d : F = FlitsFor(s[Len(s)], v) /\ d = delivered[v]
    OBVIOUS
  <2>2. delivered'[v] = IF F = {} THEN d ELSE Append(d, CHOOSE h \in F : TRUE)
    BY <1>1, <2>1 DEF CrossbarEvent, FlitsFor
  <2>3. d \in Seq(Flits)
    BY <2>1 DEF DeliveredType
  <2>4. CASE F = {}
    <3>1. Item(s[Len(s)], v) = <<>>
      BY <2>1, <2>4 DEF Item
    <3>2. d \o <<>> = d
      BY <2>3
    <3> QED
      BY <2>1, <2>2, <2>4, <3>1, <3>2
  <2>5. CASE F # {}
    <3>1. PICK f : f = CHOOSE h \in F : TRUE
      OBVIOUS
    <3>2. Item(s[Len(s)], v) = <<f>>
      BY <2>1, <2>5, <3>1 DEF Item
    <3>3. d \o <<f>> = Append(d, f)
      BY <2>3
    <3> QED
      BY <2>1, <2>2, <2>5, <3>1, <3>2, <3>3
  <2> QED
    BY <2>4, <2>5
<1>4. ASSUME NEW v \in Vcs
      PROVE  delivered'[v] \in Seq(Flits) /\ Stream(v)' = Stream(v)
  <2>1. PICK d, i, j, k : /\ d = delivered[v] /\ i = Item(s[Len(s)], v)
                          /\ j = Joined(Items(t, v)) /\ k = Joined(Items(s, v))
    OBVIOUS
  <2>2. d \in Seq(Flits)
    BY <2>1 DEF DeliveredType
  <2>3. k = i \o j /\ i \in Seq(Flits) /\ j \in Seq(Flits)
    BY <1>2, <2>1, DeliveryMoves
  <2>4. (d \o i) \o j = d \o (i \o j)
    BY <2>2, <2>3, ConcatAssociative
  <2>5. Stream(v) = d \o k /\ Stream(v)' = (d \o i) \o j
    BY <1>1, <1>3, <2>1 DEF Stream
  <2>6. d \o i \in Seq(Flits)
    BY <2>2, <2>3
  <2> QED
    BY <1>3, <2>1, <2>3, <2>4, <2>5, <2>6
<1>5. DeliveredType'
  <2>1. DOMAIN delivered' = Vcs /\ delivered' = [v \in Vcs |-> delivered'[v]]
    BY DEF CrossbarEvent
  <2> QED
    BY <1>4, <2>1 DEF DeliveredType
<1> QED
  BY <1>4, <1>5 DEF StreamOf

(* Time does not touch the flits in the crossbar.                          *)
LEMMA StreamsTick ==
  ASSUME CrossbarInv, Tick
  PROVE  UNCHANGED delivered /\ StreamOf' = StreamOf
<1>1. PICK s, t : s = xbar /\ t = xbar'
  OBVIOUS
<1>2. s \in Seq(CrossbarMap) /\ t = [i \in DOMAIN s |-> [s[i] EXCEPT !.wait = @ - 1]]
  BY <1>1 DEF CrossbarInv, Tick
<1>3. PICK n \in Nat : n = Len(s) /\ DOMAIN s = 1..n /\ \A i \in 1..n : s[i] \in CrossbarMap
  BY <1>2
<1>4. \A m \in CrossbarMap : [m EXCEPT !.wait = @ - 1].map = m.map
  BY DEF CrossbarMap
<1>5. ASSUME NEW i \in 1..n PROVE t[i].map = s[i].map
  BY <1>2, <1>3, <1>4
<1>6. Len(t) = n
  <2>1. DOMAIN t = 1..n
    BY <1>2, <1>3
  <2> QED
    BY <2>1
<1>7. ASSUME NEW v \in Vcs PROVE Items(t, v) = Items(s, v)
  <2>1. ASSUME NEW i \in 1..n PROVE Item(t[i], v) = Item(s[i], v)
    <3>1. FlitsFor(t[i], v) = FlitsFor(s[i], v)
      BY <1>5 DEF FlitsFor
    <3> QED
      BY <3>1 DEF Item
  <2> QED
    BY <1>3, <1>6, <2>1 DEF Items
<1>8. UNCHANGED delivered
  BY DEF Tick
<1>9. \A v \in Vcs : Stream(v)' = Stream(v)
  BY <1>1, <1>7, <1>8 DEF Stream
<1> QED
  BY <1>8, <1>9 DEF StreamOf

(* The events that are not a pipeline's keep the order.                    *)
LEMMA OrderOtherEvent ==
  ASSUME RouterInv, OrderInv, VcSchedulerEvent \/ OtherEvent
  PROVE  OrderInv'
<1>1. InputInv /\ Settled /\ VS!IInv /\ CrossbarInv /\ DeliveredType
  BY DEF RouterInv, VcInv, CreditInv, OrderInv
<1>2. /\ \A c \in Clients : LeftSwa(iq'[c], arrived'[c]) = LeftSwa(iq[c], arrived[c])
      /\ \A c \in Clients : Packet(c)' = Packet(c)
  <2>1. CASE VcSchedulerEvent
    BY <1>1, <2>1, VcEventSteps
  <2>2. CASE OtherEvent
    BY <1>1, <2>2, VsOtherEvent, OtherEventUnseen DEF Unseen
  <2> QED
    BY <2>1, <2>2
<1>3. DeliveredType' /\ StreamOf' = StreamOf
  <2>1. CASE CrossbarEvent
    BY <1>1, <2>1, StreamsCrossbarEvent
  <2>2. CASE Tick
    BY <1>1, <2>2, StreamsTick DEF DeliveredType
  <2>3. CASE ~CrossbarEvent /\ ~Tick
    <3>1. UNCHANGED <<delivered, xbar>>
      BY <2>3 DEF OtherEvent, VcSchedulerEvent, CrossbarSchedulerEvent, RoutingResponse, FlitArrives,
           CreditStep, Idle, vars, netVars
    <3> QED
      BY <1>1, <3>1 DEF DeliveredType, StreamOf, Stream
  <2> QED
    BY <2>1, <2>2, <2>3
<1>4. LeftOf' = LeftOf
  BY <1>2 DEF LeftOf
<1> QED
  BY <1>2, <1>3, <1>4, OrderQuiet

(* A queue in the middle of a packet has a packet to send.                 *)
LEMMA OpenSends ==
  ASSUME InputInv, NEW c \in Clients, Open(c, LeftOf[c])
  PROVE  Packet(c) \in XS!Packets /\ Packet(c) # None
<1>1. PICK a, q, k : a = arrived[c] /\ q = iq[c] /\ k = LeftSwa(q, a) /\ a \in Nat
  BY DEF InputInv, InputTypes
<1>2. QueueInv(c, a, q)
  BY <1>1 DEF InputInv, ClientInv, QueueOK
<1>3. k \in Nat /\ Open(c, k)
  BY <1>1, <1>2, FrontIs DEF LeftOf
<1>4. PICK v : v = IF q.swa.flit # None THEN q.swa.vc ELSE q.vca.vc
  OBVIOUS
<1>5. v \in Vcs /\ k < TotalFlits(c)
  BY <1>1, <1>2, <1>3, <1>4, VcOfOpen
<1>6. Packet(c) = Rest(FlitNumber(c, k + 1), v)
  BY <1>1, <1>3, <1>4 DEF Packet, SendingAt
<1>7. Packet(c) \in XS!Packets
  BY <1>3, <1>5, <1>6, RestIsPacket
<1> QED
  BY <1>7, RouterAssumption

(* The flit that a granted queue sends is its next one.                    *)
LEMMA NextToGo ==
  ASSUME InputInv, NEW c \in Clients, iq[c].swa.fsm = "ready"
  PROVE  /\ LeftOf[c] \in Nat /\ LeftOf[c] + 1 <= TotalFlits(c)
         /\ iq[c].swa.flit = FlitNumber(c, LeftOf[c] + 1) /\ iq[c].swa.flit \in Flits
         /\ iq[c].swa.vc \in Vcs /\ iq[c].swa.vc \in IQ!HeldVcs(iq[c])
         /\ Packet(c) = Rest(FlitNumber(c, LeftOf[c] + 1), iq[c].swa.vc)
<1>1. PICK a, q : a = arrived[c] /\ q = iq[c] /\ a \in Nat
  BY DEF InputInv, InputTypes
<1>2. QueueInv(c, a, q)
  BY <1>1 DEF InputInv, ClientInv, QueueOK
<1>3. PICK k, m \in Nat : k = LeftSwa(q, a) /\ m = LeftVca(q, a) /\ LeftOf[c] = k
  BY <1>1, <1>2, FrontIs DEF LeftOf
<1>4. q.swa.flit # None /\ q.swa.flit \in Flits /\ q.swa.vc \in Vcs
  BY <1>1, <1>2 DEF QueueInv, Filled, VcKept, QueueType
<1>5. m = k + 1
  BY <1>3, <1>4 DEF LeftSwa, In
<1>6. q.swa.flit = FlitNumber(c, k + 1)
  BY <1>2, <1>3, <1>4, <1>5 DEF QueueInv, Numbered
<1>7. k < TotalFlits(c) /\ TotalFlits(c) \in Nat
  BY <1>1, <1>2, <1>3, <1>4, VcOfOpen, FlitsAreCounted
<1>8. Packet(c) = Rest(FlitNumber(c, k + 1), q.swa.vc)
  BY <1>1, <1>3, <1>4 DEF Packet, SendingAt
<1>9. q.swa.vc \in IQ!HeldVcs(q)
  BY <1>4, RouterAssumption DEF IQ!HeldVcs
<1> QED
  BY <1>1, <1>3, <1>4, <1>6, <1>7, <1>8, <1>9

(* After a flit that is not the tail the packet is still on its VC.        *)
LEMMA StaysOnVc ==
  ASSUME NEW c \in Clients, NEW k \in Nat, k < TotalFlits(c), NEW v \in Vcs, Open(c, k + 1),
         NEW q0, NEW q2, NEW p, NEW r, q0.swa.fsm = "ready", p = Rest(FlitNumber(c, k + 1), v),
         Continues(c, q0, q2, p, r)
  PROVE  r.vc = v
<1>1. /\ k + 1 < TotalFlits(c)
      /\ Rest(FlitNumber(c, (k + 1) + 1), v) = [p EXCEPT !.left = @ - 1]
  BY RestSteps
<1>2. p.left # 1
  <2>1. PICK s : s = [flit |-> FlitNumber(c, k + 1), vc |-> v]
    OBVIOUS
  <2>2. s.flit = FlitNumber(c, k + 1) /\ s.vc = v
    BY <2>1
  <2>3. p.left = 1 <=> IQ!IsTail(FlitNumber(c, k + 1))
    BY <2>2, RestTells
  <2> QED
    BY <2>3 DEF Open
<1>3. After(p, TRUE) = [p EXCEPT !.left = @ - 1]
  BY <1>2 DEF After
<1>4. After(p, TRUE) # None
  <2>1. k + 1 \in Nat
    OBVIOUS
  <2>2. Rest(FlitNumber(c, (k + 1) + 1), v) \in XS!Packets
    BY <1>1, <2>1, RestIsPacket
  <2> QED
    BY <1>1, <1>3, <2>2, RouterAssumption
<1>5. r = After(p, TRUE)
  BY <1>4 DEF Continues
<1> QED
  BY <1>1, <1>3, <1>5 DEF Rest

(* A pipeline that sends a flit puts it at the end of its VC's stream.     *)
LEMMA StreamsGrow ==
  ASSUME CrossbarInv, DeliveredType, DeliveredType', UNCHANGED delivered,
         NEW c \in Clients, iq[c].swa.fsm = "ready", NEW f \in Flits, NEW v \in Vcs, v = iq[c].swa.vc,
         InjectFlit(PortOf[v], [flit |-> f, vc |-> v])
  PROVE  StreamOf' = [StreamOf EXCEPT ![v] = @ \o <<f>>]
<1>1. PICK p, x, s, t : p = PortOf[v] /\ x = [flit |-> f, vc |-> v] /\ s = xbar /\ t = xbar'
  OBVIOUS
<1>2. x \in Entry /\ x.vc = v /\ x.flit = f /\ PortOf[x.vc] = p /\ p \in Ports
  BY <1>1, RouterAssumption DEF Entry
<1>3. s \in Seq(CrossbarMap)
  BY <1>1 DEF CrossbarInv
<1>4. s # <<>> /\ Head(s).wait = XbarLatency => s[1].map[p] = {}
  BY <1>1, <1>3 DEF CrossbarInv, Opened
<1>5. Injected(s, p, x, t)
  BY <1>1 DEF InjectFlit, Injected
<1>6. Injects(s, p, x, t)
  BY <1>2, <1>3, <1>4, <1>5 DEF Injects
<1>7. ASSUME NEW w \in Vcs
      PROVE  Stream(w)' = IF w = v THEN Stream(w) \o <<f>> ELSE Stream(w)
  <2>1. PICK d, j, k : d = delivered[w] /\ j = Joined(Items(s, w)) /\ k = Joined(Items(t, w))
    OBVIOUS
  <2>2. PICK a : a = IF w = x.vc THEN <<x.flit>> ELSE <<>>
    OBVIOUS
  <2>3. k = j \o a
    <3>1. JoinedGrows(s, t, w, a)
      BY <1>6, <2>2, InjectAppends
    <3> QED
      BY <2>1, <3>1 DEF JoinedGrows
  <2>4. d \in Seq(Flits)
    BY <2>1 DEF DeliveredType
  <2>5. j \in Seq(Flits)
    BY <1>3, <2>1, ItemsType, JoinedType
  <2>6. a \in Seq(Flits)
    BY <1>2, <2>2
  <2>7. (d \o j) \o a = d \o (j \o a)
    BY <2>4, <2>5, <2>6, ConcatAssociative
  <2>8. Stream(w) = d \o j /\ Stream(w)' = d \o k
    BY <1>1, <2>1 DEF Stream
  <2>9. Stream(w)' = Stream(w) \o a
    BY <2>3, <2>7, <2>8
  <2>10. Stream(w) \o <<>> = Stream(w)
    BY <2>4, <2>5, <2>8
  <2> QED
    BY <1>2, <2>2, <2>9, <2>10
<1>8. StreamOf' = [w \in Vcs |-> Stream(w)']
  BY DEF StreamOf
<1> QED
  BY <1>7, <1>8 DEF StreamOf

(* A run of a pipeline keeps the order.                                    *)
LEMMA OrderPipelineEvent ==
  ASSUME RouterInv, RouterInv', OrderInv, NEW c \in Clients, PipelineEvent(c)
  PROVE  OrderInv'
<1>1. /\ InputInv /\ InputInv' /\ Settled /\ CrossbarInv /\ DeliveredType
      /\ \A a, b \in Clients : a # b => IQ!HeldVcs(iq[a]) \cap IQ!HeldVcs(iq[b]) = {}
  BY DEF RouterInv, VcInv, CreditInv, OrderInv, VS!IInv, VS!Exclusive
<1>2. PICK q0, q2, q4, q5, q7 : /\ SeenRun(c, q0, q2, q4, q5, q7)
                                /\ Continues(c, q0, q2, Packet(c), Packet(c)')
  BY <1>1, PipelineSeen
<1>3. DeliveredType' /\ UNCHANGED <<delivered, arrived>>
  BY <1>1 DEF PipelineEvent, DeliveredType
<1>4. /\ q0 = iq[c] /\ q7 = iq'[c]
      /\ LeftSwa(q7, arrived[c]) = IF q0.swa.fsm = "ready" THEN LeftSwa(q0, arrived[c]) + 1
                                   ELSE LeftSwa(q0, arrived[c])
  BY <1>2 DEF SeenRun
<1>5. \A d \in Clients \ {c} : iq'[d] = iq[d] /\ Packet(d)' = Packet(d)
  BY <1>1, <1>2, OthersSeen DEF SameView
<1>6. StreamOf \in [Vcs -> Seq(Flits)] /\ LeftOf \in [Clients -> Nat]
  BY <1>1, StreamsType
<1>7. LeftOf' = IF q0.swa.fsm = "ready" THEN [LeftOf EXCEPT ![c] = @ + 1] ELSE LeftOf
  <2>1. \A d \in Clients \ {c} : LeftSwa(iq'[d], arrived'[d]) = LeftSwa(iq[d], arrived[d])
    BY <1>3, <1>5
  <2>2. LeftSwa(iq'[c], arrived'[c]) = IF q0.swa.fsm = "ready" THEN LeftSwa(iq[c], arrived[c]) + 1
                                       ELSE LeftSwa(iq[c], arrived[c])
    BY <1>3, <1>4
  <2>3. LeftOf' = [d \in Clients |-> LeftSwa(iq'[d], arrived'[d])]
    BY DEF LeftOf
  <2> QED
    BY <2>1, <2>2, <2>3 DEF LeftOf
<1>8. CASE q0.swa.fsm # "ready"
  <2>1. UNCHANGED xbar
    BY <1>2, <1>8 DEF SeenRun, Wants, IQ!InjectReady
  <2>2. StreamOf' = StreamOf
    BY <1>3, <2>1 DEF StreamOf, Stream
  <2>3. Open(c, LeftOf[c]) => Packet(c)' = Packet(c)
    <3>1. PICK p, r : p = Packet(c) /\ r = Packet(c)'
      OBVIOUS
    <3>2. Open(c, LeftOf[c]) => p # None
      BY <1>1, <3>1, OpenSends
    <3>3. After(p, FALSE) = p
      BY DEF After
    <3>4. r = p \/ p = None
      BY <1>2, <1>8, <3>1, <3>3 DEF Continues
    <3> QED
      BY <3>1, <3>2, <3>4
  <2>4. \A d \in Clients : Open(d, LeftOf[d]) => Packet(d)' = Packet(d)
    BY <1>5, <2>3
  <2>5. LeftOf' = LeftOf
    BY <1>7, <1>8
  <2> QED
    BY <1>3, <2>2, <2>4, <2>5, OrderQuiet
<1>9. CASE q0.swa.fsm = "ready"
  <2>1. PICK k, v, f : k = LeftOf[c] /\ v = iq[c].swa.vc /\ f = iq[c].swa.flit
    OBVIOUS
  <2>2. /\ k \in Nat /\ k + 1 <= TotalFlits(c) /\ f = FlitNumber(c, k + 1) /\ f \in Flits
        /\ v \in Vcs /\ v \in IQ!HeldVcs(iq[c])
        /\ Packet(c) = Rest(FlitNumber(c, k + 1), v)
    BY <1>1, <1>4, <1>9, <2>1, NextToGo
  <2>3. InjectFlit(PortOf[v], [flit |-> f, vc |-> v])
    BY <1>2, <1>4, <1>9, <2>1 DEF SeenRun, Wants, IQ!InjectReady
  <2>4. StreamOf' = [StreamOf EXCEPT ![v] = @ \o <<f>>]
    BY <1>1, <1>3, <1>4, <1>9, <2>1, <2>2, <2>3, StreamsGrow
  <2>5. LeftOf' = [LeftOf EXCEPT ![c] = @ + 1]
    BY <1>7, <1>9
  <2>6. TotalFlits(c) \in Nat /\ k < TotalFlits(c)
    BY <2>2, FlitsAreCounted
  <2>7. Open(c, k + 1) => ViaOf'[c] = v
    <3>1. PICK p, r : p = Packet(c) /\ r = Packet(c)'
      OBVIOUS
    <3>2. Open(c, k + 1) => r.vc = v
      BY <1>2, <1>9, <2>2, <2>6, <3>1, StaysOnVc
    <3> QED
      BY <3>1, <3>2 DEF ViaOf
  <2>8. ViaOf[c] = v
    BY <2>2 DEF ViaOf, Rest
  <2>9. ASSUME NEW d \in Clients \ {c}, Open(d, LeftOf[d])
        PROVE  ViaOf[d] # v /\ ViaOf'[d] = ViaOf[d]
    <3>1. Packet(d) # None
      BY <1>1, <2>9, OpenSends
    <3>2. Packet(d).vc \in IQ!HeldVcs(iq[d])
      BY <1>1, <3>1, PacketHeld
    <3>3. Packet(d).vc # v
      BY <1>1, <2>2, <3>2
    <3> QED
      BY <1>5, <3>3 DEF ViaOf
  <2>10. PICK st, left, via, st2, left2, via2 :
           /\ st = StreamOf /\ left = LeftOf /\ via = ViaOf
           /\ st2 = StreamOf' /\ left2 = LeftOf' /\ via2 = ViaOf'
    OBVIOUS
  <2>11. Extends(st, left, via, c, v, st2, left2, via2)
    BY <2>1, <2>2, <2>4, <2>5, <2>7, <2>8, <2>9, <2>10 DEF Extends
  <2>12. Ordered(st, left, via) /\ st \in [Vcs -> Seq(Flits)] /\ left \in [Clients -> Nat]
    BY <1>6, <2>10 DEF OrderInv
  <2>13. Ordered(st2, left2, via2)
    BY <2>2, <2>11, <2>12, OrderedExtends
  <2> QED
    BY <1>3, <2>10, <2>13 DEF OrderInv
<1> QED
  BY <1>8, <1>9

(* Every step keeps the order.                                             *)
LEMMA OrderNext == RouterInv /\ RouterInv' /\ OrderInv /\ RouterStep => OrderInv'
<1> SUFFICES ASSUME RouterInv, RouterInv', OrderInv, RouterStep PROVE OrderInv'
  OBVIOUS
<1>1. CASE VcSchedulerEvent \/ OtherEvent
  BY <1>1, OrderOtherEvent
<1>2. ASSUME NEW c \in Clients, PipelineEvent(c) PROVE OrderInv'
  BY <1>2, OrderPipelineEvent
<1> QED
  BY <1>1, <1>2 DEF RouterStep, OtherEvent

(* Nothing has left at the start.                                          *)
LEMMA OrderInit == Init => OrderInv
<1> SUFFICES ASSUME Init PROVE OrderInv
  OBVIOUS
<1>1. xbar = <<>> /\ delivered = [v \in Vcs |-> <<>>] /\ arrived = [c \in Clients |-> 0]
      /\ iq = [c \in Clients |-> IQ!EmptyQueue]
  BY DEF Init
<1>2. <<>> \in Seq(Flits) /\ <<>> \in Seq(CrossbarMap)
  OBVIOUS
<1>3. DeliveredType
  BY <1>1, <1>2 DEF DeliveredType
<1>4. ASSUME NEW v \in Vcs PROVE Stream(v) = <<>>
  <2>1. PICK A : A = Items(xbar, v)
    OBVIOUS
  <2>2. A \in Seq(Seq(Flits)) /\ A = <<>>
    <3>1. A \in Seq(Seq(Flits)) /\ Len(A) = 0
      BY <1>1, <1>2, <2>1, ItemsType
    <3>2. PICK Q : Q = Seq(Flits)
      OBVIOUS
    <3>3. A \in Seq(Q)
      BY <3>1, <3>2
    <3> QED
      BY <3>1, <3>3
  <2>3. Joined(A) = <<>>
    BY <2>2, JoinedType
  <2> QED
    BY <1>1, <2>1, <2>3 DEF Stream
<1>5. ASSUME NEW c \in Clients PROVE LeftOf[c] = 0
  <2>1. PICK q : q = IQ!EmptyQueue
    OBVIOUS
  <2>2. In(q.swa) = 0 /\ In(q.vca) = 0 /\ In(q.rfe) = 0 /\ Len(q.buffer) = 0
    BY <2>1 DEF In, IQ!EmptyQueue, IQ!EmptyRfe, IQ!EmptySwa
  <2>3. LeftSwa(q, 0) = 0
    BY <2>2 DEF LeftSwa, LeftVca, LeftRfe, LeftBuffer
  <2> QED
    BY <1>1, <2>1, <2>3 DEF LeftOf
<1>6. PICK st, left, via : st = StreamOf /\ left = LeftOf /\ via = ViaOf
  OBVIOUS
<1>7. (\A v \in Vcs : st[v] = <<>>) /\ \A c \in Clients : left[c] = 0 /\ ~Open(c, left[c])
  BY <1>4, <1>5, <1>6 DEF StreamOf, Open
<1>8. ASSUME NEW c \in Clients PROVE OfClient(c, AllOf(st)) = FirstFlits(c, left[c])
  <2>1. Elements(<<>>) = {}
    BY DEF Elements
  <2>2. AllOf(st) = {}
    BY <1>7, <2>1 DEF AllOf
  <2>3. FirstFlits(c, left[c]) = {}
    BY <1>7 DEF FirstFlits
  <2> QED
    BY <2>2, <2>3 DEF OfClient
<1>9. Chain(<<>>)
  BY DEF Chain
<1>10. Ordered(st, left, via)
  BY <1>7, <1>8, <1>9 DEF Ordered, Unfinished
<1> QED
  BY <1>3, <1>6, <1>10 DEF OrderInv

(* What was delivered on a VC is the front of a chain.                     *)
LEMMA FrontOfChain ==
  ASSUME NEW s \in Seq(Flits), NEW t \in Seq(Flits), Chain(s \o t)
  PROVE  Chain(s)
<1>1. PICK m, n \in Nat : m = Len(s) /\ n = Len(t) /\ (s = <<>> <=> m = 0)
  OBVIOUS
<1>2. PICK u : u = s \o t
  OBVIOUS
<1>3. u \in Seq(Flits) /\ Len(u) = m + n /\ \A i \in 1..m : u[i] = s[i]
  BY <1>1, <1>2
<1>4. Chain(u)
  BY <1>2
<1>5. s # <<>> => IQ!IsHead(s[1])
  <2>1. m # 0 => u # <<>> /\ u[1] = s[1]
    BY <1>3
  <2> QED
    BY <1>1, <1>4, <2>1 DEF Chain
<1>6. ASSUME NEW i \in 2..m
      PROVE  IF IQ!IsTail(s[i - 1]) THEN IQ!IsHead(s[i]) ELSE s[i] = [s[i - 1] EXCEPT !.index = @ + 1]
  <2>1. i \in 2..(m + n) /\ i \in 1..m /\ i - 1 \in 1..m
    BY <1>6
  <2>2. u[i] = s[i] /\ u[i - 1] = s[i - 1]
    BY <1>3, <2>1
  <2> QED
    BY <1>3, <1>4, <2>1, <2>2 DEF Chain
<1> QED
  BY <1>1, <1>5, <1>6 DEF Chain

(* The order that the invariant keeps is the order that is promised.       *)
LEMMA OrderFollows == RouterInv /\ OrderInv => OrderIsKept
<1> SUFFICES ASSUME RouterInv, OrderInv PROVE OrderIsKept
  OBVIOUS
<1>1. InputInv /\ CrossbarInv /\ DeliveredType
  BY DEF RouterInv, VcInv, CreditInv, OrderInv
<1>2. ASSUME NEW v \in Vcs PROVE Chain(delivered[v])
  <2>1. PICK d, j : d = delivered[v] /\ j = Joined(Items(xbar, v))
    OBVIOUS
  <2>2. d \in Seq(Flits) /\ j \in Seq(Flits)
    BY <1>1, <2>1, ItemsType, JoinedType DEF DeliveredType, CrossbarInv
  <2>3. Chain(d \o j)
    BY <2>1 DEF OrderInv, Ordered, StreamOf, Stream
  <2> QED
    BY <2>1, <2>2, <2>3, FrontOfChain
<1>3. PacketsStayTogether
  BY <1>2 DEF PacketsStayTogether, Chain
<1>4. Gone = AllOf(StreamOf)
  BY <1>1, GoneIs DEF AllOf, StreamOf, DeliveredType
<1>5. ASSUME NEW c \in Clients
      PROVE  LET q == IQ!Contents(iq[c])
             IN /\ \A i \in DOMAIN q : q[i] = FlitNumber(c, arrived[c] - Len(q) + i)
                /\ {f \in Gone : f.client = c} = {FlitNumber(c, i) : i \in 1..(arrived[c] - Len(q))}
  <2>1. PICK a, q, r : a = arrived[c] /\ q = iq[c] /\ r = IQ!Contents(iq[c]) /\ a \in Nat
    BY <1>1 DEF InputInv, InputTypes
  <2>2. QueueInv(c, a, q)
    BY <1>1, <2>1 DEF InputInv, ClientInv, QueueOK
  <2>3. r = IQ!Contents(q)
    BY <2>1
  <2>4. /\ a - Len(r) = LeftSwa(q, a)
        /\ \A i \in DOMAIN r : r[i] = FlitNumber(c, a - Len(r) + i)
    BY <2>1, <2>2, <2>3, ContentsNumbered
  <2>5. LeftOf[c] = a - Len(r)
    BY <2>1, <2>4 DEF LeftOf
  <2>6. OfClient(c, Gone) = FirstFlits(c, LeftOf[c])
    BY <1>4 DEF OrderInv, Ordered
  <2>7. {f \in Gone : f.client = c} = {FlitNumber(c, i) : i \in 1..(a - Len(r))}
    BY <2>5, <2>6 DEF OfClient, FirstFlits
  <2> QED
    BY <2>1, <2>4, <2>7
<1>6. QueuesAreFifo
  BY <1>5 DEF QueuesAreFifo, Gone
<1> QED
  BY <1>3, <1>6 DEF OrderIsKept

(* Packets stay together on every output VC, and no flit of an input VC    *)
(* overtakes another, is lost or is duplicated, for any traffic, buffers,  *)
(* latencies, schedulers and routes.                                       *)
THEOREM OrderKept == Spec => []OrderIsKept
<1>1. RouterInv /\ RouterInv' /\ OrderInv /\ [Next]_vars => OrderInv'
  BY OrderNext, NextIsRouterStep
<1> QED
  BY <1>1, OrderInit, OrderFollows, RouterInvAlways, PTL DEF Spec
=============================================================================
