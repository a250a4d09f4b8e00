-------------------------- MODULE BoundedInduction --------------------------
(***************************************************************************)
(* Induction up to a number, and functions that are given by a first value *)
(* and a step.  The models use such functions for what a loop computes     *)
(* (the iterations of an allocator, the flits of the packets so far).  The *)
(* library's induction theorems take a predicate as a parameter; these are *)
(* about sets of numbers instead, and rest on the order of the finite sets *)
(* by inclusion, which has no infinite descent.                            *)
(***************************************************************************)
EXTENDS Integers, Sequences, FiniteSets, FiniteSetTheorems, SequenceTheorems, TLAPS

(* A non-empty set of natural numbers has a least one.                     *)
LEMMA LeastNumber ==
  ASSUME NEW T \in SUBSET Nat, T # {}
  PROVE  \E m \in T : \A k \in T : m <= k
<1> DEFINE R == StrictSubsetOrdering(Nat)
           S == FiniteSubsetsOf(Nat)
           I == {0..n : n \in T}
<1>1. IsWellFoundedOn(R, S)
  BY FS_StrictSubsetOrderingWellFounded
<1>2. I \subseteq S
  <2>1. \A n \in T : 0..n \subseteq Nat /\ IsFiniteSet(0..n)
    BY FS_Interval
  <2> QED
    BY <2>1 DEF FiniteSubsetsOf
<1>3. I # {}
  OBVIOUS
<1> HIDE DEF I, R, S
<1>4. PICK x \in I : \A y \in I : <<y, x>> \notin R
  BY <1>1, <1>2, <1>3, WFMin
<1>5. PICK m \in T : x = 0..m
  BY <1>4 DEF I
<1>6. ASSUME NEW k \in T, k < m PROVE FALSE
  <2>1. 0..k \in I
    BY DEF I
  <2>2. 0..k \subseteq 0..m /\ m \in 0..m /\ m \notin 0..k
    BY <1>6
  <2>3. 0..k \subseteq Nat /\ 0..m \subseteq Nat /\ 0..k # 0..m
    BY <2>2
  <2>4. <<0..k, 0..m>> \in R
    BY <2>2, <2>3 DEF R, StrictSubsetOrdering
  <2> QED
    BY <1>4, <1>5, <2>1, <2>4
<1> QED
  BY <1>6

(* Induction up to n: a set of numbers that holds 0, and with a number     *)
(* below n the next one, holds everything up to n.                         *)
LEMMA InductionUpTo ==
  ASSUME NEW n \in Nat, NEW X, 0 \in X,
         \A k \in X : k \in 0..n /\ k < n => k + 1 \in X
  PROVE  0..n \subseteq X
<1> SUFFICES ASSUME (0..n) \ X # {} PROVE FALSE
  OBVIOUS
<1>1. PICK m \in (0..n) \ X : \A k \in (0..n) \ X : m <= k
  <2>1. (0..n) \ X \in SUBSET Nat
    OBVIOUS
  <2> QED
    BY <2>1, LeastNumber
<1>2. m # 0 /\ m \in Nat /\ m <= n
  BY <1>1
<1>3. m - 1 \in 0..n /\ m - 1 < n /\ m - 1 \notin (0..n) \ X
  BY <1>1, <1>2
<1>4. (m - 1) + 1 \in X
  BY <1>3
<1> QED
  BY <1>1, <1>2, <1>4

(* f goes from first to f[n] in n steps.                                   *)
Steps(f, n, S, first, step) ==
  f \in [0..n -> S] /\ f[0] = first /\ \A k \in 1..n : f[k] = step[f[k - 1]]

(* A function of 0..n can be given by its first value and a step.          *)
LEMMA RecursionExists ==
  ASSUME NEW n \in Nat, NEW S, NEW first \in S, NEW step \in [S -> S]
  PROVE  \E f : Steps(f, n, S, first, step)
<1> DEFINE Good(f, m) == f[0] = first /\ \A k \in 1..m : f[k] = step[f[k - 1]]
           X == {m \in 0..n : \E f \in [0..n -> S] : Good(f, m)}
<1>1. 0 \in X
  <2> DEFINE f == [k \in 0..n |-> first]
  <2>1. f \in [0..n -> S] /\ 0 \in 0..n /\ f[0] = first /\ 1..0 = {}
    OBVIOUS
  <2> HIDE DEF f
  <2>2. Good(f, 0)
    BY <2>1
  <2> QED
    BY <2>1, <2>2
<1>2. ASSUME NEW m \in X, m \in 0..n /\ m < n PROVE m + 1 \in X
  <2>1. PICK f \in [0..n -> S] : Good(f, m)
    OBVIOUS
  <2> DEFINE g == [f EXCEPT ![m + 1] = step[f[m]]]
  <2>2. m + 1 \in 0..n /\ m \in 0..n
    BY <1>2
  <2>3. g \in [0..n -> S]
    BY <2>2
  <2>4. \A k \in 0..n : g[k] = IF k = m + 1 THEN step[f[m]] ELSE f[k]
    BY <2>2
  <2> HIDE DEF g
  <2>5. ASSUME NEW k \in 1..(m + 1) PROVE g[k] = step[g[k - 1]]
    <3>1. k \in 0..n /\ k - 1 \in 0..n /\ k - 1 # m + 1
      BY <2>2
    <3>2. CASE k = m + 1
      BY <2>4, <3>1, <3>2
    <3>3. CASE k # m + 1
      <4>1. k \in 1..m
        BY <3>3
      <4> QED
        BY <2>1, <2>4, <3>1, <3>3, <4>1
    <3> QED
      BY <3>2, <3>3
  <2>6. g[0] = first
    BY <2>1, <2>4, <2>2
  <2>7. Good(g, m + 1)
    BY <2>5, <2>6
  <2> QED
    BY <2>2, <2>3, <2>7
<1> HIDE DEF X
<1>3. 0..n \subseteq X
  BY <1>1, <1>2, InductionUpTo
<1>4. n \in X
  BY <1>3
<1> QED
  BY <1>4 DEF X, Steps

(* Counting places: a set of numbers has as many elements as the set of    *)
(* their successors.                                                       *)
LEMMA ShiftedSet ==
  ASSUME NEW n \in Nat, NEW S \in SUBSET (1..n), NEW T, T = {i + 1 : i \in S}
  PROVE  /\ IsFiniteSet(S) /\ Cardinality(S) \in Nat
         /\ IsFiniteSet(T) /\ Cardinality(T) = Cardinality(S)
         /\ Cardinality(T \cup {1}) = Cardinality(S) + 1
<1>1. IsFiniteSet(S) /\ Cardinality(S) \in Nat
  <2>1. IsFiniteSet(1..n)
    BY FS_Interval
  <2>2. IsFiniteSet(S)
    BY <2>1, FS_Subset
  <2> QED
    BY <2>2, FS_CardinalityType
<1>2. ExistsBijection(S, T)
  <2> DEFINE f == [i \in S |-> i + 1]
  <2>1. f \in [S -> T]
    OBVIOUS
  <2>2. \A i, j \in S : f[i] = f[j] => i = j
    OBVIOUS
  <2>3. \A k \in T : \E i \in S : f[i] = k
    OBVIOUS
  <2> HIDE DEF f
  <2>4. f \in Bijection(S, T)
    BY <2>1, <2>2, <2>3 DEF Bijection, Injection, Surjection, IsInjective
  <2> QED
    BY <2>4 DEF ExistsBijection
<1>3. IsFiniteSet(T) /\ Cardinality(T) = Cardinality(S)
  BY <1>1, <1>2, FS_Bijection
<1>4. 1 \notin T
  OBVIOUS
<1> QED
  BY <1>1, <1>3, <1>4, FS_AddElement

(* Sequences: another first element, an element in front, the last dropped.*)
LEMMA FirstReplaced ==
  ASSUME NEW U, NEW s \in Seq(U), s # <<>>, NEW m \in U, NEW t, t = [s EXCEPT ![1] = m]
  PROVE  /\ t \in Seq(U) /\ Len(t) = Len(s) /\ DOMAIN t = 1..Len(s) /\ t # <<>> /\ t[1] = m
         /\ \A i \in 1..Len(s) : i # 1 => t[i] = s[i]
OBVIOUS

(* A sequence with one more element in front.                              *)
LEMMA PutInFront ==
  ASSUME NEW U, NEW s \in Seq(U), NEW m \in U, NEW t, t = <<m>> \o s
  PROVE  /\ t \in Seq(U) /\ Len(t) = Len(s) + 1 /\ DOMAIN t = 1..(Len(s) + 1) /\ t # <<>> /\ t[1] = m
         /\ \A i \in 1..Len(s) : t[i + 1] = s[i]
         /\ \A j \in 1..(Len(s) + 1) : j # 1 => \E i \in 1..Len(s) : j = i + 1
<1>1. /\ t \in Seq(U) /\ Len(t) = Len(s) + 1 /\ t # <<>> /\ t[1] = m
      /\ \A i \in 1..Len(s) : t[i + 1] = s[i]
  OBVIOUS
<1>2. ASSUME NEW j \in 1..(Len(s) + 1), j # 1 PROVE \E i \in 1..Len(s) : j = i + 1
  <2>1. j - 1 \in 1..Len(s) /\ j = (j - 1) + 1
    BY <1>2
  <2> QED
    BY <2>1
<1> QED
  BY <1>1, <1>2

(* A sequence without its last element.                                    *)
LEMMA LastDropped ==
  ASSUME NEW U, NEW s \in Seq(U), s # <<>>, NEW t, t = SubSeq(s, 1, Len(s) - 1)
  PROVE  /\ t \in Seq(U) /\ Len(t) = Len(s) - 1 /\ Len(s) \in Nat \ {0} /\ s[Len(s)] \in U
         /\ DOMAIN t = 1..(Len(s) - 1)
         /\ \A i \in 1..(Len(s) - 1) : t[i] = s[i]
         /\ t # <<>> => t[1] = s[1]
<1>1. PICK n \in Nat : n = Len(s)
  OBVIOUS
<1>2. n # 0 /\ n - 1 \in Nat /\ \A i \in 1..(n - 1) : i \in 1..n
  BY <1>1
<1>3. t = [i \in 1..(n - 1) |-> s[i]]
  BY <1>1, <1>2
<1>4. \A i \in 1..n : s[i] \in U
  BY <1>1
<1>5. t \in Seq(U) /\ Len(t) = n - 1 /\ DOMAIN t = 1..(n - 1) /\ \A i \in 1..(n - 1) : t[i] = s[i]
  BY <1>2, <1>3, <1>4
<1>6. t # <<>> => 1 \in 1..(n - 1)
  BY <1>2, <1>5
<1> QED
  BY <1>1, <1>2, <1>4, <1>5, <1>6

-----------------------------------------------------------------------------
(* The sequences t[n], ..., t[1] one after the other: what is in line when *)
(* the newest is first, as in a crossbar.                                  *)
JoinedUpTo(t, n) ==
  LET part[i \in 0..Len(t)] == IF i = 0 THEN <<>> ELSE t[i] \o part[i - 1]
  IN part[n]
Joined(t) == JoinedUpTo(t, Len(t))

(* The line is built one sequence at a time.                               *)
LEMMA JoinUnfolds ==
  ASSUME NEW U, NEW t \in Seq(Seq(U))
  PROVE  /\ JoinedUpTo(t, 0) = <<>>
         /\ \A n \in 1..Len(t) : JoinedUpTo(t, n) = t[n] \o JoinedUpTo(t, n - 1)
         /\ \A n \in 0..Len(t) : JoinedUpTo(t, n) \in Seq(U)
<1> DEFINE L == Len(t)
           Q == Seq(U)
           Body(f) == [i \in 0..L |-> IF i = 0 THEN <<>> ELSE t[i] \o f[i - 1]]
           part == CHOOSE f : f = Body(f)
           S == (0..L) \X Q
           first == <<0, <<>>>>
           step == [x \in S |-> IF x[1] < L THEN <<x[1] + 1, t[x[1] + 1] \o x[2]>> ELSE x]
<1>0. L \in Nat /\ <<>> \in Q /\ (\A i \in 1..L : t[i] \in Q) /\ \A a, b \in Q : a \o b \in Q
  OBVIOUS
<1> HIDE DEF Q
<1>1. first \in S /\ step \in [S -> S]
  <2>1. ASSUME NEW x \in S, x[1] < L PROVE <<x[1] + 1, t[x[1] + 1] \o x[2]>> \in S
    <3>1. x[1] \in 0..L /\ x[2] \in Q
      OBVIOUS
    <3>2. x[1] + 1 \in 1..L
      BY <1>0, <2>1, <3>1
    <3>3. x[1] + 1 \in 0..L /\ t[x[1] + 1] \o x[2] \in Q
      BY <1>0, <3>1, <3>2
    <3> QED
      BY <3>3
  <2>2. first \in S
    BY <1>0
  <2> QED
    BY <2>1, <2>2
<1>2. PICK g : Steps(g, L, S, first, step)
  <2> HIDE DEF L, S, first, step
  <2> QED
    BY <1>0, <1>1, RecursionExists
<1>3. g \in [0..L -> S] /\ g[0] = <<0, <<>>>> /\ \A k \in 1..L : g[k] = step[g[k - 1]]
  BY <1>2 DEF Steps
<1>4. \A k \in 0..L : g[k][1] = k
  <2> DEFINE X == {k \in 0..L : g[k][1] = k}
  <2>1. 0 \in X
    BY <1>0, <1>3
  <2>2. ASSUME NEW k \in X, k \in 0..L /\ k < L PROVE k + 1 \in X
    <3>1. k + 1 \in 1..L /\ (k + 1) - 1 = k
      BY <1>0, <2>2
    <3>2. g[k + 1] = step[g[k]]
      BY <1>3, <3>1
    <3>3. g[k] \in S /\ g[k][1] = k
      BY <1>3
    <3>4. g[k + 1] = <<k + 1, t[k + 1] \o g[k][2]>>
      BY <2>2, <3>2, <3>3
    <3> QED
      BY <3>1, <3>4
  <2> HIDE DEF X, L
  <2>3. 0..L \subseteq X
    BY <1>0, <2>1, <2>2, InductionUpTo
  <2> QED
    BY <2>3 DEF X
<1>5. [k \in 0..L |-> g[k][2]] = Body([k \in 0..L |-> g[k][2]])
  <2>1. ASSUME NEW k \in 1..L PROVE g[k][2] = t[k] \o g[k - 1][2]
    <3>1. k - 1 \in 0..L /\ k - 1 < L /\ (k - 1) + 1 = k
      BY <1>0
    <3>2. g[k - 1] \in S /\ g[k - 1][1] = k - 1
      BY <1>3, <1>4, <3>1
    <3>3. PICK a : a = t[k] \o g[k - 1][2]
      OBVIOUS
    <3>4. g[k] = <<k, a>>
      BY <1>3, <3>1, <3>2, <3>3
    <3>5. \A x, y : <<x, y>>[2] = y
      OBVIOUS
    <3>6. g[k][2] = a
      BY <3>4, <3>5, Zenon
    <3> QED
      BY <3>3, <3>6, Zenon
  <2>2. g[0][2] = <<>>
    BY <1>3
  <2> DEFINE f == [k \in 0..L |-> g[k][2]]
  <2>3. \A k \in 0..L : f[k] = IF k = 0 THEN <<>> ELSE t[k] \o f[k - 1]
    <3> SUFFICES ASSUME NEW k \in 0..L, k # 0 PROVE f[k] = t[k] \o f[k - 1]
      BY <2>2
    <3>1. k \in 1..L /\ k - 1 \in 0..L
      BY <1>0
    <3> QED
      BY <2>1, <3>1
  <2> HIDE DEF L
  <2> QED
    BY <2>3
<1>6. part = Body(part)
  <2> HIDE DEF Body
  <2> QED
    BY <1>5
<1>7. \A n : JoinedUpTo(t, n) = part[n]
  BY DEF JoinedUpTo
<1> HIDE DEF part
<1>8. part[0] = <<>> /\ \A k \in 1..L : part[k] = t[k] \o part[k - 1]
  <2>1. \A k \in 0..L : part[k] = IF k = 0 THEN <<>> ELSE t[k] \o part[k - 1]
    BY <1>6
  <2>2. 0 \in 0..L /\ \A k \in 1..L : k \in 0..L /\ k # 0
    BY <1>0
  <2> HIDE DEF L
  <2> QED
    BY <2>1, <2>2
<1>9. \A k \in 0..L : part[k] \in Q
  <2> DEFINE X == {k \in 0..L : part[k] \in Q}
  <2>1. 0 \in X
    BY <1>0, <1>8
  <2>2. ASSUME NEW k \in X, k \in 0..L /\ k < L PROVE k + 1 \in X
    <3>1. k + 1 \in 1..L /\ k + 1 \in 0..L /\ (k + 1) - 1 = k
      BY <1>0, <2>2
    <3>2. part[k + 1] = t[k + 1] \o part[k]
      BY <1>8, <3>1
    <3> QED
      BY <1>0, <3>1, <3>2
  <2> HIDE DEF X, L
  <2>3. 0..L \subseteq X
    BY <1>0, <2>1, <2>2, InductionUpTo
  <2> QED
    BY <2>3 DEF X
<1> QED
  BY <1>7, <1>8, <1>9 DEF Q

(* The line is a sequence, and that of nothing is empty.                   *)
LEMMA JoinedType ==
  ASSUME NEW U, NEW t \in Seq(Seq(U))
  PROVE  Joined(t) \in Seq(U) /\ (t = <<>> => Joined(t) = <<>>)
<1>1. Len(t) \in 0..Len(t) /\ (t = <<>> => Len(t) = 0)
  OBVIOUS
<1> QED
  BY <1>1, JoinUnfolds DEF Joined

(* What is in line is what the sequences hold.                             *)
Elements(s) == {s[i] : i \in DOMAIN s}

(* Two sequences one after the other hold what both hold.                  *)
LEMMA ElementsOfTwo ==
  ASSUME NEW U, NEW s \in Seq(U), NEW t \in Seq(U)
  PROVE  Elements(s \o t) = Elements(s) \cup Elements(t)
<1>1. PICK m \in Nat : m = Len(s) /\ DOMAIN s = 1..m
  OBVIOUS
<1>2. PICK n \in Nat : n = Len(t) /\ DOMAIN t = 1..n
  OBVIOUS
<1>3. PICK u : u = s \o t
  OBVIOUS
<1>4. /\ u \in Seq(U) /\ Len(u) = m + n /\ DOMAIN u = 1..(m + n)
      /\ \A i \in 1..(m + n) : u[i] = IF i <= m THEN s[i] ELSE t[i - m]
  <2>1. u \in Seq(U) /\ Len(u) = m + n
        /\ \A i \in 1..(m + n) : u[i] = IF i <= m THEN s[i] ELSE t[i - m]
    BY <1>1, <1>2, <1>3, ConcatProperties
  <2> QED
    BY <2>1
<1>5. ASSUME NEW x \in Elements(u) PROVE x \in Elements(s) \cup Elements(t)
  <2>1. PICK i \in 1..(m + n) : x = u[i]
    BY <1>4 DEF Elements
  <2>2. i <= m => i \in 1..m
    BY <1>1
  <2>3. ~(i <= m) => i - m \in 1..n
    BY <1>1, <1>2
  <2> QED
    BY <1>1, <1>2, <1>4, <2>1, <2>2, <2>3 DEF Elements
<1>6. ASSUME NEW i \in 1..m PROVE s[i] \in Elements(u)
  <2>1. i \in 1..(m + n) /\ i <= m
    BY <1>1, <1>2
  <2> QED
    BY <1>4, <2>1 DEF Elements
<1>7. ASSUME NEW i \in 1..n PROVE t[i] \in Elements(u)
  <2>1. i + m \in 1..(m + n) /\ ~(i + m <= m) /\ (i + m) - m = i
    BY <1>1, <1>2
  <2> QED
    BY <1>4, <2>1 DEF Elements
<1>8. Elements(s) \cup Elements(t) \subseteq Elements(u)
  BY <1>1, <1>2, <1>6, <1>7 DEF Elements
<1> QED
  BY <1>3, <1>5, <1>8

(* What is in line is what one of the sequences holds.                     *)
LEMMA JoinedElements ==
  ASSUME NEW U, NEW t \in Seq(Seq(U)), NEW x
  PROVE  x \in Elements(Joined(t)) <=> \E i \in DOMAIN t : x \in Elements(t[i])
<1>1. PICK L \in Nat : L = Len(t) /\ DOMAIN t = 1..L
  OBVIOUS
<1>2. \A i \in 1..L : t[i] \in Seq(U)
  BY <1>1
<1>3. JoinedUpTo(t, 0) = <<>> /\ \A n \in 1..L : JoinedUpTo(t, n) = t[n] \o JoinedUpTo(t, n - 1)
  BY <1>1, JoinUnfolds
<1>4. \A n \in 0..L : JoinedUpTo(t, n) \in Seq(U)
  BY <1>1, JoinUnfolds
<1> DEFINE X == {n \in 0..L : x \in Elements(JoinedUpTo(t, n)) <=> \E i \in 1..n : x \in Elements(t[i])}
<1>5. 0 \in X
  <2>1. Elements(<<>>) = {} /\ 1..0 = {}
    BY DEF Elements
  <2> QED
    BY <1>1, <1>3, <2>1
<1>6. ASSUME NEW n \in X, n \in 0..L /\ n < L PROVE n + 1 \in X
  <2>0. n \in Nat /\ n < L /\ L \in Nat
    BY <1>1, <1>6
  <2>1. n + 1 \in 0..L /\ n + 1 \in 1..L /\ (n + 1) - 1 = n /\ 1..(n + 1) = (1..n) \cup {n + 1}
    BY <2>0
  <2>2. JoinedUpTo(t, n + 1) = t[n + 1] \o JoinedUpTo(t, n)
    BY <1>3, <2>1
  <2>3. t[n + 1] \in Seq(U) /\ JoinedUpTo(t, n) \in Seq(U)
    BY <1>2, <1>4, <1>6, <2>1
  <2>4. Elements(JoinedUpTo(t, n + 1)) = Elements(t[n + 1]) \cup Elements(JoinedUpTo(t, n))
    <3>1. PICK a \in Seq(U) : a = t[n + 1]
      BY <2>3
    <3>2. PICK b \in Seq(U) : b = JoinedUpTo(t, n)
      BY <2>3
    <3>3. Elements(a \o b) = Elements(a) \cup Elements(b)
      BY ElementsOfTwo
    <3> QED
      BY <2>2, <3>1, <3>2, <3>3
  <2>5. x \in Elements(JoinedUpTo(t, n)) <=> \E i \in 1..n : x \in Elements(t[i])
    OBVIOUS
  <2> QED
    BY <2>1, <2>4, <2>5
<1> HIDE DEF X
<1>7. 0..L \subseteq X
  BY <1>1, <1>5, <1>6, InductionUpTo
<1>8. L \in X
  BY <1>1, <1>7
<1> QED
  BY <1>1, <1>8 DEF X, Joined

(* The line up to a place depends on nothing behind it.                    *)
LEMMA JoinedAgree ==
  ASSUME NEW U, NEW t \in Seq(Seq(U)), NEW u \in Seq(Seq(U)), NEW n \in Nat,
         n <= Len(t), n <= Len(u), \A i \in 1..n : t[i] = u[i]
  PROVE  JoinedUpTo(t, n) = JoinedUpTo(u, n)
<1> DEFINE X == {k \in 0..n : JoinedUpTo(t, k) = JoinedUpTo(u, k)}
<1>1. Len(t) \in Nat /\ Len(u) \in Nat
  OBVIOUS
<1>2. 0 \in X
  <2>1. JoinedUpTo(t, 0) = <<>> /\ JoinedUpTo(u, 0) = <<>>
    BY JoinUnfolds
  <2> QED
    BY <2>1
<1>3. ASSUME NEW k \in X, k \in 0..n /\ k < n PROVE k + 1 \in X
  <2>1. k + 1 \in 1..n /\ k + 1 \in 1..Len(t) /\ k + 1 \in 1..Len(u) /\ (k + 1) - 1 = k /\ k + 1 \in 0..n
    BY <1>1, <1>3
  <2>2. JoinedUpTo(t, k + 1) = t[k + 1] \o JoinedUpTo(t, k)
    BY <2>1, JoinUnfolds
  <2>3. JoinedUpTo(u, k + 1) = u[k + 1] \o JoinedUpTo(u, k)
    BY <2>1, JoinUnfolds
  <2> QED
    BY <2>1, <2>2, <2>3
<1> HIDE DEF X
<1>4. 0..n \subseteq X
  BY <1>2, <1>3, InductionUpTo
<1> QED
  BY <1>4 DEF X

(* A sequence put in front is the last in line.                            *)
LEMMA JoinedFront ==
  ASSUME NEW U, NEW t \in Seq(Seq(U)), NEW a \in Seq(U), NEW u, u = <<a>> \o t
  PROVE  Joined(u) = Joined(t) \o a
<1> DEFINE Q == Seq(U)
<1>1. PICK L \in Nat : L = Len(t)
  OBVIOUS
<1>2. /\ u \in Seq(Q) /\ Len(u) = L + 1 /\ u[1] = a /\ \A i \in 1..L : u[i + 1] = t[i]
  <2>1. t \in Seq(Q) /\ a \in Q
    OBVIOUS
  <2> HIDE DEF Q
  <2> QED
    BY <1>1, <2>1, PutInFront
<1>3. \A i \in 1..L : t[i] \in Seq(U)
  BY <1>1
<1>4. JoinedUpTo(t, 0) = <<>> /\ \A n \in 1..L : JoinedUpTo(t, n) = t[n] \o JoinedUpTo(t, n - 1)
  BY <1>1, JoinUnfolds
<1>5. \A n \in 0..L : JoinedUpTo(t, n) \in Seq(U)
  BY <1>1, JoinUnfolds
<1>6. JoinedUpTo(u, 0) = <<>> /\ \A n \in 1..(L + 1) : JoinedUpTo(u, n) = u[n] \o JoinedUpTo(u, n - 1)
  BY <1>2, JoinUnfolds
<1> DEFINE X == {n \in 0..L : JoinedUpTo(u, n + 1) = JoinedUpTo(t, n) \o a}
<1>7. 0 \in X
  <2>1. 0 \in 0..L /\ 1 \in 1..(L + 1) /\ 0 + 1 = 1 /\ 1 - 1 = 0
    BY <1>1
  <2>2. JoinedUpTo(u, 1) = a \o <<>>
    BY <1>2, <1>6, <2>1
  <2>3. a \o <<>> = <<>> \o a
    BY ConcatEmptySeq
  <2> QED
    BY <1>4, <2>1, <2>2, <2>3
<1>8. ASSUME NEW n \in X, n \in 0..L /\ n < L PROVE n + 1 \in X
  <2>1. /\ n + 1 \in 0..L /\ n + 1 \in 1..L /\ (n + 1) - 1 = n
        /\ (n + 1) + 1 \in 1..(L + 1) /\ ((n + 1) + 1) - 1 = n + 1
    BY <1>1, <1>8
  <2>2. JoinedUpTo(u, (n + 1) + 1) = u[(n + 1) + 1] \o JoinedUpTo(u, n + 1)
    BY <1>6, <2>1
  <2>3. u[(n + 1) + 1] = t[n + 1] /\ JoinedUpTo(u, n + 1) = JoinedUpTo(t, n) \o a
    BY <1>2, <2>1
  <2>4. JoinedUpTo(t, n + 1) = t[n + 1] \o JoinedUpTo(t, n)
    BY <1>4, <2>1
  <2>5. t[n + 1] \in Seq(U) /\ JoinedUpTo(t, n) \in Seq(U)
    BY <1>3, <1>5, <1>8, <2>1
  <2>6. (t[n + 1] \o JoinedUpTo(t, n)) \o a = t[n + 1] \o (JoinedUpTo(t, n) \o a)
    <3>1. PICK b \in Seq(U) : b = t[n + 1]
      BY <2>5
    <3>2. PICK d \in Seq(U) : d = JoinedUpTo(t, n)
      BY <2>5
    <3>3. (b \o d) \o a = b \o (d \o a)
      BY ConcatAssociative
    <3> QED
      BY <3>1, <3>2, <3>3
  <2> QED
    BY <2>1, <2>2, <2>3, <2>4, <2>6
<1> HIDE DEF X
<1>9. 0..L \subseteq X
  BY <1>1, <1>7, <1>8, InductionUpTo
<1>10. L \in X
  BY <1>1, <1>9
<1> QED
  BY <1>1, <1>2, <1>10 DEF X, Joined

(* A sequence is its first element and its tail.                           *)
LEMMA FrontAndTail ==
  ASSUME NEW Q, NEW t \in Seq(Q), NEW u \in Seq(Q), t # <<>>, Len(u) = Len(t),
         \A i \in 1..Len(t) : i # 1 => u[i] = t[i]
  PROVE  \E w \in Seq(Q) : t = <<t[1]>> \o w /\ u = <<u[1]>> \o w
<1>1. PICK n \in Nat : n + 1 = Len(t)
  <2>1. Len(t) \in Nat \ {0}
    OBVIOUS
  <2>2. Len(t) - 1 \in Nat /\ (Len(t) - 1) + 1 = Len(t)
    BY <2>1
  <2> QED
    BY <2>2
<1>2. PICK w : w = [i \in 1..n |-> t[i + 1]]
  OBVIOUS
<1>3. \A i \in 1..n : i + 1 \in 1..(n + 1) /\ i + 1 # 1
  OBVIOUS
<1>4. w \in Seq(Q) /\ Len(w) = n /\ \A i \in 1..n : w[i] = t[i + 1]
  <2>1. \A i \in 1..n : t[i + 1] \in Q
    BY <1>1, <1>3
  <2>2. w \in [1..n -> Q]
    BY <1>2, <2>1
  <2> QED
    BY <1>2, <2>2
<1>5. ASSUME NEW x \in Seq(Q), Len(x) = n + 1, \A i \in 1..n : x[i + 1] = w[i]
      PROVE  x = <<x[1]>> \o w
  <2>1. PICK s : s = <<x[1]>> \o w
    OBVIOUS
  <2>2. x[1] \in Q
    <3>1. 1 \in 1..(n + 1)
      OBVIOUS
    <3> QED
      BY <1>5, <3>1
  <2>3. /\ s \in Seq(Q) /\ Len(s) = n + 1 /\ s[1] = x[1] /\ \A i \in 1..n : s[i + 1] = w[i]
        /\ \A j \in 1..(n + 1) : j # 1 => \E i \in 1..n : j = i + 1
    BY <1>4, <2>1, <2>2, PutInFront
  <2>4. ASSUME NEW j \in 1..(n + 1) PROVE x[j] = s[j]
    <3>1. CASE j = 1
      BY <2>3, <3>1
    <3>2. CASE j # 1
      <4>1. PICK i \in 1..n : j = i + 1
        BY <2>3, <3>2
      <4>2. x[i + 1] = w[i] /\ s[i + 1] = w[i]
        BY <1>5, <2>3
      <4> QED
        BY <4>1, <4>2
    <3> QED
      BY <3>1, <3>2
  <2>5. x = s
    BY <1>5, <2>3, <2>4, SeqEqual
  <2> QED
    BY <2>1, <2>5
<1>6. t = <<t[1]>> \o w
  BY <1>1, <1>4, <1>5
<1>7. u = <<u[1]>> \o w
  BY <1>1, <1>3, <1>4, <1>5
<1> QED
  BY <1>4, <1>6, <1>7

(* An empty first sequence that is replaced is the same.                   *)
LEMMA JoinedFirst ==
  ASSUME NEW U, NEW t \in Seq(Seq(U)), t # <<>>, t[1] = <<>>, NEW a \in Seq(U),
         NEW u \in Seq(Seq(U)), Len(u) = Len(t), u[1] = a, \A i \in 1..Len(t) : i # 1 => u[i] = t[i]
  PROVE  Joined(u) = Joined(t) \o a
<1>1. PICK w \in Seq(Seq(U)) : t = <<<<>>>> \o w /\ u = <<a>> \o w
  <2> DEFINE Q == Seq(U)
  <2>1. t \in Seq(Q) /\ u \in Seq(Q)
    OBVIOUS
  <2> HIDE DEF Q
  <2>2. \E w \in Seq(Q) : t = <<t[1]>> \o w /\ u = <<u[1]>> \o w
    BY <2>1, FrontAndTail
  <2> QED
    BY <2>2, Zenon DEF Q
<1>2. <<>> \in Seq(U)
  OBVIOUS
<1>3. Joined(t) = Joined(w) \o <<>>
  BY <1>1, <1>2, JoinedFront, Zenon
<1>4. Joined(u) = Joined(w) \o a
  BY <1>1, JoinedFront, Zenon
<1>5. Joined(w) \in Seq(U)
  BY JoinedType
<1> QED
  BY <1>3, <1>4, <1>5, ConcatEmptySeq

(* The last sequence is the first in line.                                 *)
LEMMA JoinedLast ==
  ASSUME NEW U, NEW t \in Seq(Seq(U)), t # <<>>, NEW u, u = SubSeq(t, 1, Len(t) - 1)
  PROVE  Joined(t) = t[Len(t)] \o Joined(u)
<1>1. PICK L \in Nat \ {0} : L = Len(t)
  OBVIOUS
<1>2. u \in Seq(Seq(U)) /\ Len(u) = L - 1 /\ \A i \in 1..(L - 1) : u[i] = t[i]
  BY <1>1, LastDropped
<1>3. L - 1 \in Nat /\ L - 1 <= L /\ L \in 1..L
  OBVIOUS
<1>4. JoinedUpTo(u, L - 1) = JoinedUpTo(t, L - 1)
  <2>1. PICK n \in Nat : n = L - 1
    BY <1>3
  <2>2. n <= Len(u) /\ n <= Len(t) /\ \A i \in 1..n : u[i] = t[i]
    BY <1>1, <1>2, <1>3, <2>1
  <2>3. JoinedUpTo(u, n) = JoinedUpTo(t, n)
    BY <1>2, <2>2, JoinedAgree
  <2> QED
    BY <2>1, <2>3
<1>5. JoinedUpTo(t, L) = t[L] \o JoinedUpTo(t, L - 1)
  BY <1>1, <1>3, JoinUnfolds
<1> QED
  BY <1>1, <1>2, <1>4, <1>5 DEF Joined

=============================================================================
