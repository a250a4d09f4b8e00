-------------------------- MODULE CongestionStatus --------------------------
(***************************************************************************)
(* router/common/congestion: the credit counts that adaptive routing       *)
(* reads.  They follow the credits of the output VCs with a latency: what  *)
(* a cycle does to them is applied at the end of a cycle, in any order, as *)
(* many cycles later.                                                      *)
(*                                                                         *)
(* A state n is [counts, events]: events[i] is what is to be applied i - 1 *)
(* cycles from now, [incr, decr], each the number of events per VC.        *)
(***************************************************************************)
EXTENDS Integers, Sequences

CONSTANTS StatusVcs,     \* the output VCs
          Maximum,       \* the credits of each: the buffer slots behind it
          Latency        \* of the congestion status, at least 1 cycle

NoEvents == [v \in StatusVcs |-> 0]

StatusInit ==
  [counts |-> [v \in StatusVcs |-> Maximum],
   events |-> [i \in 1..Latency |-> [incr |-> NoEvents, decr |-> NoEvents]]]

(* CongestionStatus::createEvent, for some VCs.                            *)
Bumped(f, vcs) == [v \in StatusVcs |-> IF v \in vcs THEN f[v] + 1 ELSE f[v]]

(* Mutant: an increment is a cycle too early.                              *)
IncrementSoon(n, vcs) == [n EXCEPT !.events[1].incr = Bumped(@, vcs)]

Increment(n, vcs) == [n EXCEPT !.events[Latency].incr = Bumped(@, vcs)]
Decrement(n, vcs) == [n EXCEPT !.events[Latency].decr = Bumped(@, vcs)]

(* processEvent, performIncrementCredit and performDecrementCredit for all *)
(* that is due at the end of this cycle.                                   *)
Elapsed(n) ==
  [counts |-> [v \in StatusVcs |->
                 n.counts[v] + n.events[1].incr[v] - n.events[1].decr[v]],
   events |-> Append(Tail(n.events), [incr |-> NoEvents, decr |-> NoEvents])]

-----------------------------------------------------------------------------
(* Whatever the order of the events at the end of this cycle, a count      *)
(* never leaves its range, as BufferOccupancy asserts.                     *)
StaysInRange(n) ==
  \A v \in StatusVcs : /\ n.counts[v] + n.events[1].incr[v] <= Maximum
                       /\ n.counts[v] - n.events[1].decr[v] >= 0

(* The count of v, when all events are applied.                            *)
InTheEnd(n, v) ==
  LET after[i \in 0..Latency] ==
        IF i = 0 THEN n.counts[v]
        ELSE after[i - 1] + n.events[i].incr[v] - n.events[i].decr[v]
  IN after[Latency]
=============================================================================
