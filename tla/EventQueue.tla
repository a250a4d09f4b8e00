---------------------------- MODULE EventQueue ----------------------------
(***************************************************************************)
(* event/Simulator and event/VectorQueue: the discrete event engine that   *)
(* every component runs on.  Time is a pair of a time and an epsilon, in   *)
(* lexicographic order.  Components add events to a priority queue; the    *)
(* simulation loop takes the top event, moves the clock to it, runs its    *)
(* handler (which adds more events) and only then pops the queue.          *)
(***************************************************************************)
EXTENDS Naturals, FiniteSets

CONSTANTS CycleTime,   \* cycle_time: time units per cycle
          MaxCycle,    \* bound: no event is scheduled after this cycle
          MaxEpsilon,  \* bound: the largest epsilon used
          MaxEvents,   \* bound: how many events are ever added
          NotYet       \* an event that has not run

ASSUME EngineAssumption ==
  /\ CycleTime \in Nat \ {0} /\ MaxCycle \in Nat
  /\ MaxEpsilon \in Nat /\ MaxEvents \in Nat

Events == 1..MaxEvents                   \* events, in the order they are added
Times == 0..(MaxCycle * CycleTime)
Epsilons == 0..MaxEpsilon
Instants == Times \X Epsilons

ASSUME NotYetAssumption == NotYet \notin Instants

VARIABLES time, epsilon,    \* the clock
          quit,             \* the loop ends before the next event
          initial,          \* simulate() has not been called yet
          running,          \* inside simulate()
          queue,            \* the events in the priority queue
          when,             \* when[e]: the instant e was added for
          ran               \* ran[e]: the instant e was run at, or NotYet

vars == <<time, epsilon, quit, initial, running, queue, when, ran>>

Now == <<time, epsilon>>

Before(i, j) == i[1] < j[1] \/ (i[1] = j[1] /\ i[2] < j[2])

TypeOK == /\ time \in Times /\ epsilon \in Epsilons
          /\ quit \in BOOLEAN /\ initial \in BOOLEAN /\ running \in BOOLEAN
          /\ queue \subseteq Events
          /\ when \in [Events -> Instants \cup {NotYet}]
          /\ ran \in [Events -> Instants \cup {NotYet}]

Init == /\ time = 0 /\ epsilon = 0
        /\ quit = FALSE /\ initial = TRUE /\ running = FALSE
        /\ queue = {}
        /\ when = [e \in Events |-> NotYet]
        /\ ran = [e \in Events |-> NotYet]

-----------------------------------------------------------------------------
(* Simulator::futureCycle(n), with the clock at time t.                    *)
FutureCycle(t, n) == (t \div CycleTime + n) * CycleTime

(* Mutant: addEvent without its assertion.                                 *)
AddableAnytime(now, i) == TRUE

(* VectorQueue::addEvent asserts that an event is strictly in the future,  *)
(* by time or by epsilon, once the simulation runs.                        *)
Addable(now, i) == initial \/ Before(now, i)

(* The instants components schedule for: a later epsilon of the same time, *)
(* or any epsilon of a future cycle.                                       *)
Schedulable(now) ==
  {i \in Instants : /\ Addable(now, i)
                    /\ \/ i[1] = now[1]
                       \/ \E n \in 1..MaxCycle : i[1] = FutureCycle(now[1], n)}

Added == {e \in Events : when[e] # NotYet}
NextEvents(k) == (Cardinality(Added) + 1)..(Cardinality(Added) + k)

(* A component adds one event while the system is built.                   *)
AddInitialEvent ==
  /\ initial
  /\ \E i \in Schedulable(Now), e \in NextEvents(1) \cap Events :
       /\ when' = [when EXCEPT ![e] = i]
       /\ queue' = queue \cup {e}
  /\ UNCHANGED <<time, epsilon, quit, initial, running, ran>>

(* simulate() is entered.                                                  *)
Simulate == /\ initial
            /\ initial' = FALSE /\ running' = TRUE
            /\ UNCHANGED <<time, epsilon, quit, queue, when, ran>>

(* Mutant: a comparator without the epsilon.                               *)
TopsByTime(q, w) == {e \in q : \A d \in q : w[d][1] >= w[e][1]}

(* The events at the top of the heap: none is earlier.  Which of several   *)
(* is on top depends on the heap's layout.                                 *)
Tops(q, w) == {e \in q : \A d \in q : ~Before(w[d], w[e])}

(* Mutant: the event that ran stays in the queue.                          *)
PoppedNothing(e, new, w) == {}

(* pop() removes what is on top after the handler has pushed its events:   *)
(* the event that ran, unless a pushed event is earlier than it.           *)
Popped(e, new, w) == IF \A d \in new : ~Before(w[d], w[e])
                     THEN {e}
                     ELSE {CHOOSE d \in Tops(new, w) : TRUE}

(* runNextEvent(): the handler of the top event adds at most two events.   *)
(* quit_ is set from the queue alone, also if the handler called stop().   *)
RunNextEvent ==
  /\ running /\ ~quit
  /\ \/ /\ queue = {}
        /\ quit' = TRUE
        /\ UNCHANGED <<time, epsilon, initial, running, queue, when, ran>>
     \/ \E e \in Tops(queue, when), k \in 0..2 :
          /\ NextEvents(k) \subseteq Events
          /\ time' = when[e][1] /\ epsilon' = when[e][2]
          /\ ran' = [ran EXCEPT ![e] = Now']
          /\ \E at \in [NextEvents(k) -> Schedulable(when[e])] :
               when' = [d \in Events |-> IF d \in NextEvents(k) THEN at[d] ELSE when[d]]
          /\ queue' = (queue \cup NextEvents(k)) \ Popped(e, NextEvents(k), when')
          /\ quit' = (queue' = {})
          /\ UNCHANGED <<initial, running>>

(* The loop sees quit_ and simulate() returns.                             *)
EndSimulate == /\ running /\ quit
               /\ running' = FALSE /\ quit' = FALSE
               /\ UNCHANGED <<time, epsilon, initial, queue, when, ran>>

Next == AddInitialEvent \/ Simulate \/ RunNextEvent \/ EndSimulate

(* The simulation is started and its loop keeps going.                     *)
Spec == /\ Init /\ [][Next]_vars
        /\ WF_vars(Simulate) /\ WF_vars(RunNextEvent) /\ WF_vars(EndSimulate)

-----------------------------------------------------------------------------
(* Every event added is in the queue until it is run, and is run at the    *)
(* very instant it was added for: although the queue is popped after the   *)
(* handler has pushed new events, no event is lost, run twice or run late. *)
NoEventLost ==
  \A e \in Added : IF e \in queue THEN ran[e] = NotYet ELSE ran[e] = when[e]

(* The clock never passes an event that is still waiting.                  *)
NothingLeftBehind == running => \A e \in queue : ~Before(when[e], Now)

(* A simulation returns, and has then run every event.                     *)
SimulationRunsOut ==
  <>(~initial /\ ~running /\ \A e \in Added : ran[e] # NotYet)
=============================================================================
