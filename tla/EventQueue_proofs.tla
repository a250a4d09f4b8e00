------------------------- MODULE EventQueue_proofs -------------------------
(***************************************************************************)
(* The event engine loses no event and its clock passes none, for every    *)
(* number of events, cycle time and epsilon: popping the queue only after  *)
(* the handler has pushed its events removes the event that ran, because   *)
(* what a handler pushes is later than the event it handles.               *)
(***************************************************************************)
EXTENDS EventQueue, FiniteSetTheorems, TLAPS

(* Events are numbered in the order they are added.                        *)
InOrderAdded == \E n \in 0..MaxEvents : Added = 1..n

(* One that has not been added has not run.                                *)
RunOnceAdded == \A e \in Events \ Added : ran[e] = NotYet

(* Before simulate() the clock stands at its start; inside it, simulate()  *)
(* has been called.                                                        *)
Stages == /\ initial => time = 0 /\ epsilon = 0
          /\ running => ~initial

IInv == /\ TypeOK /\ InOrderAdded /\ RunOnceAdded /\ Stages /\ queue \subseteq Added
        /\ NoEventLost /\ NothingLeftBehind

-----------------------------------------------------------------------------
(* Before is a strict order on instants.                                   *)
LEMMA BeforeAsymmetric ==
  ASSUME NEW i \in Instants, NEW j \in Instants, Before(i, j)
  PROVE  ~Before(j, i)
BY EngineAssumption DEF Instants, Times, Epsilons, Before

(* No instant is before the start of time.                                 *)
LEMMA StartIsFirst ==
  ASSUME NEW i \in Instants
  PROVE  ~Before(i, <<0, 0>>)
BY EngineAssumption DEF Instants, Times, Epsilons, Before

(* The next events have not been added yet.                                *)
LEMMA NextEventsAreNew ==
  ASSUME IInv, NEW k \in Nat, NextEvents(k) \subseteq Events
  PROVE  /\ NextEvents(k) \cap Added = {}
         /\ \E n \in 0..MaxEvents : Added \cup NextEvents(k) = 1..n
<1>1. PICK n \in 0..MaxEvents : Added = 1..n
  BY DEF IInv, InOrderAdded
<1>2. Cardinality(Added) = n
  BY <1>1, FS_Interval, EngineAssumption
<1>3. NextEvents(k) = (n + 1)..(n + k)
  BY <1>2 DEF NextEvents
<1>4. n + k \in 0..MaxEvents
  <2>1. CASE k = 0
    BY <2>1
  <2>2. CASE k > 0
    <3>1. n + k \in NextEvents(k)
      BY <2>2, <1>3
    <3> QED
      BY <3>1 DEF Events
  <2> QED
    BY <2>1, <2>2
<1>5. Added \cup NextEvents(k) = 1..(n + k)
  BY <1>1, <1>3
<1> QED
  BY <1>1, <1>3, <1>4, <1>5

(* The invariant holds before the first event is added.                    *)
LEMMA InitIInv == Init => IInv
<1> SUFFICES ASSUME Init PROVE IInv
  OBVIOUS
<1> USE EngineAssumption DEF Init
<1>1. 0 \in Times /\ 0 \in Epsilons
  <2>1. MaxCycle * CycleTime \in Nat
    OBVIOUS
  <2> QED
    BY <2>1 DEF Times, Epsilons
<1>2. Added = {} /\ {} = 1..0 /\ 0 \in 0..MaxEvents
  BY DEF Added
<1>3. InOrderAdded
  BY <1>2 DEF InOrderAdded
<1> QED
  BY <1>1, <1>2, <1>3 DEF IInv, TypeOK, RunOnceAdded, Stages, NoEventLost, NothingLeftBehind

-----------------------------------------------------------------------------
(* An event that is added before the simulation waits in the queue.        *)
LEMMA AddInitialEventKeeps ==
  ASSUME IInv, AddInitialEvent
  PROVE  IInv'
<1>1. PICK i \in Schedulable(Now), e \in NextEvents(1) \cap Events :
        /\ when' = [when EXCEPT ![e] = i]
        /\ queue' = queue \cup {e}
  BY DEF AddInitialEvent
<1>2. UNCHANGED <<time, epsilon, quit, initial, running, ran>> /\ initial
  BY DEF AddInitialEvent
<1>3. i \in Instants /\ i # NotYet
  BY NotYetAssumption DEF Schedulable
<1>4. NextEvents(1) = {e}
  <2>1. PICK n \in 0..MaxEvents : Added = 1..n
    BY DEF IInv, InOrderAdded
  <2>2. Cardinality(Added) = n
    BY <2>1, FS_Interval, EngineAssumption
  <2> QED
    BY <2>2, <1>1 DEF NextEvents
<1>5. e \notin Added
  BY <1>1, <1>4, NextEventsAreNew
<1>6. Added' = Added \cup {e}
  BY <1>1, <1>3 DEF IInv, TypeOK, Added
<1>7. InOrderAdded'
  BY <1>1, <1>4, <1>6, NextEventsAreNew DEF InOrderAdded
<1>8. TypeOK'
  BY <1>1, <1>2, <1>3 DEF IInv, TypeOK
<1>9. NoEventLost' /\ RunOnceAdded'
  BY <1>1, <1>2, <1>5, <1>6 DEF IInv, TypeOK, NoEventLost, RunOnceAdded
<1>10. Stages' /\ (queue \subseteq Added)' /\ NothingLeftBehind'
  BY <1>1, <1>2, <1>6 DEF IInv, Stages, NothingLeftBehind
<1> QED
  BY <1>7, <1>8, <1>9, <1>10 DEF IInv

(* The simulation starts with all that was added.                          *)
LEMMA SimulateKeeps ==
  ASSUME IInv, Simulate
  PROVE  IInv'
<1>1. \A e \in queue : when[e] \in Instants
  BY DEF IInv, TypeOK, Added
<1>2. NothingLeftBehind'
  BY <1>1, StartIsFirst DEF IInv, Stages, Simulate, NothingLeftBehind, Now
<1>3. Added' = Added
  BY DEF Simulate, Added
<1> QED
  BY <1>2, <1>3 DEF IInv, TypeOK, InOrderAdded, RunOnceAdded, Stages, NoEventLost, Simulate

(* The simulation ends with an empty queue.                                *)
LEMMA EndSimulateKeeps ==
  ASSUME IInv, EndSimulate
  PROVE  IInv'
<1>1. Added' = Added
  BY DEF EndSimulate, Added
<1> QED
  BY <1>1 DEF IInv, TypeOK, InOrderAdded, RunOnceAdded, Stages, NoEventLost,
              NothingLeftBehind, EndSimulate

(* The loop runs an event: the heart of the matter.                        *)
LEMMA RunNextEventKeeps ==
  ASSUME IInv, RunNextEvent
  PROVE  IInv'
<1>1. CASE queue = {} /\ UNCHANGED <<time, epsilon, initial, running, queue, when, ran>>
           /\ quit' = TRUE
  <2>1. Added' = Added
    BY <1>1 DEF Added
  <2> QED
    BY <1>1, <2>1 DEF IInv, TypeOK, InOrderAdded, RunOnceAdded, Stages, NoEventLost,
                      NothingLeftBehind, Now
<1>2. CASE \E e \in Tops(queue, when), k \in 0..2 :
             /\ NextEvents(k) \subseteq Events
             /\ time' = when[e][1] /\ epsilon' = when[e][2]
             /\ ran' = [ran EXCEPT ![e] = Now']
             /\ \E at \in [NextEvents(k) -> Schedulable(when[e])] :
                  when' = [d \in Events |-> IF d \in NextEvents(k) THEN at[d] ELSE when[d]]
             /\ queue' = (queue \cup NextEvents(k)) \ Popped(e, NextEvents(k), when')
             /\ quit' = (queue' = {})
             /\ UNCHANGED <<initial, running>>
  <2> PICK e \in Tops(queue, when), k \in 0..2 :
             /\ NextEvents(k) \subseteq Events
             /\ time' = when[e][1] /\ epsilon' = when[e][2]
             /\ ran' = [ran EXCEPT ![e] = Now']
             /\ \E at \in [NextEvents(k) -> Schedulable(when[e])] :
                  when' = [d \in Events |-> IF d \in NextEvents(k) THEN at[d] ELSE when[d]]
             /\ queue' = (queue \cup NextEvents(k)) \ Popped(e, NextEvents(k), when')
             /\ quit' = (queue' = {})
             /\ UNCHANGED <<initial, running>>
    BY <1>2
  <2> PICK at \in [NextEvents(k) -> Schedulable(when[e])] :
        when' = [d \in Events |-> IF d \in NextEvents(k) THEN at[d] ELSE when[d]]
    OBVIOUS
  <2> DEFINE new == NextEvents(k)
  <2>1. e \in queue /\ e \in Added /\ e \in Events /\ when[e] \in Instants
    BY DEF IInv, TypeOK, Tops, Added
  <2>2. Now' = when[e]
    BY <2>1 DEF Now, Instants
  <2>3. new \cap Added = {} /\ \E n \in 0..MaxEvents : Added \cup new = 1..n
    BY NextEventsAreNew
  <2>4. when'[e] = when[e]
    BY <2>1, <2>3
  <2>5. ~initial
    BY DEF IInv, Stages, RunNextEvent
  <2>6. \A d \in new : /\ when'[d] \in Instants
                       /\ when'[d] # NotYet
                       /\ ~Before(when'[d], when[e])
    BY <2>1, <2>5, NotYetAssumption, BeforeAsymmetric DEF Schedulable, Addable
  <2>7. queue' = (queue \cup new) \ {e}
    BY <2>4, <2>6 DEF Popped
  <2>8. Added' = Added \cup new
    BY <2>3, <2>6 DEF Added
  <2>9. TypeOK'
    <3>1. time' \in Times /\ epsilon' \in Epsilons /\ quit' \in BOOLEAN
      BY <2>1 DEF Instants
    <3>2. queue' \subseteq Events
      BY <2>7 DEF IInv, TypeOK
    <3>3. when' \in [Events -> Instants \cup {NotYet}]
      BY <2>6 DEF IInv, TypeOK
    <3>4. ran' \in [Events -> Instants \cup {NotYet}]
      BY <2>1, <2>2 DEF IInv, TypeOK
    <3> QED
      BY <3>1, <3>2, <3>3, <3>4 DEF IInv, TypeOK
  <2>10. InOrderAdded'
    BY <2>3, <2>8 DEF InOrderAdded
  <2>11. RunOnceAdded' /\ NoEventLost'
    <3>1. ASSUME NEW d \in Events \ Added' PROVE ran'[d] = NotYet
      BY <2>1, <2>8 DEF IInv, RunOnceAdded, TypeOK
    <3>2. ASSUME NEW d \in Added'
          PROVE  IF d \in queue' THEN ran'[d] = NotYet ELSE ran'[d] = when'[d]
      <4>1. CASE d = e
        BY <4>1, <2>1, <2>2, <2>4, <2>7 DEF IInv, TypeOK
      <4>2. CASE d \in new
        BY <4>2, <2>1, <2>3, <2>7 DEF IInv, TypeOK, RunOnceAdded
      <4>3. CASE d \in Added /\ d # e
        <5>1. d \notin new /\ d \in Events
          BY <4>3, <2>3 DEF Added
        <5> QED
          BY <4>3, <5>1, <2>7 DEF IInv, TypeOK, NoEventLost
      <4> QED
        BY <3>2, <2>8, <4>1, <4>2, <4>3
    <3> QED
      BY <3>1, <3>2 DEF RunOnceAdded, NoEventLost
  <2>12. Stages' /\ (queue \subseteq Added)'
    BY <2>5, <2>7, <2>8 DEF IInv, Stages
  <2>13. NothingLeftBehind'
    <3>1. ASSUME NEW d \in queue' PROVE ~Before(when'[d], when[e])
      <4>1. CASE d \in new
        BY <4>1, <2>6
      <4>2. CASE d \in queue
        <5>1. d \notin new /\ d \in Events
          BY <4>2, <2>3 DEF IInv, TypeOK
        <5> QED
          BY <4>2, <5>1 DEF Tops
      <4> QED
        BY <4>1, <4>2, <2>7
    <3> QED
      BY <3>1, <2>2 DEF NothingLeftBehind
  <2> QED
    BY <2>9, <2>10, <2>11, <2>12, <2>13 DEF IInv
<1> QED
  BY <1>1, <1>2 DEF RunNextEvent

(* Every step keeps the invariant.                                         *)
LEMMA NextKeeps == IInv /\ [Next]_vars => IInv'
<1> SUFFICES ASSUME IInv, [Next]_vars PROVE IInv'
  OBVIOUS
<1>1. CASE UNCHANGED vars
  <2>1. Added' = Added
    BY <1>1 DEF vars, Added
  <2> QED
    BY <1>1, <2>1 DEF vars, IInv, TypeOK, InOrderAdded, RunOnceAdded, Stages, NoEventLost,
                      NothingLeftBehind, Now
<1> QED
  BY <1>1, AddInitialEventKeeps, SimulateKeeps, RunNextEventKeeps, EndSimulateKeeps DEF Next

(* The inductive invariant always holds.                                   *)
LEMMA Invariance == Spec => []IInv
BY InitIInv, NextKeeps, PTL DEF Spec

-----------------------------------------------------------------------------
(* The engine's state keeps its types.                                     *)
THEOREM TypeCorrect == Spec => []TypeOK
<1>1. IInv => TypeOK
  BY DEF IInv
<1> QED
  BY <1>1, Invariance, PTL

(* Every event added is run once, at the instant it was added for.         *)
THEOREM EventsAreRun == Spec => []NoEventLost
<1>1. IInv => NoEventLost
  BY DEF IInv
<1> QED
  BY <1>1, Invariance, PTL

(* The clock never passes an event that is waiting.                        *)
THEOREM ClockPassesNothing == Spec => []NothingLeftBehind
<1>1. IInv => NothingLeftBehind
  BY DEF IInv
<1> QED
  BY <1>1, Invariance, PTL
=============================================================================
