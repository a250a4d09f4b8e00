---------------------------- MODULE StressTest ----------------------------
(***************************************************************************)
(* application/stresstest: the phases of a stress test.  Every terminal    *)
(* sends messages as fast as its injection limiter lets it, and watches    *)
(* the messages it has in the network: when enough terminals find the      *)
(* network warmed up all start to log their messages, and when all logged  *)
(* messages of all terminals are out everybody stops sending; when too     *)
(* many terminals find it saturated everybody stops at once.               *)
(*                                                                         *)
(* There is no central clock for any of this: terminals act on their own   *)
(* messages, and what keeps a terminal sending is that each message that   *)
(* enters the interface makes it create the next one.  A message is        *)
(* modelled by its being logged or not.                                    *)
(***************************************************************************)
EXTENDS Integers, Sequences, FiniteSets

CONSTANTS Terminals,
          NumMessages,        \* num_messages: how many each terminal logs
          WarmupWindow,       \* warmup_window: samples before the first verdict
          MaxWarmupAttempts,  \* warmup_attempts
          ThresholdNum, ThresholdDen,   \* warmup_threshold, as a fraction
          MaxInNetwork        \* bound: messages of a terminal in the network

(* The code's assertions on its settings.  It accepts NumMessages = 0 as   *)
(* well, but then no terminal ever reports and the test does not end.      *)
Settings ==
  /\ NumMessages \in Nat /\ WarmupWindow \in Nat /\ WarmupWindow >= 5
  /\ MaxWarmupAttempts \in Nat \ {0}
  /\ ThresholdNum \in 1..ThresholdDen /\ ThresholdDen \in Nat

ASSUME StressSettings == Settings /\ MaxInNetwork \in Nat

(* A network has at least one terminal.                                    *)
ASSUME TerminalsAssumption == IsFiniteSet(Terminals) /\ Terminals # {}

VARIABLES app,    \* the application
          term    \* term[t]: a terminal and its messages

vars == <<app, term>>

N == Cardinality(Terminals)

TypeOK ==
  /\ app \in [warmed : 0..N, saturated : 0..N, completed : 0..N, warmupComplete : BOOLEAN,
              monitoring : {"no", "on", "ended"}, killFast : BOOLEAN, killed : BOOLEAN,
              roundedDown : BOOLEAN]   \* 1.0 - warmup_threshold is below 1 - threshold
  /\ \A t \in Terminals :
       /\ term[t].sendEvents \in Nat                \* events to send a message
       /\ term[t].limiter \in Seq(BOOLEAN)          \* messages the limiter delays
       /\ term[t].network \in [BOOLEAN -> Nat]      \* [logged -> messages]
       /\ term[t].warmupEnable \in BOOLEAN /\ term[t].samples \in Nat
       /\ term[t].enableLogging \in BOOLEAN /\ term[t].enableSending \in BOOLEAN
       /\ term[t].remaining \in 0..NumMessages      \* messages still to be logged
       /\ term[t].loggedOut \in 0..NumMessages      \* loggableExitedCount_

(* Every terminal has an event for its first message.                      *)
Init ==
  /\ \E k, r \in BOOLEAN :
       app = [warmed |-> 0, saturated |-> 0, completed |-> 0, warmupComplete |-> FALSE,
              monitoring |-> "no", killFast |-> k, killed |-> FALSE, roundedDown |-> r]
  /\ term = [t \in Terminals |->
               [sendEvents |-> 1, limiter |-> <<>>, network |-> [l \in BOOLEAN |-> 0],
                warmupEnable |-> TRUE, samples |-> 0, enableLogging |-> FALSE,
                enableSending |-> TRUE, remaining |-> NumMessages, loggedOut |-> 0]]

-----------------------------------------------------------------------------
(* A terminal sends.                                                       *)

(* messageEnteredInterface() for a message that was sent at this very      *)
(* time: the next one is sent in the next cycle.                           *)
EnteredAtOnce(m) == IF m.enableSending THEN [m EXCEPT !.sendEvents = @ + 1] ELSE m

(* Mutants: remaining messages are not counted down; a message that is     *)
(* delayed schedules the next one as well.                                 *)
SendNextUncounted(m, atOnce) ==
  LET logged == m.enableLogging /\ m.remaining > 0
  IN IF atOnce
     THEN EnteredAtOnce([m EXCEPT !.network[logged] = @ + 1])
     ELSE [m EXCEPT !.limiter = Append(@, logged)]
SendNextTwice(m, atOnce) ==
  LET logged == m.enableLogging /\ m.remaining > 0
      tagged == IF logged THEN [m EXCEPT !.remaining = @ - 1] ELSE m
  IN IF atOnce
     THEN EnteredAtOnce([tagged EXCEPT !.network[logged] = @ + 1])
     ELSE EnteredAtOnce([tagged EXCEPT !.limiter = Append(@, logged)])

(* sendNextMessage(): the limiter passes the message on at once or delays  *)
(* it, as its rate and the time of the last message have it.               *)
SendNext(m, atOnce) ==
  LET logged == m.enableLogging /\ m.remaining > 0
      tagged == IF logged THEN [m EXCEPT !.remaining = @ - 1] ELSE m
  IN IF atOnce
     THEN EnteredAtOnce([tagged EXCEPT !.network[logged] = @ + 1])
     ELSE [tagged EXCEPT !.limiter = Append(@, logged)]

(* messageEnteredInterface() for a message that was delayed: the next one  *)
(* is sent now.                                                            *)
Entered(m, atOnce) == IF m.enableSending THEN SendNext(m, atOnce) ELSE m

InNetwork(m) == m.network[TRUE] + m.network[FALSE]

(* BlastTerminal::processEvent; it sends even if sending has ended since   *)
(* the event was added.                                                    *)
SendEvent(t) ==
  /\ ~app.killed
  /\ term[t].sendEvents > 0
  /\ \E atOnce \in BOOLEAN :
       term' = [term EXCEPT ![t] = SendNext([term[t] EXCEPT !.sendEvents = @ - 1], atOnce)]
  /\ InNetwork(term'[t]) <= MaxInNetwork
  /\ UNCHANGED app

(* InjectionLimiter::processEvent: the delayed message enters.             *)
LimiterEvent(t) ==
  /\ ~app.killed
  /\ term[t].limiter # <<>>
  /\ \E atOnce \in BOOLEAN :
       term' = [term EXCEPT ![t] =
                  Entered([term[t] EXCEPT !.limiter = Tail(@),
                                          !.network[Head(term[t].limiter)] = @ + 1], atOnce)]
  /\ InNetwork(term'[t]) <= MaxInNetwork
  /\ UNCHANGED app

-----------------------------------------------------------------------------
(* A message leaves the network; the state s is <<app, term>> as it is     *)
(* updated on the way through the handler.                                 *)

DetectorOff(m) == [m EXCEPT !.warmupEnable = FALSE, !.samples = 0]

(* Mutant: the detectors stay on when logging starts.                      *)
StartLoggingDetecting(ts) == [t \in Terminals |-> [ts[t] EXCEPT !.enableLogging = TRUE]]

StartLogging(ts) ==
  [t \in Terminals |-> [ts[t] EXCEPT !.enableLogging = TRUE, !.warmupEnable = FALSE]]
StopSending(ts) == [t \in Terminals |-> [DetectorOff(ts[t]) EXCEPT !.enableSending = FALSE]]

(* Mutant: the threshold has to be exceeded.                               *)
EnoughWarmedStrict(n) == n * ThresholdDen > ThresholdNum * N

(* The counts over N are compared in floating point.  The two sides of the *)
(* first comparison are rounded alike; 1.0 - warmup_threshold may come out *)
(* below what it stands for, and then a count that is just that exceeds it.*)
EnoughWarmed(n) == n * ThresholdDen >= ThresholdNum * N
TooManySaturated(a) ==
  LET excess == a.saturated * ThresholdDen - (ThresholdDen - ThresholdNum) * N
  IN excess > 0 \/ (a.roundedDown /\ excess = 0)

(* Application::terminalWarmed.                                            *)
TerminalWarmed(s) ==
  LET a == [s.app EXCEPT !.warmed = @ + 1]
  IN IF EnoughWarmed(a.warmed)
     THEN [app |-> [a EXCEPT !.warmupComplete = TRUE, !.monitoring = "on"],
           term |-> StartLogging(s.term)]
     ELSE [s EXCEPT !.app = a]

(* Application::terminalSaturated.                                         *)
TerminalSaturated(s) ==
  LET a == [s.app EXCEPT !.saturated = @ + 1]
  IN IF TooManySaturated(a)
     THEN [app |-> [a EXCEPT !.warmupComplete = TRUE, !.killed = a.killFast],
           term |-> IF a.killFast THEN s.term ELSE StopSending(s.term)]
     ELSE [s EXCEPT !.app = a]

(* What a terminal may conclude from its next sample.  With a full window  *)
(* it is warmed up when the number of flits under way does not grow (any   *)
(* attempt), saturated when it grows at the last attempt, or is three      *)
(* times what it was at the first.                                         *)
Verdicts(m) ==
  LET attempt == m.samples + 2 - WarmupWindow
  IN IF ~m.warmupEnable \/ attempt < 1 THEN {"none"}
     ELSE {"warmed"}
          \cup (IF attempt = MaxWarmupAttempts \/ attempt > 1 THEN {"saturated"} ELSE {})
          \cup (IF attempt < MaxWarmupAttempts THEN {"none"} ELSE {})

(* The detector's part of messageExitedNetwork(); a message carries the    *)
(* warmup_interval flits of a sample.                                      *)
Detect(s, t, verdict) ==
  CASE ~s.term[t].warmupEnable -> s
    [] s.term[t].warmupEnable /\ verdict = "none" ->
         [s EXCEPT !.term[t].samples = @ + 1]
    [] s.term[t].warmupEnable /\ verdict = "warmed" ->
         LET r == TerminalWarmed(s) IN [r EXCEPT !.term[t] = DetectorOff(@)]
    [] s.term[t].warmupEnable /\ verdict = "saturated" ->
         LET r == TerminalSaturated(s) IN [r EXCEPT !.term[t] = DetectorOff(@)]

(* Application::terminalComplete.                                          *)
TerminalComplete(s) ==
  LET a == [s.app EXCEPT !.completed = @ + 1]
  IN IF a.completed = N
     THEN [app |-> [a EXCEPT !.monitoring = "ended"], term |-> StopSending(s.term)]
     ELSE [s EXCEPT !.app = a]

(* Its logging part.                                                       *)
CountLogged(s, t, logged) ==
  LET r == [s EXCEPT !.term[t].loggedOut = @ + 1]
  IN IF ~logged THEN s
     ELSE IF r.term[t].loggedOut = NumMessages THEN TerminalComplete(r) ELSE r

(* messageExitedNetwork(), on the terminal that sent the message.          *)
Exit(t, logged) ==
  /\ ~app.killed
  /\ term[t].network[logged] > 0
  /\ \E verdict \in Verdicts(term[t]) :
       LET s0 == [app |-> app, term |-> [term EXCEPT ![t].network[logged] = @ - 1]]
           s1 == Detect(s0, t, verdict)
           s2 == IF s1.app.killed THEN s1 ELSE CountLogged(s1, t, logged)
       IN app' = s2.app /\ term' = s2.term

Next == \E t \in Terminals : \/ SendEvent(t) \/ LimiterEvent(t)
                             \/ \E logged \in BOOLEAN : Exit(t, logged)

(* Events are run and the network delivers every message.                  *)
Spec == /\ Init /\ [][Next]_vars
        /\ \A t \in Terminals : /\ WF_vars(SendEvent(t)) /\ WF_vars(LimiterEvent(t))
                                /\ \A logged \in BOOLEAN : WF_vars(Exit(t, logged))

-----------------------------------------------------------------------------
(* A terminal always has exactly one message on its way to the interface,  *)
(* as an event or in the limiter, until it is told to stop: the two ways   *)
(* to go on after a message has entered never both happen, which would     *)
(* double its load, and never both fail, which would silence it.           *)
OneMessageAhead ==
  \A t \in Terminals :
    LET ahead == term[t].sendEvents + Len(term[t].limiter)
    IN ahead <= 1 /\ (term[t].enableSending => ahead = 1)

(* All terminals and the application are in the same phase: nobody's       *)
(* detector can report once the warm-up is decided (the application        *)
(* asserts it), all log or none, and sending ends only when all is logged  *)
(* or the network is saturated.                                            *)
PhasesAgree ==
  /\ app.warmupComplete /\ ~app.killed => \A t \in Terminals : ~term[t].warmupEnable
  /\ \A t \in Terminals :
       /\ term[t].enableLogging = (app.monitoring # "no")
       /\ term[t].enableLogging => app.warmupComplete
       /\ ~term[t].enableSending =>
            app.warmupComplete /\ (term[t].enableLogging => app.monitoring = "ended")
  /\ app.monitoring = "ended" => \A t \in Terminals : term[t].loggedOut = NumMessages

(* Each terminal logs exactly NumMessages messages, each of them once, and *)
(* the application knows how many terminals are done.                      *)
LoggedOnce ==
  /\ \A t \in Terminals :
       LET m == term[t]
       IN m.remaining + Cardinality({i \in DOMAIN m.limiter : m.limiter[i]})
            + m.network[TRUE] + m.loggedOut = NumMessages
  /\ app.completed = Cardinality({t \in Terminals : term[t].loggedOut = NumMessages})

(* The test ends: the warm-up is always decided one way or the other, and  *)
(* then nothing is left to do and all that was to be logged has been.      *)
Drained == \A t \in Terminals : /\ term[t].sendEvents = 0 /\ term[t].limiter = <<>>
                                /\ InNetwork(term[t]) = 0
Ended ==
  app.killed \/ (Drained /\ \A t \in Terminals :
                   term[t].enableLogging => term[t].loggedOut = NumMessages)
===========================================================================
