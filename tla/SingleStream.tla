---------------------------- MODULE SingleStream ----------------------------
(***************************************************************************)
(* application/singlestream: one terminal sends a stream of messages to    *)
(* another.  Each message that enters the interface makes the source       *)
(* create the next one, inside the very call that passes it on.            *)
(***************************************************************************)
EXTENDS Interface

CONSTANTS Source, Destination,   \* source_terminal and destination_terminal
          NumMessages,           \* num_messages, not 0
          Sizes                  \* the packets of a message of any size allowed

VARIABLES app,    \* [monitoring, doMonitoring, transactions] of the application
          term,   \* [remaining, events] of the source, [recvd] of the destination
          net     \* all between the terminals

streamVars == <<app, term, net>>

StreamInit ==
  /\ app = [monitoring |-> "no", doMonitoring |-> TRUE, transactions |-> {}]
  /\ term = [remaining |-> NumMessages - 1, events |-> 1, recvd |-> 0]
  /\ net = NetworkInit

(* The state s is <<app, term, net>> as a call changes it: a record.       *)
Now == [app |-> app, term |-> term, net |-> net]

(* Application::sentLast.                                                  *)
SentLast(s) ==
  IF s.app.monitoring = "no" THEN [s EXCEPT !.app.doMonitoring = FALSE]
  ELSE [s EXCEPT !.app.monitoring = "ended"]

(* messageEnteredInterface for a message that was sent at this very time:  *)
(* the next one is sent in the next cycle.                                 *)
EnteredAtOnce(s) ==
  IF s.term.remaining > 0
  THEN [s EXCEPT !.term.remaining = @ - 1, !.term.events = @ + 1]
  ELSE SentLast(s)

(* sendNextMessage: the limiter delays the message, or passes it on at     *)
(* once.                                                                   *)
SendNext(s, sizes, atOnce) ==
  LET tr == <<Source, s.net.sent[Source]>>
      m == [src |-> Source, id |-> s.net.sent[Source], dest |-> Destination, sizes |-> sizes,
            tr |-> tr, data |-> "stream"]
      sent == [s EXCEPT !.net = Sent(@, m), !.app.transactions = @ \cup {tr}]
  IN IF atOnce THEN [EnteredAtOnce(sent) EXCEPT !.net = Enter(@, m)]
     ELSE [sent EXCEPT !.net = Delay(@, m)]

(* The enter notifier passes message m on after the source has heard of    *)
(* it: the next message may overtake it in that call.                      *)
EnteredLate(s, m, sizes, atOnce) ==
  LET told == IF s.term.remaining > 0
              THEN SendNext([s EXCEPT !.term.remaining = @ - 1], sizes, atOnce)
              ELSE SentLast(s)
  IN [told EXCEPT !.net = Enter(@, m)]

Becomes(s) == app' = s.app /\ term' = s.term /\ net' = s.net

(* StreamTerminal::processEvent.                                           *)
SendEvent ==
  /\ term.events > 0
  /\ \E sizes \in Sizes, atOnce \in BOOLEAN :
       Becomes(SendNext([Now EXCEPT !.term.events = @ - 1], sizes, atOnce))

(* InjectionLimiter::processEvent.                                         *)
Undelayed ==
  \E m \in net.limiter, sizes \in Sizes, atOnce \in BOOLEAN :
    Becomes(EnteredLate([Now EXCEPT !.net = Undelay(@, m)], m, sizes, atOnce))

Injected ==
  /\ \E m \in net.pending : \E vcs \in VcChoices(m) : net' = Inject(net, m, vcs)
  /\ UNCHANGED <<app, term>>

Launched ==
  /\ \E t \in Terminals, vc \in Vcs :
       net.queue[t][vc] # <<>> /\ net' = Launch(net, t, vc)
  /\ UNCHANGED <<app, term>>

(* StreamTerminal::handleMessage, with Application::receivedFirst.         *)
Handled(s, m) ==
  [s EXCEPT !.app.transactions = @ \ {m.tr},
            !.app.monitoring = IF s.term.recvd = 0 /\ s.app.doMonitoring THEN "on" ELSE @,
            !.term.recvd = @ + 1]

(* Interface::receiveFlit, up to the terminal when a message is complete.  *)
Arrived ==
  \E p \in net.flight : \E vc \in ArrivalVcs(net, p) :
    LET n == ReceiveFlit(net, p, vc)
    IN IF ~Complete(n, p.msg) THEN net' = n /\ UNCHANGED <<app, term>>
       ELSE Becomes(Handled([Now EXCEPT !.net = HandOver(n, p.msg)], p.msg))

StreamNext == SendEvent \/ Undelayed \/ Injected \/ Launched \/ Arrived

-----------------------------------------------------------------------------
(* The source always has exactly one message ahead of the interface until  *)
(* the last one has entered, every message has an open transaction until   *)
(* it is handled, and NumMessages are sent in all.                         *)
StreamOfMessages ==
  LET ahead == term.events + Cardinality(net.limiter)
  IN /\ app.transactions = {m.tr : m \in UnderWay(net)}
     /\ term.recvd + Cardinality(UnderWay(net)) = net.sent[Source]
     /\ ahead <= 1 /\ (term.remaining > 0 => ahead = 1)
     /\ net.sent[Source] + term.events + term.remaining = NumMessages

(* Monitoring starts with the first message that is received and ends when *)
(* the last is sent; if the last is sent before the first is received it   *)
(* never starts (Simulator asserts that start and end alternate).          *)
StreamMonitored ==
  LET allSent == term.events = 0 /\ net.limiter = {}
  IN /\ app.monitoring = "on" => term.recvd > 0 /\ ~allSent
     /\ app.monitoring = "ended" => allSent /\ app.doMonitoring
     /\ app.monitoring = "no" /\ allSent => ~app.doMonitoring
     /\ term.recvd > 0 => (app.monitoring = "no" <=> ~app.doMonitoring)

StreamDone == term.recvd = NumMessages /\ term.events = 0
===========================================================================
