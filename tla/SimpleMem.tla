----------------------------- MODULE SimpleMem -----------------------------
(***************************************************************************)
(* application/simplemem: processors that read and write blocks of a       *)
(* memory which is spread over memory terminals, one access at a time.     *)
(***************************************************************************)
EXTENDS Interface

CONSTANTS Processors, Memories,   \* the odd and the even terminals
          MemoryAccesses,         \* memory_accesses of every processor
          RequestSizes,           \* packets of a request and of a response: the
          ReadSizes, WriteSizes   \*   division of the byte counts, never empty here

VARIABLES app,    \* [monitoring, remaining, transactions] of the application
          term,   \* term[t]: a terminal's own state
          net     \* all between the terminals

memVars == <<app, term, net>>

MemInit ==
  /\ app = [monitoring |-> "no", remaining |-> Cardinality(Processors), transactions |-> {}]
  /\ term = [t \in Terminals |->
               IF t \in Processors
               THEN [fsm |-> "processing", remaining |-> MemoryAccesses, created |-> 0]
               ELSE [fsm |-> "waiting", messages |-> <<>>]]
  /\ net = NetworkInit

(* The event of the application at time 0; all others come later.          *)
Start ==
  /\ app.monitoring = "no"
  /\ app' = [app EXCEPT !.monitoring = "on"]
  /\ UNCHANGED <<term, net>>

(* A message goes to the injection limiter, and on to the interface.       *)
SendOff(n, m) == \E atOnce \in BOOLEAN : net' = IF atOnce THEN Enter(n, m) ELSE Delay(n, m)

(* ProcessorTerminal::startNextMemoryAccess.                               *)
Access(t) ==
  /\ term[t].fsm = "processing" /\ app.monitoring # "no"
  /\ \E op \in {"read", "write"}, memory \in Memories :
       LET tr == <<t, term[t].created>>
           m == [src |-> t, id |-> net.sent[t], dest |-> memory, sizes |-> RequestSizes,
                 tr |-> tr, data |-> op]
       IN /\ SendOff(Sent(net, m), m)
          /\ app' = [app EXCEPT !.transactions = @ \cup {tr}]
          /\ term' = [term EXCEPT ![t].fsm = op, ![t].created = @ + 1]

(* MemoryTerminal::sendMemoryResponse.                                     *)
Respond(t) ==
  /\ term[t].fsm = "accessing"
  /\ LET request == Head(term[t].messages)
         m == [src |-> t, id |-> net.sent[t], dest |-> request.src,
               sizes |-> IF request.data = "read" THEN ReadSizes ELSE WriteSizes,
               tr |-> request.tr, data |-> request.data]
     IN SendOff(Sent(net, m), m)
  /\ term' = [term EXCEPT ![t].messages = Tail(@),
                          ![t].fsm = IF Tail(term[t].messages) # <<>> THEN "accessing"
                                     ELSE "waiting"]
  /\ UNCHANGED app

(* Mutant: an access under way does not keep a request from starting one.  *)
MemoryHandlesLate(t, m) ==
  /\ term' = [term EXCEPT ![t].messages = Append(@, m),
                          ![t].fsm = IF term[t].messages = <<>> THEN "accessing" ELSE "waiting"]
  /\ UNCHANGED app

(* MemoryTerminal::handleMessage.                                          *)
MemoryHandles(t, m) ==
  /\ term' = [term EXCEPT ![t].messages = Append(@, m), ![t].fsm = "accessing"]
  /\ UNCHANGED app

(* ProcessorTerminal::handleMessage, with Application::processorComplete   *)
(* after the last access.                                                  *)
ProcessorHandles(t, m) ==
  LET left == term[t].remaining - 1
      app1 == [app EXCEPT !.transactions = @ \ {m.tr}]
  IN /\ term' = [term EXCEPT ![t].remaining = left,
                             ![t].fsm = IF left > 0 THEN "processing" ELSE @]
     /\ app' = IF left > 0 THEN app1
               ELSE [app1 EXCEPT !.remaining = @ - 1,
                                 !.monitoring = IF app.remaining = 1 THEN "ended" ELSE @]

(* InjectionLimiter::processEvent.                                         *)
Undelayed ==
  /\ \E m \in net.limiter : net' = Enter(Undelay(net, m), m)
  /\ UNCHANGED <<app, term>>

Injected ==
  /\ \E m \in net.pending : \E vcs \in VcChoices(m) : net' = Inject(net, m, vcs)
  /\ UNCHANGED <<app, term>>

Launched ==
  /\ \E t \in Terminals, vc \in Vcs :
       net.queue[t][vc] # <<>> /\ net' = Launch(net, t, vc)
  /\ UNCHANGED <<app, term>>

(* Interface::receiveFlit, up to the terminal when a message is complete.  *)
Arrived ==
  \E p \in net.flight : \E vc \in ArrivalVcs(net, p) :
    LET n == ReceiveFlit(net, p, vc)
        t == p.msg.dest
    IN IF ~Complete(n, p.msg) THEN net' = n /\ UNCHANGED <<app, term>>
       ELSE /\ net' = HandOver(n, p.msg)
            /\ IF t \in Processors THEN ProcessorHandles(t, p.msg) ELSE MemoryHandles(t, p.msg)

MemNext ==
  \/ Start \/ Undelayed \/ Injected \/ Launched \/ Arrived
  \/ \E t \in Processors : Access(t)
  \/ \E t \in Memories : Respond(t)

-----------------------------------------------------------------------------
(* A processor that waits has one open transaction, and of it one message  *)
(* exists, a request or a response of the kind it waits for: no access is  *)
(* lost, answered twice or answered with the wrong kind (the terminals     *)
(* assert it).                                                             *)
Requests == UNION {{term[t].messages[i] : i \in DOMAIN term[t].messages} : t \in Memories}

OneAnswerEach ==
  /\ \A t \in Processors :
       LET own == {m \in UnderWay(net) \cup Requests : m.tr[1] = t}
           waits == term[t].fsm # "processing" /\ term[t].remaining > 0
       IN /\ Cardinality(own) = IF waits THEN 1 ELSE 0
          /\ \A m \in own : m.data = term[t].fsm /\ m.tr \in app.transactions
  /\ Cardinality(app.transactions) =
       Cardinality({t \in Processors : term[t].fsm # "processing" /\ term[t].remaining > 0})
  /\ \A t \in Memories : term[t].fsm = "waiting" <=> term[t].messages = <<>>

(* Monitoring covers the accesses: it ends with the last of them.          *)
MemoryMonitored ==
  (app.monitoring = "ended") <=> (\A t \in Processors : term[t].remaining = 0)

MemoryDone == app.monitoring = "ended" /\ \A t \in Processors : term[t].remaining = 0
===========================================================================
