----------------------------- MODULE Interface -----------------------------
(***************************************************************************)
(* interface/standard and what lies between a terminal and its interface   *)
(* (application/Terminal, Messenger, InjectionLimiter, the notifiers): a   *)
(* message is cut into packets, each packet goes out on a VC, and at the   *)
(* other end packets are put together from flits and messages from         *)
(* packets.                                                                *)
(*                                                                         *)
(* A message is [src, id, dest, sizes, tr, data]: sizes[k] is the number   *)
(* of flits of packet k, tr the transaction.  The network in between is    *)
(* any that keeps the flits of a packet in order and, on one VC of one     *)
(* ejection channel, one packet at a time, as the router modules show; it  *)
(* may reorder packets.                                                    *)
(***************************************************************************)
EXTENDS Integers, Sequences, FiniteSets

CONSTANTS Terminals, Vcs,
          FixedMsgVc       \* fixed_msg_vc: all packets of a message on one VC

(* The state n of all of it:                                               *)
(*   n.sent[t]         messagesSent_                                       *)
(*   n.outstanding[t]  outstandingMessages_, by message id                 *)
(*   n.limiter         the messages that wait in an injection limiter      *)
(*   n.pending         those that wait for the injection algorithm         *)
(*   n.queue[t][vc]    packets [msg, number] to be sent on a VC            *)
(*   n.flight          packets [msg, number, got, vc] in the network: the  *)
(*                       flits that have arrived, and on which VC          *)
(*   n.expected[t][vc] expSourceId_, expPacketId_ and expFlitId_ of the    *)
(*                       packet reassembler, or Nothing                    *)
(*   n.received[t]     <<source, message id, packet number>>: the table of *)
(*                       the message reassembler                           *)
Nothing == <<>>

NetworkInit ==
  [sent |-> [t \in Terminals |-> 0], outstanding |-> [t \in Terminals |-> {}],
   limiter |-> {}, pending |-> {},
   queue |-> [t \in Terminals |-> [vc \in Vcs |-> <<>>]], flight |-> {},
   expected |-> [t \in Terminals |-> [vc \in Vcs |-> Nothing]],
   received |-> [t \in Terminals |-> {}]]

(* Terminal::sendMessage, but for passing the message on.                  *)
Sent(n, m) == [n EXCEPT !.sent[m.src] = @ + 1, !.outstanding[m.src] = @ \cup {m.id}]

(* The injection limiter passes a message on at once or delays it, as its  *)
(* rate and the time of the message before have it; at an infinite rate    *)
(* messages may overtake each other there.                                 *)
Delay(n, m) == [n EXCEPT !.limiter = @ \cup {m}]
Undelay(n, m) == [n EXCEPT !.limiter = @ \ {m}]

(* Interface::receiveMessage.                                              *)
Enter(n, m) == [n EXCEPT !.pending = @ \cup {m}]

(* Interface::injectionAlgorithmResponse: packet k goes into the queue of  *)
(* VC vcs[k].                                                              *)
VcChoices(m) ==
  {vcs \in [1..Len(m.sizes) -> Vcs] :
     FixedMsgVc => \A k \in 1..Len(m.sizes) : vcs[k] = vcs[1]}

PacketsOn(m, vcs, vc) ==
  SelectSeq([k \in 1..Len(m.sizes) |-> [msg |-> m, number |-> k]],
            LAMBDA p : vcs[p.number] = vc)

Inject(n, m, vcs) ==
  [n EXCEPT !.pending = @ \ {m},
            !.queue[m.src] = [vc \in Vcs |-> @[vc] \o PacketsOn(m, vcs, vc)]]

(* InputQueue, crossbar scheduler and crossbar: the packet in front goes   *)
(* into the network, in the end all its flits.                             *)
Launch(n, t, vc) ==
  LET p == Head(n.queue[t][vc])
  IN [n EXCEPT !.queue[t][vc] = Tail(@),
               !.flight = @ \cup {[msg |-> p.msg, number |-> p.number, got |-> 0, vc |-> 0]}]

(* The VCs on which the next flit of a packet in the network may arrive.   *)
ArrivalVcs(n, p) ==
  IF p.got > 0 THEN {p.vc}
  ELSE {vc \in Vcs : \A q \in n.flight : q.got > 0 /\ q.msg.dest = p.msg.dest => q.vc # vc}

(* Mutant: the reassembler keeps what it expects after the last flit.      *)
ReceiveFlitUncleared(n, p, vc) ==
  [n EXCEPT !.flight = (@ \ {p}) \cup IF p.got + 1 = p.msg.sizes[p.number] THEN {}
                                       ELSE {[p EXCEPT !.got = @ + 1, !.vc = vc]},
            !.expected[p.msg.dest][vc] = <<p.msg.src, p.number, p.got + 1>>,
            !.received[p.msg.dest] =
               IF p.got + 1 = p.msg.sizes[p.number]
               THEN @ \cup {<<p.msg.src, p.msg.id, p.number>>} ELSE @]

(* PacketReassembler::receiveFlit, and of MessageReassembler::             *)
(* receivePacket the entry in the table.                                   *)
ReceiveFlit(n, p, vc) ==
  LET last == p.got + 1 = p.msg.sizes[p.number]
      rest == IF last THEN {} ELSE {[p EXCEPT !.got = @ + 1, !.vc = vc]}
  IN [n EXCEPT !.flight = (@ \ {p}) \cup rest,
               !.expected[p.msg.dest][vc] =
                 IF last THEN Nothing ELSE <<p.msg.src, p.number, p.got + 1>>,
               !.received[p.msg.dest] =
                 IF last THEN @ \cup {<<p.msg.src, p.msg.id, p.number>>} ELSE @]

PacketsReceived(n, m) == {e \in n.received[m.dest] : e[1] = m.src /\ e[2] = m.id}

(* All packets of a message have been received.                            *)
Complete(n, m) == Cardinality(PacketsReceived(n, m)) = Len(m.sizes)

(* The message leaves the table; the exit notifier tells the terminal that *)
(* sent it.                                                                *)
HandOver(n, m) ==
  [n EXCEPT !.received[m.dest] = @ \ PacketsReceived(n, m),
            !.outstanding[m.src] = @ \ {m.id}]

-----------------------------------------------------------------------------
QueuedPackets(n) ==
  UNION {{n.queue[t][vc][i] : i \in DOMAIN n.queue[t][vc]} : t \in Terminals, vc \in Vcs}

(* The messages on their way.                                              *)
UnderWay(n) == n.limiter \cup n.pending \cup {p.msg : p \in QueuedPackets(n)}
                 \cup {p.msg : p \in n.flight}

(* What the packet reassemblers assert: the flit that arrives is the one   *)
(* that is expected.                                                       *)
FlitsAsExpected(n) ==
  \A p \in n.flight : \A vc \in ArrivalVcs(n, p) :
    n.expected[p.msg.dest][vc] =
      IF p.got = 0 THEN Nothing ELSE <<p.msg.src, p.number, p.got>>

(* No packet is lost or seen twice: of a message that is in the network    *)
(* each packet is in one place, and the table has no other messages.  Each *)
(* terminal holds as outstanding the messages of its that are on the way   *)
(* (messageExitedNetwork asserts it).                                      *)
PacketsAccountedFor(n) ==
  /\ \A m \in UnderWay(n) \ (n.limiter \cup n.pending) : \A k \in 1..Len(m.sizes) :
       Cardinality({p \in QueuedPackets(n) : p.msg = m /\ p.number = k})
         + Cardinality({p \in n.flight : p.msg = m /\ p.number = k})
         + Cardinality({e \in PacketsReceived(n, m) : e[3] = k}) = 1
  /\ \A t \in Terminals : \A e \in n.received[t] :
       \E m \in UnderWay(n) : <<m.src, m.id>> = <<e[1], e[2]>> /\ m.dest = t
  /\ \A t \in Terminals : n.outstanding[t] = {m.id : m \in {m \in UnderWay(n) : m.src = t}}
===========================================================================
