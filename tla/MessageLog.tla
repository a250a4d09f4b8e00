----------------------------- MODULE MessageLog -----------------------------
(***************************************************************************)
(* stats/MessageLog and the program sslatency, which reads what it wrote:  *)
(* the log that the applications write, line by line, and the latencies of *)
(* the messages and packets in it.  A message is the sequence of its       *)
(* packets, a packet that of its flits, a flit <<sent, received>>.         *)
(***************************************************************************)
EXTENDS Integers, Sequences, SequencesExt

CONSTANTS Logs,          \* the messages of a log, in the order they are logged
          AssertsOn      \* sslatency is built without NDEBUG

VARIABLES messages,      \* the messages that were logged
          lines,         \* what is left to read of the log
          reader         \* extractLatency's variables

Never == 1000            \* U64_MAX, later than any time here

Line(tag) == [tag |-> tag, flit |-> <<>>]

(* MessageLog::logMessage.                                                 *)
LogMessage(m) ==
  LET Flits(p) == [i \in DOMAIN p |-> [tag |-> "F", flit |-> p[i]]]
      Packet(p) == <<Line("+P")>> \o Flits(p) \o <<Line("-P")>>
  IN <<Line("+M")>> \o FlattenSeq([k \in DOMAIN m |-> Packet(m[k])]) \o <<Line("-M")>>

(* The transactions of the messages are started as they are sent and ended *)
(* as they are handled.                                                    *)
StartTransaction == Line("+T")
EndTransaction == Line("-T")
Written(ms) ==
  [i \in DOMAIN ms |-> StartTransaction]
    \o FlattenSeq([i \in DOMAIN ms |-> LogMessage(ms[i]) \o <<EndTransaction>>])

Init ==
  /\ messages \in Logs
  /\ lines = Written(messages)
  /\ reader = [inMsg |-> FALSE, msgStart |-> Never, msgEnd |-> 0, msgLatency |-> <<>>,
               inPkt |-> FALSE, pktStart |-> Never, pktEnd |-> 0, pktLatency |-> <<>>,
               failed |-> {}]

-----------------------------------------------------------------------------
(* One round of the loop of extractLatency: the assertion that fails at a  *)
(* line, if any, and what the line does.                                   *)
Expected(r, line) ==
  CASE line.tag = "+M" -> ~r.inMsg
    [] line.tag = "-M" -> r.inMsg /\ r.msgStart # Never /\ r.msgEnd # 0 /\ r.msgEnd >= r.msgStart
    [] line.tag = "+P" -> r.inMsg /\ ~r.inPkt
    [] line.tag = "-P" -> r.inMsg /\ r.inPkt /\ r.pktStart # Never /\ r.pktEnd # 0
                            /\ r.pktEnd >= r.pktStart
    [] line.tag = "F" -> r.inMsg /\ r.inPkt /\ line.flit[2] >= line.flit[1]
    [] OTHER -> FALSE

(* Mutant: a packet starts where the message did.                          *)
EnterPacketLate(r) == [r EXCEPT !.inPkt = TRUE, !.pktEnd = 0]

EnterPacket(r) == [r EXCEPT !.inPkt = TRUE, !.pktEnd = 0, !.pktStart = Never]

Earlier(a, b) == IF a < b THEN a ELSE b
Later(a, b) == IF a > b THEN a ELSE b

Understood(r, line) ==
  CASE line.tag = "+M" -> [r EXCEPT !.inMsg = TRUE, !.msgEnd = 0, !.msgStart = Never]
    [] line.tag = "-M" -> [r EXCEPT !.inMsg = FALSE,
                                    !.msgLatency = Append(@, r.msgEnd - r.msgStart)]
    [] line.tag = "+P" -> EnterPacket(r)
    [] line.tag = "-P" -> [r EXCEPT !.inPkt = FALSE,
                                    !.pktLatency = Append(@, r.pktEnd - r.pktStart)]
    [] line.tag = "F" -> [r EXCEPT !.msgStart = Earlier(@, line.flit[1]),
                                   !.pktStart = Earlier(@, line.flit[1]),
                                   !.msgEnd = Later(@, line.flit[2]),
                                   !.pktEnd = Later(@, line.flit[2])]
    [] OTHER -> r

ReadLine ==
  /\ lines # <<>>
  /\ AssertsOn => reader.failed = {}
  /\ lines' = Tail(lines)
  /\ LET line == Head(lines)
     IN reader' = IF Expected(reader, line) THEN Understood(reader, line)
                  ELSE [Understood(reader, line) EXCEPT !.failed = @ \cup {line.tag}]
  /\ UNCHANGED messages

-----------------------------------------------------------------------------
Latency(flits) ==
  CHOOSE l \in 0..Never :
    \E first, last \in flits :
      /\ \A f \in flits : first[1] <= f[1] /\ f[2] <= last[2]
      /\ l = last[2] - first[1]
FlitsOf(m) == UNION {ToSet(m[k]) : k \in DOMAIN m}

(* Built with NDEBUG, sslatency finds for every message and every packet   *)
(* the time from its first flit's departure to its last flit's arrival,    *)
(* and trips over nothing but the lines of the transactions.               *)
LatenciesExtracted ==
  /\ reader.failed \subseteq {"+T", "-T"}
  /\ lines = <<>> =>
       /\ ~reader.inMsg /\ ~reader.inPkt
       /\ reader.msgLatency = [i \in DOMAIN messages |-> Latency(FlitsOf(messages[i]))]
       /\ reader.pktLatency =
            FlattenSeq([i \in DOMAIN messages |->
              [k \in DOMAIN messages[i] |-> Latency(ToSet(messages[i][k]))]])

(* assert(false) on any other line: the log has only lines that sslatency  *)
(* knows.                                                                  *)
LogUnderstood == reader.failed = {}
=============================================================================
