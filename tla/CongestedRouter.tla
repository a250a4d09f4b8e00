--------------------------- MODULE CongestedRouter ---------------------------
(***************************************************************************)
(* router/inputqueued/Router with its congestion status: sendFlit and      *)
(* receiveCredit tell it about every flit and credit.  As a channel has a  *)
(* latency, the credit of a flit comes back in a later cycle.              *)
(***************************************************************************)
EXTENDS IqRouter

CONSTANT CongestionLatency

VARIABLE congestion

congestedVars == <<vars, congestion>>

CS == INSTANCE CongestionStatus
        WITH StatusVcs <- Vcs, Maximum <- DownDepth, Latency <- CongestionLatency

CongestedInit == Init /\ congestion = CS!StatusInit

(* Router::sendFlit.                                                       *)
SendFlits ==
  /\ CrossbarEvent
  /\ congestion' = CS!Decrement(congestion, {v \in Vcs : down'[v] # down[v]})

SentThisCycle(v) == congestion.events[CongestionLatency].decr[v]

(* Router::receiveCredit.                                                  *)
ReceiveCredit(p) ==
  /\ CreditArrives(p)
  /\ \A v \in Vcs : down'[v] # down[v] => down[v] > SentThisCycle(v)
  /\ congestion' = CS!Increment(congestion, {v \in Vcs : down'[v] # down[v]})

TickCongested == Tick /\ congestion' = CS!Elapsed(congestion)

Quiet == UNCHANGED congestion

(* What the engine runs by itself; and what the neighbours do.             *)
EngineStep ==
  \/ VcSchedulerEvent /\ Quiet
  \/ CrossbarSchedulerEvent /\ Quiet
  \/ SendFlits
  \/ TickCongested
  \/ \E c \in Clients : (RoutingResponse(c) \/ PipelineEvent(c)) /\ Quiet

NeighbourStep ==
  \/ \E c \in Clients : FlitArrives(c) /\ Quiet
  \/ \E p \in Ports : ReceiveCredit(p)

-----------------------------------------------------------------------------
(* The counts that routing reads are late but never wrong: no order of a   *)
(* cycle's events takes them out of range, and with all that is on the way *)
(* they are the free slots downstream, but for the flits in the crossbar.  *)
CountsFollow ==
  /\ CS!StaysInRange(congestion)
  /\ \A v \in Vcs : CS!InTheEnd(congestion, v) = DownDepth - down[v]
=============================================================================
