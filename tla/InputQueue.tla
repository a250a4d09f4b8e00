---------------------------- MODULE InputQueue ----------------------------
(***************************************************************************)
(* router/inputqueued/InputQueue: the three-stage pipeline of one input    *)
(* VC.  Flits wait in a buffer; the routing stage (rfe) gets the output    *)
(* VCs a packet may take, the VC allocation stage (vca) gets one of them,  *)
(* the switch allocation stage (swa) gets the crossbar.  One event runs    *)
(* all the stages, last to first, so that a flit advances at most one      *)
(* stage per event.  Each operator below is one stage of processPipeline   *)
(* as a function of the pipeline's state; the calls a stage makes on other *)
(* components are made by the router that composes them.                   *)
(***************************************************************************)
EXTENDS Naturals, Sequences

CONSTANTS None,            \* no flit, no VC
          VcaSwaWait,      \* vca_swa_wait: ask for a VC only with swa empty
          RoutingLatency   \* cycles until the routing algorithm responds

(* A flit: the packet n of an input VC c, and its place in the packet.     *)
FlitOf(c, n, k, size) == [client |-> c, packet |-> n, index |-> k, size |-> size]
IsHead(f) == f.index = 1
IsTail(f) == f.index = f.size

EmptyRfe == [fsm |-> "empty", flit |-> None, route |-> {}, wait |-> 0]
EmptySwa == [fsm |-> "empty", flit |-> None, vc |-> None]
EmptyQueue == [buffer |-> <<>>,
               rfe |-> EmptyRfe,
               vca |-> [fsm |-> "empty", flit |-> None, route |-> {}, vc |-> None],
               swa |-> EmptySwa]

(* The crossbar takes the flit of a granted swa stage.                     *)
InjectReady(q) == q.swa.fsm = "ready"
AfterInject(q) == IF InjectReady(q) THEN [q EXCEPT !.swa = EmptySwa] ELSE q

(* Mutant: the VC stays with vca after the tail.                           *)
AfterLoadSwaKeptVc(q) ==
  IF q.swa.fsm = "empty" /\ q.vca.fsm = "ready"
  THEN [q EXCEPT !.swa = [fsm |-> "toRequest", flit |-> q.vca.flit, vc |-> q.vca.vc],
                 !.vca = [fsm |-> "empty", flit |-> None, route |-> {}, vc |-> q.vca.vc]]
  ELSE q
(* vca moves to swa; the VC stays with vca until the tail has passed.      *)
AfterLoadSwa(q) ==
  IF q.swa.fsm = "empty" /\ q.vca.fsm = "ready"
  THEN [q EXCEPT !.swa = [fsm |-> "toRequest", flit |-> q.vca.flit, vc |-> q.vca.vc],
                 !.vca = [fsm |-> "empty", flit |-> None, route |-> {},
                          vc |-> IF IsTail(q.vca.flit) THEN None ELSE q.vca.vc]]
  ELSE q

SwaAsks(q) == q.swa.fsm = "toRequest"
AfterSubmitSwa(q) == IF SwaAsks(q) THEN [q EXCEPT !.swa.fsm = "waiting"] ELSE q

(* rfe moves to vca; body flits use the VC of their head.                  *)
AfterLoadVca(q) ==
  IF q.vca.fsm = "empty" /\ q.rfe.fsm = "ready"
  THEN [q EXCEPT !.vca = [fsm |-> IF IsHead(q.rfe.flit) THEN "toRequest" ELSE "ready",
                          flit |-> q.rfe.flit, route |-> q.rfe.route, vc |-> q.vca.vc],
                 !.rfe = EmptyRfe]
  ELSE q

VcaAsks(q) == q.vca.fsm = "toRequest" /\ (q.swa.fsm = "empty" \/ ~VcaSwaWait)
AfterSubmitVca(q) == IF VcaAsks(q) THEN [q EXCEPT !.vca.fsm = "waiting"] ELSE q

(* The front of the buffer moves to rfe, and its slot is free again.       *)
PullsFlit(q) == q.rfe.fsm = "empty" /\ q.buffer # <<>>
AfterLoadRfe(q) ==
  IF PullsFlit(q)
  THEN [q EXCEPT !.rfe = [EmptyRfe EXCEPT !.fsm = "toRequest", !.flit = Head(q.buffer)],
                 !.buffer = Tail(@)]
  ELSE q

(* A head flit asks for a route, a body flit needs none.                   *)
AfterSubmitRfe(q) ==
  IF q.rfe.fsm = "toRequest"
  THEN IF IsHead(q.rfe.flit)
       THEN [q EXCEPT !.rfe.fsm = "waiting", !.rfe.wait = RoutingLatency]
       ELSE [q EXCEPT !.rfe.fsm = "ready"]
  ELSE q

(* Mutant: a flit that is ready in rfe is forgotten.                       *)
RunsAgainNoRfe(q) == q.vca.fsm = "ready" \/ q.buffer # <<>>

(* The pipeline has to run again in the next cycle.                        *)
RunsAgain(q) == \/ q.vca.fsm = "ready"
                \/ q.rfe.fsm = "ready"
                \/ q.buffer # <<>>

-----------------------------------------------------------------------------
(* The responses.                                                          *)

RouteResponse(q, route) ==
  [q EXCEPT !.rfe.fsm = "ready", !.rfe.route = route]

(* Mutant: a denied request is not made again.                             *)
VcResponseNoRetry(q, granted) ==
  IF granted = None THEN q ELSE [q EXCEPT !.vca.fsm = "ready", !.vca.vc = granted]

VcResponse(q, granted) ==
  IF granted = None THEN [q EXCEPT !.vca.fsm = "toRequest"]
                    ELSE [q EXCEPT !.vca.fsm = "ready", !.vca.vc = granted]

XbarResponse(q, granted) ==
  [q EXCEPT !.swa.fsm = IF granted THEN "ready" ELSE "toRequest"]

(* The flits in the queue, oldest first.                                   *)
InStage(s) == IF s.flit = None THEN <<>> ELSE <<s.flit>>
Contents(q) == InStage(q.swa) \o InStage(q.vca) \o InStage(q.rfe) \o q.buffer

(* The VCs the queue holds.                                                *)
HeldVcs(q) == {q.vca.vc, q.swa.vc} \ {None}
=============================================================================
