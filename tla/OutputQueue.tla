---------------------------- MODULE OutputQueue ----------------------------
(***************************************************************************)
(* router/inputoutputqueued/OutputQueue: the queue of one output VC of an  *)
(* input-output-queued router, between the main crossbar and the output    *)
(* crossbar of its port.  A buffer, whose slots are the credits of the     *)
(* main crossbar scheduler, and one switch allocation stage (swa).  As in  *)
(* InputQueue, one operator per stage of processPipeline.                  *)
(***************************************************************************)
EXTENDS Naturals, Sequences

CONSTANT None    \* no flit

EmptyQueue == [buffer |-> <<>>, fsm |-> "empty", flit |-> None]

(* receiveFlit(), from the main crossbar.                                  *)
Received(q, f) == [q EXCEPT !.buffer = Append(@, f)]

(* Mutants of the next one: a denied stage asks no more, or goes ahead.    *)
ResponseNoRetry(q, granted) == IF granted THEN [q EXCEPT !.fsm = "ready"] ELSE q
ResponseTakenForGrant(q, granted) == [q EXCEPT !.fsm = "ready"]

(* crossbarSchedulerResponse().                                            *)
Response(q, granted) ==
  [q EXCEPT !.fsm = IF granted THEN "ready" ELSE "toRequest"]

(* The output crossbar takes the flit of a granted stage.                  *)
InjectReady(q) == q.fsm = "ready"
AfterInject(q) == IF InjectReady(q) THEN [q EXCEPT !.fsm = "empty", !.flit = None] ELSE q

(* Mutants: the stage may be loaded over a flit that waits; the front flit *)
(* is not taken out of the buffer.                                         *)
LoadsAnytime(q) == q.buffer # <<>>
AfterLoadCopied(q) ==
  IF q.fsm = "empty" /\ q.buffer # <<>>
  THEN [q EXCEPT !.fsm = "toRequest", !.flit = Head(q.buffer)]
  ELSE q

(* The front of the buffer moves to swa, and its slot is free again.       *)
Loads(q) == q.fsm = "empty" /\ q.buffer # <<>>
AfterLoad(q) ==
  IF Loads(q)
  THEN [buffer |-> Tail(q.buffer), fsm |-> "toRequest", flit |-> Head(q.buffer)]
  ELSE q

Asks(q) == q.fsm = "toRequest"
AfterSubmit(q) == IF Asks(q) THEN [q EXCEPT !.fsm = "waiting"] ELSE q

(* The pipeline has to run again in the next cycle.                        *)
RunsAgain(q) == q.fsm = "toRequest" \/ q.buffer # <<>>

(* The flits in the queue, oldest first.                                   *)
Contents(q) == (IF q.flit = None THEN <<>> ELSE <<q.flit>>) \o q.buffer
=============================================================================
