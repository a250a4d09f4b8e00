--------------------------- MODULE MCApplications ---------------------------
(***************************************************************************)
(* The three applications.  The two small ones over the standard           *)
(* interface: two processors with two accesses each to two memories, where *)
(* the answer to a read has two packets; and a stream of three messages of *)
(* one or two packets.  The stress test with three terminals of which two  *)
(* have to be warmed up, so that one of each verdict decides nothing (but  *)
(* with a rounded threshold one saturated terminal does), and two          *)
(* attempts.  And the log they write, read by sslatency as it is built     *)
(* without assertions.                                                     *)
(***************************************************************************)
EXTENDS StressTest

VARIABLES workload,                     \* what is being run
          application, terminals, net   \* of the others than the stress test

Vcs == {1, 2}

Mem == INSTANCE SimpleMem WITH
  Terminals <- 0..3, FixedMsgVc <- FALSE, Processors <- {1, 3}, Memories <- {0, 2},
  MemoryAccesses <- 2, RequestSizes <- <<1>>, ReadSizes <- <<2, 1>>, WriteSizes <- <<1>>,
  app <- application, term <- terminals
Stream == INSTANCE SingleStream WITH
  Terminals <- 0..1, FixedMsgVc <- TRUE, Source <- 0, Destination <- 1,
  NumMessages <- 3, Sizes <- {<<1>>, <<2, 1>>},
  app <- application, term <- terminals

Times == {<<0, 1>>, <<0, 3>>, <<1, 2>>, <<2, 3>>}
Short == {<<<<f>>>> : f \in Times}
Long == {<<<<f, g>>, <<h>>>> : f, g, h \in Times}
Log == INSTANCE MessageLog WITH
  Logs <- (Short \X Long) \cup (Long \X Short), AssertsOn <- FALSE,
  messages <- net, lines <- terminals, reader <- application

(* The stress test does nothing while another workload is run.             *)
Idle == Init /\ ~app.killFast /\ ~app.roundedDown
MCInit == \/ workload = "simplemem" /\ Mem!MemInit /\ Idle
          \/ workload = "singlestream" /\ Stream!StreamInit /\ Idle
          \/ workload = "log" /\ Log!Init /\ Idle
          \/ /\ workload = "stresstest" /\ Init
             /\ application = "none" /\ terminals = "none" /\ net = {}

(* A step of the stress test, which keeps its messages in its terminals.   *)
StressStep(A) == /\ workload = "stresstest" /\ A
                 /\ UNCHANGED <<workload, application, terminals, net>>

MCNext == \/ workload = "simplemem" /\ Mem!MemNext /\ UNCHANGED <<workload, vars>>
          \/ workload = "singlestream" /\ Stream!StreamNext /\ UNCHANGED <<workload, vars>>
          \/ workload = "log" /\ Log!ReadLine /\ UNCHANGED <<workload, vars>>
          \/ StressStep(Next)

(* Events are run, and the network delivers what it is given, each message *)
(* in the end.                                                             *)
allVars == <<workload, application, terminals, net, vars>>
MCSpec ==
  /\ MCInit /\ [][MCNext]_allVars /\ WF_allVars(MCNext)
  /\ \A t \in Terminals :
       /\ WF_allVars(StressStep(SendEvent(t))) /\ WF_allVars(StressStep(LimiterEvent(t)))
       /\ \A logged \in BOOLEAN : WF_allVars(StressStep(Exit(t, logged)))

-----------------------------------------------------------------------------
(* The packet reassembler of a VC never sees a flit it does not expect,    *)
(* although packets of several sources, and several packets of a message   *)
(* on several VCs, are on their way to it; and no packet is lost or seen   *)
(* twice between two terminals.                                            *)
PacketsConserved ==
  /\ workload = "simplemem" => Mem!FlitsAsExpected(net) /\ Mem!PacketsAccountedFor(net)
  /\ workload = "singlestream" => Stream!FlitsAsExpected(net) /\ Stream!PacketsAccountedFor(net)

(* What each application keeps of its messages, and when it monitors.      *)
Answered ==
  /\ workload = "simplemem" => Mem!OneAnswerEach /\ Mem!MemoryMonitored
  /\ workload = "singlestream" => Stream!StreamOfMessages /\ Stream!StreamMonitored

(* The latencies that sslatency finds in a log are those of the messages.  *)
LatenciesExtracted == workload = "log" => Log!LatenciesExtracted

(* Every access is answered, every message of the stream is received, the  *)
(* stress test ends, the log is read.                                      *)
WorkloadEnds ==
  <>[](CASE workload = "simplemem" -> Mem!MemoryDone
         [] workload = "singlestream" -> Stream!StreamDone
         [] workload = "stresstest" -> Ended
         [] workload = "log" -> terminals = <<>>)
=============================================================================
