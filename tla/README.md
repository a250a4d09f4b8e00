# Verification of SuperSim and its tools

SuperSim (`src/supersim/`) is a cycle-accurate simulator of interconnection
networks: routers, channels and network interfaces exchange flits under
credit-based flow control, driven by a single-threaded discrete event engine.
Its concurrency is that of the hardware it simulates: hundreds of components
schedule events for the same instant, and the order in which the engine runs
them must not matter. Around it are programs that search for the shape of a
network before it is simulated (`hyperxsearch/`, `libtopos/`) and that read the
simulator's logs afterwards (`sslatency/`). This directory models that
machinery in TLA+, checks it with TLC on small instances and proves its core
with TLAPS: the event engine, the allocators, the two schedulers of a router,
the whole input-queued and input-output-queued routers around them, and the
stress test.

Contents: [1 The system](#1-the-system) - [2 The modules](#2-the-modules-and-the-code) -
[3 The runs](#3-the-runs) - [4 Fairness](#4-fairness) - [5 The proofs](#5-the-proofs) -
[6 Findings](#6-where-code-and-text-disagree) - [7 Not modelled](#7-what-is-not-modelled) -
[8 Plan](#8-plan)

Paths below are relative to `src/supersim/src/` unless they name another program.

## 1 The system

| component | state | operations | talks to | what makes it correct |
|---|---|---|---|---|
| event engine (`event/`) | clock `<<time, epsilon>>`, priority queue, `quit_`, `initial_` | `addEvent`, `simulate`, `runNextEvent` | every component (`processEvent`) | each event runs once, at its own instant, in order; the run ends |
| VC scheduler (`router/common/VcScheduler`) | `vcTaken_`, `requests_`, `clientRequested_`, `allocEventSet_` | `request`, `releaseVc`, `processEvent` | input queues, an allocator | a VC has one owner; every request is answered; no VC leaks |
| crossbar scheduler (`router/common/CrossbarScheduler`) | requests, `credits_`, `incrCredits_`, `portLocks_`, `eventAction_` | `request`, `incrementCreditCount`, `decrementCreditCount`, `processEvent` | input queues, the neighbour's credits, an allocator | credits are conserved; a grant is backed by a credit; a port is given out once a cycle; nobody waits for ever |
| allocators, arbiters, metadata (`allocator/`, `arbiter/`, `metadata/`) | arbiter priorities, the age of a packet | `allocate`, `arbitrate`, `latch` | the schedulers | grants answer requests and are disjoint; nobody starves |
| input queue (`router/inputqueued/InputQueue`) | flit buffer, pipeline stages rfe, vca, swa | `receiveFlit`, the three responses, `processPipeline` | routing algorithm, both schedulers, crossbar, upstream credits | flits stay in order; a packet keeps its VC; no wake-up is lost |
| crossbar, ejector (`router/common/Crossbar`, `Ejector`) | maps in flight | `inject`, `processEvent` | input queues, output channels | one flit per port and cycle |
| channel (`network/Channel`) | the next flit, the next credit | `setNextFlit`, `setNextCredit`, `processEvent` | two routers or a router and an interface | one flit and one credit message per cycle |
| output queue (`router/inputoutputqueued/`) | buffer, swa stage, its own crossbar scheduler | `receiveFlit`, `crossbarSchedulerResponse`, `processPipeline` | main crossbar, output crossbar | credits of two schedulers agree with the buffers |
| congestion status (`router/common/congestion/`) | delayed counts of credits | `incrementCredit`, `decrementCredit`, `status` | routers, adaptive routing | the counts are late but never wrong |
| networks (`network/*/Network.cc`, `cube/util.cc`) | wiring, addresses | constructors | routers, interfaces, channels | an address reaches its terminal |
| routing (`network/*/*RoutingAlgorithm.cc`) | what a packet remembers of its detours | `request`, `processRequest` | input queues | there is always a port and a VC; packets never wait in a circle |
| traffic patterns (`traffic/`) | the next destination of a scan | `nextDestination` | terminals | terminals are loaded alike, or as the pattern means to |
| interface (`interface/standard/`) | packets to be injected, reassemblers | `receiveMessage`, `receiveFlit` | terminals, a router | whole packets and messages come out |
| stress test (`application/stresstest/`, `InjectionLimiter`) | counts of warmed, saturated, completed terminals; per terminal the detector, the logging and sending switches, the messages under way | `sendNextMessage`, `messageEnteredInterface`, `messageExitedNetwork`, `terminalWarmed`, `terminalSaturated`, `terminalComplete` | interfaces, all terminals | a terminal sends one message after the other; all are in the same phase; the test ends |
| memory and stream applications (`application/simplemem/`, `singlestream/`) | phases, open transactions, queued requests | requests, responses, messages of a stream | interfaces | every access is answered once; monitoring covers them |
| message log (`stats/MessageLog`), `sslatency/` | the lines; the reader's flags and extremes | one call per message, packet, flit and transaction; one line read | applications | the latencies read are those of the messages |
| topology searches (`hyperxsearch/`, `libtopos/`) | dimensions, concentration, widths, weights, the best so far | nested stages `stage1` .. `stage4` | a cost function | the cheapest shapes within the bounds are found |

How they interact. Within one cycle the engine runs three waves, told apart by
the epsilon of the event:

* epsilon 0: both schedulers answer the requests of the last cycle
  (`vcSchedulerResponse`, `crossbarSchedulerResponse`) and the routing
  algorithm answers (`routingAlgorithmResponse`);
* epsilon 1: the crossbar delivers to the ejectors, and channels deliver flits
  (`receiveFlit`) and credits (`receiveCredit`); both tell the congestion
  status, which counts them later;
* epsilon 2: the pipelines of the input queues run, inject into the crossbar,
  take and release VCs, consume credits and make new requests.

Events of one epsilon run in an order that depends on the layout of a heap.
A response or a flit wakes a pipeline through `setPipelineEvent`, which does
nothing when an event is already set.

A message is passed on by calls: terminal, injection limiter (which may hold it
for a while), enter notifier (which calls back into the terminal), interface,
and at the other end reassemblers, exit notifier, terminal. Packets hold a VC of
every channel they are crossing and ask for the next one.

What is hard here, and where a test would hardly reach (`PROJECT.json` lists
each hazard at its line): the queue that is popped only after the handler has
pushed new events; wake-ups that are dropped on purpose; a shared event whose
action is upgraded by whoever comes first; credits counted in two places; body
flits that are granted without a credit check, because of a check made for
their head many cycles before; locks that mask other requests; a VC that must
outlive the flits of its packet in two stages at once; priorities of two layers
of arbiters that move independently; counts that are applied a few cycles late;
VC sets that must grow along every route; callbacks that create the next
message inside the call that passes on the last; verdicts of one terminal that
switch all others in the middle of its handler; counters of several digits that
must neither skip a value nor run out of their vector.

## 2 The modules and the code

The router:

| module | models | state and actions |
|---|---|---|
| `EventQueue` | `event/Simulator`, `event/VectorQueue` | `queue`, `when`, `ran` and the clock. `RunNextEvent` is `runNextEvent()`: take a top event, move the clock, let the handler add up to two events, pop *what is then on top*. `Tops` gives all events that may be on top of the heap. |
| `Allocation` | the three separable allocators | `RSeparable`, `RcSeparable`, `CrSeparable` give the set of all grant sets an allocator may return whatever its arbiters do; the schedulers take such an operator as a constant, and need of it that its outcomes satisfy `Matching` or `OnePerResource`. |
| `ArbitratedAllocator` | the same allocators with the arbiters of `arbiter/` and the local timestamp | The priorities of all rotating arbiters, latched with or without `slip_latch`, or the order in which packets arrived; one action per call of `allocate()`. |
| `VcOwnership` | (abstract) | What a VC scheduler promises: free VCs are granted, owned VCs are given back by their owner. |
| `VcScheduler` | `VcScheduler` | `RequestVcs`, `ReleaseVc`, `Allocate` are its three operations; `ClientStep` and `ProcessEvent` close it with any clients that hold one request at a time and release only what they hold. |
| `CrossbarScheduler` | `CrossbarScheduler` | `RequestFlit`, `IncrementCreditCount`, `DecrementCreditCount`, `CreditsOnly`, `RunAlloc` are its operations, with all settings (`FullPacket`, `PacketLock`, `IdleUnlock`); closed with clients that send packets over VCs nobody else is using, and a neighbour that returns credits. |
| `InputQueue` | `inputqueued/InputQueue` | One operator per stage of `processPipeline` and one per response, on the record of a queue's pipeline. |
| `IqRouter` | `inputqueued/Router`, `Crossbar`, `Ejector`, `RoutingAlgorithm`, the ends of the channels | Composes the above: `PipelineEvent` is the whole of `processPipeline` with every call it makes on the schedulers, the crossbar and upstream; `VcSchedulerEvent`, `CrossbarSchedulerEvent`, `RoutingResponse`, `CrossbarEvent` are the other handlers; `Tick` starts the next cycle. |
| `CongestionStatus` | `CongestionStatus`, `BufferOccupancy` | Operators on a record of the counts and of the updates under way, by the cycles they still take. |
| `CongestedRouter` | `Router::sendFlit`, `Router::receiveCredit` | `IqRouter` with a congestion status that is told of every flit and credit. |
| `OutputQueue` | `inputoutputqueued/OutputQueue` | As `InputQueue`: one operator per stage, and the response. |
| `IoqRouter` | `inputoutputqueued/Router`, `OutputQueue`, the output `Crossbar` and `Ejector` of a port | An instance of `IqRouter` (`Main`) whose "next router" are the output queues, and a second instance of `CrossbarScheduler` (`OS`) behind them. `OutPipelineEvent` is the whole of `OutputQueue::processPipeline`: the slot it frees is the credit it gives `Main`. Both are instances of the modules with the proofs, so that the theorems about them are at hand. `MainSchedulers` .. `Tick` are the handlers of the two sides, in the order of their epsilons. |
| `EventQueue_proofs`, `ArbitratedAllocator_proofs`, `VcScheduler_proofs`, `CrossbarScheduler_proofs`, `IqRouter_proofs`, `IoqRouter_proofs` | | The theorems and their proofs; `IqRouter` instantiates those of the schedulers, `IoqRouter` those of `IqRouter` and once more those of the crossbar scheduler. |
| `BoundedInduction` | (library) | Induction and recursion over a bounded range of numbers, and facts on sequences and on the concatenation of many (`Joined`), for the proofs. |

The networks:

| module | models | state and actions |
|---|---|---|
| `Cube` | `cube/util`, `DimensionIterator`, `DimensionalArray` | Addresses, their order and their identifiers. |
| `PacketNetwork` | what all topologies share: channels, VCs, the path of a packet | A packet is at its source, arrived at a router, routed there (with an offer of ports and VCs), holding the next VC, or sunk. `Inject`, `Route`, `ClaimVc`, `Cross`, `Eject` move it; the wiring and the routing function come from the topology that extends or instantiates it. |
| `Torus`, `HyperX`, `FoldedClos`, `Butterfly`, `Uno` | each `Network.cc` and its routing algorithms | The wires as the constructor connects them, the addresses, and the offers of each algorithm. |
| `HierarchicalHyperX` | `hierarchicalhyperx/`: its wiring and seven algorithms | The same, with the routing extension of a packet: its intermediate router, the exit of its group, deroutes and hops. Whatever an algorithm draws at random or reads off the congestion status may come out either way. |
| `TrafficPatterns` | all of `traffic/` | The destinations a pattern may give a terminal; the scan and the binary search of the matrix as functions. |

The programs around them:

| module | models | state and actions |
|---|---|---|
| `Interface` | `interface/standard`, `Terminal`, the limiter and the notifiers | Operators on a record of all that lies between terminals: outstanding messages, limiter, injection, packets in the network, the reassemblers' expectations and tables. |
| `SimpleMem`, `SingleStream` | the two small applications | One action per event or delivered message, with the effect on the application's phases and transactions. |
| `StressTest` | `stresstest/Application`, `stresstest/BlastTerminal`, `InjectionLimiter`, the two notifiers | `SendEvent` and `LimiterEvent` are the two events that create messages, `Exit` is the whole of `messageExitedNetwork`, verdict, broadcast to all terminals and log, on a state that is threaded through the handler since the broadcast changes the caller too. |
| `StressTest_proofs` | | Its theorems and their proofs. |
| `MessageLog` | `stats/MessageLog` and `sslatency/src/main.cc` | The lines the simulator writes, and `ReadLine`, the reader's loop body with its assertions on or off (`AssertsOn`). |
| `HyperxSearch` | `hyperxsearch/src/search/Engine.cc` | The stages as one state machine: `at` says which loop the engine is in; the best results so far. |
| `HierarchicalSearch` | `libtopos/src/topos/hierarchicalHyperx/Engine.cc` | The same for groups of HyperXs. |
| `MC*` | | Instances for TLC. |

Abstractions, common to all modules:

* A flit is its input VC, the number of its packet, its index and the packet's
  size. A VC is a model value; `PortOf` gives its port. Metadata (ages) only
  biases which of the possible winners an arbiter picks: the routers allow all.
* Where the code keeps an index such as `vc * ports + port`, the models keep
  the pair.
* Time is absolute in `EventQueue` only. In `IqRouter` it is relative: an
  event is "due" when its wait is over, and `epsilon` tells how far the current
  cycle has got. That the engine really runs events in this order is what the
  run of `EventQueue` shows.
* In the router modules the routing algorithm's response is any of a set
  (`Routes`); in the network modules routers are reduced to what routing sees: a
  packet moves as a whole, and holds the VC it came on until it has the next.
* Between interfaces the network keeps the flits of a packet in order and one
  packet at a time on an ejection VC, which is what the router runs show, and
  otherwise delivers in any order.
* In `StressTest` a message is logged or not and nothing else, and each one
  carries the `warmup_interval` flits of a sample; destinations and sizes are
  left out. The detector gives any verdict the attempt number allows. A message
  passes the limiter at once or after a delay, whatever its rate. The thresholds
  are fractions; `roundedDown`, free in every initial state, says whether
  `1.0 - warmup_threshold` comes out below the difference that it stands for, as
  1.0 - 0.9 does, in which case a count that just equals it exceeds it. (The other
  comparison has a quotient and a constant that are rounded alike.)
* The operators marked "Mutant" in the comments (such as `ReleaseVcKept`)
  are plausible bugs of the definition below them. No specification uses them;
  `PROJECT.json` pairs each property with one that breaks it, which shows that
  the property depends on the code.

## 3 The runs

Eight runs pass, five of which compose several components; four more state what
the repository says of itself and find it violated (section 6).

| run | question | instance | shows |
|---|---|---|---|
| `event_queue` | does popping after the handler lose or repeat events? | 4 events, 2 cycles of 2 time units, 2 epsilons | `NoEventLost`, `NothingLeftBehind`, `SimulationRunsOut` |
| `vc_scheduler` | can two clients get one VC, or a client wait in vain? | 3 clients, 2 VCs, `rc_separable` | `Exclusive`, `TakenIsHeld`, `NoLostRequest`, `EveryRequestAnswered`, and `ImplementsOwnership` (refinement) |
| `allocators` | do two layers of arbiters starve a client? | 3 clients, 2 resources; three allocators with three arbiters each, 1 iteration, slip latching | `OutcomeAllowed`: the outcome is always one `Allocation` allows; `Served`: with rotating priorities or ages a client that keeps asking gets something |
| `crossbar_full_packet` | is packet-buffer flow control sound? | 2 clients, 2 VCs on one port, packets of 1 and 2 flits, depth 2, locks | credits, grants, reservations, ports, the shared event, and that packets finish |
| `iq_router` | does the whole router deliver every flit safely? | two routers: packet-buffer flow control, 2 input ports, 3 packets (2+1 and 2 flits), 2 VCs on one output port, depth 2; flit-buffer flow control, two VCs of one input port, two output ports, depth 1, packets longer than the buffer, `vca_swa_wait`, latencies 2 | `BuffersHold` (`NoBufferOverflows` of either router), `OrderIsKept`, `NoLostWakeup`, `StatusFollows` (`CountsFollow` of either congestion status), `UsesBothSchedulers`, everything is delivered |
| `ioq_router` | do two routers' worth of credits inside one router fit together? | 2 input ports, a packet of 2 flits each, 2 VCs on one output port, output queues of one slot; flit-buffer flow control at the main crossbar and packet-buffer flow control at the output one | `SlotsAreCredits`, `OutputOrder`, `NoLostWakeup` on both sides, `UsesBothSchedulers`, everything is delivered |
| `applications` | do the programs on top of the network do what they are for? | 2 processors with 2 accesses each and 2 memories; a stream of 3 messages of 1 or 2 packets; a stress test of 3 terminals, threshold 2/3 with its complement exact or rounded down, 2 messages to log each, a window of 5 samples, 2 attempts; a log of 2 messages | `PacketsConserved`, `Answered`, `OneMessageAhead`, `PhasesAgree`, `LoggedOnce`, `LatenciesExtracted`, `WorkloadEnds` |
| `networks` | does routing lead every packet to its terminal without waiting in circles? are the networks searched for the ones wanted? | 15 networks, one packet between each pair of terminals, and four packets on a ring of four; 24 traffic patterns on three HyperXs; eight searches | `OffersUsable`, `HopsClimb`, `TrafficAsMeant`, `SearchFinds`, `AllDelivered` |
| `packet_lock` | does `packet_lock` lock a port for a packet? | as `crossbar_full_packet` | it does not |
| `hhx_vcs` | do the VCs that a constructor asks for give every hop a port and a VC? | three simulations side by side: global random routing with the 3 VCs its constructor asks for, progressive adaptive routing with global detours with its 8, minimal adaptive routing with two VCs in every set | in none of the three |
| `hyperx_search` | does the search with free weights find what there is? | two dimensions, radix 4 to 8, 16 terminals | it does not |
| `message_log` | does `sslatency` read the log the simulator writes? | two messages of 1 and 2 packets | it does not |

Some properties deserve a word.

`UsesBothSchedulers` says that a router implements the specification of each
scheduler, under a mapping that reads the VCs a queue holds and the packet it is
sending out of its pipeline stages. It carries the assumptions the theorems
make about clients (one request at a time, release only what you hold, packets
on disjoint VCs, use a grant before the next event) over to the code of the
input queue, which has to satisfy them.

`NoLostWakeup` is the invariant behind delivery: whenever a queue holds a flit,
its own event is set or one of the responses it waits for is really on its way.

`CountsFollow` adds to the counts that routing reads what is still under way to
them: together they are the free slots downstream, at every instant and not only
when nothing moves, and no order of the updates of one instant takes a count
out of the range the code asserts.

`SlotsAreCredits` ties four counts of the main scheduler and of the output
queues together, kept by different components at different epsilons: credits,
credits not yet added, flits inside the crossbar, flits in the buffer.

`HopsClimb` is the argument against deadlock that no packet count bounds: every
topology names an order of its buffers (`Rank`: dimension, dateline and distance
in the torus, VC sets in the hierarchical HyperX, level in the trees), and every
hop of a packet goes up in it, so whatever packets there are cannot wait for
each other in a circle. `AllDelivered` shows the same of four packets that do
fill a ring. For the `valiant` routing of the hierarchical HyperX the argument
holds with `random_group` true only, which is what the run has: with it false a
packet crosses the local dimensions of one group twice within one VC set, to its
intermediate router and on, and `HopsClimb` fails. No text of the
repository promises otherwise.

`OffersUsable` and `AllDelivered` relate two texts that nobody but the settings
brings together: the wiring in a network's constructor and the port arithmetic
of its routing algorithms. Each algorithm of the hierarchical HyperX has exactly
the VCs that its constructor asserts (`VcsAsked`, compared in
`AsConstructed`), except `HhxGlobalRandom`: its constructor is content with 3,
with which its fourth hop has no VC, and the run gives it the 5 that its VC sets
take. What the constructors' minimum, or more than the minimum, does to three of
the algorithms is the subject of `hhx_vcs` (section 6).

`TrafficAsMeant`: deterministic patterns are permutations, random ones are
symmetric, those for a bisection cross it, a scan visits all terminals, and the
binary search of the matrix hits every terminal as often as its weight says.

`SearchFinds` compares the engines, which skip what they take to be hopeless,
with the set of all topologies within the bounds.

`PacketsConserved` also states what the reassemblers assert: the flit that
arrives is the one expected. `Answered` ties a processor, its one message under
way, the memory's queue and the open transaction together.

`OneMessageAhead` is what keeps the load of a stress test what it is set to: a
terminal is driven only by the notification of its own last message.
`WorkloadEnds` needs that the thresholds for "warmed up" and "saturated"
complement each other, so that verdicts of all terminals always decide the
warm-up.

**Bounds, and why they are enough.** Two clients are needed for a conflict over
a VC or a port, three for requests that shift around a third one (the two
allocation runs). Two VCs on one port make the port, not the VC, the contested
thing; two VCs on two ports (the second router of `iq_router`) make crossbar
grants independent. A packet of two flits has a head that is not its tail; a packet of
one is both; two packets in a row from one queue have the next head wait in
rfe and vca while the tail of the last one is still in swa. Depth equal to the
packet size is the tightest that packet-buffer flow control allows, and depth 1
the tightest at all; with a latency of 2 updates of the congestion status of
two cycles are under way at once. The traffic of the router runs is finite, which bounds the
state: after a packet has left, its queue is again in its initial state up to
packet numbers. The output queues have one slot,
so that every flit depends on the slot and credit of the one before. One
output port is enough for the output side: those of two ports share nothing but
the input queues.

The networks have two dimensions (or levels above the first) where the
algorithm has a case for more than one, widths of 3 or 4 where it goes around,
weights of 1 and 2, and as many VCs as the algorithm needs, in the torus one
more. With exactly that many every VC set of a hierarchical HyperX has one VC;
sets of two are in `hhx_vcs`. The patterns that speak of bits or exchange dimensions
run with equal widths of 2; those that speak of halves, quadrants and parities
with widths of 2 and 6, since with a width of 2 a half, a parity and a complement
are the same; those that accept odd widths with 4 and 3. One packet is enough for the routes, since a
route does not depend on other packets but through the congestion status,
which the models leave open; the ring needs as many packets as it has routers.
The eight searches meet every stage with results and as a dead end; the last
one has so little bandwidth that both levels may have more dimensions than links.

Three terminals of a stress test with a threshold of two can give one verdict
of each kind without deciding anything; two attempts have one with and one
without the fast fail; five samples are the smallest window the code accepts;
a terminal has at most one message in the network at a time (`MaxInNetwork`),
and still logged and unlogged messages, in the limiter and in the network, follow
each other in all ways. Two memories and two processors have two requests meet
at one memory and answers of two packets meet on one VC. Four events are enough
for a handler to add one before and one after a waiting event. In a log a
message of one packet follows one of two, with flits in any order of time.
`CHECK_DEADLOCK FALSE` is set where a simulation stops: the event engine, the
applications, the networks and the violating runs.

`OneGrantPerPort` and the theorems on ports hold for any number of ports; the
runs of the crossbar scheduler have one, where all conflicts happen.

Type invariants are proved (section 5) for the event engine, the two schedulers,
the two routers (`InputInv`, `CreditInv`; `OutTypes` behind the main crossbar) and
the stress test, and for the allocators within the invariant of `OutcomesAllowed`.

## 4 Fairness

* Weak fairness of `ProcessEvent`, `EngineStep`, `RunNextEvent`, `SendEvent`,
  ...: an event that is in the queue is run. This is the loop in
  `Simulator::simulate`. For the routers one condition on the whole engine is
  enough: the clock moves only when nothing is due.
* `applications`: weak fairness of the next step, since the small applications
  and the log always end; for the stress test, which could go on without one
  terminal, of every terminal's events, and of `Exit`, the network delivers.
  That it does is what `AllDelivered` shows of routers and of networks.
* `networks`: weak fairness of the next step. Nothing in a packet's way repeats,
  so it suffices that something goes on.
* `CrossbarScheduler`: strong fairness that a client whose request is eligible
  again and again is granted. The arbiters give it: the rotating priority
  (`lslp`) moves past every winner, and the comparing arbiter on ages (the
  settings of the example configurations) favours a packet the longer it waits. For
  the rotating priority with two clients this is immediate; with more clients
  whose requests lack credits in turn it is an assumption on the arbiter.
  `Served` shows what the allocators with these arbiters
  really give: a *client* is served in the end. That a particular
  *<<client, resource>>* pair is served does not hold, and is not claimed; nor
  is anything of the random arbiters, which serve a client with probability 1.
* `Served` itself assumes only that allocations go on.
* The router runs assume nothing of the arbiters: with finite traffic the
  competitors of a packet run out.
* `NeighbourStep`, and `FlitArrives` and `CreditArrives` of `IoqRouter` (a flit
  or a credit arrives), strong: a neighbour that can
  send does so in the end; strong since a channel delivers at one point of a
  cycle and the action is disabled for the rest of it.
* `VcScheduler`: weak fairness of its event only; a client may hold a VC for
  ever, and may be denied for ever.

## 5 The proofs

TLAPS proves the following for all values of the constants: any sets of
clients, VCs and ports, any buffer depth and packet sizes, any setting, and any
allocator that satisfies the stated assumption.

**VC scheduler** (`VcScheduler_proofs`). Assumption `AllocatorAssumption`: the
grants are among the requests, and no client or VC appears in two of them.
(`rc_separable` and `cr_separable` satisfy it, which TLC evaluates; with
`r_separable` the code's own assertion fails.) The inductive invariant is the
conjunction of the properties themselves,

    IInv == TypeOK /\ Exclusive /\ TakenIsHeld /\ NoLostRequest

No part is inductive alone: `Exclusive` survives an allocation only since the
granted VCs were not marked taken and, by `TakenIsHeld`, all held ones are;
`TakenIsHeld` survives a release only since, by `Exclusive`, nobody else holds
the VC. Theorems: `TypeCorrect`, `VcsAreExclusive`, `TakenFlagsAreExact`,
`RequestsAreAnswered`, and `Refinement`: every step is a step of `VcOwnership`
or leaves the owners alone.

**Crossbar scheduler** (`CrossbarScheduler_proofs`). Assumptions:
`GrantAssumption` (the grants are among the requests, a port is granted once,
something is granted if something is asked) and `SchedulerAssumption` (with
`full_packet` the buffer holds the largest packet, as the code's comment
demands). The inductive invariant is

    IInv == TypeOK /\ PacketsApart /\ PacketsBounded /\ RequestsMatch
              /\ CreditConservation /\ GrantsAreBacked /\ FullPacketReservation
              /\ OneGrantPerPort /\ EventCoversWork

The three supporting conjuncts say that packets in progress are on different
VCs, that no more is left of a packet than its size, and that a pending request
is for the next flit of its client's packet. The crux is
`FullPacketReservation`: the credits of a VC cover what is left of the packet
on it. It is established once, by the check of the head flit, and kept since
only the owner of the VC takes credits from it; it gives `GrantsAreBacked` for
the body flits, which the code grants without looking. `NeverIdle` proves the
action property `NoIdleAllocation`: the requests that survive the masks are
never empty when one was eligible, since a port whose lock masks the others has
an eligible owner.

**Event engine** (`EventQueue_proofs`). Assumption `EngineAssumption`: the clock
has a positive cycle and the bounds are numbers; `NotYetAssumption`: the mark of
an event that has not run is no time. `NoEventLost` is not inductive: that popping
*whatever is on top* after the handler removes the event that ran needs that the
handler can only add later ones, and that an event in the queue has not run. So

    IInv == TypeOK /\ InOrderAdded /\ RunOnceAdded /\ Stages /\ queue \subseteq Added
              /\ NoEventLost /\ NothingLeftBehind

and the step of `RunNextEvent` shows from it that what is popped is the event that
ran: `addEvent` accepts none at or before the clock once the simulation runs
(`Stages`), so nothing that the handler pushes is earlier. Theorems: `TypeCorrect`, `EventsAreRun`,
`ClockPassesNothing`.

**Allocators** (`ArbitratedAllocator_proofs`). The two schedulers' proofs assume
something of their allocators; here it is proved of the allocators that the
simulator has. `RSeparableGrants`: `RSeparable` gives every requested resource
to exactly one client (`OnePerResource`, the crossbar scheduler's assumption).
`IterationsMatch`: any number of iterations of `RcSeparable` or `CrSeparable`
gives a `Matching` (the VC scheduler's): the requests that remain after an
iteration are of clients and for resources that nothing granted so far is of
or for. `OutcomesAllowed`: the allocators with all their arbiters' state, of
any kind and size, never leave these outcomes. All three are inductions over a
recursive function. The induction theorems of the library take an operator as a
parameter, which the provers cannot instantiate; `BoundedInduction` states
induction for a *set* of numbers instead (a subset of 0..n that has 0 and is
closed under +1 is 0..n), proved from the least number, and that a recursive
function on 0..n exists and satisfies its equation.

**Input-queued router** (`IqRouter_proofs`), for any set of input queues, ports and
VCs, any traffic, routing responses, depths, latencies and flow control.
Assumptions: `RouterAssumption` (settings the code asserts: positive depths,
latencies and packet sizes; with `full_packet` the buffer downstream holds the
largest packet; a route offers some VC), and of the two allocators what
`ArbitratedAllocator_proofs` shows. The argument goes up in five levels:

1. *The queue.* `QueueInv(c, a, q)`: the flits in the buffer and in the stages
   rfe, vca and swa are numbers a - n + 1 .. a of the traffic, when a flits have
   arrived, in order; a stage is empty exactly if it has no flit; and vca keeps
   the VC of a packet exactly while the packet is open, that is from the grant
   of its head until its tail moves on. One lemma for each of the seven stages
   of `processPipeline` and each response shows that it keeps this
   (`InjectKeeps` .. `SubmitRfeKeeps`, `VcResponseKeeps`, ...). It rests on what
   the traffic is: flit i + 1 is the next of flit i's packet or, after a tail, a
   head (`NextFlitFollows`).
2. *The wake-ups.* `InputInv` adds, for every queue, the slots announced upstream,
   that a stage that waits has its request at the scheduler (`Answerable`), and
   that a queue without an event of its own is `Asleep`: it holds nothing, or a
   stage waits for somebody (`OnTime`). `NoWakeupLost` follows. This is where the
   three conditions on which the pipeline runs itself again are shown to be
   enough.
3. *The credits.* `CreditInv`: credits, credits not yet added, flits in the
   crossbar and flits downstream of a VC add up to its slots (`SlotsConserved`).
   Injecting must not hide a flit behind another in one map, which needs that
   two grants of a cycle are for two ports (`PortsApart` in `InputInv`), and that
   a grant is used in the cycle in which it is given.
4. *The schedulers.* Under the mapping of `UsesBothSchedulers` every step of the
   router is a step of the VC scheduler and its clients, or stutters
   (`UsesVcScheduler`): a queue asks only while it has no packet waiting and gives
   back only a VC that it holds (`Settled`: a tail in swa has let go of the VC
   that vca has). With the VC scheduler's own invariant, that no two queues hold
   one VC, every step is a step of the crossbar scheduler and its clients
   (`ImplementsCrossbarScheduler`): packets on VCs of their own, one flit after
   the other, each on its grant. `BuffersNeverOverflow` then needs the crossbar
   scheduler's theorem `GrantsHaveCredits`: credits never go below 0, so what is
   downstream or on its way there is never more than there are slots.

5. *The order.* The stream of a VC is what was delivered on it and, behind that, what
   the crossbar holds for it (`Stream`). `OrderInv`: in each stream packets are
   whole and follow each other, flit by flit; if a stream ends within a packet, some
   queue is in the middle of sending a packet on that VC; the stream of a VC on
   which a queue is in the middle of a packet ends in the very flit that it
   injected last; and the flits of a queue
   in all the streams together are its first ones (`Ordered`). Injecting a flit is
   safe since, by level 4, the VC is nobody else's until the tail is through, and
   the crossbar moves flits within a stream only, since it delivers what is oldest
   (`CrossbarDelivers`). `OrderKept` is `OrderIsKept` for every setting.

The inductive invariant is `RouterInv`, the conjunction of `InputInv`, `Settled`,
the VC scheduler's `IInv` and `CreditInv`, and with it `OrderInv`. They are shown
to be kept by every `RouterStep`: a step of the router, any set of credits
given back at the epsilon of the channels or of the pipelines, or the end of an
epsilon. So they hold of a router whose surroundings are not those of `IqRouter`.

**Input-output-queued router** (`IoqRouter_proofs`), for any sets of queues and
VCs, depths of both buffers, latencies and flow control on either side.
Assumptions: those of the input-queued router for the input side (`MainSettings`,
`MainVcAllocator`, `MainXbarAllocator`), and those of the crossbar scheduler for
the output side (`OutputSettings`, `OutputAllocator`). Every step is a
`RouterStep` of `Main` (`StepsOfMain`), so the input side's invariants hold
as they are. The inductive invariant is `IoqInv == MainInv /\ OutInv`, where

    OutInv == OutTypes /\ QueuesMinded /\ OutCrossbarInv /\ SlotsTaken
                /\ OutCredits /\ InLine

* `QueuesMinded`: a queue waits exactly while its request is with the output
  scheduler, whose event is then set; a queue without an event of its own waits
  or is empty. `NoQueueSleeps` is `NoLostWakeup` of both sides.
* `SlotsTaken`, `OutCredits`: what the main crossbar's credits count as downstream
  is what is in the queue's buffer, and the output scheduler's credits, credits
  not yet added, flits in the output crossbar and flits away add up to the depth
  downstream. With `SlotsConserved` of the input side this is `SlotsOnce`. That no
  flit hides another in the output crossbar is `OutCrossbarInv`.
* `InLine`: what the main crossbar delivered for a VC is what has left, what is in
  the output crossbar and what is in the queue, in this order. With `OrderIsKept`
  of the input side, `OutputInOrder`.

`UsesSchedulers` is the router's refinement of *both* crossbar schedulers. For
the output side a client of the scheduler is an output queue, and the packet it
sends is read off the last flit that left it (`Sending`). That a queue sends
whole packets, one after the other, is not its own doing but what the *input
side* delivers: `InPackets` and `RunSends` derive it from `OutputOrder`. Besides the
invariant it needs `OutSettled`: a queue with a grant runs in the cycle of the
grant, before the scheduler does anything else. `OutputsNeverOverflow` then
follows from the theorem `CreditsAreConserved` of the two schedulers: neither an
output queue nor the buffer behind it ever holds more than its depth, and no
flit leaves without a credit.

**Stress test** (`StressTest_proofs`), for any number of terminals and messages,
thresholds, and verdicts of the detectors. `IInv` is `Agreed(app, term)`, the types
and `PhasesAgree`, and `OneTerminal` of each terminal: what it has ahead of it,
and the messages to be logged, sent and counted, add up. Because a verdict in the
middle of `messageExitedNetwork` may start or stop every terminal, this one
included, the proof follows the handler's parts: each broadcast keeps the agreement
between application and terminals, and changes no terminal's messages
(`SameMessages`), so that the part that counts the message, which runs after it,
finds the sums as they were. Theorems: `TypeCorrect`, `OneAhead`, `AllAgree`,
`EachLoggedOnce`.

**Model-checked only.** Liveness (`EveryRequestAnswered`, `PacketsFinish`,
`Served`, `AllDelivered`, `WorkloadEnds`, `SimulationRunsOut`), which the prover
does not handle under fairness. The congestion status (`StatusFollows`). The
memory, the stream and the interfaces (`PacketsConserved`, `Answered`), the log
(`LatenciesExtracted`), the networks and the searches (`OffersUsable`, `HopsClimb`,
`TrafficAsMeant`, `SearchFinds`), which are algorithms over data. `BuffersHold` is stated
for the two routers of its run; `NoBufferOverflows`, which it says of each, is
proved for every router (`BuffersNeverOverflow`). `Refinement`, `UsesVcScheduler`,
`ImplementsCrossbarScheduler` and `UsesSchedulers` are proved for initial states
and steps, which is all that the specifications they implement ask.

## 6 Where code and text disagree

Each run below checks one statement of the repository and finds it violated by
what the code does. The models contain the code's behaviour throughout.

**`packet_lock`.** The header says of `packetLock_` that "packets lock the channel"
(`router/common/CrossbarScheduler.h:98`), and the test names the setting
`full_packet` with `packet_lock` "packet-buffer flow control" and without it
"... with packet interleaving" (`CrossbarScheduler_TEST.cc:152`, `:158`). But
`portLocks_` is filled with `false` (`CrossbarScheduler.cc:74`), which as an
index is client 0, and no statement ever assigns the index of a client: lines
241 and 246 only ever reset it to `U32_MAX`. So a port is locked to client 0
until that client's first tail (or an idle cycle) and by nobody afterwards. The
run `packet_lock` shows another packet let into a port between two flits of a
packet that has both its VC and its credits. The models contain the code's
behaviour; safety does not depend on the lock (it is proved for every setting),
only the order of flits on a port does.

**`hhx_vcs`.** Three routing algorithms of the hierarchical HyperX, each with a
number of VCs its constructor accepts, come to an empty response. One run has the
three networks side by side; `ResponseNeverEmpty` says that at least one of
them is well, so its counterexample is a state in which none is.

`GlobalRandomRoutingAlgorithm` asserts `numVcs_ >= G + 1` (`.cc:44`), but gives
every hop a VC set of its own (`hopCount - 1`, `.cc:69`; `(G + 1) * L + G` sets,
`.cc:81`). In a 2 x 2 HyperX of groups of two routers the constructor accepts 3
VCs; the fourth hop finds none and `assert(_response->size() > 0)` (`.cc:87`)
fails. With the (G + 1) * L + G VCs that its sibling
`GlobalAndLocalRandomRoutingAlgorithm` asks for it works: this is how it runs in
`networks`.

`MinimalAdaptiveRoutingAlgorithm::findHighestPort` (`.cc:212`) looks for the
least congested port, starting from a value of 1.0 that a port must not exceed
to be picked. But what it compares is the sum of the status of all VCs of the set
(`.cc:252`), each between 0 and 1. With two VCs in a set (six VCs, where the
constructor asks for three) all sums may be above 1.0; then no port is picked,
the list is empty and `highestPorts.at(rnd)` throws, before the response that
`.cc:97` asserts to have something in it. With one VC per set, as in
`networks`, it cannot happen.

`ProgressiveAdaptiveGRoutingAlgorithm` gives every hop a VC of its
own ("every VC per hop", `.cc:46`, `hopCount - 1` at `.cc:118`) and asserts that
there are `L * (G + 1) + 1 + G + 1 + 1` of them for L local and G global
dimensions. A packet that detours over a third group crosses the local
dimensions of a group once more than that. With L = 2 and G = 1 and just the
eight VCs the constructor asks for, a packet reaches a hop without a VC set: no
VC is added and `assert(_response->size() > 0)` (`.cc:138`) fails. In the
run `networks` the algorithm has the VCs that it needs.

**`hyperx_search`.** When `hyperxsearch` raises the weight of one dimension, the
loop that resets those below it (`Engine.cc:355`) stops one short, so the
dimension next to it keeps its maximum: after <<4, 1>> comes <<4, 2>>, and weights
such as <<2, 2>> are never tried. The program says it searches for "optimal
solutions" (`main.cc:66`). The run ends a search without any result although a
topology within the bounds exists. The engine of `libtopos` has the same loop.
The searches of HyperXs in `networks` ask for equal weights in all dimensions,
for which the loop does no harm.

**`message_log`.** All three applications write the start and the end of
transactions into the message log (`+T`, `-T`, `stats/MessageLog.cc:59`). The
reader of that log, `sslatency`, ends its chain of line types in
`assert(false)` (`main.cc:224`) and is built with assertions: it stops at the
first transaction. `applications` checks `LatenciesExtracted` for a reader
whose assertions are compiled out, which extracts the right latencies.

## 7 What is not modelled

* **Within the modelled parts.** Routers: the metadata of a packet as a number (a
  64-bit age is passed on as 32 bits; ages are an order in
  `ArbitratedAllocator`) and the deadline handler; `PhantomBufferOccupancy`, whose
  windows only bias adaptive choices; the rounding of a congestion status; the
  congestion status of the input-output-queued router. Interface: its input
  queue, credits and crossbar scheduler (which `CrossbarScheduler` models as a
  component). Engine: `Simulator::stop`, which no code calls, and the progress
  output. Applications: the arithmetic of the warm-up detector; rates; messages of no flits; the bytes of the memory; a stream of no
  messages. The search of hierarchical HyperXs: a largest width below 2 ends the
  loop over concentrations (`hierarchicalHyperx/Engine.cc:142`), or over the widths
  of a group (`:177`), although a larger concentration, or a wider group, has more
  links. The model does the same, but the searches it is asked for have
  one concentration where this happens, so that nothing within the bounds is
  lost: with several, topologies would be, which no text of `libtopos` excludes.
  With at least three dimensions more than links the unsigned width would wrap,
  and the search would not end; no search asks for so many.
* **Left out.** The inverse of the address arithmetic, which no code calls;
  settings, factories and `main` functions (construction and command lines);
  the rate and channel logs (one formatted line each); the `hyperx` engine of
  `libtopos`, an earlier text of the one in `hyperxsearch/`; helper libraries
  for files, strings and grids; Python scripts that plot tables.
* **Not this program.** `libjson/` is the third-party JsonCpp, and `othercopies/`
  holds older copies of the simulator and of the searches that nothing builds
  from here. Together they are about half of the C++ lines of the
  repository, so the share of it that `PROJECT.json` maps stays small although the
  simulator's components are nearly all modelled.

## 8 Plan

Done: the engine; the two schedulers; the allocators with
their arbiters; both routers, alone and with congestion status; all six
topologies with their routing algorithms; traffic patterns; interfaces; the three
applications; the message log and its reader; the two topology searches. Proofs
of the engine, the allocators, the schedulers, both routers and the stress test.

Next, in this order:

1. Theorems: the congestion status beside the router of `IqRouter_proofs`
   (`CountsFollow`); that the dateline order of `Torus` rises on rings of every size.
2. Models: the interface's input queue composed with its own
   `CrossbarScheduler`; the windows of `PhantomBufferOccupancy`; metadata with
   its width and deadlines; congestion status in `IoqRouter`.
