---------------------------- MODULE HyperxSearch ----------------------------
(***************************************************************************)
(* hyperxsearch (and libtopos/hyperx): the search for the cheapest HyperX  *)
(* topologies within the wanted bounds.  Three nested loops go through the *)
(* widths, the concentrations and the weights, each like an odometer, and  *)
(* cut short what is too large; one step is one round of a loop.           *)
(***************************************************************************)
EXTENDS Cube, FiniteSets

CONSTANT Wanted      \* the settings of a search: dimensions, radix, concentration,
                     \*   terminals and bandwidth as <<least, most>>, where a bandwidth
                     \*   counts halves; fixedWidth, fixedWeight, maxResults

VARIABLE search      \* [want, at, hyperx, ldim, results]

Within(n, bounds) == bounds[1] <= n /\ n <= bounds[2]

(* A topology: its widths (S), concentration (T) and weights (K), and what *)
(* follows from them.                                                      *)
Links(h) ==
  LET sum[d \in 0..Len(h.widths)] ==
        IF d = 0 THEN 0 ELSE sum[d - 1] + (h.widths[d] - 1) * h.weights[d]
  IN sum[Len(h.widths)]
RouterRadix(h) == h.concentration + Links(h)
Routers(h) == Product(h.widths, Len(h.widths))
TerminalCount(h) == Routers(h) * h.concentration

(* bisections: width * weight / (2 * concentration).                       *)
BandwidthWithin(h, bounds) ==
  \A d \in DOMAIN h.widths :
    Within(h.widths[d] * h.weights[d], <<bounds[1] * h.concentration, bounds[2] * h.concentration>>)

(* stage4 and RouterChannelCount::cost: the routers, then the channels.    *)
Channels(h) ==
  LET sum[d \in 0..Len(h.widths)] ==
        IF d = 0 THEN 0
        ELSE sum[d - 1] + (h.weights[d] * Routers(h) * (h.widths[d] - 1)) \div 2
  IN TerminalCount(h) + sum[Len(h.widths)]
Cheaper(g, h) ==
  Routers(g) < Routers(h) \/ (Routers(g) = Routers(h) /\ Channels(g) < Channels(h))

-----------------------------------------------------------------------------
Ones(n) == [d \in 1..n |-> 1]

MaxWidth(want, dims) ==
  IF want.fixedWidth THEN (want.radix[2] - 1) \div dims + 1 ELSE want.radix[2] - (dims - 1)

(* stage1 with a number of dimensions: all widths 2, or the end.           *)
StartDims(s, dims) ==
  IF dims > s.want.dimensions[2] \/ MaxWidth(s.want, dims) < 2
  THEN [s EXCEPT !.at = "done"]
  ELSE [s EXCEPT !.at = "widths",
                 !.hyperx = [widths |-> [d \in 1..dims |-> 2], concentration |-> 1,
                             weights |-> Ones(dims)]]

(* The last width that may still grow does, and those after it follow.     *)
NextWidths(s) ==
  LET w == s.hyperx.widths
      dims == Len(w)
      most == MaxWidth(s.want, dims)
      last == CHOOSE d \in 1..dims : w[d] # most /\ \A e \in d + 1..dims : w[e] = most
  IN IF w[1] = most THEN StartDims(s, dims + 1)
     ELSE [s EXCEPT !.at = "widths",
                    !.hyperx.widths =
                       [d \in 1..dims |-> IF s.want.fixedWidth THEN w[d] + 1
                                          ELSE IF d < last THEN w[d] ELSE w[last] + 1]]

(* stage1: enough room for one terminal per router and one channel per     *)
(* neighbour.                                                              *)
TryWidths(s) ==
  LET one == [s.hyperx EXCEPT !.concentration = 1, !.weights = Ones(Len(s.hyperx.widths))]
  IN IF Routers(one) <= s.want.terminals[2] /\ RouterRadix(one) <= s.want.radix[2]
     THEN [s EXCEPT !.at = "concentration", !.hyperx.concentration = s.want.concentration[1]]
     ELSE NextWidths(s)

(* The radix that stage2 and stage3 start from: the first dimension is     *)
(* left out.                                                               *)
BaseRadix(h) == h.concentration + Links([h EXCEPT !.weights = [Ones(Len(h.widths)) EXCEPT ![1] = 0]])

NextConcentration(s) ==
  IF \/ TerminalCount(s.hyperx) > s.want.terminals[2]
     \/ BaseRadix(s.hyperx) > s.want.radix[2]
     \/ s.hyperx.concentration = s.want.concentration[2]
  THEN NextWidths(s)
  ELSE [s EXCEPT !.at = "concentration", !.hyperx.concentration = @ + 1]

TryConcentration(s) ==
  IF Within(TerminalCount(s.hyperx), s.want.terminals) /\ BaseRadix(s.hyperx) <= s.want.radix[2]
  THEN [s EXCEPT !.at = "weights", !.hyperx.weights = Ones(Len(@)), !.ldim = 1]
  ELSE NextConcentration(s)

(* stage3: a weight that the radix could bear, 2 at least.                 *)
MaxWeight(s, d) ==
  LET m == 1 + (s.want.radix[2] - BaseRadix(s.hyperx)) \div (s.hyperx.widths[d] - 1)
  IN IF m > 2 THEN m ELSE 2

(* The first weight that may still grow does; those before it follow, but  *)
(* for the one just before it.                                             *)
NextWeights(s) ==
  LET k == s.hyperx.weights
      room == {d \in DOMAIN k : k[d] # MaxWeight(s, d)}
      first == FirstOf(room)
  IN IF s.want.fixedWeight
     THEN [s EXCEPT !.hyperx.weights = [d \in DOMAIN k |-> k[d] + 1], !.ldim = Len(k)]
     ELSE IF room = {} THEN [s EXCEPT !.at = "out of range"]
     ELSE [s EXCEPT !.hyperx.weights = [d \in DOMAIN k |-> IF d = first \/ d < first - 1
                                                           THEN k[first] + 1 ELSE k[d]],
                    !.ldim = first]

Fits(s) == Within(RouterRadix(s.hyperx), s.want.radix) /\ BandwidthWithin(s.hyperx, s.want.bandwidth)

(* Mutant: the results are cut off before they are sorted.                 *)
RecordedUnsorted(s) ==
  LET all == s.results \cup {s.hyperx}
  IN IF ~Fits(s) THEN {s}
     ELSE IF Cardinality(all) <= s.want.maxResults THEN {[s EXCEPT !.results = all]}
     ELSE {[s EXCEPT !.results = all \ {h}] : h \in all}

(* stage5: the result is sorted in; one too many, and a dearest one goes.  *)
Recorded(s) ==
  LET all == s.results \cup {s.hyperx}
  IN IF ~Fits(s) THEN {s}
     ELSE IF Cardinality(all) <= s.want.maxResults THEN {[s EXCEPT !.results = all]}
     ELSE {[s EXCEPT !.results = all \ {h}] :
             h \in {h \in all : \A g \in all : ~Cheaper(h, g)}}

TryWeights(s) ==
  LET over == RouterRadix(s.hyperx) > s.want.radix[2] /\ s.ldim = Len(s.hyperx.widths)
  IN {IF over THEN NextConcentration(r) ELSE NextWeights(r) : r \in Recorded(s)}

Init ==
  \E want \in Wanted :
    search = StartDims([want |-> want, at |-> "", hyperx |-> <<>>, ldim |-> 1, results |-> {}],
                       want.dimensions[1])

Next ==
  \/ search.at = "widths" /\ search' = TryWidths(search)
  \/ search.at = "concentration" /\ search' = TryConcentration(search)
  \/ search.at = "weights" /\ search' \in TryWeights(search)

-----------------------------------------------------------------------------
(* Every topology within the bounds, with its widths ascending and its     *)
(* weights descending, as stage2 and stage4 assert.                        *)
Ascending(f) == \A d \in 2..Len(f) : f[d - 1] <= f[d]
Descending(f) == \A d \in 2..Len(f) : f[d - 1] >= f[d]
Constant(f) == \A d \in DOMAIN f : f[d] = f[1]

Topologies(want) ==
  LET Widths(dims) ==
        {w \in [1..dims -> 2..want.radix[2]] :
           /\ Product(w, dims) <= want.terminals[2]
           /\ IF want.fixedWidth THEN Constant(w) ELSE Ascending(w)}
      Weights(dims) ==
        {k \in [1..dims -> 1..want.radix[2]] :
           IF want.fixedWeight THEN Constant(k) ELSE Descending(k)}
      Shapes(dims) ==
        {[widths |-> w, concentration |-> t, weights |-> k] :
           w \in Widths(dims), k \in Weights(dims),
           t \in want.concentration[1]..want.concentration[2]}
  IN {h \in UNION {Shapes(dims) : dims \in want.dimensions[1]..want.dimensions[2]} :
        /\ Within(RouterRadix(h), want.radix)
        /\ Within(TerminalCount(h), want.terminals)
        /\ BandwidthWithin(h, want.bandwidth)}

(* The same, once for every setting.                                       *)
AllTopologies == [want \in Wanted |-> Topologies(want)]

(* What the stages assert of their order, and the guard of at().           *)
StagesInOrder ==
  /\ search.at # "out of range"
  /\ search.at = "weights" /\ Fits(search) =>
       Ascending(search.hyperx.widths) /\ Descending(search.hyperx.weights)

(* The results are within the bounds, as many as wanted, and the cheapest  *)
(* of all.                                                                 *)
ResultsOptimal ==
  search.at = "done" =>
    LET others == AllTopologies[search.want] \ search.results
    IN /\ search.results \subseteq AllTopologies[search.want]
       /\ others # {} => /\ Cardinality(search.results) = search.want.maxResults
                         /\ \A h \in others, r \in search.results : ~Cheaper(h, r)
=============================================================================
