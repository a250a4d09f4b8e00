-------------------------- MODULE HierarchicalSearch --------------------------
(***************************************************************************)
(* libtopos/hierarchicalHyperx: the search for the cheapest hierarchical   *)
(* HyperXs.  The bandwidth gives the number of links of a router, and the  *)
(* five nested loops go through the dimensions and concentrations, the     *)
(* widths of a group and of the network of groups, and the weights of      *)
(* both; one step is one round of a loop.                                  *)
(***************************************************************************)
EXTENDS Cube, FiniteSets

CONSTANT Wanted      \* the settings of a search: localDim, globalDim, radix,
                     \*   concentration and terminals as <<least, most>>; the least
                     \*   bandwidth, which counts eighths; maxResults
                     \* (a level has at most two dimensions more than links:
                     \*   with more, the unsigned largest width would wrap)

VARIABLE search      \* [want, at, h, results]

Within(n, bounds) == bounds[1] <= n /\ n <= bounds[2]

(* ceil(2 * n * bandwidth).                                                *)
LinksFor(n, want) == (n * want.bandwidth + 3) \div 4
LocalLinks(h, want) == LinksFor(h.localDim * h.concentration * (h.globalDim + 1), want)
GlobalLinks(h, want) == LinksFor(h.globalDim * h.concentration, want)
RouterRadix(h, want) == LocalLinks(h, want) + GlobalLinks(h, want) + h.concentration

(* The links that a group's global channels share.                         *)
RoutersPerGroup(h) == Product(h.localWidths, h.localDim)
GroupLinks(h, want) == GlobalLinks(h, want) * RoutersPerGroup(h)
TerminalCount(h) ==
  RoutersPerGroup(h) * Product(h.globalWidths, h.globalDim) * h.concentration

Used(widths, weights) ==
  LET sum[d \in 0..Len(widths)] ==
        IF d = 0 THEN 0 ELSE sum[d - 1] + (widths[d] - 1) * weights[d]
  IN sum[Len(widths)]

Constantly(n, value) == [d \in 1..n |-> value]
MaxWidth(links, dims) == links - dims + 2

(* Both weights and widths are gone through like an odometer: the last     *)
(* that may still grow does, and those after it start over.                *)
Grown(digits, most, restart) ==
  LET last == CHOOSE d \in DOMAIN digits :
                digits[d] # most /\ \A e \in d + 1..Len(digits) : digits[e] = most
  IN [d \in DOMAIN digits |-> IF d < last THEN digits[d]
                              ELSE IF d = last THEN digits[d] + 1
                              ELSE IF restart = 0 THEN digits[last] + 1 ELSE restart]

-----------------------------------------------------------------------------
(* stage1: the concentrations, the local and the global dimensions.  With  *)
(* fewer links than local dimensions the loop over the concentrations is   *)
(* left, although a larger one has more links.                             *)
NextDims(s) ==
  LET w == s.want  h == s.h IN
  IF h.localDim < w.localDim[2]
  THEN [s EXCEPT !.at = "links", !.h.concentration = w.concentration[1], !.h.localDim = @ + 1]
  ELSE IF h.globalDim < w.globalDim[2]
  THEN [s EXCEPT !.at = "links", !.h.concentration = w.concentration[1],
                 !.h.localDim = w.localDim[1], !.h.globalDim = @ + 1]
  ELSE [s EXCEPT !.at = "done"]

NextLinks(s) ==
  IF s.h.concentration < s.want.concentration[2]
  THEN [s EXCEPT !.at = "links", !.h.concentration = @ + 1]
  ELSE NextDims(s)

TryLinks(s) ==
  IF ~Within(RouterRadix(s.h, s.want), s.want.radix) THEN NextLinks(s)
  ELSE IF MaxWidth(LocalLinks(s.h, s.want), s.h.localDim) < 2 THEN NextDims(s)
  ELSE [s EXCEPT !.at = "local widths", !.h.localWidths = Constantly(s.h.localDim, 2)]

(* stage2: the widths of a group.  With fewer links of the group than      *)
(* global dimensions the loop over the widths is left.                     *)
NextLocalWidths(s) ==
  LET most == MaxWidth(LocalLinks(s.h, s.want), s.h.localDim)
  IN IF s.h.localWidths[1] = most THEN NextLinks(s)
     ELSE [s EXCEPT !.at = "local widths", !.h.localWidths = Grown(@, most, 0)]

TryLocalWidths(s) ==
  IF Used(s.h.localWidths, Constantly(s.h.localDim, 1)) > LocalLinks(s.h, s.want)
  THEN NextLocalWidths(s)
  ELSE IF MaxWidth(GroupLinks(s.h, s.want), s.h.globalDim) < 2 THEN NextLinks(s)
  ELSE [s EXCEPT !.at = "global widths", !.h.globalWidths = Constantly(s.h.globalDim, 2)]

(* stage3: the widths of the network of groups.                            *)
NextGlobalWidths(s) ==
  LET most == MaxWidth(GroupLinks(s.h, s.want), s.h.globalDim)
  IN IF s.h.globalWidths[1] = most THEN NextLocalWidths(s)
     ELSE [s EXCEPT !.at = "global widths", !.h.globalWidths = Grown(@, most, 0)]

TryGlobalWidths(s) ==
  IF /\ Used(s.h.globalWidths, Constantly(s.h.globalDim, 1)) <= GroupLinks(s.h, s.want)
     /\ Within(TerminalCount(s.h), s.want.terminals)
  THEN [s EXCEPT !.at = "local weights", !.h.localWeights = Constantly(s.h.localDim, 1)]
  ELSE NextGlobalWidths(s)

(* What stage4 and stage5 ask of the weights of one level, when the other  *)
(* level has that many dimensions: all links used, and two dimensions      *)
(* balanced.                                                               *)
Balanced(widths, weights, links, otherDims) ==
  /\ Used(widths, weights) = links
  /\ Len(widths) > 1 /\ otherDims = 1 => weights[1] = widths[2] * weights[2]
  /\ Len(widths) = 2 /\ otherDims = 2
       => (widths[1] - 1) * weights[1] = (widths[2] - 1) * weights[2]

LocallyBalanced(h, want) ==
  Balanced(h.localWidths, h.localWeights, LocalLinks(h, want), h.globalDim)
GloballyBalanced(h, want) ==
  Balanced(h.globalWidths, h.globalWeights, GroupLinks(h, want), h.localDim)

(* stage4: the weights of a group.                                         *)
NextLocalWeights(s) ==
  LET most == MaxWidth(LocalLinks(s.h, s.want), s.h.localDim) - 1
  IN IF s.h.localWeights[1] = most THEN NextGlobalWidths(s)
     ELSE [s EXCEPT !.at = "local weights", !.h.localWeights = Grown(@, most, 1)]

TryLocalWeights(s) ==
  IF LocallyBalanced(s.h, s.want)
  THEN [s EXCEPT !.at = "global weights", !.h.globalWeights = Constantly(s.h.globalDim, 1)]
  ELSE NextLocalWeights(s)

(* stage6: the channels, and the place of the result among the others.     *)
Channels(h, want) ==
  TerminalCount(h) * (1 + LocalLinks(h, want) + GlobalLinks(h, want))
Cheaper(g, h, want) == Channels(g, want) < Channels(h, want)
Recorded(s) ==
  LET all == s.results \cup {s.h}
  IN IF ~GloballyBalanced(s.h, s.want) THEN {s}
     ELSE IF Cardinality(all) <= s.want.maxResults THEN {[s EXCEPT !.results = all]}
     ELSE {[s EXCEPT !.results = all \ {h}] :
             h \in {h \in all : \A g \in all : ~Cheaper(h, g, s.want)}}

(* stage5: the weights of the network of groups.                           *)
NextGlobalWeights(s) ==
  LET most == MaxWidth(GroupLinks(s.h, s.want), s.h.globalDim) - 1
  IN IF s.h.globalWeights[1] = most THEN NextLocalWeights(s)
     ELSE [s EXCEPT !.h.globalWeights = Grown(@, most, 1)]

Init ==
  \E want \in Wanted :
    search = [want |-> want, at |-> "links", results |-> {},
              h |-> [localDim |-> want.localDim[1], globalDim |-> want.globalDim[1],
                     concentration |-> want.concentration[1], localWidths |-> <<>>,
                     globalWidths |-> <<>>, localWeights |-> <<>>, globalWeights |-> <<>>]]

Next ==
  \/ search.at = "links" /\ search' = TryLinks(search)
  \/ search.at = "local widths" /\ search' = TryLocalWidths(search)
  \/ search.at = "global widths" /\ search' = TryGlobalWidths(search)
  \/ search.at = "local weights" /\ search' = TryLocalWeights(search)
  \/ search.at = "global weights" /\ search' \in {NextGlobalWeights(s) : s \in Recorded(search)}

-----------------------------------------------------------------------------
(* Every hierarchical HyperX within the bounds that uses all its links and *)
(* is balanced, with its widths ascending, as stage6 asserts.              *)
Ascending(f) == \A d \in 2..Len(f) : f[d - 1] <= f[d]
Vectors(dims, least, most) == [1..dims -> least..most]

Topologies(want) ==
  LET Dims == [globalDim : want.globalDim[1]..want.globalDim[2],
               localDim : want.localDim[1]..want.localDim[2],
               concentration : want.concentration[1]..want.concentration[2]]
      most == want.terminals[2]
      Widths(dims) == {w \in Vectors(dims, 2, most) : Product(w, dims) <= most /\ Ascending(w)}
      Weights(w, links) == {k \in Vectors(Len(w), 1, links) : Used(w, k) = links}
      Wide(d) ==
        {[localDim |-> d.localDim, globalDim |-> d.globalDim, concentration |-> d.concentration,
          localWidths |-> lw, globalWidths |-> gw] :
            lw \in Widths(d.localDim), gw \in Widths(d.globalDim)}
      Whole(h) ==
        {[localDim |-> h.localDim, globalDim |-> h.globalDim, concentration |-> h.concentration,
          localWidths |-> h.localWidths, globalWidths |-> h.globalWidths,
          localWeights |-> lk, globalWeights |-> gk] :
            lk \in Weights(h.localWidths, LocalLinks(h, want)),
            gk \in Weights(h.globalWidths, GroupLinks(h, want))}
      InBounds(h) == /\ Within(RouterRadix(h, want), want.radix)
                     /\ Within(TerminalCount(h), want.terminals)
  IN {h \in UNION {Whole(h) : h \in {h \in UNION {Wide(d) : d \in Dims} : InBounds(h)}} :
        LocallyBalanced(h, want) /\ GloballyBalanced(h, want)}

(* The same, once for every setting.                                       *)
AllTopologies == [want \in Wanted |-> Topologies(want)]

(* What is found is within the bounds, as many as wanted, and the          *)
(* cheapest of all.                                                        *)
SearchFinds ==
  /\ search.at = "global weights" =>
       Ascending(search.h.localWidths) /\ Ascending(search.h.globalWidths)
  /\ search.at = "done" =>
       LET others == AllTopologies[search.want] \ search.results
       IN /\ search.results \subseteq AllTopologies[search.want]
          /\ others # {} => /\ Cardinality(search.results) = search.want.maxResults
                            /\ \A h \in others, r \in search.results :
                                 ~Cheaper(h, r, search.want)
=============================================================================
