-------------------------- MODULE TrafficPatterns --------------------------
(***************************************************************************)
(* traffic: where the terminals of a benchmark send their messages.  A     *)
(* pattern is a name, the choice of its settings included; what it picks   *)
(* at random is a set of destinations.  An address is a terminal address   *)
(* of Cube: its first entry is the place at the router.                    *)
(***************************************************************************)
EXTENDS Cube, FiniteSets

CONSTANTS Widths, Concentration,
          EnabledDims,      \* enabled_dimensions, counted from 1
          GroupSize         \* group_size of the dragonfly pattern, in routers

Dims == 1..Len(Widths)
Terminals == 0..Concentration * Product(Widths, Len(Widths)) - 1
NumTerminals == Cardinality(Terminals)

AddressOf(id) == TerminalAddress(id, Widths, Concentration)
IdOf(address) == ArrayIndex(address, <<Concentration>> \o Widths)

(* The entry of a terminal in dimension d, and the terminal that has the   *)
(* given entries in the dimensions dims.                                   *)
In(self, d) == AddressOf(self)[d + 1]
Moved(self, dims, entry) ==
  IdOf(<<AddressOf(self)[1]>>
         \o [d \in Dims |-> IF d \in dims THEN entry[d] ELSE In(self, d)])

-----------------------------------------------------------------------------
(* On the bits of the terminal's number: there are 2^Bits terminals.       *)
Bits == CHOOSE b \in 0..NumTerminals : 2 ^ b >= NumTerminals /\ \A c \in 0..b - 1 : 2 ^ c < NumTerminals
Bit(n, i) == (n \div 2 ^ i) % 2
FromBits(bit) ==
  LET sum[i \in 0..Bits] == IF i = 0 THEN 0 ELSE sum[i - 1] + bit[i - 1] * 2 ^ (i - 1)
  IN sum[Bits]

BitComplement(self) == NumTerminals - 1 - self
BitReverse(self) == FromBits([i \in 0..Bits - 1 |-> Bit(self, Bits - 1 - i)])
BitRotateRight(self) == self \div 2 + Bit(self, 0) * 2 ^ (Bits - 1)
BitRotateLeft(self) == ((2 * self) % 2 ^ Bits) + Bit(self, Bits - 1)
BitTranspose(self) ==
  LET half == 2 ^ (Bits \div 2) IN (self % half) * half + self \div half

-----------------------------------------------------------------------------
(* On the dimensions of its address.                                       *)
DimReverse(self) == Moved(self, Dims, [d \in Dims |-> In(self, Len(Widths) + 1 - d)])
DimComplementReverse(self) ==
  Moved(self, Dims, [d \in Dims |-> Widths[d] - 1 - In(self, Len(Widths) + 1 - d)])
DimRotateLeft(self) == Moved(self, Dims, [d \in Dims |-> In(self, (d % Len(Widths)) + 1)])
DimRotateRight(self) ==
  Moved(self, Dims, [d \in Dims |-> In(self, IF d = 1 THEN Len(Widths) ELSE d - 1)])

FirstDim == FirstOf(EnabledDims)
SecondDim == FirstOf(EnabledDims \ {FirstDim})
DimTranspose(self) ==
  Moved(self, {FirstDim, SecondDim},
        [d \in Dims |-> In(self, IF d = FirstDim THEN SecondDim ELSE FirstDim)])

NeighborRight(self, dims) ==
  Moved(self, dims, [d \in Dims |-> (In(self, d) + 1) % Widths[d]])
NeighborLeft(self, dims) ==
  Moved(self, dims, [d \in Dims |-> (In(self, d) + Widths[d] - 1) % Widths[d]])
Tornado(self) ==
  Moved(self, EnabledDims, [d \in Dims |-> (In(self, d) + (Widths[d] - 1) \div 2) % Widths[d]])

(* Mutant: half of an odd width is rounded down both ways.                 *)
OtherHalfRounded(x, width) ==
  IF x < width \div 2 THEN x + width \div 2
  ELSE IF x > (width - 1) \div 2 THEN x - width \div 2 ELSE x

(* To the other half of a dimension; the middle of an odd one stays.       *)
OtherHalf(x, width) ==
  IF x < width \div 2 THEN x + (width + 1) \div 2
  ELSE IF x > (width - 1) \div 2 THEN x - (width + 1) \div 2 ELSE x

(* Even terminals cross the first enabled dimension, odd ones the second.  *)
Swap2(self) ==
  Moved(self, {IF self % 2 = 0 THEN FirstDim ELSE SecondDim},
        [d \in Dims |-> OtherHalf(In(self, d), Widths[d])])

(* One group is complemented, the other exchanges halves.                  *)
Quadrant(self) == {d \in Dims : In(self, d) >= Widths[d] \div 2}
NodeGroup(self, mode) ==
  CASE mode = "parity" -> AddressOf(self)[1] % 2
    [] mode = "half" -> IF self < NumTerminals \div 2 THEN 0 ELSE 1
    [] mode = "quadrant" -> Cardinality(Quadrant(self)) % 2
BisectionStress(self, mode) ==
  Moved(self, Dims, [d \in Dims |-> IF NodeGroup(self, mode) > 0
                                    THEN OtherHalf(In(self, d), Widths[d])
                                    ELSE Widths[d] - 1 - In(self, d)])

-----------------------------------------------------------------------------
(* The random ones: the destinations they draw from.                       *)
UniformRandom(self) == Terminals \ {self}      \* send_to_self is false
InQuadrant(q) == {t \in Terminals : Quadrant(t) = q}
UniformRandomQuadrant(self) == InQuadrant(Quadrant(self))
RandomExchange(self) ==
  {t + (IF self < NumTerminals \div 2 THEN NumTerminals \div 2 ELSE 0) :
     t \in 0..NumTerminals \div 2 - 1}
RandomExchangeQuadrant(self) == InQuadrant(Dims \ Quadrant(self))

(* all_terminals: every place at the neighbours.                           *)
RandomExchangeNeighbor(self) ==
  {IdOf([AddressOf(t) EXCEPT ![1] = place]) :
     t \in UNION {{NeighborLeft(self, {d}), NeighborRight(self, {d})} : d \in EnabledDims},
     place \in 0..Concentration - 1}

DragonflyWorstCase(self) ==
  LET group == self \div (GroupSize * Concentration)
      groups == NumTerminals \div (GroupSize * Concentration)
      target == IF group < groups - 1 THEN group + 1 ELSE 0
  IN {(router + GroupSize * target) * Concentration : router \in 0..GroupSize - 1}

(* The scan: the next destination in turn, but for oneself (send_to_self   *)
(* is false).                                                              *)
Advance(next, ascend) ==
  IF ascend THEN (next + 1) % NumTerminals
  ELSE IF next = 0 THEN NumTerminals - 1 ELSE next - 1
ScanAfter(self, next, ascend) ==
  LET to == Advance(next, ascend) IN IF to = self THEN Advance(to, ascend) ELSE to

(* The matrix: dist_, the sums of the probabilities before each terminal,  *)
(* and the binary search in it for a random number.  Probabilities are     *)
(* whole numbers here.                                                     *)
Cumulated(weights) ==
  LET sum[i \in DOMAIN weights] == IF i = 0 THEN 0 ELSE sum[i - 1] + weights[i - 1]
  IN sum

MatrixPick(dist, rnd) ==
  LET search[bot \in DOMAIN dist, top \in Nat] ==
        LET mid == (top - bot) \div 2 + bot
        IN IF top - bot = 1 THEN mid
           ELSE IF dist[mid] < rnd THEN search[mid, top] ELSE search[bot, mid]
  IN search[0, Cardinality(DOMAIN dist)]

Destinations(pattern, self) ==
  CASE pattern = "bit complement" -> {BitComplement(self)}
    [] pattern = "bit reverse" -> {BitReverse(self)}
    [] pattern = "bit rotate right" -> {BitRotateRight(self)}
    [] pattern = "bit rotate left" -> {BitRotateLeft(self)}
    [] pattern = "bit transpose" -> {BitTranspose(self)}
    [] pattern = "dim reverse" -> {DimReverse(self)}
    [] pattern = "dim complement reverse" -> {DimComplementReverse(self)}
    [] pattern = "dim rotate left" -> {DimRotateLeft(self)}
    [] pattern = "dim rotate right" -> {DimRotateRight(self)}
    [] pattern = "dim transpose" -> {DimTranspose(self)}
    [] pattern = "neighbor right" -> {NeighborRight(self, EnabledDims)}
    [] pattern = "neighbor left" -> {NeighborLeft(self, EnabledDims)}
    [] pattern = "tornado" -> {Tornado(self)}
    [] pattern = "swap2" -> {Swap2(self)}
    [] pattern = "loopback" -> {self}
    [] pattern = "bisection parity" -> {BisectionStress(self, "parity")}
    [] pattern = "bisection half" -> {BisectionStress(self, "half")}
    [] pattern = "bisection quadrant" -> {BisectionStress(self, "quadrant")}
    [] pattern = "uniform random" -> UniformRandom(self)
    [] pattern = "uniform random quadrant" -> UniformRandomQuadrant(self)
    [] pattern = "random exchange" -> RandomExchange(self)
    [] pattern = "random exchange quadrant" -> RandomExchangeQuadrant(self)
    [] pattern = "random exchange neighbor" -> RandomExchangeNeighbor(self)
    [] pattern = "dragonfly worst case" -> DragonflyWorstCase(self)

-----------------------------------------------------------------------------
(* A benchmark that is meant to load all terminals alike does: the         *)
(* deterministic patterns are permutations, and the random ones are        *)
(* symmetric, but for the dragonfly one, which loads one terminal of every *)
(* router.                                                                 *)
LoadsAlike(pattern, t) ==
  pattern # "dragonfly worst case" =>
    Cardinality({self \in Terminals : t \in Destinations(pattern, self)})
      = Cardinality(Destinations(pattern, t))

(* A scan visits every other terminal, in some order, before it repeats    *)
(* one.                                                                    *)
ScanVisitsAll(self) ==
  \A ascend \in BOOLEAN : \A start \in Terminals \ {self} :
    LET visited[n \in 0..NumTerminals - 2] ==
          IF n = 0 THEN start ELSE ScanAfter(self, visited[n - 1], ascend)
    IN {visited[n] : n \in 0..NumTerminals - 2} = UniformRandom(self)

(* The binary search picks each terminal as often as the matrix says: for  *)
(* every row of n weights up to most.                                      *)
MatrixAsWeighted(n, most) ==
  \A weights \in [0..n - 1 -> 0..most] :
    LET dist == Cumulated(weights)
        total == dist[n - 1] + weights[n - 1]
    IN \A i \in 0..n - 1 :
         Cardinality({rnd \in 1..total : MatrixPick(dist, rnd) = i}) = weights[i]

(* The patterns that stress a bisection send every message across it: in   *)
(* each dimension (bisection stress, and with widths of 2 the complement   *)
(* patterns), from one half of the terminals to the other (random          *)
(* exchange), or to the next group (dragonfly).                            *)
CrossesOver(pattern, self, t) ==
  /\ pattern \in {"bisection parity", "bisection half", "bisection quadrant",
                  "random exchange quadrant"} => Quadrant(t) = Dims \ Quadrant(self)
  /\ pattern = "random exchange" =>
       (self < NumTerminals \div 2 <=> t >= NumTerminals \div 2)
  /\ pattern = "dragonfly worst case" =>
       self \div (GroupSize * Concentration) # t \div (GroupSize * Concentration)
===========================================================================
