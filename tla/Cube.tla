------------------------------- MODULE Cube -------------------------------
(***************************************************************************)
(* network/cube/util and util/DimensionalArray: the addresses of routers   *)
(* and terminals in a network with dimensions, and the order in which such *)
(* a network numbers its interfaces.  An address is a sequence with one    *)
(* entry per dimension; a terminal has one more entry, in front, for its   *)
(* place at its router.                                                    *)
(***************************************************************************)
EXTENDS Integers, Sequences

(* The product of the first n widths.                                      *)
Product(widths, n) ==
  LET product[i \in 0..n] == IF i = 0 THEN 1 ELSE product[i - 1] * widths[i]
  IN product[n]

(* All addresses: entry d is below widths[d].                              *)
Longest(widths) ==
  widths[CHOOSE d \in DOMAIN widths : \A e \in DOMAIN widths : widths[e] <= widths[d]]
Addresses(widths) ==
  {a \in [1..Len(widths) -> 0..Longest(widths) - 1] : \A d \in 1..Len(widths) : a[d] < widths[d]}

(* Little endian digits of a number, the first width the fastest.          *)
RouterAddress(id, widths) ==
  [d \in 1..Len(widths) |-> (id \div Product(widths, d - 1)) % widths[d]]

TerminalAddress(id, widths, concentration) ==
  <<id % concentration>> \o RouterAddress(id \div concentration, widths)

(* The element of a DimensionalArray at an address: every dimension is     *)
(* scaled by the widths of those before it.                                *)
ArrayIndex(address, widths) ==
  LET sum[d \in 0..Len(widths)] ==
        IF d = 0 THEN 0 ELSE sum[d - 1] + address[d] * Product(widths, d - 1)
  IN sum[Len(widths)]

(* The dimensions in which two addresses differ, and the first of some     *)
(* dimensions.                                                             *)
Differing(a, b) == {d \in DOMAIN a : a[d] # b[d]}
FirstOf(dims) == CHOOSE d \in dims : \A e \in dims : d <= e
===========================================================================
