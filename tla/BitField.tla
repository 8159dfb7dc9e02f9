------------------------------- MODULE BitField -------------------------------
(***************************************************************************)
(* bitfield: a number of bits and the set of the positions of those that   *)
(* are set, 0 the lowest.                                                  *)
(***************************************************************************)
EXTENDS Integers, Sequences, FiniteSets

Bits(bits, field) == [bits |-> bits, field |-> field]
Bit(b) == Bits(1, IF b THEN {0} ELSE {})

FromVector(v) == Bits(Len(v), {i \in 0..Len(v) - 1 : v[i + 1]})

\* The mask, applied after a shift.
Masked(bits, field) == Bits(bits, {p \in field : p < bits})
Raised(field, n) == {p + n : p \in field}
Lowered(field, n) == {p - n : p \in {q \in field : q >= n}}

ExtractBits(x, hi, lo) == Masked(hi - lo + 1, Lowered(x.field, lo))
ExtractBit(x, b) == ExtractBits(x, b, b)

Xor(x, y) == Bits(x.bits, (x.field \ y.field) \union (y.field \ x.field))

\* operator*: the parity of the bits that both have.
Convolution(x, y) == Bit(Cardinality(x.field \intersect y.field) % 2 = 1)

\* operator+: x above y.
Concat(x, y) == Bits(x.bits + y.bits, Raised(x.field, y.bits) \union y.field)

ShiftInLow(x, y) == Masked(x.bits, Raised(x.field, y.bits) \union y.field)

\* x >> y: x comes in at the top of y.
ShiftInHigh(x, y) ==
  Masked(y.bits,
         Raised(x.field, y.bits - x.bits) \union Lowered(y.field, x.bits))
=============================================================================
