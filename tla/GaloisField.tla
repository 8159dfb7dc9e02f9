----------------------------- MODULE GaloisField -----------------------------
(***************************************************************************)
(* Extensions of GF(2): gf computes with polynomials, gf_fast with tables  *)
(* of logarithms.  An element is the set of the exponents of its           *)
(* polynomial, and a field F is [m, poly], poly of degree m.               *)
(***************************************************************************)
EXTENDS Integers, Sequences, FiniteSets

GF2 == [m |-> 1, poly |-> {0, 1}]
GF4 == [m |-> 2, poly |-> {0, 1, 2}]
GF8 == [m |-> 3, poly |-> {0, 1, 3}]
GF16 == [m |-> 4, poly |-> {0, 1, 4}]

Elements(F) == SUBSET (0..F.m - 1)
Zero == {}
One == {0}

(***************************************************************************)
(* gf                                                                      *)
(***************************************************************************)
Plus(a, b) == (a \ b) \union (b \ a)

\* The multiplier, shifted; the polynomial is subtracted on overflow.
Shift(F, a) ==
  LET up == {k + 1 : k \in a}
  IN  IF F.m \in up THEN Plus(up, F.poly) ELSE up

Times(F, a, b) ==
  LET A[i \in 0..F.m] == IF i = 0 THEN a ELSE Shift(F, A[i - 1])
      sum[i \in 0..F.m] ==
        IF i = 0 THEN Zero
        ELSE IF i - 1 \in b THEN Plus(sum[i - 1], A[i - 1]) ELSE sum[i - 1]
  IN  sum[F.m]

(* The powers of 2 are tried from the first; in GF(2), which has only 1,   *)
(* 2 is never multiplied with.                                             *)
PowersOfTwo(F) ==
  LET p[i \in 0..2 ^ F.m - 1] == IF i = 0 THEN One ELSE Shift(F, p[i - 1])
  IN  [i \in DOMAIN p |-> p[i]]

Fields == <<GF2, GF4, GF8, GF16>>
PowerTable == [m \in 1..4 |-> PowersOfTwo(Fields[m])]
Powers(F) == PowerTable[F.m]

InverseOf(F, a) ==
  LET p == Powers(F)
      tried == {i \in DOMAIN p : Times(F, p[i], a) = One}
  IN  p[CHOOSE i \in tried : \A k \in tried : i <= k]

Over(F, a, b) == Times(F, a, InverseOf(F, b))

(***************************************************************************)
(* gf_fast: an element also keeps its logarithm, that of 0 being 0         *)
(***************************************************************************)
PowLut(F) == Powers(F)
LogLut(F) ==
  [a \in Elements(F) |->
    IF a = Zero THEN 0
    ELSE CHOOSE i \in 0..2 ^ F.m - 2 : Powers(F)[i] = a]

Fast(F, a) == [value |-> a, log |-> LogLut(F)[a]]
Order(F) == 2 ^ F.m - 1

FastPlus(F, x, y) == Fast(F, Plus(x.value, y.value))

\* The value and the logarithm are set together.
FastPower(F, log) == [value |-> PowLut(F)[log], log |-> log]

FastTimes(F, x, y) ==
  IF x.value = Zero THEN x
  ELSE IF y.value = Zero THEN [value |-> Zero, log |-> 0]
  ELSE FastPower(F, (x.log + y.log) % Order(F))

FastOver(F, x, y) ==
  IF x.value = Zero THEN x
  ELSE FastPower(F, (x.log + Order(F) - y.log) % Order(F))

FastInverse(F, x) == Fast(F, PowLut(F)[Order(F) - x.log])

\* power: C's remainder of a negative number is negative.
FastToThe(F, x, y) == Fast(F, PowLut(F)[(x.log * y) % Order(F)])

(***************************************************************************)
(* What codes rely on                                                      *)
(***************************************************************************)

(* The two implementations agree: quotients undo products, and an element  *)
(* of gf_fast always has the logarithm of its value, which the tables gave *)
(* it or the last operation did.  A negative power is one of the inverse.  *)
FieldsAgree(F, a, b) ==
  LET x == Fast(F, a)
      y == Fast(F, b)
  IN  /\ FastPlus(F, x, y) = Fast(F, Plus(a, b))
      /\ FastTimes(F, x, y) = Fast(F, Times(F, a, b))
      /\ b # Zero =>
           /\ FastOver(F, x, y) = Fast(F, Over(F, a, b))
           /\ FastTimes(F, FastOver(F, x, y), y) = x
           /\ FastInverse(F, y) = Fast(F, InverseOf(F, b))
           /\ \A k \in 1..3 :
                /\ FastToThe(F, y, k) = FastTimes(F, FastToThe(F, y, k - 1), y)
                /\ FastToThe(F, y, - k) = FastInverse(F, FastToThe(F, y, k))
=============================================================================
