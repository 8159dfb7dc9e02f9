-------------------------------- MODULE Matrix --------------------------------
(***************************************************************************)
(* matrix.h over a field of GaloisField: a matrix is a sequence of rows.   *)
(***************************************************************************)
EXTENDS GaloisField, FiniteSetsExt

\* A sequence, its elements evaluated once.
Explicit(seq) == seq \o <<>>

Rows(M) == Len(M)
Cols(M) == IF Rows(M) = 0 THEN 0 ELSE Len(M[1])

Eye(n) == [i \in 1..n |-> [j \in 1..n |-> IF i = j THEN One ELSE Zero]]

SumOver(terms) == FoldFunction(Plus, Zero, terms)

MatrixPlus(A, B) ==
  [i \in 1..Rows(A) |-> [j \in 1..Cols(A) |-> Plus(A[i][j], B[i][j])]]

MatrixTimes(F, A, B) ==
  Explicit([i \in 1..Rows(A) |->
    Explicit([j \in 1..Cols(B) |->
      SumOver([k \in 1..Cols(A) |-> Times(F, A[i][k], B[k][j])])])])

(* By a vector the product sums over rows: it is that of the transpose.    *)
MatrixTimesVector(F, A, x) ==
  [i \in 1..Cols(A) |-> SumOver([k \in 1..Rows(A) |-> Times(F, A[k][i], x[k])])]

(* Row p becomes row i, divided by its element in column c, and is         *)
(* subtracted from every other row so often that c has no other element.   *)
Pivoted(F, M, i, p, c) ==
  LET swapped == [M EXCEPT ![i] = M[p], ![p] = M[i]]
      Scaled(x) == Over(F, x, swapped[i][c])
      row == Explicit([k \in DOMAIN swapped[i] |-> Scaled(swapped[i][k])])
      Reduced(r) ==
        Explicit([k \in DOMAIN r |-> Plus(r[k], Times(F, row[k], r[c]))])
  IN  Explicit([j \in DOMAIN M |-> IF j = i THEN row ELSE Reduced(swapped[j])])

PivotRows(M, i, c) == {j \in i..Rows(M) : M[j][c] # Zero}

(* inverse: Gauss-Jordan elimination of A and the identity beside it, from *)
(* the first row with an element in the column; <<>> for the assertion     *)
(* that there is one.                                                      *)
InverseMatrix(F, A) ==
  LET n == Rows(A)
      step[i \in 0..n] ==
        IF i = 0 THEN [j \in 1..n |-> A[j] \o Eye(n)[j]]
        ELSE IF step[i - 1] = <<>> \/ PivotRows(step[i - 1], i, i) = {} THEN <<>>
        ELSE Pivoted(F, step[i - 1], i, Min(PivotRows(step[i - 1], i, i)), i)
  IN  [j \in DOMAIN step[n] |-> SubSeq(step[n][j], n + 1, 2 * n)]

(* reduce_to_ref: after each column, the matrix and the rows with a pivot. *)
ReduceToRef(F, A) ==
  LET step[c \in 0..Cols(A)] ==
        IF c = 0 THEN [ref |-> A, row |-> 0]
        ELSE LET s == step[c - 1]
                 ps == PivotRows(s.ref, s.row + 1, c)
             IN  IF ps = {} THEN s
                 ELSE [ref |-> Pivoted(F, s.ref, s.row + 1, Min(ps), c),
                       row |-> s.row + 1]
  IN  step[Cols(A)].ref

(* pow: squares while the exponent is even, then multiplies by A, not by   *)
(* the square, and not by the inverse, for what remains.                   *)
MatrixPower(F, A, n) ==
  LET B == IF n > 0 THEN A ELSE InverseMatrix(F, A)
      k == IF n > 0 THEN n ELSE - n
      squarings == Max({s \in 0..k : k % (2 ^ s) = 0})
      square[s \in 0..squarings] ==
        IF s = 0 THEN B ELSE MatrixTimes(F, square[s - 1], square[s - 1])
      rest[i \in 1..k \div (2 ^ squarings)] ==
        IF i = 1 THEN square[squarings] ELSE MatrixTimes(F, rest[i - 1], A)
  IN  IF n = 0 THEN Eye(Rows(A)) ELSE rest[k \div (2 ^ squarings)]

IsZeroRow(r) == \A k \in DOMAIN r : r[k] = Zero

Rank(F, A) ==
  Cardinality({i \in DOMAIN A : ~ IsZeroRow(ReduceToRef(F, A)[i])})

(***************************************************************************)
(* Results                                                                 *)
(***************************************************************************)
Combinations(F, A) ==
  {[j \in 1..Cols(A) |-> SumOver([k \in 1..Rows(A) |-> Times(F, x[k], A[k][j])])] :
     x \in [1..Rows(A) -> Elements(F)]}

(* The inverse is one, and exists where the rank is full; the row echelon  *)
(* form spans the rows it is made from, and the rank counts them; powers up *)
(* to the fifth are repeated products.                                     *)
EliminationExact(F, A) ==
  LET ref == ReduceToRef(F, A)
      q == 2 ^ F.m
  IN  /\ Combinations(F, ref) = Combinations(F, A)
      /\ Cardinality(Combinations(F, A)) = q ^ Rank(F, A)
      /\ Rows(A) = Cols(A) =>
           /\ (InverseMatrix(F, A) # <<>>) <=> (Rank(F, A) = Rows(A))
           /\ InverseMatrix(F, A) # <<>> =>
                /\ MatrixTimes(F, InverseMatrix(F, A), A) = Eye(Rows(A))
                /\ MatrixPower(F, A, -1) = InverseMatrix(F, A)
           /\ \A n \in 0..4 : MatrixPower(F, A, n + 1) =
                               MatrixTimes(F, MatrixPower(F, A, n), A)
=============================================================================
