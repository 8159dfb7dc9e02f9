------------------------------ MODULE LinearCode ------------------------------
(***************************************************************************)
(* linear_code_utils: the dual of the code that the rows of a matrix span, *)
(* encoding, and the check of a received word.                             *)
(***************************************************************************)
EXTENDS Matrix

(* compute_row_dim: rows of the row echelon form are dropped from the last *)
(* one, until one has an element in the columns from the number of rows    *)
(* on, the only ones that are looked at; one row stays.                    *)
RowSpace(F, A) ==
  LET k == Rows(A)
      ref == ReduceToRef(F, A)
      Seen(i) == \E j \in k..Cols(A) : ref[i][j] # Zero
      kept == {i \in 1..k : Seen(i)}
  IN  SubSeq(ref, 1, IF kept = {} THEN 1 ELSE Max(kept))

(* is_systematic: an identity in the first columns.  Of a single row the   *)
(* column after is looked at too.                                          *)
IsSystematic(A) ==
  LET k == Rows(A)
  IN  /\ \A i \in 1..k : A[i][i] = One
      /\ \A i \in 1..k, j \in 1..(IF k = 1 THEN 2 ELSE k) : i # j => A[i][j] = Zero

(* The first 1 after the column of the row before goes to the row's place  *)
(* on the diagonal, one swap after the other.                              *)
SystematicPerm(A) ==
  LET n == Cols(A)
      step[i \in 0..Rows(A)] ==
        IF i = 0 THEN [perm |-> [j \in 1..n |-> j], col |-> 0]
        ELSE LET s == step[i - 1]
                 c == Min({j \in s.col + 1..n : A[i][j] = One})
             IN  [perm |-> [s.perm EXCEPT ![i] = s.perm[c], ![c] = s.perm[i]],
                  col |-> c]
  IN  IF IsSystematic(A) THEN step[0].perm ELSE step[Rows(A)].perm

(* compute_dual_code: the transpose of what is beside the identity, and an *)
(* identity, with the columns put back.                                    *)
DualOf(G, perm) ==
  LET k == Rows(G)
      m == Cols(G) - k
      Dual(i, j) == IF j <= k THEN G[j][perm[k + i]] ELSE Eye(m)[i][j - k]
      Place(c) == CHOOSE j \in 1..k + m : perm[j] = c
  IN  Explicit([i \in 1..m |-> Explicit([c \in 1..k + m |-> Dual(i, Place(c))])])

DualOfSpace(G) == DualOf(G, SystematicPerm(G))
DualCode(F, A) == DualOfSpace(RowSpace(F, A))

Encode(F, G, info) ==
  Explicit([i \in 1..Cols(G) |->
    SumOver([j \in 1..Rows(G) |-> Times(F, info[j], G[j][i])])])

Syndrome(F, H, word) ==
  Explicit([i \in 1..Rows(H) |->
    SumOver([j \in 1..Cols(H) |-> Times(F, H[i][j], word[j])])])

(* compute_kronecker and create_hadamard.                                  *)
Kronecker(A, B) ==
  LET rb == Len(B)
      cb == Len(B[1])
  IN  [i \in 1..Len(A) * rb |-> [j \in 1..Len(A[1]) * cb |->
        A[(i - 1) \div rb + 1][(j - 1) \div cb + 1]
          * B[((i - 1) % rb) + 1][((j - 1) % cb) + 1]]]

Hadamard(m) ==
  LET A == <<<<1, 1>>, <<1, -1>>>>
      B[s \in 1..m] == IF s = 1 THEN A ELSE Kronecker(A, B[s - 1])
  IN  B[m]

(***************************************************************************)
(* Results                                                                 *)
(***************************************************************************)

(* The code and its dual: of a matrix of full rank, fewer rows than        *)
(* columns, the dual has the dimension that is left, and the syndrome of a *)
(* word is zero when the word is in the code and only then.                *)
DualCodeExact(F, A) ==
  LET words == [1..Cols(A) -> Elements(F)]
  IN  Rank(F, A) = Rows(A) /\ Rows(A) < Cols(A) =>
      \A H \in {DualCode(F, A)} :
        /\ Rank(F, H) = Cols(A) - Rows(A)
        /\ {w \in words : IsZeroRow(Syndrome(F, H, w))}
             = {Encode(F, A, x) : x \in [1..Rows(A) -> Elements(F)]}

(* The rows of a Hadamard matrix are orthogonal.                           *)
HadamardExact(m) ==
  LET H == Hadamard(m)
      Inner(a, b) == MapThenSumSet(LAMBDA k : a[k] * b[k], DOMAIN a)
  IN  \A i, j \in 1..2 ^ m : Inner(H[i], H[j]) = IF i = j THEN 2 ^ m ELSE 0
=============================================================================
