--------------------------------- MODULE Ldpc ---------------------------------
(***************************************************************************)
(* The LDPC codec (codec/ldpc.cpp) and its two sum-product algorithms: the *)
(* traditional one (sumprodalg/impl/sum_prod_alg_trad.cpp), which sums     *)
(* over the values of the other symbols of a check, and the one with       *)
(* Hadamard transforms (sum_prod_alg_gdl.cpp).  Both run side by side on   *)
(* the same received word.                                                 *)
(*                                                                         *)
(* A table of likelihoods gives a weight, a natural number without a       *)
(* common factor, to every element; the clipping of zeros has nothing to   *)
(* do where no weight is zero.                                             *)
(***************************************************************************)
EXTENDS LinearCode

CONSTANTS
  Codes,      \* [F, H, reduce_to_ref, depth, received]; received holds the
              \* weights the channel may give the elements of one symbol
  MaxIter     \* bound: iterations of softdecode

VARIABLES
  code,               \* the code
  received_probs,     \* the likelihoods of the word received
  q_mxn,              \* messages to the checks, of the traditional algorithm
  qmn_conv,           \* their transforms, of the other
  ro, ro_gdl,         \* posteriors of the one and of the other
  received_word_hd,   \* hard decisions on ro
  current_iteration,
  spa_iterations,     \* iterations that did not find the word decoded already
  decodingSuccess

ldpcvars == <<code, received_probs, q_mxn, qmn_conv, ro, ro_gdl,
              received_word_hd, current_iteration, spa_iterations,
              decodingSuccess>>

ASSUME LdpcAssumption == MaxIter \in Nat

(***************************************************************************)
(* The code                                                                *)
(***************************************************************************)
Checks == 1..Rows(code.H)
Variables == 1..Cols(code.H)
N_m(m) == {n \in Variables : code.H[m][n] # Zero}
M_n(n) == {m \in Checks : code.H[m][n] # Zero}
Edges == {e \in Checks \X Variables : e[2] \in N_m(e[1])}

FirstNonZero(row) == Min({j \in DOMAIN row : row[j] # Zero})

Canonical(c, G) == IF c.reduce_to_ref THEN ReduceToRef(c.F, G) ELSE G
GenMatrix(c) == Canonical(c, DualCode(c.F, c.H))

(* Where the information symbols are in a codeword: after the pivots of    *)
(* the checks, or at the pivots of the generator itself.                   *)
InfoSymbPos(c, G) ==
  LET k == Rows(G)
      perm == SystematicPerm(RowSpace(c.F, c.H))
  IN  [i \in 1..k |-> IF c.reduce_to_ref THEN FirstNonZero(G[i])
                      ELSE perm[Cols(G) - k + i]]

(***************************************************************************)
(* Weights                                                                 *)
(***************************************************************************)
Sum(S, f(_)) == MapThenSumSet(f, S)
Product(S, f(_)) == FoldSet(LAMBDA x, p : p * f(x), 1, S)

Gcd(a, b) ==
  LET g[n \in Nat] == [m \in Nat |-> IF n = 0 THEN m ELSE g[m % n][n]]
  IN  g[a][b]

(* Tables are only known up to a factor: the smallest is taken.            *)
Normalised(F, f) ==
  LET common == FoldSet(LAMBDA x, d : Gcd(d, f[x]), 0, Elements(F))
  IN  [x \in Elements(F) |-> f[x] \div common]

(* Entry v of the transform: the sum with the sign of the parity of what   *)
(* x and v have in common.                                                 *)
ComputeConvs(F, f) ==
  [v \in Elements(F) |->
    Sum(Elements(F), LAMBDA x :
      IF Cardinality(x \intersect v) % 2 = 0 THEN f[x] ELSE - f[x])]

(* probs(h*x) = probs(x).                                                  *)
Permuted(F, h, f) == [y \in Elements(F) |-> f[Over(F, y, h)]]
PermutedBack(F, h, f) == [x \in Elements(F) |-> f[Times(F, h, x)]]

(***************************************************************************)
(* The horizontal step: messages of check m to symbol n                    *)
(***************************************************************************)
TradCheckMessage(m, n) ==
  LET F == code.F
      others == N_m(m) \ {n}
      value(x) == SumOver([k \in others |-> Times(F, code.H[m][k], x[k])])
      cases == [others -> Elements(F)]
      weight(x) == Product(others, LAMBDA k : q_mxn[<<m, k>>][x[k]])
      reached(y) == {x \in cases : Over(F, value(x), code.H[m][n]) = y}
  IN  Normalised(F, [y \in Elements(F) |-> Sum(reached(y), weight)])

GdlCheckMessage(m, n) ==
  LET F == code.F
      conv == [v \in Elements(F) |->
                Product(N_m(m) \ {n}, LAMBDA k : qmn_conv[<<m, k>>][v])]
  IN  Normalised(F, PermutedBack(F, code.H[m][n], ComputeConvs(F, conv)))

TradCheckMessages == [e \in Edges |-> TradCheckMessage(e[1], e[2])]
GdlCheckMessages == [e \in Edges |-> GdlCheckMessage(e[1], e[2])]

(***************************************************************************)
(* The vertical step                                                       *)
(***************************************************************************)
(* What the channel and the checks in M say of symbol n.                   *)
Gathered(n, M, r_mxn) ==
  Normalised(code.F, [x \in Elements(code.F) |->
    received_probs[n][x] * Product(M, LAMBDA m : r_mxn[<<m, n>>][x])])

\* Mutant: a check is told what it said itself.
SymbolMessageEchoed(m, n, r_mxn) == Gathered(n, M_n(n), r_mxn)

SymbolMessage(m, n, r_mxn) == Gathered(n, M_n(n) \ {m}, r_mxn)
Posteriors(r_mxn) == [n \in Variables |-> Gathered(n, M_n(n), r_mxn)]

EdgeConvs(e, f) == ComputeConvs(code.F, Permuted(code.F, code.H[e[1]][e[2]], f))

(***************************************************************************)
(* Decoding                                                                *)
(***************************************************************************)
(* Ties are broken at random.                                              *)
MostLikely(F, f) == {x \in Elements(F) : \A y \in Elements(F) : f[y] <= f[x]}

HardDecisions(F, table) ==
  {w \in [DOMAIN table -> Elements(F)] :
     \A n \in DOMAIN table : w[n] \in MostLikely(F, table[n])}

IsCodeword(w) == IsZeroRow(Syndrome(code.F, code.H, w))

(* do_init_decoder: an iteration is made in any case.                      *)
StartFrom(table) ==
  /\ received_probs = table
  /\ q_mxn = [e \in Edges |-> table[e[2]]]
  /\ qmn_conv = [e \in Edges |-> EdgeConvs(e, table[e[2]])]
  /\ ro = table
  /\ ro_gdl = table
  /\ received_word_hd \in HardDecisions(code.F, table)
  /\ current_iteration = 0
  /\ spa_iterations = 0
  /\ decodingSuccess = FALSE

LdpcInit ==
  /\ code \in Codes
  /\ \E table \in [Variables -> code.received] : StartFrom(table)

SoftDecode ==
  /\ current_iteration < MaxIter
  /\ current_iteration' = current_iteration + 1
  /\ ~decodingSuccess
  /\ LET r_mxn == TradCheckMessages
         r_gdl == GdlCheckMessages
     IN  /\ q_mxn' = [e \in Edges |-> SymbolMessage(e[1], e[2], r_mxn)]
         /\ qmn_conv' = [e \in Edges |->
              EdgeConvs(e, SymbolMessage(e[1], e[2], r_gdl))]
         /\ ro' = Posteriors(r_mxn)
         /\ ro_gdl' = Posteriors(r_gdl)
  /\ received_word_hd' \in HardDecisions(code.F, ro')
  /\ decodingSuccess' = IsCodeword(received_word_hd')
  /\ spa_iterations' = spa_iterations + 1
  /\ UNCHANGED <<code, received_probs>>

(* A word that is decoded is returned again.                               *)
ReturnSolution ==
  /\ current_iteration < MaxIter
  /\ current_iteration' = current_iteration + 1
  /\ decodingSuccess
  /\ UNCHANGED <<code, received_probs, q_mxn, qmn_conv, ro, ro_gdl,
                 received_word_hd, spa_iterations, decodingSuccess>>

LdpcNext == SoftDecode \/ ReturnSolution

LdpcSpec == LdpcInit /\ [][LdpcNext]_ldpcvars

(***************************************************************************)
(* Properties                                                              *)
(***************************************************************************)
Codewords == {w \in [Variables -> Elements(code.F)] : IsCodeword(w)}

(* The probability of each value of symbol n, given all that was received. *)
Marginal(n) ==
  LET weight(w) == Product(Variables, LAMBDA k : received_probs[k][w[k]])
  IN  Normalised(code.F, [x \in Elements(code.F) |->
        Sum({w \in Codewords : w[n] = x}, weight)])

(* The two algorithms compute the same posteriors; of a code without       *)
(* cycles these are exact from the iteration on in which every symbol has  *)
(* heard of every other; and what is returned as decoded is a codeword.    *)
LdpcPosteriorsExact ==
  /\ ro_gdl = ro
  /\ code.depth > 0 /\ spa_iterations >= code.depth =>
       \A n \in Variables : ro[n] = Marginal(n)
  /\ decodingSuccess => received_word_hd \in Codewords

(* ldpc.cpp of its information symbols: every word encodes to one that     *)
(* meets the checks, with its symbols at the positions they are read from. *)
InformationInPlace(c, info) ==
  \A G \in {GenMatrix(c)} :
    LET sent == Encode(c.F, G, info)
    IN  /\ IsZeroRow(Syndrome(c.F, c.H, sent))
        /\ \A i \in DOMAIN info : sent[InfoSymbPos(c, G)[i]] = info[i]
=============================================================================
