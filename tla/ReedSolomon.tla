----------------------------- MODULE ReedSolomon -----------------------------
(***************************************************************************)
(* The Reed-Solomon codec (codec/reedsolomon.cpp): the code of length      *)
(* 2^m - 1 over GF(2^m), its encoder, and its decoder after Peterson,      *)
(* Gorenstein and Zierler.  Position p of a word, counted from 1, has the  *)
(* locator alpha^(p-1).                                                    *)
(***************************************************************************)
EXTENDS LinearCode, SequencesExt

Length(F) == 2 ^ F.m - 1
PowerOfAlpha(F, e) == Powers(F)[e % Length(F)]

ParityCheck(F, k) ==
  Explicit([r \in 1..Length(F) - k |->
    Explicit([n \in 1..Length(F) |-> PowerOfAlpha(F, (n - 1) * r)])])

(* The part beside the identity of the row echelon form, transposed, and   *)
(* an identity: information symbols come last.                             *)
Generator(F, k) ==
  LET ref == ReduceToRef(F, ParityCheck(F, k))
      checks == Length(F) - k
  IN  Explicit([i \in 1..k |-> Explicit([n \in 1..Length(F) |->
        IF n <= checks THEN ref[n][checks + i] ELSE Eye(k)[i][n - checks]])])

(***************************************************************************)
(* softdecode, from the hard decisions on                                  *)
(***************************************************************************)
(* s_1 .. s_t in the first row, and s_(t+1) .. in the last column.         *)
SyndromeMatrix(s, t) ==
  Explicit([r \in 1..t |-> Explicit([c \in 1..t + 1 |-> s[r + c - 1]])])

(* The largest number of errors for which the system has one solution, 0   *)
(* when there is none.                                                     *)
ErrorCount(F, s, most) ==
  LET Regular(t) == \A d \in 1..t :
                      ReduceToRef(F, SyndromeMatrix(s, t))[d][d] # Zero
      fits == {t \in 1..most : Regular(t)}
  IN  IF fits = {} THEN 0 ELSE Max(fits)

(* Coefficients of the error locator polynomial, the constant one first.   *)
ErrorLocator(F, s, t) ==
  LET ref == ReduceToRef(F, SyndromeMatrix(s, t))
  IN  Explicit([j \in 1..t + 1 |->
        IF j = 1 THEN One ELSE ref[t + 2 - j][t + 1]])

Evaluate(F, poly, x) ==
  FoldRight(LAMBDA c, value : Plus(Times(F, value, x), c), poly, Zero)

(* Mutant: the root taken for the locator itself.                          *)
ErrorPositionsUninverted(F, poly) ==
  SelectSeq([e \in 1..Length(F) |-> e],
            LAMBDA p : Evaluate(F, poly, PowerOfAlpha(F, p - 1)) = Zero)

(* A root alpha^e is the inverse of the locator of an error.               *)
ErrorPositions(F, poly) ==
  LET roots == SelectSeq([e \in 1..Length(F) |-> e - 1],
                         LAMBDA e : Evaluate(F, poly, PowerOfAlpha(F, e)) = Zero)
  IN  [i \in DOMAIN roots |-> ((Length(F) - roots[i]) % Length(F)) + 1]

(* The error values solve the syndrome equations at those positions; where *)
(* they have no solution, or there is no root, nothing is decoded.         *)
Corrected(F, k, word, positions, s) ==
  LET H == ParityCheck(F, k)
      errors == Len(positions)
      system == Explicit([r \in 1..Rows(H) |-> Explicit([c \in 1..errors + 1 |->
                  IF c <= errors THEN H[r][positions[c]] ELSE s[r]])])
      ref == ReduceToRef(F, system)
      ErrorAt(n) == LET c == CHOOSE c \in 1..errors : positions[c] = n
                    IN  ref[c][errors + 1]
  IN  IF errors = 0 \/ ref[errors + 1][errors + 1] # Zero THEN <<>>
      ELSE [n \in 1..Length(F) |->
             IF \E c \in 1..errors : positions[c] = n
             THEN Plus(word[n], ErrorAt(n)) ELSE word[n]]

(* The decoded word, <<>> for a failure, where the likelihoods stay as     *)
(* they were received.                                                     *)
DecodeWord(F, k, word) ==
  LET s == Syndrome(F, ParityCheck(F, k), word)
      t == ErrorCount(F, s, (Length(F) - k) \div 2)
  IN  IF IsZeroRow(s) THEN word
      ELSE IF t = 0 THEN <<>>
      ELSE Corrected(F, k, word, ErrorPositions(F, ErrorLocator(F, s, t)), s)

(***************************************************************************)
(* Property                                                                *)
(***************************************************************************)
Distance(v, w) == Cardinality({n \in DOMAIN v : v[n] # w[n]})

(* The decoder finds the codeword that was sent whenever no more than half *)
(* the redundancy is in error; with more errors it fails or returns        *)
(* another codeword as near to what was received, never a word that is not *)
(* of the code.                                                            *)
DecodedRight(F, H, most, sent, word, decoded) ==
  /\ IsZeroRow(Syndrome(F, H, sent))
  /\ Distance(sent, word) <= most => decoded = sent
  /\ decoded # <<>> =>
       /\ IsZeroRow(Syndrome(F, H, decoded))
       /\ Distance(decoded, word) <= most

ChannelDecoded(F, k, sent, word) ==
  DecodedRight(F, ParityCheck(F, k), (Length(F) - k) \div 2, sent, word,
               DecodeWord(F, k, word))

SentDecoded(F, k, info, errors, sent) ==
  /\ SubSeq(sent, Length(F) - k + 1, Length(F)) = info
  /\ ChannelDecoded(F, k, sent,
                    Explicit([n \in DOMAIN sent |-> Plus(sent[n], errors[n])]))

DecodesWithinDistance(F, k, info, errors) ==
  SentDecoded(F, k, info, errors, Encode(F, Generator(F, k), info))
=============================================================================
