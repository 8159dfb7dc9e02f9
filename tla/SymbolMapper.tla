----------------------------- MODULE SymbolMapper -----------------------------
(***************************************************************************)
(* The mappers between encoder output and modulator input: what each does  *)
(* to a sequence of symbols, to the likelihoods of one (the soft transform *)
(* of an iterative receiver) and to the likelihoods the demodulator found  *)
(* (inverse).  A mapper is a record: its kind, the alphabet q of its       *)
(* input, the alphabet M of its output, and the tables it drew.            *)
(*                                                                         *)
(* Likelihoods of a symbol are the set of its values held possible.        *)
(***************************************************************************)
EXTENDS Integers, Sequences, SequencesExt

Symbols(S) == 0..S - 1

(***************************************************************************)
(* symbol_converter: k small symbols for each large one, the first of them *)
(* the least significant                                                   *)
(***************************************************************************)
Rate(S, L) == CHOOSE k \in 1..L : S ^ k = L

Digit(x, i, S) == (x \div S ^ i) % S

AggregateSymbols(in, S, L) ==
  LET k == Rate(S, L)
      value(t) == FoldRight(LAMBDA y, d : y + S * d,
                            SubSeq(in, (t - 1) * k + 1, t * k), 0)
  IN  [t \in 1..Len(in) \div k |-> value(t)]

DivideSymbols(in, S, L) ==
  LET k == Rate(S, L)
  IN  [j \in 1..Len(in) * k |-> Digit(in[((j - 1) \div k) + 1], (j - 1) % k, S)]
(* A value is possible as far as all the symbols it stands for are.        *)
AggregateProbabilities(pin, S, L) ==
  LET k == Rate(S, L)
  IN  [t \in 1..Len(pin) \div k |->
        {x \in Symbols(L) :
           \A i \in 0..k - 1 : Digit(x, i, S) \in pin[(t - 1) * k + i + 1]}]

DivideProbabilities(pin, S, L) ==
  LET k == Rate(S, L)
  IN  [t \in 1..Len(pin) * k |->
        {Digit(d, (t - 1) % k, S) : d \in pin[((t - 1) \div k) + 1]}]

(***************************************************************************)
(* Puncturing                                                              *)
(***************************************************************************)
(* The puncturing matrix read by rows, as often as it fits.                *)
PunctureMatrixPattern(matrix, size) ==
  LET flat == FlattenSeq(matrix)
  IN  [t \in 1..size |-> flat[((t - 1) % Len(flat)) + 1]]

(* All information symbols, and the parity of each set in turn.            *)
StipplePattern(sets, size) ==
  [i \in 1..size |->
    LET t == (i - 1) \div (sets + 1)
        s == (i - 1) % (sets + 1)
    IN  s = 0 \/ s - 1 = t % sets]

SetPositions(pattern) == SelectSeq([i \in DOMAIN pattern |-> i],
                                   LAMBDA i : pattern[i])

Puncture(pattern, in) ==
  [j \in DOMAIN SetPositions(pattern) |-> in[SetPositions(pattern)[j]]]

FillIn(pattern, pin, S) ==
  [i \in DOMAIN pattern |->
    IF pattern[i]
    THEN pin[CHOOSE j \in DOMAIN SetPositions(pattern) :
               SetPositions(pattern)[j] = i]
    ELSE Symbols(S)]
Pattern(m, size) ==
  IF m.kind = "stipple" THEN StipplePattern(m.sets, size)
  ELSE PunctureMatrixPattern(m.matrix, size)

Count(seq) == Len(SelectSeq(seq, LAMBDA b : b))

(***************************************************************************)
(* The mappers other than map_concatenated                                 *)
(***************************************************************************)
OutputBlockSize(m, size) ==
  CASE m.kind = "aggregating" -> size \div Rate(m.q, m.M)
    [] m.kind = "dividing" -> size * Rate(m.M, m.q)
    [] m.kind = "punctured" ->
         (size \div Len(FlattenSeq(m.matrix))) * Count(FlattenSeq(m.matrix))
    [] m.kind = "stipple" -> (size \div (m.sets + 1)) * 2
    [] OTHER -> size

(* map_interleaved moves symbols by lut; map_permuted has a table for each *)
(* position, the first of the next block after the last of this one.       *)
Moved(lut, in) ==
  [j \in DOMAIN in |-> in[CHOOSE i \in DOMAIN in : lut[i] = j]]

TransformOne(m, in) ==
  CASE m.kind = "straight" -> in
    [] m.kind = "interleaved" -> Moved(m.lut, in)
    [] m.kind = "permuted" -> [i \in DOMAIN in |-> m.luts[i][in[i]]]
    [] m.kind \in {"punctured", "stipple"} -> Puncture(Pattern(m, Len(in)), in)
    [] m.kind = "aggregating" -> AggregateSymbols(in, m.q, m.M)
    [] m.kind = "dividing" -> DivideSymbols(in, m.M, m.q)

SoftTransformOne(m, pin) ==
  CASE m.kind = "straight" -> pin
    [] m.kind = "interleaved" -> Moved(m.lut, pin)
    [] m.kind = "permuted" ->
         [i \in DOMAIN pin |-> {m.luts[i][j] : j \in pin[i]}]
    [] m.kind \in {"punctured", "stipple"} -> Puncture(Pattern(m, Len(pin)), pin)
    [] m.kind = "aggregating" -> AggregateProbabilities(pin, m.q, m.M)
    [] m.kind = "dividing" -> DivideProbabilities(pin, m.M, m.q)

InverseOne(m, pin, size) ==
  CASE m.kind = "straight" -> pin
    [] m.kind = "interleaved" -> [i \in DOMAIN pin |-> pin[m.lut[i]]]
    [] m.kind = "permuted" ->
         [i \in DOMAIN pin |-> {j \in Symbols(m.M) : m.luts[i][j] \in pin[i]}]
    [] m.kind \in {"punctured", "stipple"} -> FillIn(Pattern(m, size), pin, m.M)
    [] m.kind = "aggregating" -> DivideProbabilities(pin, m.q, m.M)
    [] m.kind = "dividing" -> AggregateProbabilities(pin, m.M, m.q)

(***************************************************************************)
(* map_concatenated: in order, and back in the opposite order              *)
(***************************************************************************)
TransformAll(mappers, in) ==
  FoldLeft(LAMBDA a, m : TransformOne(m, a), in, mappers)

SoftTransformAll(mappers, pin) ==
  FoldLeft(LAMBDA a, m : SoftTransformOne(m, a), pin, mappers)

(* The block sizes that setup gives the mappers.                           *)
Sizes(mappers, size) ==
  [k \in DOMAIN mappers |->
    FoldLeft(LAMBDA n, m : OutputBlockSize(m, n), size, SubSeq(mappers, 1, k - 1))]

InverseAll(mappers, pin, size) ==
  LET back[k \in 0..Len(mappers)] ==
        IF k = Len(mappers) THEN pin
        ELSE InverseOne(mappers[k + 1], back[k + 1], Sizes(mappers, size)[k + 1])
  IN  back[0]

OutputSize(mappers, size) ==
  FoldLeft(LAMBDA n, m : OutputBlockSize(m, n), size, mappers)

(***************************************************************************)
(* map_reshape: rows of in one after another, cut into rows of cols        *)
(***************************************************************************)
Reshape(in, cols) ==
  LET flat == FlattenSeq(in)
  IN  [r \in 1..Len(flat) \div cols |-> SubSeq(flat, (r - 1) * cols + 1, r * cols)]

(***************************************************************************)
(* Properties                                                              *)
(***************************************************************************)
Sure(seq) == [i \in DOMAIN seq |-> {seq[i]}]

(* An encoder symbol that some modulator symbol depends on.                *)
Kept(mappers, in, i) ==
  \E x \in Symbols(mappers[1].q) :
    TransformAll(mappers, [in EXCEPT ![i] = x]) # TransformAll(mappers, in)

(* What the sender's transform does to the symbols the receiver's does to  *)
(* their likelihoods: the block has the size announced, the soft transform *)
(* of the block is the block, the inverse returns every symbol that was    *)
(* sent and nothing of those that were not; and when some of the block is  *)
(* erased the true symbols stay possible.                                  *)
MapperInverts(mappers, in) ==
  LET out == TransformAll(mappers, in)
      back == InverseAll(mappers, Sure(out), Len(in))
  IN  /\ Len(out) = OutputSize(mappers, Len(in))
      /\ SoftTransformAll(mappers, Sure(in)) = Sure(out)
      /\ Len(back) = Len(in)
      /\ \A i \in DOMAIN in :
           back[i] = IF Kept(mappers, in, i) THEN {in[i]}
                     ELSE Symbols(mappers[1].q)
      /\ \A e \in DOMAIN out :
           LET erased == [Sure(out) EXCEPT ![e] = Symbols(Last(mappers).M)]
               some == InverseAll(mappers, erased, Len(in))
           IN  \A i \in DOMAIN in : in[i] \in some[i]

(* The inverse of map_reshape, which is the same with the sizes exchanged, *)
(* returns what was sent.                                                  *)
ReshapeInverts(in, cols) == Reshape(Reshape(in, cols), Len(in[1])) = in
=============================================================================
