----------------------------- MODULE Interleaver -----------------------------
(***************************************************************************)
(* The interleavers of a turbo or repeat-accumulate codec: look-up tables  *)
(* (lut_interleaver and its families), one-time pads and the two combined. *)
(* A machine owns a sequence of them, as turbo owns one per set, seeds     *)
(* them and advances them from block to block.                             *)
(*                                                                         *)
(* Vectors are functions of 0..tau-1.  A row of likelihoods is the set of  *)
(* symbols that it holds possible.                                         *)
(***************************************************************************)
EXTENDS Integers, FiniteSets, Sequences

CONSTANTS
  Designs,      \* sequences of interleavers a codec may own
  MaxSeeds      \* bound: calls of seedfrom after construction

VARIABLES
  inter,        \* the interleavers
  tables,       \* the table or pad of each, Unset before it is filled
  initialised,  \* the static variable of onetimepad::advance
  advanced,     \* the codec has advanced them for a block
  seedings      \* calls of seedfrom

intervars == <<inter, tables, initialised, advanced, seedings>>

TailSymbol == -1
Unset == <<>>

(***************************************************************************)
(* The tables that are fixed by the parameters                             *)
(***************************************************************************)
FlatLut(tau) == [t \in 0..tau - 1 |-> t]
ShiftLut(amount, tau) == [t \in 0..tau - 1 |-> (t + amount) % tau]

(* Written by columns and read by rows; what exceeds the block stays.      *)
RectangularLut(tau, rows, cols) ==
  [t \in 0..tau - 1 |->
    IF t < rows * cols THEN (t % rows) * cols + (t \div rows) ELSE t]

(* Up one row and right one column at a time, from the bottom left.        *)
HelicalLut(tau, rows, cols) ==
  [t \in 0..tau - 1 |->
    IF t < rows * cols THEN ((rows - 1 - t) % rows) * cols + (t % cols) ELSE t]

BerrouPrimes == <<17, 37, 19, 29, 41, 23, 13, 7>>
BerrouLut(M) ==
  [t \in 0..M * M - 1 |->
    LET i == t \div M
        j == t % M
        P == BerrouPrimes[((i + j) % 8) + 1]
    IN  (((M \div 2 + 1) * (i + j)) % M) * M + ((P * (j + 1) - 1) % M)]

(* The published table lists where each position goes.                     *)
ValeTable ==
  <<16, 29, 9, 10, 14, 6, 31, 8, 12, 22, 17, 33, 34, 23, 24, 19, 32, 30, 13, 2,
    21, 25, 26, 3, 28, 20, 27, 7, 5, 15, 4, 11, 18, 1>>
ValeLut == [n \in 0..33 |-> (CHOOSE i \in 1..34 : ValeTable[i] = n + 1) - 1]

(* file_lut and stream_lut: the lines of the file, then forced tails.      *)
NamedLut(lines, m) ==
  [t \in 0..Len(lines) + m - 1 |->
    IF t < Len(lines) THEN lines[t + 1] ELSE TailSymbol]

Fixed(d) ==
  CASE d.kind = "flat" -> FlatLut(d.tau)
    [] d.kind = "shift" -> ShiftLut(d.amount, d.tau)
    [] d.kind = "rectangular" -> RectangularLut(d.tau, d.rows, d.cols)
    [] d.kind = "helical" -> HelicalLut(d.tau, d.rows, d.cols)
    [] d.kind = "berrou" -> BerrouLut(d.M)
    [] d.kind = "vale96int" -> ValeLut
    [] d.kind = "named" -> NamedLut(d.lines, d.m)

(***************************************************************************)
(* Those drawn at random                                                   *)
(***************************************************************************)
Injective(f) == \A s, t \in DOMAIN f : f[s] = f[t] => s = t

(* uniform_lut: a permutation of all but the last m, which are tails.      *)
UniformLuts(tau, m) ==
  {[t \in 0..tau - 1 |-> IF t < tau - m THEN f[t] ELSE TailSymbol] :
     f \in {g \in [0..tau - m - 1 -> 0..tau - m - 1] : Injective(g)}}

(* rand_lut keeps the position within the period of the encoder's impulse  *)
(* response.                                                               *)
RandomLuts(tau, m) ==
  LET p == 2 ^ m - 1
  IN  {f \in {[t \in 0..tau - 1 |-> g[t] * p + (t % p)] :
               g \in [0..tau - 1 -> 0..tau \div p - 1]} : Injective(f)}

(* The tail of a pad that is terminated stays a tail: the vector that the  *)
(* encoder resolves is a copy.                                             *)
Pads(d) ==
  {[t \in 0..d.tau - 1 |->
      IF d.terminated /\ t >= d.tau - d.m THEN TailSymbol ELSE f[t]] :
     f \in [0..d.tau - 1 -> 0..d.S - 1]}

IsPad(d) == d.kind \in {"onetimepad", "padded"}
IsRandom(d) == d.kind \in {"uniform", "rand"} \/ IsPad(d)

New(d) ==
  IF IsRandom(d) THEN Unset ELSE Fixed(d)

(***************************************************************************)
(* Designs that can be undone.  A helical interleaver needs rows and       *)
(* columns without a common factor, Berrou's needs a size for which it is  *)
(* a permutation (not 2 or 4), and a pad adds what its inverse subtracts   *)
(* only for bits.  Of the pads of one machine only the first may keep its  *)
(* key.                                                                    *)
(***************************************************************************)
Positive == Nat \ {0}
Fits(d) == /\ d.tau \in Positive /\ d.rows \in Positive /\ d.cols \in Positive
           /\ d.rows * d.cols <= d.tau

SoundFixed(d) ==
  CASE d.kind = "flat" -> d.tau \in Positive
    [] d.kind = "shift" -> d.tau \in Positive /\ d.amount \in Nat
    [] d.kind = "rectangular" -> Fits(d)
    [] d.kind = "helical" ->
         /\ Fits(d)
         /\ \A x \in 1..d.rows * d.cols - 1 : x % d.rows # 0 \/ x % d.cols # 0
    [] d.kind = "berrou" -> d.M \in Positive /\ Injective(BerrouLut(d.M))
    [] d.kind = "vale96int" -> TRUE
    [] d.kind = "named" ->
         /\ d.lines \in Seq(0..Len(d.lines) - 1) /\ Injective(d.lines)
         /\ d.m \in Nat /\ Len(d.lines) + d.m > 0
    [] OTHER -> FALSE

SoundPad(d) == d.tau \in Positive /\ ~d.terminated /\ d.S <= 2

Sound(d) ==
  /\ d.S \in Positive
  /\ CASE d.kind = "uniform" -> d.tau \in Positive /\ d.m \in 0..d.tau
       [] d.kind = "rand" -> d.tau \in Positive /\ 2 ^ d.m - 1 \in 1..d.tau
       [] d.kind = "onetimepad" -> SoundPad(d)
       [] d.kind = "padded" ->
            /\ SoundPad(d) /\ SoundFixed(d.inner)
            /\ DOMAIN Fixed(d.inner) = 0..d.tau - 1
            /\ d.inner.kind = "named" => d.inner.m = 0
       [] OTHER -> SoundFixed(d)

SoundMachine(ds) ==
  /\ ds \in Seq({ds[i] : i \in DOMAIN ds})
  /\ \A i \in DOMAIN ds : Sound(ds[i])
  /\ \A i, j \in DOMAIN ds :
       i < j /\ IsPad(ds[i]) /\ IsPad(ds[j]) => ds[j].renewable

ASSUME InterleaverAssumption ==
  /\ MaxSeeds \in Nat
  /\ \A ds \in Designs : SoundMachine(ds)

(* advance: only a pad that is renewable draws again once any pad has been *)
(* drawn; padded passes it to its pad and not to its interleaver.          *)
AdvancedLut(d, l, drawn) ==
  CASE d.kind = "uniform" -> UniformLuts(d.tau, d.m)
    [] d.kind = "rand" -> RandomLuts(d.tau, d.m)
    [] IsPad(d) -> IF ~d.renewable /\ drawn THEN {l} ELSE Pads(d)
    [] OTHER -> {l}

(* seedfrom advances as well, but for uniform_lut.                         *)
SeededLut(d, l, drawn) ==
  IF d.kind = "uniform" THEN {l} ELSE AdvancedLut(d, l, drawn)

(***************************************************************************)
(* The machine                                                             *)
(***************************************************************************)
InterInit ==
  /\ inter \in Designs
  /\ tables = [i \in DOMAIN inter |-> New(inter[i])]
  /\ initialised = FALSE
  /\ advanced = FALSE
  /\ seedings = 0

(* A pad was drawn by an earlier call, or by an earlier one of this pass.  *)
Drawn(i) == initialised \/ \E j \in 1..i - 1 : IsPad(inter[j])

InitialisedAfter == initialised \/ \E i \in DOMAIN inter : IsPad(inter[i])

SeedInterleavers ==
  /\ seedings < MaxSeeds
  /\ LET Drawings(i) == SeededLut(inter[i], tables[i], Drawn(i))
     IN  tables' \in
           {f \in [DOMAIN inter -> UNION {Drawings(i) : i \in DOMAIN inter}] :
              \A i \in DOMAIN inter : f[i] \in Drawings(i)}
  /\ initialised' = InitialisedAfter
  /\ seedings' = seedings + 1
  /\ advanced' = FALSE
  /\ UNCHANGED inter

AdvanceInterleavers ==
  /\ seedings > 0
  /\ LET Drawings(i) == AdvancedLut(inter[i], tables[i], Drawn(i))
     IN  tables' \in
           {f \in [DOMAIN inter -> UNION {Drawings(i) : i \in DOMAIN inter}] :
              \A i \in DOMAIN inter : f[i] \in Drawings(i)}
  /\ initialised' = InitialisedAfter
  /\ advanced' = TRUE
  /\ UNCHANGED <<inter, seedings>>

InterNext == SeedInterleavers \/ AdvanceInterleavers

InterSpec == InterInit /\ [][InterNext]_intervars

(***************************************************************************)
(* The transforms of a design d with table l, over symbols 0..S-1          *)
(***************************************************************************)
AllSymbols(S) == 0..S - 1
CMod(a, S) == IF a >= 0 THEN a % S ELSE -((-a) % S)

\* Mutant: the table used in the other direction.
LutTransformBack(l, in) ==
  [t \in DOMAIN l |->
    IF \E s \in DOMAIN l : l[s] = t
    THEN in[CHOOSE s \in DOMAIN l : l[s] = t] ELSE TailSymbol]

LutTransform(l, in) ==
  [t \in DOMAIN l |-> IF l[t] = TailSymbol THEN TailSymbol ELSE in[l[t]]]
LutSoft(l, in, S) ==
  [t \in DOMAIN l |-> IF l[t] = TailSymbol THEN AllSymbols(S) ELSE in[l[t]]]

(* The last of the positions that map to one prevails; {} is a position    *)
(* nothing is written to.                                                  *)
LutInverse(l, in, S) ==
  [p \in DOMAIN l |->
    LET from == {t \in DOMAIN l : l[t] = p \/ (l[t] = TailSymbol /\ t = p)}
    IN  IF from = {} THEN {}
        ELSE LET t == CHOOSE t \in from : \A s \in from : s <= t
             IN  IF l[t] = TailSymbol THEN AllSymbols(S) ELSE in[t]]

PadTransform(l, in, S) == [t \in DOMAIN l |-> CMod(in[t] + l[t], S)]
PadSoft(l, in, S) ==
  [t \in DOMAIN l |-> {j \in AllSymbols(S) : CMod(j + l[t], S) \in in[t]}]
PadInverse(l, in, S) ==
  [t \in DOMAIN l |-> {CMod(j + l[t], S) : j \in in[t]}]

Transformed(d, l, in) ==
  CASE d.kind = "onetimepad" -> PadTransform(l, in, d.S)
    [] d.kind = "padded" -> PadTransform(l, LutTransform(Fixed(d.inner), in), d.S)
    [] OTHER -> LutTransform(l, in)

SoftTransformed(d, l, in) ==
  CASE d.kind = "onetimepad" -> PadSoft(l, in, d.S)
    [] d.kind = "padded" -> PadSoft(l, LutSoft(Fixed(d.inner), in, d.S), d.S)
    [] OTHER -> LutSoft(l, in, d.S)

Inverted(d, l, in) ==
  CASE d.kind = "onetimepad" -> PadInverse(l, in, d.S)
    [] d.kind = "padded" -> LutInverse(Fixed(d.inner), PadInverse(l, in, d.S), d.S)
    [] OTHER -> LutInverse(l, in, d.S)

(***************************************************************************)
(* Properties                                                              *)
(***************************************************************************)
(* Words that tell positions and symbols apart.                            *)
Words(tau, S) ==
  {[t \in 0..tau - 1 |-> IF t = p THEN v ELSE u] :
     p \in 0..tau - 1, u \in AllSymbols(S), v \in AllSymbols(S)}

Certain(word, S) ==
  [t \in DOMAIN word |->
    IF word[t] = TailSymbol THEN AllSymbols(S) ELSE {word[t]}]

(* interleaver.h: transforming the likelihoods of a sequence gives those   *)
(* of the interleaved sequence, and the inverse gives those of the         *)
(* straight one, where only what gave way to a tail is unknown.            *)
LikelihoodsFollow ==
  advanced =>
    \A i \in DOMAIN inter :
      LET d == inter[i]
          l == tables[i]
      IN  /\ l # Unset
          /\ \A w \in Words(Cardinality(DOMAIN l), d.S) :
            LET sent == Certain(Transformed(d, l, w), d.S)
                back == Inverted(d, l, sent)
            IN  /\ SoftTransformed(d, l, Certain(w, d.S)) = sent
                /\ \A p \in DOMAIN l :
                     \/ back[p] = {w[p]}
                     \/ l[p] = TailSymbol /\ back[p] = AllSymbols(d.S)
=============================================================================
