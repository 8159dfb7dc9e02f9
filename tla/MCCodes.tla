------------------------------- MODULE MCCodes -------------------------------
(***************************************************************************)
(* The instances of the library of codes that TLC checks.  A behaviour is  *)
(* one of a component: an encoder, the interleavers of a codec, an LDPC    *)
(* codec, a codec of convolutional codes; or it is a call of an algorithm, *)
(* that answers at once.  The others rest.                                 *)
(***************************************************************************)
EXTENDS ConvCodecs, Ldpc, ReedSolomon, SymbolMapper, Interleaver

VARIABLES part, call

O == Zero
I == One
A == {1}
B == {0, 1}

(***************************************************************************)
(* Convolutional codes                                                     *)
(***************************************************************************)
Code(kind, F, gen) == [kind |-> kind, F |-> F, gen |-> gen]
TwoInputs == <<<<<<I, I, I>>, <<O, O, O>>, <<I, O, I>>>>,
               <<<<O, O>>, <<I, I>>, <<I, O>>>>>>
Seven5 == Code("rsc", GF2, <<<<<<I, I, I>>, <<I, O, I>>>>>>)
Feedforward == Code("nrc", GF2, <<<<<<I, I, I>>, <<I, O, I>>>>>>)
Nonbinary == Code("rsc", GF4, <<<<<<I, A, A>>, <<I, O, B>>>>>>)
ShortNonbinary == Code("rsc", GF4, <<<<<<I, A>>, <<I, O>>>>>>)
Accumulator == Code("rsc", GF2, <<<<<<I, I>>, <<I, O>>>>>>)
Repetition(n) == Code("nrc", GF2, <<Explicit([k \in 1..n |-> <<I>>])>>)
Dvb == [kind |-> "dvb", F |-> GF2]

SmallEncoders ==
  {Seven5, Feedforward, Nonbinary, ShortNonbinary, Accumulator, Dvb,
   Code("rsc", GF2, <<<<<<I, O, I>>, <<I, I, I>>>>>>),
   Code("nrc", GF2, TwoInputs), Code("rsc", GF2, TwoInputs)}

(***************************************************************************)
(* Codecs                                                                  *)
(***************************************************************************)
Mapcc(fsm, tau, end) ==
  [kind |-> "mapcc", fsm |-> fsm, tau |-> tau, end |-> end, luts |-> {<<>>},
   ways |-> {"likely", "misled"}, usual |-> "likely", unusual |-> 1,
   told |-> {"likely"}, blocks |-> 1]
Turbo(fsm, size, end, l, unusual, n) ==
  [kind |-> "turbo", fsm |-> fsm, size |-> size, end |-> end, luts |-> {l},
   ways |-> {"clean", "erased"}, usual |-> "clean", unusual |-> unusual,
   told |-> {}, blocks |-> n]
Repacc(rep, tau, end, l, unusual, n) ==
  [kind |-> "repacc", fsm |-> Accumulator, rep |-> rep, tau |-> tau,
   end |-> end, luts |-> {l}, ways |-> {"clean", "erased"},
   usual |-> "clean", unusual |-> unusual, told |-> {"clean"}, blocks |-> n]

SmallCodecs ==
  {Mapcc(Seven5, 4, "zero"), Mapcc(Feedforward, 3, "open"),
   Mapcc(Code("nrc", GF2, TwoInputs), 2, "open"),
   Mapcc(ShortNonbinary, 2, "open"), Mapcc(Seven5, 4, "circular"),
   Mapcc(Dvb, 2, "open"),
   Turbo(Seven5, 4, "zero", <<<<1, 2, 3, 4>>, <<2, 1, 0, 0>>>>, 1, 2),
   Turbo(Seven5, 4, "circular", <<<<1, 2, 3, 4>>, <<3, 1, 4, 2>>>>, 2, 1),
   Turbo(Seven5, 2, "circular", <<<<1, 2>>, <<2, 1>>>>, 1, 2),
   Repacc(Repetition(2), 2, "zero", <<<<3, 1, 4, 2, 0>>>>, 1, 2),
   Repacc(Repetition(3), 2, "open", <<<<3, 1, 4, 2, 6, 5>>>>, 2, 1)}

(***************************************************************************)
(* LDPC codes: two without cycles, one with, over two fields               *)
(***************************************************************************)
Bit1(likely, other) == [x \in Elements(GF2) |-> IF x = One THEN likely ELSE other]
Quad(zero, a, b, one) ==
  [x \in Elements(GF4) |->
    CASE x = O -> zero [] x = A -> a [] x = B -> b [] x = I -> one]

Checked(F, H, ref, depth, weights) ==
  [F |-> F, H |-> H, reduce_to_ref |-> ref, depth |-> depth,
   received |-> weights]
SmallCodes ==
  {Checked(GF2, <<<<I, I, I, O, O>>, <<O, O, I, I, I>>>>, FALSE, 2,
          {Bit1(1, 3), Bit1(2, 1)}),
   Checked(GF2, <<<<I, I, I, O>>, <<I, O, I, I>>>>, TRUE, 0,
          {Bit1(1, 3), Bit1(2, 1), Bit1(1, 1)}),
   Checked(GF4, <<<<A, B, O>>, <<O, I, A>>>>, FALSE, 2,
          {Quad(1, 1, 2, 3), Quad(4, 3, 1, 1)}),
   Checked(GF4, <<<<A, B, I>>>>, FALSE, 1,
          {Quad(1, 1, 2, 3), Quad(4, 3, 1, 1)})}

(***************************************************************************)
(* Interleavers                                                            *)
(***************************************************************************)
Pad(tau, renewable) ==
  [kind |-> "onetimepad", tau |-> tau, m |-> 1, terminated |-> FALSE,
   renewable |-> renewable, S |-> 2]
SmallDesigns ==
  {<<[kind |-> "flat", tau |-> 4, S |-> 2],
     [kind |-> "uniform", tau |-> 4, m |-> 1, S |-> 2]>>,
   <<[kind |-> "rand", tau |-> 6, m |-> 2, S |-> 2],
     [kind |-> "shift", tau |-> 6, amount |-> 8, S |-> 4]>>,
   <<[kind |-> "rectangular", rows |-> 2, cols |-> 3, tau |-> 7, S |-> 2],
     [kind |-> "helical", rows |-> 2, cols |-> 3, tau |-> 7, S |-> 2]>>,
   <<[kind |-> "berrou", M |-> 8, S |-> 2], [kind |-> "vale96int", S |-> 2]>>,
   <<[kind |-> "named", lines |-> <<2, 0, 1>>, m |-> 1, S |-> 3],
     Pad(3, FALSE)>>,
   <<[kind |-> "padded", tau |-> 4, m |-> 1, terminated |-> FALSE,
      renewable |-> TRUE, S |-> 2,
      inner |-> [kind |-> "rectangular", rows |-> 2, cols |-> 2, tau |-> 4]],
     Pad(4, TRUE)>>}

(***************************************************************************)
(* Calls                                                                   *)
(***************************************************************************)
FieldCalls ==
  UNION {{[of |-> "field", F |-> F, a |-> a, b |-> b] :
            a, b \in Elements(F)} : F \in {GF2, GF4, GF8}}

Matrices(F, rows, cols) == [1..rows -> [1..cols -> Elements(F)]]
MatrixCalls ==
  UNION {{[of |-> "matrix", F |-> d[1], A |-> M] :
            M \in Matrices(d[1], d[2], d[3])} :
           d \in {<<GF2, 3, 3>>, <<GF2, 2, 4>>, <<GF4, 2, 2>>}}

LdpcCalls ==
  UNION {{[of |-> "ldpc", code |-> c, source |-> s] :
            s \in [1..Cols(c.H) - Rows(c.H) -> Elements(c.F)]} : c \in SmallCodes}

TwoErrors(F) ==
  UNION {{[n \in 1..Length(F) |->
             IF n = a THEN x ELSE IF n = b THEN y ELSE Zero] :
            x, y \in Elements(F)} : a, b \in 1..Length(F)}
ReedSolomonCalls ==
  {[of |-> "rs", F |-> GF4, k |-> 1, source |-> s, errors |-> e] :
     s \in [1..1 -> Elements(GF4)], e \in [1..3 -> Elements(GF4)]}
    \union
  {[of |-> "rs", F |-> GF8, k |-> 3, source |-> <<I, A, O>>, errors |-> e] :
     e \in TwoErrors(GF8)}

Straight(q) == [kind |-> "straight", q |-> q, M |-> q]
Moving == [kind |-> "interleaved", q |-> 2, M |-> 2, lut |-> <<3, 1, 4, 2>>]
Permuting ==
  [kind |-> "permuted", q |-> 4, M |-> 4,
   luts |-> <<(0 :> 2 @@ 1 :> 0 @@ 2 :> 3 @@ 3 :> 1),
              (0 :> 1 @@ 1 :> 0 @@ 2 :> 2 @@ 3 :> 3)>>]
Puncturing ==
  [kind |-> "punctured", q |-> 2, M |-> 2,
   matrix |-> <<<<TRUE, FALSE>>, <<TRUE, TRUE>>, <<FALSE, TRUE>>>>]
Stippling == [kind |-> "stipple", q |-> 2, M |-> 2, sets |-> 2]
Aggregating == [kind |-> "aggregating", q |-> 2, M |-> 4]
Dividing == [kind |-> "dividing", q |-> 4, M |-> 2]

Mapping(mappers, n, q) ==
  {[of |-> "mapper", mappers |-> mappers, in |-> in] : in \in [1..n -> 0..q - 1]}
MapperCalls ==
  UNION {Mapping(<<Moving>>, 4, 2), Mapping(<<Puncturing>>, 6, 2),
         Mapping(<<Stippling>>, 6, 2), Mapping(<<Dividing>>, 2, 4),
         Mapping(<<Straight(3)>>, 2, 3),
         Mapping(<<Aggregating, Permuting>>, 4, 2),
         Mapping(<<Dividing, Moving, Aggregating>>, 2, 4),
         Mapping(<<Stippling, Moving>>, 6, 2),
         Mapping(<<Stippling, Aggregating, Permuting>>, 6, 2)}

ReshapeCalls ==
  {[of |-> "reshape", cols |-> c,
    in |-> [i \in 1..2 |-> [j \in 1..6 |-> 6 * (i - 1) + j]]] : c \in {1, 3, 4, 12}}

HadamardCalls == {[of |-> "hadamard", m |-> m] : m \in 2..3}

Calls ==
  UNION {FieldCalls, MatrixCalls, HadamardCalls, LdpcCalls, ReedSolomonCalls,
         MapperCalls, ReshapeCalls}

(***************************************************************************)
(* The machine                                                             *)
(***************************************************************************)
FirstCode == CHOOSE c \in SmallCodes : c.depth = 1

MCInit ==
  /\ part \in {"encoder", "interleavers", "ldpc", "codec", "call"}
  /\ FsmInit /\ (part # "encoder" => encoder = Seven5)
  /\ InterInit /\ (part # "interleavers" => inter[1].kind = "flat")
  /\ CodecInit /\ (part # "codec" => codec = Mapcc(Feedforward, 3, "open"))
  /\ LdpcInit /\ (part # "ldpc" =>
                    code = FirstCode /\ received_probs[1] = received_probs[2]
                      /\ received_probs[2] = received_probs[3]
                      /\ received_probs[1][One] = 3)
  /\ call \in IF part = "call" THEN Calls ELSE {[of |-> "nothing"]}

Encoding ==
  /\ part = "encoder" /\ FsmNext
  /\ UNCHANGED <<intervars, ldpcvars, codecvars, part, call>>
Interleaving ==
  /\ part = "interleavers" /\ InterNext
  /\ UNCHANGED <<fsmvars, ldpcvars, codecvars, part, call>>
LdpcDecoding ==
  /\ part = "ldpc" /\ LdpcNext
  /\ UNCHANGED <<fsmvars, intervars, codecvars, part, call>>
Coding ==
  /\ part = "codec" /\ CodecNext
  /\ UNCHANGED <<fsmvars, intervars, ldpcvars, part, call>>

MCNext == Encoding \/ Interleaving \/ LdpcDecoding \/ Coding

(* Every call of an algorithm is answered as its definition says: the two  *)
(* fields agree, elimination keeps the rows that a matrix spans, the dual  *)
(* code is what the syndrome checks, Reed-Solomon decodes half its         *)
(* redundancy, LDPC words have their information where it is read from, a  *)
(* Hadamard matrix has orthogonal rows, and the inverse of a mapper, also  *)
(* one that changes the shape, returns what its transform was given.       *)
CallsExact ==
  CASE call.of = "field" -> FieldsAgree(call.F, call.a, call.b)
    [] call.of = "matrix" -> /\ EliminationExact(call.F, call.A)
                             /\ DualCodeExact(call.F, call.A)
    [] call.of = "hadamard" -> HadamardExact(call.m)
    [] call.of = "reshape" -> ReshapeInverts(call.in, call.cols)
    [] call.of = "rs" ->
         DecodesWithinDistance(call.F, call.k, call.source, call.errors)
    [] call.of = "ldpc" -> InformationInPlace(call.code, call.source)
    [] call.of = "mapper" -> MapperInverts(call.mappers, call.in)
    [] OTHER -> TRUE
=============================================================================
