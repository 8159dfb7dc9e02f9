------------------------------ MODULE ConvCodecs ------------------------------
(***************************************************************************)
(* The codecs made of convolutional codes: mapcc, turbo (with serial       *)
(* decoding) and repacc with its repetition code (memoryless).  A codec    *)
(* encodes blocks, and decodes each in a number of iterations from the     *)
(* likelihoods of the symbols received; encoder and decoder are one object *)
(* and what they keep outlives the block.                                  *)
(***************************************************************************)
EXTENDS Bcjr, SequencesExt

CONSTANTS
  Codecs,       \* codecs, with interleavers, the ways symbols are received
                \* or told beforehand, and bounds: blocks, unusual ways
  MaxDecodings  \* bound: iterations of a block

ASSUME CodecsAssumption ==
  /\ MaxDecodings \in Nat
  /\ \A cc \in Codecs : cc.kind \in {"mapcc", "turbo", "repacc"}
                          /\ cc.end \in {"open", "zero", "circular"}

VARIABLES
  codec,        \* the codec
  luts,         \* its interleavers in this block
  message,      \* the symbols encoded in this block
  encoded,      \* the encoder's output, <<>> for an assertion that fails
  codebook,     \* every message with what it would be encoded to
  received,     \* how each of its encoded symbols is received
  priors,       \* what the decoder is told of each symbol beforehand
  decoder,      \* statistics and end states kept by the decoder
  ri, rout,     \* its results for inputs and outputs, <<>> before the first
  iterations,   \* decoding cycles on this block
  blocks        \* blocks so far

codecvars == <<codec, luts, message, encoded, codebook, received, priors,
               decoder, ri, rout, iterations, blocks>>

SymbolsOf(cc) == 1..2 ^ cc.fsm.F.m
SymbolOf(e) == ToInt(e) + 1

(* Digit i of a symbol of several lines, as a symbol of one.               *)
DigitOf(cc, x, i) == (((x - 1) \div Cardinality(SymbolsOf(cc)) ^ (i - 1))
                        % Cardinality(SymbolsOf(cc))) + 1

ProductOver(S, f(_)) == FoldSet(LAMBDA x, p : f(x) * p, 1, S)

(***************************************************************************)
(* Interleavers: position t takes what was at lut[t], 0 for a tail.        *)
(***************************************************************************)
Interleaved(lut, in) ==
  Explicit([t \in DOMAIN lut |-> IF lut[t] = 0 THEN TailInput ELSE in[lut[t]]])

InterleavedSoft(lut, in) ==
  Explicit([t \in DOMAIN lut |->
    IF lut[t] = 0 THEN Equiprobable(DOMAIN in[t]) ELSE in[lut[t]]])

Deinterleaved(lut, in) ==
  Explicit([p \in DOMAIN lut |->
    IF lut[p] = 0 THEN Equiprobable(DOMAIN in[p])
    ELSE in[CHOOSE t \in DOMAIN lut : lut[t] = p]])

(***************************************************************************)
(* Encoding                                                                *)
(***************************************************************************)
TailLength(cc) == IF cc.end = "zero" THEN MemoryOrder(cc.fsm) ELSE 0
Lines(cc) == InputLines(cc.fsm)
Parity(cc) == OutputLines(cc.fsm) - Lines(cc)

(* Steps of the encoder; turbo takes them from the interleaver's size.     *)
Timesteps(cc) ==
  CASE cc.kind = "mapcc" -> cc.tau
    [] cc.kind = "turbo" -> cc.size \div Lines(cc)
    [] cc.kind = "repacc" -> cc.tau * Outputs(cc.rep) + TailLength(cc)

Messages(cc) ==
  [1..(IF cc.kind = "repacc" THEN cc.tau
       ELSE Lines(cc) * (Timesteps(cc) - TailLength(cc))) -> Elements(cc.fsm.F)]

(* The registers after steps with inputs, the inputs with their tails      *)
(* determined, and the outputs.                                            *)
Steps(c, first, inputs) ==
  LET s[t \in 0..Len(inputs)] ==
        IF t = 0 THEN [reg |-> first, ip |-> <<>>, op |-> <<>>]
        ELSE LET before == s[t - 1]
             IN  [reg |-> NextReg(c, before.reg, inputs[t]),
                  ip |-> Append(before.ip,
                                IF IsDvb(c) THEN inputs[t]
                                ELSE DetermineInput(c, before.reg, inputs[t])),
                  op |-> Append(before.op, OutputOf(c, before.reg, inputs[t]))]
  IN  s[Len(inputs)]

ZeroReg(c) == ResetTo(c, ZeroState(c))

(* From the zero state or, after a pass from there, from the circulation   *)
(* state.                                                                  *)
PassFrom(cc, first, inputs) ==
  LET pass == Steps(cc.fsm, first, inputs)
  IN  [ip |-> pass.ip, op |-> pass.op,
       closes |-> cc.end = "open" \/ pass.reg = first]

StateAfter(c, inputs) == StateVector(c, Steps(c, ZeroReg(c), inputs).reg)

FirstState(cc, inputs) ==
  IF cc.end = "circular"
  THEN CirculationState(cc.fsm, StateAfter(cc.fsm, inputs), Len(inputs))
  ELSE ZeroState(cc.fsm)

EncodePass(cc, inputs) ==
  PassFrom(cc, ResetTo(cc.fsm, FirstState(cc, inputs)), inputs)

(* The message by steps, then tails.                                       *)
WithTail(cc, u) ==
  [t \in 1..Timesteps(cc) |-> [i \in 1..Lines(cc) |->
    IF (t - 1) * Lines(cc) + i <= Len(u) THEN u[(t - 1) * Lines(cc) + i]
    ELSE TailInput]]

EncodeMap(cc, u) == FlattenSeq(EncodePass(cc, WithTail(cc, u)).op)

(* Each set has an interleaved message; the tails of set 0 become those of *)
(* the message.  No encoding for an assertion that fails: an interleaver   *)
(* is not of the size of a column, or a pass does not close.               *)
Columns(lut, in, k) ==
  LET Column(i) == Interleaved(lut, [t \in DOMAIN in |-> in[t][i]])
  IN  Explicit([t \in DOMAIN in |-> Explicit([i \in 1..k |-> Column(i)[t]])])

Multiplexed(cc, sent, pass) ==
  LET ParityOf(set, t) ==
        SubSeq(pass[set].op[t], Lines(cc) + 1, Lines(cc) + Parity(cc))
  IN  IF \A set \in DOMAIN pass : pass[set].closes
      THEN FlattenSeq([t \in DOMAIN sent |->
             sent[t] \o FlattenSeq([set \in DOMAIN pass |-> ParityOf(set, t)])])
      ELSE <<>>

EncodeSets(cc, l, sent, first) ==
  Multiplexed(cc, sent, Explicit([set \in DOMAIN l |->
    IF set = 1 THEN first
    ELSE EncodePass(cc, Columns(l[set], sent, Lines(cc)))]))

EncodeAfter(cc, l, tailed, first) ==
  EncodeSets(cc, l, IF cc.end = "zero" THEN first.ip ELSE tailed, first)

EncodeTurbo(cc, l, u) ==
  IF \E set \in DOMAIN l : Len(l[set]) # Timesteps(cc) THEN <<>>
  ELSE EncodeAfter(cc, l, WithTail(cc, u),
                   EncodePass(cc, Columns(l[1], WithTail(cc, u), Lines(cc))))

(* memoryless and the accumulator; only the parity of the latter is sent.  *)
ParityOnly(cc, pass) ==
  IF pass.closes
  THEN FlattenSeq([t \in DOMAIN pass.op |-> SubSeq(pass.op[t], 2, 1 + Parity(cc))])
  ELSE <<>>

EncodeRepAcc(cc, l, u) ==
  LET repeated == FlattenSeq(Steps(cc.rep, ZeroReg(cc.rep),
                                   [t \in DOMAIN u |-> <<u[t]>>]).op)
      tailed == [t \in 1..Timesteps(cc) |->
                  IF t <= Len(repeated) THEN repeated[t] ELSE TailInput]
      inputs == Interleaved(l[1], tailed)
  IN  ParityOnly(cc, EncodePass(cc, Explicit([t \in DOMAIN inputs |-> <<inputs[t]>>])))

EncodeBy(cc, l, u) ==
  CASE cc.kind = "mapcc" -> EncodeMap(cc, u)
    [] cc.kind = "turbo" -> EncodeTurbo(cc, l, u)
    [] cc.kind = "repacc" -> EncodeRepAcc(cc, l, u)

(* The words of a codec with its interleavers.                             *)
Codebooks ==
  UNION {{[cc |-> cc, luts |-> l,
           words |-> {[u |-> u, word |-> EncodeBy(cc, l, u) \o <<>>] :
                        u \in Messages(cc)}] :
            l \in cc.luts} : cc \in Codecs}

CodebookOf(cc, l) == (CHOOSE book \in Codebooks : book.cc = cc /\ book.luts = l).words

(***************************************************************************)
(* Decoding                                                                *)
(***************************************************************************)

(* The row of likelihoods of symbol sent, received in one of these ways.   *)
Likelihood(cc, way, sent) ==
  Explicit([x \in SymbolsOf(cc) |->
    CASE way = "clean" -> IF x = sent THEN 1 ELSE 0
      [] way = "erased" -> 1
      [] way = "likely" -> IF x = sent THEN 3 ELSE 1
      [] way = "misled" -> IF x = sent THEN 1 ELSE 2])

LikelihoodsOf(cc, ways, symbols) ==
  Explicit([i \in DOMAIN ways |-> Likelihood(cc, ways[i], SymbolOf(symbols[i]))])

(* Symbols of a step, from lines first to first + n - 1.                   *)
Aggregated(cc, p, first, n) ==
  Explicit([X \in 1..Cardinality(SymbolsOf(cc)) ^ n |->
    ProductOver(1..n, LAMBDA i : p[first + i - 1][DigitOf(cc, X, i)])])

Divided(cc, rows, n) ==
  Explicit([j \in 1..Len(rows) * n |->
    LET row == rows[((j - 1) \div n) + 1]
    IN  Explicit([x \in SymbolsOf(cc) |->
          MapThenSumSet(LAMBDA X : row[X],
                        {X \in DOMAIN row : DigitOf(cc, X, ((j - 1) % n) + 1) = x})])])

Ones(n, S) == Explicit([t \in 1..n |-> Equiprobable(S)])

\* Distributions before the first step and after the last: reset().
StartOf(cc) ==
  IF cc.end = "circular" THEN Equiprobable(States(cc.fsm)) ELSE Known(cc.fsm, 1)
EndOf(cc) ==
  IF cc.end = "zero" THEN Known(cc.fsm, 1) ELSE Equiprobable(States(cc.fsm))

(* setreceiver, then resetpriors or setpriors; the mapper that puts priors *)
(* together is made for all steps, so a code with a tail takes none.       *)
InitMap(cc, p, app) ==
  LET n == OutputLines(cc.fsm)
      k == Lines(cc)
  IN  [R |-> Explicit([t \in 1..cc.tau |-> Aggregated(cc, p, (t - 1) * n + 1, n)]),
       app |-> IF app = <<>> THEN Ones(cc.tau, InputSymbols(cc.fsm))
               ELSE Explicit([t \in 1..cc.tau |->
                      Aggregated(cc, app, (t - 1) * k + 1, k)])]

(* do_init_decoder: of the statistics of the encoder's output, those of    *)
(* the message are interleaved for each set.  Priors enter rp, when R has  *)
(* been worked out from it.                                                *)
InitTurbo(cc, l, p, app) ==
  LET k == Lines(cc)
      s == k + Parity(cc) * Len(l)
      T == 1..Timesteps(cc)
      rp == NormalizedAll([t \in T |-> Aggregated(cc, p, (t - 1) * s + 1, k)])
      parity(set, t) ==
        Aggregated(cc, p, (t - 1) * s + k + (set - 1) * Parity(cc) + 1, Parity(cc))
      K == Cardinality(InputSymbols(cc.fsm))
      R(set) ==
        LET rpi == InterleavedSoft(l[set], rp)
        IN  NormalizedAll([t \in T |->
              LET py == parity(set, t)
              IN  Explicit([X \in OutputSymbols(cc.fsm) |->
                    rpi[t][((X - 1) % K) + 1] * py[((X - 1) \div K) + 1]])])
  IN  [rp |-> Explicit([t \in T |->
                IF t \in DOMAIN app
                THEN Explicit([x \in DOMAIN rp[t] |-> rp[t][x] * app[t][x]])
                ELSE rp[t]]),
       R |-> Explicit([set \in DOMAIN l |-> R(set)]),
       ra |-> Ones(Timesteps(cc), InputSymbols(cc.fsm)),
       ss |-> [set \in DOMAIN l |-> StartOf(cc)],
       se |-> [set \in DOMAIN l |-> EndOf(cc)]]

InitRepAcc(cc, p, app) ==
  LET T == 1..Timesteps(cc)
      K == Cardinality(InputSymbols(cc.fsm))
  IN  [R |-> NormalizedAll([t \in T |->
               LET py == Aggregated(cc, p, (t - 1) * Parity(cc) + 1, Parity(cc))
               IN  Explicit([X \in OutputSymbols(cc.fsm) |-> py[((X - 1) \div K) + 1]])]),
       ra |-> Ones(Timesteps(cc), InputSymbols(cc.fsm)),
       rp |-> IF app = <<>> THEN Ones(cc.tau, SymbolsOf(cc)) ELSE app]

(* work_extrinsic and its like: rows divided where the divisor is not 0.   *)
DividedBy(rows, by) ==
  Explicit([t \in DOMAIN rows |-> Explicit([x \in DOMAIN rows[t] |->
    IF by[t][x] > 0 THEN rows[t][x] \div by[t][x] ELSE rows[t][x]])])

Multiplied(a, b) ==
  Explicit([t \in DOMAIN a |-> Explicit([x \in DOMAIN a[t] |-> a[t][x] * b[t][x]])])

DecodeMap(cc, d) ==
  LET res == Decode(cc.fsm, d.R, d.app, StartOf(cc), EndOf(cc))
      kept == SubSeq(res.ri, 1, cc.tau - TailLength(cc))
  IN  [decoder |-> d,
       ri |-> Divided(cc, kept, Lines(cc)),
       rout |-> Divided(cc, res.ro, OutputLines(cc.fsm))]

(* bcjr_wrap: one set; a circular trellis starts and ends where its last   *)
(* turn ended and started.                                                 *)
SetResult(cc, d, set, res, result) ==
  LET turns == cc.end = "circular"
      extrinsic == DividedBy(result, Multiplied(d.ra, d.rp))
  IN  [decoder |-> [d EXCEPT !.ra = NormalizedAll(extrinsic),
                             !.ss[set] = IF turns THEN res.start ELSE @,
                             !.se[set] = IF turns THEN res.end ELSE @],
       ri |-> result]

Wrapped(cc, d, l, set, res) ==
  SetResult(cc, d, set, res, Deinterleaved(l[set], res.ri))

DecodeSet(cc, l, set, d) ==
  Wrapped(cc, d, l, set,
          Decode(cc.fsm, d.R[set], InterleavedSoft(l[set], d.ra),
                 d.ss[set], d.se[set]))

(* decode_serial: each set starts from what the one before it found out.   *)
Hardened(cc, last) ==
  [decoder |-> last.decoder,
   ri |-> SubSeq(NormalizedAll(last.ri), 1, Timesteps(cc) - TailLength(cc)),
   rout |-> <<>>]

DecodeTurbo(cc, l, d) ==
  LET s[set \in 0..Len(l)] ==
        IF set = 0 THEN [decoder |-> d, ri |-> <<>>]
        ELSE DecodeSet(cc, l, set, s[set - 1].decoder)
  IN  Hardened(cc, s[Len(l)])

(* memoryless::softdecode with priors rp: inputs and outputs, for one line *)
(* of input; each step with an input sets the outputs it leads to.         *)
RepDecode(cc, R, rp) ==
  LET n == Outputs(cc.rep)
      Out(x, o) ==
        SymbolOf(OutputOf(cc.rep, ZeroReg(cc.rep), ConvertBack(cc.fsm.F, x - 1, 1))[o])
      in == Explicit([t \in DOMAIN rp |-> Explicit([x \in SymbolsOf(cc) |->
              rp[t][x] * ProductOver(1..n, LAMBDA o : R[(t - 1) * n + o][Out(x, o)])])])
      Row(j) ==
        Explicit([y \in SymbolsOf(cc) |->
          ProductOver({x \in SymbolsOf(cc) : Out(x, ((j - 1) % n) + 1) = y},
                      LAMBDA x : in[((j - 1) \div n) + 1][x])])
  IN  [ri |-> in, ro |-> Explicit([j \in 1..Len(rp) * n |-> Row(j)])]

(* repacc::softdecode: the accumulator, then the repetition code; what the *)
(* first finds of the tail stays in ra.                                    *)
RepResult(d, ra, rep) ==
  [decoder |-> [d EXCEPT !.ra = NormalizedAll(
     DividedBy(rep.ro, SubSeq(ra, 1, Len(rep.ro)))
       \o SubSeq(ra, Len(rep.ro) + 1, Len(ra)))],
   ri |-> rep.ri,
   rout |-> <<>>]

Repeated(cc, d, ra) == RepResult(d, ra, RepDecode(cc, ra, d.rp))

DecodeRepAcc(cc, l, d) ==
  LET acc == Decode(cc.fsm, d.R, InterleavedSoft(l[1], d.ra), StartOf(cc), EndOf(cc))
  IN  Repeated(cc, d, NormalizedAll(DividedBy(Deinterleaved(l[1], acc.ri), d.ra)))

(***************************************************************************)
(* The machine                                                             *)
(***************************************************************************)
Ways(cc, n) ==
  {w \in [1..n -> cc.ways] :
     Cardinality({i \in 1..n : w[i] # cc.usual}) <= cc.unusual}

CodecInit ==
  /\ codec \in Codecs
  /\ luts = <<>> /\ message = <<>> /\ encoded = <<>> /\ codebook = {}
  /\ received = <<>> /\ priors = <<>> /\ decoder = <<>>
  /\ ri = <<>> /\ rout = <<>>
  /\ iterations = 0 /\ blocks = 0

(* Interleavers are drawn again for each block.                            *)
EncodeBlock ==
  /\ blocks < codec.blocks
  /\ blocks = 0 \/ iterations > 0
  /\ luts' \in codec.luts
  /\ codebook' = CodebookOf(codec, luts')
  /\ \E w \in codebook' : message' = w.u /\ encoded' = w.word
  /\ blocks' = blocks + 1
  /\ iterations' = 0
  /\ received' = <<>> /\ priors' = <<>> /\ ri' = <<>> /\ rout' = <<>>
  /\ UNCHANGED <<codec, decoder>>

(* Mutant: what the last block left is kept.                               *)
DecoderForKept(cc, l, p, app) ==
  LET new == CASE cc.kind = "mapcc" -> InitMap(cc, p, app)
               [] cc.kind = "turbo" -> InitTurbo(cc, l, p, app)
               [] cc.kind = "repacc" -> InitRepAcc(cc, p, app)
  IN  IF decoder = <<>> \/ cc.kind = "mapcc" THEN new
      ELSE [new EXCEPT !.ra = decoder.ra]

DecoderFor(cc, l, p, app) ==
  CASE cc.kind = "mapcc" -> InitMap(cc, p, app)
    [] cc.kind = "turbo" -> InitTurbo(cc, l, p, app)
    [] cc.kind = "repacc" -> InitRepAcc(cc, p, app)

InitDecoder ==
  /\ blocks > 0 /\ received = <<>>
  /\ encoded # <<>>
  /\ received' \in Ways(codec, Len(encoded))
  /\ priors' \in {<<>>} \union
       (IF codec.kind = "mapcc" /\ codec.end = "zero" THEN {}
        ELSE {[i \in DOMAIN message |-> w] : w \in codec.told})
  /\ decoder' = DecoderFor(codec, luts,
                           LikelihoodsOf(codec, received', encoded),
                           LikelihoodsOf(codec, priors', message))
  /\ UNCHANGED <<codec, luts, message, encoded, codebook, ri, rout, iterations, blocks>>

SoftDecodeBlock ==
  /\ received # <<>> /\ iterations < MaxDecodings
  /\ \E result \in
       {CASE codec.kind = "mapcc" -> DecodeMap(codec, decoder)
          [] codec.kind = "turbo" -> DecodeTurbo(codec, luts, decoder)
          [] codec.kind = "repacc" -> DecodeRepAcc(codec, luts, decoder)} :
         /\ decoder' = result.decoder
         /\ ri' = result.ri
         /\ rout' = result.rout
  /\ iterations' = iterations + 1
  /\ UNCHANGED <<codec, luts, message, encoded, codebook, received, priors,
                 blocks>>

CodecNext == EncodeBlock \/ InitDecoder \/ SoftDecodeBlock

CodecSpec == CodecInit /\ [][CodecNext]_codecvars

(***************************************************************************)
(* What a codec is for                                                     *)
(***************************************************************************)
Weight(p, symbols) == ProductOver(DOMAIN p, LAMBDA i : p[i][SymbolOf(symbols[i])])

(* What was received weighs for a word, and what was told beforehand.      *)
WeightOf(w) ==
  Weight(LikelihoodsOf(codec, received, encoded), w.word)
    * Weight(LikelihoodsOf(codec, priors, message), w.u)

(* The result of mapcc on a trellis with a known start is the posterior    *)
(* probability of each symbol, of the message and of the codeword: the sum *)
(* over all messages that have it of how likely they are, given what was   *)
(* received and told.                                                      *)
PosteriorExact ==
  codec.kind = "mapcc" /\ codec.end # "circular" /\ iterations > 0 =>
    LET Sum(S) == MapThenSumSet(LAMBDA w : WeightOf(w), S)
    IN  /\ \A i \in DOMAIN message : \A x \in SymbolsOf(codec) :
             ri[i][x] = Sum({w \in codebook : SymbolOf(w.u[i]) = x})
        /\ \A j \in DOMAIN encoded : \A x \in SymbolsOf(codec) :
             rout[j][x] = Sum({w \in codebook : SymbolOf(w.word[j]) = x})

(* Whatever is erased, no decoder in any iteration, of this block or a     *)
(* later one, rules out a symbol of a message that may have been sent; and *)
(* when nothing is erased, it rules out all others.                        *)
DecodesConsistently ==
  blocks > 0 =>
    /\ encoded # <<>>
    /\ iterations > 0 =>
         /\ \A w \in codebook : WeightOf(w) > 0 =>
              \A i \in DOMAIN w.u : ri[i][SymbolOf(w.u[i])] > 0
         /\ (\A j \in DOMAIN received : received[j] = "clean") =>
              \A i \in DOMAIN message : \A x \in SymbolsOf(codec) :
                ri[i][x] > 0 => x = SymbolOf(message[i])
===============================================================================
