--------------------------------- MODULE FSM ---------------------------------
(***************************************************************************)
(* The finite-state machines of the codecs: convolutional codes over a     *)
(* field (gnrcc, grscc), the same for bits (nrcc, rscc), the DVB code      *)
(* (dvbcrsc) and the table that stands for any of them (cached_fsm).  All  *)
(* that a code has run side by side, as an encoder drives them: from the   *)
(* zero state, then into the tail, or again from the circulation state.    *)
(***************************************************************************)
EXTENDS Matrix, BitField

CONSTANTS
  Encoders,     \* codes: the field, the generators and whether recursive
  MaxSteps      \* bound: inputs before the tail or the second pass

VARIABLES
  encoder,      \* the code
  reg,          \* its state: shift registers, or the bits of dvbcrsc
  bitreg,       \* that of nrcc or rscc, for a code over GF(2)
  ps,           \* that of the cached_fsm made from it
  N,            \* steps since the last reset
  source,       \* the inputs of the pass from the zero state
  circulation,  \* the state the second pass started from, <<>> before
  tailing       \* tail inputs so far

fsmvars == <<encoder, reg, bitreg, ps, N, source, circulation, tailing>>

TailInput == {-1}

Inputs(c) == Len(c.gen)
Outputs(c) == Len(c.gen[1])
RegSize(c, i) == Len(c.gen[i][1]) - 1
MemoryOrder(c) == Max({RegSize(c, i) : i \in 1..Inputs(c)})
MemoryElements(c) == SumFunction([i \in 1..Inputs(c) |-> RegSize(c, i)])

(* init asserts that the generators of an input have one length, the       *)
(* register's and one; a recursive code feeds back by the diagonal.        *)
IsField(F) == F.m \in Nat \ {0} /\ F.poly \subseteq 0..F.m /\ F.m \in F.poly
IsGenerator(F, gen) ==
  /\ gen \in Seq(Seq(Seq(Elements(F)))) /\ gen # <<>> /\ gen[1] # <<>>
  /\ \A i \in DOMAIN gen :
       /\ Len(gen[i]) = Len(gen[1])
       /\ \A j \in DOMAIN gen[i] : gen[i][j] # <<>> /\ Len(gen[i][j]) = Len(gen[i][1])

ASSUME EncodersAssumption ==
  /\ MaxSteps \in Nat
  /\ \A c \in Encoders :
       \/ c.kind = "dvb" /\ c.F = GF2
       \/ /\ c.kind \in {"nrc", "rsc"} /\ IsField(c.F) /\ IsGenerator(c.F, c.gen)
          /\ c.kind = "rsc" => Inputs(c) <= Outputs(c)

(***************************************************************************)
(* fsm: states and inputs as numbers                                       *)
(***************************************************************************)
TwoTo(n) == LET p[k \in 0..n] == IF k = 0 THEN 1 ELSE 2 * p[k - 1] IN p[n]
ToInt(e) == SumFunction([k \in e |-> TwoTo(k)])
Element(F, v) == CHOOSE e \in Elements(F) : ToInt(e) = v

\* Lower positions of a vector are the low-order digits.
Convert(F, vec) ==
  LET val[i \in 0..Len(vec)] ==
        IF i = 0 THEN 0 ELSE val[i - 1] * TwoTo(F.m) + ToInt(vec[Len(vec) + 1 - i])
  IN  val[Len(vec)]

ConvertBack(F, val, nu) ==
  LET rest[i \in 0..nu] == IF i = 0 THEN val ELSE rest[i - 1] \div TwoTo(F.m)
  IN  [i \in 1..nu |-> Element(F, rest[i - 1] % TwoTo(F.m))]

(***************************************************************************)
(* ccfsm, gnrcc and grscc                                                  *)
(***************************************************************************)

(* Elements nearer to the input first, of all registers in turn.           *)
Slots(c) ==
  LET Passed(p) == <<((p - 1) \div Inputs(c)) + 1, ((p - 1) % Inputs(c)) + 1>>
      slots[p \in 0..MemoryOrder(c) * Inputs(c)] ==
        IF p = 0 THEN <<>>
        ELSE IF Passed(p)[1] <= RegSize(c, Passed(p)[2])
        THEN Append(slots[p - 1], Passed(p))
        ELSE slots[p - 1]
  IN  slots[MemoryOrder(c) * Inputs(c)]

State(c, r) ==
  LET slots == Slots(c) IN Explicit([j \in DOMAIN slots |-> r[slots[j][2]][slots[j][1]]])

Reset(c, state) ==
  LET slots == Slots(c)
  IN  Explicit([i \in 1..Inputs(c) |-> Explicit([t \in 1..RegSize(c, i) |->
        state[CHOOSE j \in DOMAIN state : slots[j] = <<t, i>>]])])

Convolve(F, s, r, g) ==
  Plus(Times(F, s, g[1]), SumOver([i \in DOMAIN r |-> Times(F, r[i], g[i + 1])]))

(* A tail input of a recursive code is what the feedback cancels; one sets *)
(* the tail on all inputs.                                                 *)
DetermineInput(c, r, input) ==
  IF TailInput \notin {input[i] : i \in DOMAIN input} THEN input
  ELSE IF c.kind = "nrc"
  THEN [i \in DOMAIN input |-> IF input[i] = TailInput THEN Zero ELSE input[i]]
  ELSE Explicit([i \in DOMAIN input |-> Convolve(c.F, Zero, r[i], c.gen[i][i])])

DetermineFeedin(c, r, input) ==
  IF c.kind = "nrc" THEN input
  ELSE Explicit([i \in DOMAIN input |-> Convolve(c.F, input[i], r[i], c.gen[i][i])])

Advance(c, r, input) ==
  LET sin == DetermineFeedin(c, r, DetermineInput(c, r, input))
  IN  Explicit([i \in DOMAIN r |-> SubSeq(<<sin[i]>> \o r[i], 1, Len(r[i]))])

Output(c, r, input) ==
  LET sin == DetermineFeedin(c, r, DetermineInput(c, r, input))
  IN  Explicit([j \in 1..Outputs(c) |->
        SumOver([i \in DOMAIN r |-> Convolve(c.F, sin[i], r[i], c.gen[i][j])])])

(***************************************************************************)
(* grscc: the circulation state                                            *)
(***************************************************************************)

(* getstategen: the element fed back to the first element of the register, *)
(* and the one passed on to the next.                                      *)
StateGen(c) ==
  LET nu == MemoryElements(c)
      First(i) == SumFunction([k \in 1..i - 1 |-> RegSize(c, k)]) + 1
      Register(row) == Max({k \in 1..Inputs(c) : First(k) <= row})
      Tap(col, row, i) ==
        IF row > First(i) THEN IF col = row - First(i) THEN One ELSE Zero
        ELSE IF col <= RegSize(c, i) THEN c.gen[i][i][col + 1]
        ELSE Zero
  IN  [col \in 1..nu |-> [row \in 1..nu |-> Tap(col, row, Register(row))]]

(* initcsct looks for the period of the powers of the state generator.     *)
(* With several inputs there is none, as getstategen leaves rows empty:    *)
(* the loop never ends.                                                    *)
Grscc == {c \in Encoders : c.kind = "rsc" /\ Inputs(c) = 1}

(* The inverses of the table are <<>> for the lengths that have none; the  *)
(* table is cleared when there is one.                                     *)
Cleared(inverses) == IF <<>> \in Range(inverses) THEN <<>> ELSE inverses

Table(c, power, period) ==
  [fsm |-> c, period |-> period,
   csct |-> Cleared(Explicit([n \in 1..period - 1 |->
              InverseMatrix(c.F, MatrixPlus(power[0], power[n]))]))]

PeriodicTable(c, power) ==
  Table(c, power, Min({L \in DOMAIN power \ {0} : power[L] = power[0]}))

StatePowers(c, nu, stategen) ==
  LET statepow[i \in 0..TwoTo(c.F.m * nu)] ==
        IF i = 0 THEN Eye(nu) ELSE MatrixTimes(c.F, statepow[i - 1], stategen)
  IN  [i \in DOMAIN statepow |-> statepow[i]]

StateGenPowers(c) == StatePowers(c, MemoryElements(c), StateGen(c))

\* The same holds for a code none of whose powers is the first: only codes
\* for which the loop ends are encoders.
ASSUME PeriodAssumption ==
  \A c \in Grscc : \E L \in DOMAIN StateGenPowers(c) \ {0} :
    StateGenPowers(c)[L] = StateGenPowers(c)[0]

CirculationTables == {PeriodicTable(c, StateGenPowers(c)) : c \in Grscc}

TableOf(c) == CHOOSE table \in CirculationTables : table.fsm = c

(* Mutant: the entry of one step more is looked up.                        *)
LookedUpLate(c, table, zerostate, n) ==
  MatrixTimesVector(c.F, table.csct[(n % (table.period - 1)) + 1], zerostate)

LookedUp(c, table, zerostate, n) ==
  MatrixTimesVector(c.F, table.csct[n % table.period], zerostate)

Circulation(c, zerostate, n) == LookedUp(c, TableOf(c), zerostate, n)

(***************************************************************************)
(* ccbfsm, nrcc and rscc: registers and generators as bit fields           *)
(***************************************************************************)
AsBits(g) == Bits(Len(g), {p \in 0..Len(g) - 1 : g[p + 1] = One})

BitInput(c, r, input) ==
  LET Tailing(i) == IF c.kind = "nrc" THEN Zero
                    ELSE Convolution(Concat(r[i], Bits(1, {})), AsBits(c.gen[i][i])).field
  IN  [i \in DOMAIN input |-> IF input[i] = TailInput THEN Tailing(i) ELSE input[i]]

(* Mutant: the bits are put together with the first input on top.          *)
BitFeedinReversed(c, r, input) ==
  LET Junction(i) == IF c.kind = "nrc" THEN AsBits(<<input[i]>>)
                     ELSE Convolution(Concat(r[i], AsBits(<<input[i]>>)),
                                      AsBits(c.gen[i][i]))
  IN  [i \in DOMAIN input |-> Junction(Len(input) + 1 - i)]

BitFeedin(c, r, input) ==
  LET Junction(i) == IF c.kind = "nrc" THEN AsBits(<<input[i]>>)
                     ELSE Convolution(Concat(r[i], AsBits(<<input[i]>>)),
                                      AsBits(c.gen[i][i]))
  IN  [i \in DOMAIN input |-> Junction(i)]

BitAdvance(c, r, input) ==
  LET sin == BitFeedin(c, r, BitInput(c, r, input))
  IN  [i \in DOMAIN r |-> ShiftInLow(r[i], sin[i])]

BitOutput(c, r, input) ==
  LET sin == BitFeedin(c, r, BitInput(c, r, input))
      Term(i, j) == Convolution(Concat(r[i], sin[i]), AsBits(c.gen[i][j])).field
  IN  [j \in 1..Outputs(c) |-> SumOver([i \in DOMAIN r |-> Term(i, j)])]

BitState(c, r) ==
  [j \in DOMAIN Slots(c) |->
    ExtractBit(r[Slots(c)[j][2]], Slots(c)[j][1] - 1).field]

BitReset(c, state) ==
  [i \in 1..Inputs(c) |-> Bits(RegSize(c, i),
    {t \in 0..RegSize(c, i) - 1 :
       state[CHOOSE j \in DOMAIN state : Slots(c)[j] = <<t + 1, i>>] = One})]

(***************************************************************************)
(* dvbcrsc: two inputs A and B, a register of three bits                   *)
(***************************************************************************)
DvbIn(input) == FromVector([i \in 1..2 |-> input[i] = One])
FromBits(x) == Explicit([i \in 1..x.bits |-> ExtractBit(x, i - 1).field])

\* 1101 of A or B alone, above the register.
DvbShiftIn(r, ip) ==
  Convolution(Concat(Xor(ExtractBit(ip, 0), ExtractBit(ip, 1)), r), Bits(4, {0, 2, 3}))

DvbAdvance(r, input) ==
  LET B == ExtractBit(DvbIn(input), 1)
  IN  Xor(ShiftInHigh(DvbShiftIn(r, DvbIn(input)), r), Concat(Concat(Bits(1, {}), B), B))

\* The input, then Y (1011), then W (1001).
DvbOutput(r, input) ==
  LET ip == DvbIn(input)
      lsi == Concat(DvbShiftIn(r, ip), r)
      op == Concat(Convolution(lsi, Bits(4, {0, 1, 3})), ip)
  IN  FromBits(Concat(Convolution(lsi, Bits(4, {0, 3})), op))

(* csct: for the steps modulo 7, and the state they lead to from zero.     *)
DvbTable ==
  <<<<0, 6, 4, 2, 7, 1, 3, 5>>, <<0, 3, 7, 4, 5, 6, 2, 1>>,
    <<0, 5, 3, 6, 2, 7, 1, 4>>, <<0, 4, 1, 5, 6, 2, 7, 3>>,
    <<0, 2, 5, 7, 1, 3, 4, 6>>, <<0, 7, 6, 1, 3, 4, 5, 2>>>>

(***************************************************************************)
(* Any of them                                                             *)
(***************************************************************************)
IsDvb(c) == c.kind = "dvb"
IsBinary(c) == ~ IsDvb(c) /\ c.F = GF2
InputLines(c) == IF IsDvb(c) THEN 2 ELSE Inputs(c)
StateSize(c) == IF IsDvb(c) THEN 3 ELSE MemoryElements(c)
ZeroState(c) == [j \in 1..StateSize(c) |-> Zero]

StateVector(c, r) == IF IsDvb(c) THEN FromBits(r) ELSE State(c, r)
ResetTo(c, state) == IF IsDvb(c) THEN AsBits(state) ELSE Reset(c, state)
NextReg(c, r, input) ==
  IF IsDvb(c) THEN DvbAdvance(r, input) ELSE Advance(c, r, input)
OutputOf(c, r, input) ==
  IF IsDvb(c) THEN DvbOutput(r, input) ELSE Output(c, r, input)

(* resetcircular: the state to start from, given the one that n steps from *)
(* zero lead to; only recursive codes have it, for lengths that are not a  *)
(* multiple of the period.                                                 *)
HasCirculation(c, n) ==
  \/ IsDvb(c) /\ n % 7 # 0
  \/ /\ c \in Grscc
     /\ \E table \in {TableOf(c)} : table.csct # <<>> /\ n % table.period # 0

CirculationState(c, state, n) ==
  IF IsDvb(c)
  THEN ConvertBack(GF2, DvbTable[n % 7][Convert(GF2, state) + 1], 3)
  ELSE Circulation(c, state, n)

(* cached_fsm::init: its tables are filled from a reset to each state and  *)
(* a step with each input.                                                 *)
CachedNext(c, state, input) ==
  Convert(c.F, StateVector(c, NextReg(c,
    ResetTo(c, ConvertBack(c.F, state, StateSize(c))), input)))

CachedOutput(c, state, input) ==
  OutputOf(c, ResetTo(c, ConvertBack(c.F, state, StateSize(c))), input)

ResetState(state) ==
  /\ reg' = ResetTo(encoder, state)
  /\ bitreg' = IF IsBinary(encoder) THEN BitReset(encoder, state) ELSE <<>>
  /\ ps' = Convert(encoder.F, state)
  /\ N' = 0

AdvanceAll(input) ==
  LET ip == IF IsDvb(encoder) THEN input ELSE DetermineInput(encoder, reg, input)
  IN  /\ reg' = NextReg(encoder, reg, input)
      /\ bitreg' = IF IsBinary(encoder) THEN BitAdvance(encoder, bitreg, input)
                   ELSE bitreg
      /\ ps' = CachedNext(encoder, ps, ip)
      /\ N' = N + 1

InputVectors == [1..InputLines(encoder) -> Elements(encoder.F)]

FsmInit ==
  /\ encoder \in Encoders
  /\ reg = ResetTo(encoder, ZeroState(encoder))
  /\ bitreg = IF IsBinary(encoder) THEN BitReset(encoder, ZeroState(encoder)) ELSE <<>>
  /\ ps = 0 /\ N = 0
  /\ source = <<>> /\ circulation = <<>> /\ tailing = 0

Step ==
  /\ circulation = <<>> /\ tailing = 0 /\ N < MaxSteps
  /\ \E input \in InputVectors :
       AdvanceAll(input) /\ source' = Append(source, input)
  /\ UNCHANGED <<encoder, circulation, tailing>>

\* dvbcrsc takes no tail.
StepTail ==
  /\ ~ IsDvb(encoder) /\ circulation = <<>> /\ tailing < MemoryOrder(encoder)
  /\ AdvanceAll([i \in 1..InputLines(encoder) |-> TailInput])
  /\ tailing' = tailing + 1
  /\ UNCHANGED <<encoder, source, circulation>>

(* After the pass from the zero state.                                     *)
ResetCircular ==
  /\ circulation = <<>> /\ tailing = 0
  /\ HasCirculation(encoder, N)
  /\ circulation' = CirculationState(encoder, StateVector(encoder, reg), N)
  /\ ResetState(circulation')
  /\ UNCHANGED <<encoder, source, tailing>>

StepAgain ==
  /\ circulation # <<>> /\ N < Len(source)
  /\ AdvanceAll(source[N + 1])
  /\ UNCHANGED <<encoder, source, circulation, tailing>>

FsmNext ==
  \/ Step
  \/ StepTail
  \/ ResetCircular
  \/ StepAgain

FsmSpec == FsmInit /\ [][FsmNext]_fsmvars

(***************************************************************************)
(* What codecs rely on                                                     *)
(***************************************************************************)

(* The machine of elements, that of bits and the table are in the same     *)
(* state whatever they were fed, and would give the same output; a reset   *)
(* to the state it is in leaves a machine as it is.                        *)
EncodersAgree ==
  LET state == StateVector(encoder, reg)
  IN  /\ ResetTo(encoder, state) = reg
      /\ ps = Convert(encoder.F, state)
      /\ IsBinary(encoder) => BitState(encoder, bitreg) = state
      /\ \A input \in InputVectors :
           /\ CachedOutput(encoder, ps, input) = OutputOf(encoder, reg, input)
           /\ IsBinary(encoder) =>
                BitOutput(encoder, bitreg, input) = OutputOf(encoder, reg, input)

(* As many tail inputs as the memory order take a code whose feedback has  *)
(* a tap on the input to the zero state, and a second pass from the        *)
(* circulation state ends where it began.                                  *)
PassesClose ==
  /\ ~ IsDvb(encoder) /\ tailing = MemoryOrder(encoder) =>
       StateVector(encoder, reg) = ZeroState(encoder)
  /\ circulation # <<>> /\ N = Len(source) =>
       StateVector(encoder, reg) = circulation
=============================================================================
