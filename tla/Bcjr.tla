--------------------------------- MODULE Bcjr ---------------------------------
(***************************************************************************)
(* The BCJR algorithm (bcjr) on the trellis of a code of FSM.  Numbers     *)
(* count from 1 where the code counts from 0, so that a distribution over  *)
(* states or symbols is a sequence of weights.  Weights are integers, and  *)
(* only their ratios count: the code divides them by their sum, or by that *)
(* of all paths.                                                           *)
(***************************************************************************)
EXTENDS FSM

States(c) == 1..2 ^ (c.F.m * StateSize(c))
InputSymbols(c) == 1..2 ^ (c.F.m * InputLines(c))
OutputLines(c) == IF IsDvb(c) THEN 4 ELSE Outputs(c)
OutputSymbols(c) == 1..2 ^ (c.F.m * OutputLines(c))

(* bcjr::init: the tables lut_X and lut_m of each code.                    *)
Trellises ==
  {LET Ip(i) == ConvertBack(c.F, i - 1, InputLines(c))
   IN  [fsm |-> c,
        X |-> Explicit([m \in States(c) |-> Explicit([i \in InputSymbols(c) |->
                Convert(c.F, CachedOutput(c, m - 1, Ip(i))) + 1])]),
        m |-> Explicit([m \in States(c) |-> Explicit([i \in InputSymbols(c) |->
                CachedNext(c, m - 1, Ip(i)) + 1])])] : c \in Encoders}

TrellisOf(c) == CHOOSE tr \in Trellises : tr.fsm = c

Known(c, state) == Explicit([m \in States(c) |-> IF m = state THEN 1 ELSE 0])
Equiprobable(S) == Explicit([x \in S |-> 1])

Branches(tr) == States(tr.fsm) \X InputSymbols(tr.fsm)

WorkGamma(tr, R, app) ==
  Explicit([t \in DOMAIN R |->
    Explicit([m \in States(tr.fsm) |->
      Explicit([i \in InputSymbols(tr.fsm) |->
        R[t][tr.X[m][i]] * app[t][i]])])])

(* Mutant: paths that merge replace one another.                           *)
AlphaStepOverwrites(tr, gamma, a) ==
  Explicit([m \in States(tr.fsm) |->
    Max({0} \union {a[b[1]] * gamma[b[1]][b[2]] :
                      b \in {d \in Branches(tr) : tr.m[d[1]][d[2]] = m}})])

AlphaStep(tr, gamma, a) ==
  Explicit([m \in States(tr.fsm) |->
    MapThenSumSet(LAMBDA b : a[b[1]] * gamma[b[1]][b[2]],
                  {b \in Branches(tr) : tr.m[b[1]][b[2]] = m})])

BetaStep(tr, gamma, next) ==
  Explicit([m \in States(tr.fsm) |->
    MapThenSumSet(LAMBDA i : next[tr.m[m][i]] * gamma[m][i],
                  InputSymbols(tr.fsm))])

\* alpha and beta after step t, at position t + 1.
WorkAlpha(tr, gamma, start) ==
  LET alpha[t \in 0..Len(gamma)] ==
        IF t = 0 THEN start ELSE AlphaStep(tr, gamma[t], alpha[t - 1])
  IN  Explicit([t \in 1..Len(gamma) + 1 |-> alpha[t - 1]])

WorkBeta(tr, gamma, end) ==
  LET tau == Len(gamma)
      beta[t \in 0..tau] ==
        IF t = tau THEN end ELSE BetaStep(tr, gamma[t + 1], beta[t + 1])
  IN  Explicit([t \in 1..tau + 1 |-> beta[t - 1]])

(* What each input and each output symbol weighs at each step, and the     *)
(* distributions getstart and getend return.                               *)
Results(tr, gamma, alpha, beta) ==
  LET Sigma(t, b) ==
        alpha[t][b[1]] * gamma[t][b[1]][b[2]] * beta[t + 1][tr.m[b[1]][b[2]]]
      Total(t, S) == MapThenSumSet(LAMBDA b : Sigma(t, b), S)
  IN  [ri |-> Explicit([t \in DOMAIN gamma |-> Explicit([i \in InputSymbols(tr.fsm) |->
                Total(t, {b \in Branches(tr) : b[2] = i})])]),
       ro |-> Explicit([t \in DOMAIN gamma |-> Explicit([X \in OutputSymbols(tr.fsm) |->
                Total(t, {b \in Branches(tr) : tr.X[b[1]][b[2]] = X})])]),
       start |-> beta[1],
       end |-> alpha[Len(alpha)]]

DecodeOn(tr, gamma, start, end) ==
  Results(tr, gamma, WorkAlpha(tr, gamma, start), WorkBeta(tr, gamma, end))

DecodeTrellis(tr, R, app, start, end) ==
  DecodeOn(tr, WorkGamma(tr, R, app), start, end)

Decode(c, R, app, start, end) == DecodeTrellis(TrellisOf(c), R, app, start, end)

(* normalize: rows by a common divisor, as only ratios count.              *)
Normalized(row) ==
  LET gcd[a \in Nat, b \in Nat] == IF b = 0 THEN a ELSE gcd[b, a % b]
      divisor == FoldSet(LAMBDA x, d : gcd[row[x], d], 0, DOMAIN row)
  IN  Explicit([x \in DOMAIN row |->
        IF divisor = 0 THEN 0 ELSE row[x] \div divisor])

NormalizedAll(rows) == Explicit([t \in DOMAIN rows |-> Normalized(rows[t])])
===============================================================================
