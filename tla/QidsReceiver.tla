----------------------------- MODULE QidsReceiver -----------------------------
(***************************************************************************)
(* The three receivers of the qids channel: how likely each change of      *)
(* length is, given what was sent and what was received.  Probabilities    *)
(* are integer weights, so that the recursions are exact.  Limits are a    *)
(* record: drifts over a frame from min to max, and over a symbol up to    *)
(* top; a symbol may always be deleted.                                    *)
(***************************************************************************)
EXTENDS Integers, Sequences, FiniteSetsExt, Functions

CONSTANTS Pval_d, Pval_i, Pval_tc, Pval_te

ASSUME WeightsAssumption == {Pval_d, Pval_i, Pval_tc, Pval_te} \subseteq Nat

SentAs(tx, i, rx, j) == IF tx[i] = rx[j] THEN Pval_tc ELSE Pval_te

ValueIf(condition, value) == IF condition THEN value ELSE 0

HighestOf(a, b) == IF a < b THEN b ELSE a
LowestOf(a, b) == IF a < b THEN a ELSE b

(* ptable: the value in the last row for each drift.                       *)
DriftTable(row, n, rho, lim) ==
  [x \in lim.min..lim.max |-> ValueIf(x + n \in 0..rho, row[x + n])]

(***************************************************************************)
(* receive_lattice: insertions, then one symbol transmitted or deleted     *)
(***************************************************************************)
ReceiveLattice(tx, rx, lim) ==
  LET n == Len(tx)
      rho == Len(rx)
      Row(i, above) ==
        LET F[j \in 0..rho] ==
              above[j] * Pval_d
                + ValueIf(j > 0, above[j - 1] * SentAs(tx, i, rx, j))
                + ValueIf(i < n /\ j > 0, F[j - 1] * Pval_i)
        IN  F
      first[j \in 0..rho] == IF j = 0 THEN 1 ELSE first[j - 1] * Pval_i
      rows[i \in 0..n] == IF i = 0 THEN first ELSE Row(i, rows[i - 1])
  IN  DriftTable(rows[n], n, rho, lim)

(***************************************************************************)
(* receive_lattice_corridor: the same in one row that is overwritten, and  *)
(* only for the columns of drifts between the limits                       *)
(***************************************************************************)

(* The row after row i, where each column is computed from the one before  *)
(* it and those of the row above, all in F.  Columns outside the corridor  *)
(* keep what they held.                                                    *)
CorridorRow(tx, rx, lim, i, F) ==
  LET n == Len(tx)
      rho == Len(rx)
      jmin == IF i < n THEN HighestOf(i + lim.min, 1) ELSE 1
      jmax == IF i < n THEN LowestOf(i + lim.max, rho) ELSE rho
      G[j \in 0..rho] ==
        IF j = 0 THEN IF i + lim.min <= 0 THEN F[0] * Pval_d ELSE F[0]
        ELSE IF j \notin jmin..jmax THEN F[j]
        ELSE F[j - 1] * SentAs(tx, i, rx, j)
               + ValueIf(j < i + lim.max, F[j] * Pval_d)
               + ValueIf(i < n, G[j - 1] * Pval_i)
  IN  G

(* A column that is read before it is set, which no drift in the limits    *)
(* depends on, reads as 0.                                                 *)
ReceiveCorridor(tx, rx, lim) ==
  LET n == Len(tx)
      rho == Len(rx)
      first[j \in 0..rho] ==
        IF j = 0 THEN 1 ELSE ValueIf(j <= lim.max, first[j - 1] * Pval_i)
      rows[i \in 0..n] ==
        IF i = 0 THEN first ELSE CorridorRow(tx, rx, lim, i, rows[i - 1])
  IN  DriftTable(rows[n], n, rho, lim)

(***************************************************************************)
(* receive_trellis: by drifts at the ends of symbols                       *)
(***************************************************************************)
Power(value, n) == LET p[i \in 0..n] == IF i = 0 THEN 1 ELSE p[i - 1] * value
                   IN  p[n]

(* Mutant: an insertion followed by a deletion is not counted.             *)
RtableTransmittedOnly(differs, mu) ==
  Power(Pval_i, mu) * (IF differs THEN Pval_te ELSE Pval_tc)

(* compute_Rtable_entry: mu insertions and a transmission, or one more     *)
(* insertion and a deletion.                                               *)
Rtable(differs, mu) ==
  Power(Pval_i, mu)
    * ((IF differs THEN Pval_te ELSE Pval_tc) + Pval_i * Pval_d)

TrellisRow(tx, rx, lim, j, F) ==
  [y \in lim.min..lim.max |->
    IF y \notin HighestOf(lim.min, - j)..LowestOf(lim.max, Len(rx) - j) THEN 0
    ELSE LET amin == HighestOf(HighestOf(lim.min, 1 - j), y - lim.top)
             amax == LowestOf(lim.max, y + 1)
             kept == amin..IF y < amax THEN amax - 1 ELSE amax
         IN  ValueIf(y < amax, F[amax] * Pval_d)
               + MapThenSumSet(LAMBDA a : F[a] * Rtable(tx[j] # rx[j + y], y - a),
                               kept)]

ReceiveTrellis(tx, rx, lim) ==
  LET rows[j \in 0..Len(tx)] ==
        IF j = 0 THEN [x \in lim.min..lim.max |-> ValueIf(x = 0, 1)]
        ELSE TrellisRow(tx, rx, lim, j, rows[j - 1])
  IN  rows[Len(tx)]

(***************************************************************************)
(* What they compute                                                       *)
(***************************************************************************)

(* Everything the channel may do to n symbols that leaves rho: insertions  *)
(* before each symbol, and whether it is transmitted.                      *)
Events(n, rho) ==
  [1..n -> [ins : 0..rho, kept : BOOLEAN]]

LengthAfter(e, t) ==
  FoldFunctionOnSet(LAMBDA ev, sum : sum + ev.ins + (IF ev.kept THEN 1 ELSE 0),
                    0, e, 1..t)

WeightOf(e, tx, rx) ==
  FoldFunctionOnSet(
    *, 1,
    [i \in 1..Len(tx) |->
       Power(Pval_i, e[i].ins)
         * (IF e[i].kept
            THEN SentAs(tx, i, rx, LengthAfter(e, i))
            ELSE Pval_d)],
    1..Len(tx))

(* The weight of all events that allowed lets happen and leave x more      *)
(* symbols.                                                                *)
Likelihood(tx, rx, x, allowed(_)) ==
  MapThenSumSet(LAMBDA e : WeightOf(e, tx, rx),
                {e \in Events(Len(tx), Len(rx)) :
                   LengthAfter(e, Len(tx)) = Len(tx) + x /\ allowed(e)})

(* Drifts at the ends of symbols in the limits, and what is received of a  *)
(* symbol too.                                                             *)
InTrellis(e, lim) ==
  \A t \in DOMAIN e :
    /\ LengthAfter(e, t) - t \in lim.min..lim.max
    /\ LengthAfter(e, t) - LengthAfter(e, t - 1) - 1 <= lim.top

(* Drifts in the limits after each insertion too.                          *)
InCorridor(e, lim) ==
  \A t \in DOMAIN e :
    /\ LengthAfter(e, t) - t \in lim.min..lim.max
    /\ LengthAfter(e, t - 1) + e[t].ins - (t - 1) \in lim.min..lim.max

(* Drifts of a whole frame that a receiver is asked for.                   *)
DriftsAsked(tx, rx, lim) ==
  {x \in lim.min..lim.max : x + Len(tx) \in 0..Len(rx)}

LatticeExact(tx, rx, lim) ==
  \A x \in DriftsAsked(tx, rx, lim) :
    ReceiveLattice(tx, rx, lim)[x] = Likelihood(tx, rx, x, LAMBDA e : TRUE)

TrellisExact(tx, rx, lim) ==
  \A x \in DriftsAsked(tx, rx, lim) :
    ReceiveTrellis(tx, rx, lim)[x] =
      Likelihood(tx, rx, x, LAMBDA e : InTrellis(e, lim))

CorridorExact(tx, rx, lim) ==
  \A x \in DriftsAsked(tx, rx, lim) :
    ReceiveCorridor(tx, rx, lim)[x] =
      Likelihood(tx, rx, x, LAMBDA e : InCorridor(e, lim))
=============================================================================
