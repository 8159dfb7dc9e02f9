------------------------- MODULE InsDelChannel_proofs -------------------------
(***************************************************************************)
(* The channels that insert and delete symbols, and the receivers of qids, *)
(* for every length, cap, limit and weight.                                *)
(*                                                                         *)
(* The three receivers sum the weights of all events.  The sum over all    *)
(* events of m symbols, by the length that they leave, grows by what       *)
(* happens to the next symbol; insertions are gathered along a row.  That  *)
(* is the recursion of the lattice, with the columns of the corridor it is *)
(* that of the corridor, and by drifts it is that of the trellis.          *)
(*                                                                         *)
(* The channels keep to their limits, get_drift tells where symbols are,   *)
(* and the receivers are exact on every sequence that leaves a channel.    *)
(***************************************************************************)
EXTENDS InsDelChannel, QidsReceiver, Induction, SequenceTheorems

LEMMA Weights == Pval_d \in Nat /\ Pval_i \in Nat /\ Pval_tc \in Nat /\ Pval_te \in Nat
BY WeightsAssumption

(* Power, by its recursion: one factor more at a time.                     *)
LEMMA PowerGrows ==
  ASSUME NEW v \in Nat
  PROVE  /\ Power(v, 0) = 1
         /\ \A n \in Nat : Power(v, n) \in Nat /\ Power(v, n + 1) = Power(v, n) * v
<1> DEFINE Def(n, p) == [i \in 0..n |-> IF i = 0 THEN 1 ELSE p[i - 1] * v]
           P(n) == CHOOSE p : p = Def(n, p)
           h == [x \in Nat \X Nat |-> x[2] * v]
<1>1. h \in [Nat \X Nat -> Nat]
  <2>1. \A x \in Nat \X Nat : x[2] * v \in Nat
    OBVIOUS
  <2> QED BY <2>1
<1>2. ASSUME NEW n \in Nat PROVE P(n) = Def(n, P(n))
  <2>1. Recursion(Nat, 1, h, n) # {}
    <3>1. 1 \in Nat
      OBVIOUS
    <3> HIDE DEF h
    <3> QED BY <1>1, <3>1, RecursionExists
  <2>2. PICK g \in [0..n -> Nat] : g[0] = 1 /\ \A i \in 1..n : g[i] = h[<<i, g[i - 1]>>]
    BY <2>1 DEF Recursion
  <2>3. \A i \in 1..n : g[i] = g[i - 1] * v
    <3>1. \A i \in 1..n : i \in Nat /\ i - 1 \in 0..n
      OBVIOUS
    <3>2. \A i \in 1..n : <<i, g[i - 1]>> \in Nat \X Nat
      BY <3>1
    <3> QED BY <2>2, <3>2
  <2>4. g = Def(n, g)
    <3>1. \A i \in 0..n : i # 0 => i \in 1..n
      OBVIOUS
    <3> QED BY <2>2, <2>3, <3>1
  <2> HIDE DEF Def
  <2> QED BY <2>4
<1>3. \A n : Power(v, n) = P(n)[n]
  BY DEF Power
<1> HIDE DEF P
<1> DEFINE Ns == {m \in Nat : \A n \in Nat, k \in Nat : m <= n /\ m <= k =>
                                  P(n)[m] \in Nat /\ P(n)[m] = P(k)[m]}
<1>4. 0 \in Ns
  <2>1. \A n \in Nat : P(n)[0] = 1
    BY <1>2
  <2> QED BY <2>1
<1>5. ASSUME NEW m \in Nat, m \in Ns PROVE m + 1 \in Ns
  <2>1. ASSUME NEW n \in Nat, m + 1 <= n PROVE P(n)[m + 1] = P(n)[m] * v
    <3>1. m + 1 \in 0..n /\ m + 1 # 0 /\ (m + 1) - 1 = m
      BY <2>1
    <3>2. P(n) = Def(n, P(n))
      BY <1>2
    <3> QED BY <3>1, <3>2
  <2> SUFFICES ASSUME NEW n \in Nat, NEW k \in Nat, m + 1 <= n, m + 1 <= k
               PROVE  P(n)[m + 1] \in Nat /\ P(n)[m + 1] = P(k)[m + 1]
    OBVIOUS
  <2>2. m <= n /\ m <= k
    OBVIOUS
  <2>3. P(n)[m] \in Nat /\ P(n)[m] = P(k)[m]
    BY <1>5, <2>2
  <2> HIDE DEF Def
  <2>4. P(n)[m] * v \in Nat
    BY <2>3
  <2> QED BY <2>1, <2>3, <2>4
<1>6. \A m \in Nat : m \in Ns
  <2> HIDE DEF Ns
  <2> QED BY <1>4, <1>5, SetInduction
<1>7. ASSUME NEW n \in Nat
      PROVE  P(n)[n] \in Nat /\ P(n + 1)[n + 1] = P(n)[n] * v
  <2>1. P(n)[n] \in Nat /\ P(n + 1)[n] = P(n)[n]
    <3>1. n + 1 \in Nat /\ n <= n + 1 /\ n <= n
      OBVIOUS
    <3> HIDE DEF Def
    <3> QED BY <1>6, <3>1
  <2>2. P(n + 1) = Def(n + 1, P(n + 1))
    BY <1>2
  <2>3. n + 1 \in 0..(n + 1) /\ n + 1 # 0 /\ (n + 1) - 1 = n
    OBVIOUS
  <2>4. P(n + 1)[n + 1] = P(n + 1)[n] * v
    BY <2>2, <2>3
  <2> QED BY <2>1, <2>4
<1>8. P(0)[0] = 1
  BY <1>2
<1> HIDE DEF Def
<1> QED BY <1>3, <1>7, <1>8

(***************************************************************************)
(* Lengths and weights of events, symbol by symbol                         *)
(***************************************************************************)
Left(ev) == ev.ins + (IF ev.kept THEN 1 ELSE 0)
Lengths(e) == [t \in DOMAIN e |-> Left(e[t])]
Length(e, t) == Sum(Lengths(e), 1..t)

(* What a symbol leaves is added to the length before it.                  *)
LEMMA LengthsGrow ==
  ASSUME NEW m \in Nat, NEW rho \in Nat, NEW e \in Events(m, rho)
  PROVE  /\ Length(e, 0) = 0
         /\ \A t \in 0..m : Length(e, t) \in Nat
         /\ \A t \in 1..m : Left(e[t]) \in Nat /\ Length(e, t) = Length(e, t - 1) + Left(e[t])
<1>1. DOMAIN e = 1..m /\ \A t \in 1..m : e[t] \in [ins : 0..rho, kept : BOOLEAN]
  BY DEF Events
<1>2. \A ev \in [ins : 0..rho, kept : BOOLEAN] : Left(ev) \in Nat
  BY DEF Left
<1>3. \A t \in 1..m : Lengths(e)[t] = Left(e[t]) /\ Left(e[t]) \in Nat
  BY <1>1, <1>2 DEF Lengths
<1>4. ASSUME NEW t \in 0..m PROVE Numbers(Lengths(e), 1..t)
  <2>1. \A i \in 1..t : i \in 1..m
    OBVIOUS
  <2>2. IsFiniteSet(1..t)
    BY FS_Interval
  <2> QED BY <1>3, <2>1, <2>2 DEF Numbers
<1>5. Length(e, 0) = 0
  <2>1. 1..0 = {} /\ 0 \in 0..m
    OBVIOUS
  <2> QED BY <1>4, <2>1, SumProperties DEF Length
<1>6. \A t \in 0..m : Length(e, t) \in Nat
  BY <1>4, SumProperties DEF Length
<1>7. ASSUME NEW t \in 1..m PROVE Length(e, t) = Length(e, t - 1) + Left(e[t])
  <2>1. t \in 0..m /\ t - 1 \in 0..m /\ t \in 1..t /\ (1..t) \ {t} = 1..t - 1
    OBVIOUS
  <2>2. Sum(Lengths(e), 1..t) = Lengths(e)[t] + Sum(Lengths(e), (1..t) \ {t})
    <3> DEFINE upto == 1..t
    <3>1. Numbers(Lengths(e), upto) /\ t \in upto
      BY <1>4, <2>1
    <3> HIDE DEF upto
    <3>2. Sum(Lengths(e), upto) = Lengths(e)[t] + Sum(Lengths(e), upto \ {t})
      BY <3>1, SumProperties
    <3> QED BY <3>2 DEF upto
  <2>3. Sum(Lengths(e), (1..t) \ {t}) = Length(e, t - 1)
    BY <2>1 DEF Length
  <2>4. Length(e, t - 1) \in Nat /\ Lengths(e)[t] = Left(e[t]) /\ Left(e[t]) \in Nat
    BY <1>3, <1>6, <2>1
  <2>5. Length(e, t) = Lengths(e)[t] + Length(e, t - 1)
    BY <2>2, <2>3 DEF Length
  <2> QED BY <2>4, <2>5
<1> QED BY <1>3, <1>5, <1>6, <1>7

(* The sum of lengths is the fold that the definition uses.                *)
LEMMA LengthIsAfter ==
  ASSUME NEW m \in Nat, NEW rho \in Nat, NEW e \in Events(m, rho), NEW t \in 0..m
  PROVE  LengthAfter(e, t) = Length(e, t)
<1> DEFINE Def(it) == [s \in SUBSET (1..t) |->
                         IF s = {} THEN 0
                         ELSE it[s \ {CHOOSE x \in s : TRUE}] + e[CHOOSE x \in s : TRUE].ins
                                + (IF e[CHOOSE x \in s : TRUE].kept THEN 1 ELSE 0)]
           iter == CHOOSE it : it = Def(it)
<1>1. LengthAfter(e, t) = iter[1..t]
  BY DEF LengthAfter, FoldFunctionOnSet, MapThenFoldSet
<1>2. DOMAIN e = 1..m /\ \A i \in 1..m : e[i] \in [ins : 0..rho, kept : BOOLEAN]
  BY DEF Events
<1>3. \A i \in 1..t : /\ Lengths(e)[i] = e[i].ins + (IF e[i].kept THEN 1 ELSE 0)
                      /\ Lengths(e)[i] \in Nat
  <2>1. \A i \in 1..t : i \in 1..m
    OBVIOUS
  <2> QED BY <1>2, <2>1 DEF Lengths, Left
<1>4. Numbers(Lengths(e), 1..t)
  <2>1. IsFiniteSet(1..t)
    BY FS_Interval
  <2> QED BY <1>3, <2>1 DEF Numbers
<1>5. PICK jt : SumRule(Lengths(e), 1..t, jt)
  BY <1>4, SumMadeByRule
<1>6. \A s \in SUBSET (1..t) : jt[s] \in Nat
  BY <1>4, <1>5, SumMadeByRule
<1>7. ASSUME NEW s \in SUBSET (1..t), s # {}
      PROVE  LET x == CHOOSE y \in s : TRUE
             IN  /\ x \in s
                 /\ jt[s] = jt[s \ {x}] + e[x].ins + (IF e[x].kept THEN 1 ELSE 0)
  <2> DEFINE x == CHOOSE y \in s : TRUE
  <2>1. x = AnyOf(s) /\ x \in s
    BY <1>7 DEF AnyOf
  <2> HIDE DEF x
  <2>2. jt[s] = Lengths(e)[x] + jt[s \ {x}]
    BY <1>5, <1>7, <2>1 DEF SumRule
  <2>3. /\ Lengths(e)[x] = e[x].ins + (IF e[x].kept THEN 1 ELSE 0)
        /\ e[x].ins \in Nat /\ jt[s \ {x}] \in Nat
    <3>1. x \in 1..t /\ x \in 1..m
      BY <2>1
    <3> QED BY <1>2, <1>3, <1>6, <3>1
  <2> QED BY <2>1, <2>2, <2>3 DEF x
<1>8. jt[{}] = 0 /\ jt = [s \in SUBSET (1..t) |-> jt[s]]
  BY <1>5 DEF SumRule
<1>9. jt = Def(jt)
  <2> DEFINE x(s) == CHOOSE y \in s : TRUE
  <2>1. ASSUME NEW s \in SUBSET (1..t), s # {}
        PROVE  jt[s] = jt[s \ {x(s)}] + e[x(s)].ins + (IF e[x(s)].kept THEN 1 ELSE 0)
    BY <1>7, <2>1
  <2>2. \A s \in SUBSET (1..t) :
          jt[s] = IF s = {} THEN 0
                  ELSE jt[s \ {x(s)}] + e[x(s)].ins + (IF e[x(s)].kept THEN 1 ELSE 0)
    <3> HIDE DEF x
    <3> QED BY <1>8, <2>1
  <2> QED BY <1>8, <2>2
<1>10. iter = Def(iter)
  <2> HIDE DEF Def
  <2> QED BY <1>9
<1>11. iter[1..t] = jt[1..t]
  <2> DEFINE x(s) == CHOOSE y \in s : TRUE
  <2>1. iter[{}] = jt[{}]
    BY <1>8, <1>10
  <2>2. ASSUME NEW s \in SUBSET (1..t), s # {}
        PROVE  \E y \in s : iter[s \ {y}] = jt[s \ {y}] => iter[s] = jt[s]
    <3>1. iter[s] = iter[s \ {x(s)}] + e[x(s)].ins + (IF e[x(s)].kept THEN 1 ELSE 0)
      BY <1>10, <2>2
    <3>2. x(s) \in s /\ jt[s] = jt[s \ {x(s)}] + e[x(s)].ins + (IF e[x(s)].kept THEN 1 ELSE 0)
      BY <1>7, <2>2
    <3> HIDE DEF x, iter
    <3> QED BY <3>1, <3>2
  <2>3. IsFiniteSet(1..t)
    BY FS_Interval
  <2> HIDE DEF iter
  <2> QED BY <2>1, <2>2, <2>3, SameRule
<1>12. jt[1..t] = Sum(Lengths(e), 1..t)
  BY <1>4, <1>5, SumMadeByRule
<1> QED BY <1>1, <1>11, <1>12 DEF Length

(***************************************************************************)
(* Weights                                                                 *)
(***************************************************************************)
Step(i, tx, rx, j, ev) ==
  Power(Pval_i, ev.ins) * (IF ev.kept THEN SentAs(tx, i, rx, j) ELSE Pval_d)

Steps(e, m, tx, rx) == [t \in 1..m |-> Step(t, tx, rx, Length(e, t), e[t])]
Weight(e, m, tx, rx) == Prod(Steps(e, m, tx, rx), 1..m)

LEMMA StepCounts ==
  ASSUME NEW rho \in Nat, NEW i, NEW tx, NEW rx, NEW j, NEW ev \in [ins : 0..rho, kept : BOOLEAN]
  PROVE  Step(i, tx, rx, j, ev) \in Nat
<1>1. Power(Pval_i, ev.ins) \in Nat
  <2>1. ev.ins \in Nat
    OBVIOUS
  <2> QED BY <2>1, PowerGrows, Weights
<1>2. (IF ev.kept THEN SentAs(tx, i, rx, j) ELSE Pval_d) \in Nat
  BY Weights DEF SentAs
<1>3. \A a, b \in Nat : a * b \in Nat
  OBVIOUS
<1> QED BY <1>1, <1>2, <1>3 DEF Step

LEMMA StepsCount ==
  ASSUME NEW m \in Nat, NEW rho \in Nat, NEW e \in Events(m, rho), NEW tx, NEW rx
  PROVE  Numbers(Steps(e, m, tx, rx), 1..m) /\ Weight(e, m, tx, rx) \in Nat
<1>1. \A t \in 1..m : e[t] \in [ins : 0..rho, kept : BOOLEAN]
  BY DEF Events
<1>2. Numbers(Steps(e, m, tx, rx), 1..m)
  <2>1. \A t \in 1..m : Steps(e, m, tx, rx)[t] \in Nat
    BY <1>1, StepCounts DEF Steps
  <2>2. IsFiniteSet(1..m)
    BY FS_Interval
  <2> QED BY <2>1, <2>2 DEF Numbers
<1> QED BY <1>2, ProdProperties DEF Weight

(* The product of steps is the fold that the definition uses.              *)
LEMMA WeightIsOf ==
  ASSUME NEW tx, NEW m \in Nat, Len(tx) = m, NEW rx, NEW rho \in Nat, NEW e \in Events(m, rho)
  PROVE  WeightOf(e, tx, rx) = Weight(e, m, tx, rx)
<1> DEFINE F == [i \in 1..Len(tx) |->
                  Power(Pval_i, e[i].ins)
                    * (IF e[i].kept THEN SentAs(tx, i, rx, LengthAfter(e, i)) ELSE Pval_d)]
           Def(it) == [s \in SUBSET (1..Len(tx)) |->
                         IF s = {} THEN 1
                         ELSE F[CHOOSE x \in s : TRUE] * it[s \ {CHOOSE x \in s : TRUE}]]
           iter == CHOOSE it : it = Def(it)
<1>1. WeightOf(e, tx, rx) = iter[1..Len(tx)]
  BY DEF WeightOf, FoldFunctionOnSet, MapThenFoldSet
<1>2. F = Steps(e, m, tx, rx)
  <2>1. \A i \in 1..m : LengthAfter(e, i) = Length(e, i)
    BY LengthIsAfter
  <2> QED BY <2>1 DEF Steps, Step
<1>3. Numbers(F, 1..m)
  BY <1>2, StepsCount
<1> HIDE DEF F
<1>4. \A it : it = Def(it) <=> ProdRule(F, 1..m, it)
  BY DEF ProdRule, AnyOf
<1>5. iter = Def(iter)
  <2>1. \E it : ProdRule(F, 1..m, it)
    BY <1>3, ProdMadeByRule
  <2> HIDE DEF Def
  <2> QED BY <1>4, <2>1
<1>6. ProdRule(F, 1..m, iter)
  <2> HIDE DEF Def, iter
  <2> QED BY <1>4, <1>5
<1>7. iter[1..m] = Prod(F, 1..m)
  <2> HIDE DEF iter
  <2> QED BY <1>3, <1>6, ProdMadeByRule
<1> QED BY <1>1, <1>2, <1>7 DEF Weight

(* Events of one symbol more.                                              *)
Before(e, m) == [t \in 1..m |-> e[t]]
Then(e, m, ev) == [t \in 1..m + 1 |-> IF t = m + 1 THEN ev ELSE e[t]]

(* Events of m + 1 symbols are those of m symbols and one event.           *)
LEMMA BeforeAndThen ==
  ASSUME NEW m \in Nat, NEW rho \in Nat
  PROVE  /\ \A e \in Events(m + 1, rho) :
              /\ Before(e, m) \in Events(m, rho)
              /\ e[m + 1] \in [ins : 0..rho, kept : BOOLEAN]
              /\ Then(Before(e, m), m, e[m + 1]) = e
         /\ \A e \in Events(m, rho), ev \in [ins : 0..rho, kept : BOOLEAN] :
              /\ Then(e, m, ev) \in Events(m + 1, rho)
              /\ Then(e, m, ev)[m + 1] = ev
              /\ Before(Then(e, m, ev), m) = e
<1>1. /\ \A t \in 1..m : t \in 1..m + 1 /\ t # m + 1
      /\ \A t \in 1..m + 1 : t # m + 1 => t \in 1..m
      /\ m + 1 \in 1..m + 1
  OBVIOUS
<1>2. ASSUME NEW e \in Events(m + 1, rho)
      PROVE  /\ Before(e, m) \in Events(m, rho)
             /\ e[m + 1] \in [ins : 0..rho, kept : BOOLEAN]
             /\ Then(Before(e, m), m, e[m + 1]) = e
  <2>1. Then(Before(e, m), m, e[m + 1]) = e
    <3>1. e = [t \in 1..m + 1 |-> e[t]]
      BY DEF Events
    <3> QED BY <1>1, <3>1 DEF Before, Then
  <2> QED BY <1>1, <2>1 DEF Events, Before
<1>3. ASSUME NEW e \in Events(m, rho), NEW ev \in [ins : 0..rho, kept : BOOLEAN]
      PROVE  /\ Then(e, m, ev) \in Events(m + 1, rho)
             /\ Then(e, m, ev)[m + 1] = ev
             /\ Before(Then(e, m, ev), m) = e
  <2>1. Before(Then(e, m, ev), m) = e
    <3>1. e = [t \in 1..m |-> e[t]]
      BY DEF Events
    <3> QED BY <1>1, <3>1 DEF Before, Then
  <2> QED BY <1>1, <2>1 DEF Events, Then
<1> QED BY <1>2, <1>3

LEMMA LengthBefore ==
  ASSUME NEW m \in Nat, NEW rho \in Nat, NEW e \in Events(m + 1, rho), NEW t \in 0..m
  PROVE  Length(Before(e, m), t) = Length(e, t)
<1>1. Before(e, m) \in Events(m, rho)
  BY BeforeAndThen
<1>2. ASSUME NEW i \in 1..t
      PROVE  Lengths(Before(e, m))[i] = Lengths(e)[i] /\ Lengths(e)[i] \in Nat
  <2>1. i \in 1..m /\ i \in 1..m + 1
    OBVIOUS
  <2>2. i \in DOMAIN e /\ i \in DOMAIN Before(e, m) /\ Before(e, m)[i] = e[i]
    BY <2>1 DEF Before, Events
  <2>3. Left(e[i]) \in Nat
    BY <2>1, LengthsGrow
  <2> QED BY <2>2, <2>3 DEF Lengths
<1>3. Numbers(Lengths(e), 1..t)
  <2>1. IsFiniteSet(1..t)
    BY FS_Interval
  <2> QED BY <1>2, <2>1 DEF Numbers
<1>4. Sum(Lengths(e), 1..t) = Sum(Lengths(Before(e, m)), 1..t)
  <2> DEFINE upto == 1..t
  <2>1. Numbers(Lengths(e), upto) /\ \A i \in upto : Lengths(e)[i] = Lengths(Before(e, m))[i]
    BY <1>2, <1>3
  <2> HIDE DEF upto
  <2>2. Sum(Lengths(e), upto) = Sum(Lengths(Before(e, m)), upto)
    BY <2>1, SumCongruent
  <2> QED BY <2>2 DEF upto
<1> QED BY <1>4 DEF Length

LEMMA WeightGrows ==
  ASSUME NEW m \in Nat, NEW rho \in Nat, NEW tx, NEW rx
  PROVE  /\ \A e \in Events(0, rho) : Weight(e, 0, tx, rx) = 1
         /\ \A e \in Events(m + 1, rho) :
              Weight(e, m + 1, tx, rx) =
                Weight(Before(e, m), m, tx, rx)
                  * Step(m + 1, tx, rx, Length(e, m + 1), e[m + 1])
<1>1. ASSUME NEW e \in Events(0, rho) PROVE Weight(e, 0, tx, rx) = 1
  <2>1. Numbers(Steps(e, 0, tx, rx), 1..0) /\ 1..0 = {}
    BY StepsCount
  <2> QED BY <2>1, ProdProperties DEF Weight
<1>2. ASSUME NEW e \in Events(m + 1, rho)
      PROVE  Weight(e, m + 1, tx, rx) =
               Weight(Before(e, m), m, tx, rx)
                 * Step(m + 1, tx, rx, Length(e, m + 1), e[m + 1])
  <2> DEFINE all == 1..m + 1
             f == Steps(e, m + 1, tx, rx)
             g == Steps(Before(e, m), m, tx, rx)
  <2>1. Numbers(f, all)
    <3>1. m + 1 \in Nat
      OBVIOUS
    <3> QED BY <3>1, StepsCount
  <2>2. m + 1 \in all /\ all \ {m + 1} = 1..m
    OBVIOUS
  <2>3. Prod(f, all) = f[m + 1] * Prod(f, all \ {m + 1})
    <3> HIDE DEF all, f
    <3> QED BY <2>1, <2>2, ProdProperties
  <2>4. Before(e, m) \in Events(m, rho)
    BY BeforeAndThen
  <2>5. Numbers(g, 1..m) /\ Prod(g, 1..m) \in Nat
    BY <2>4, StepsCount DEF Weight
  <2>6. \A t \in 1..m : g[t] = f[t]
    <3>1. ASSUME NEW t \in 1..m PROVE g[t] = f[t]
      <4>1. t \in 0..m /\ t \in all
        OBVIOUS
      <4>2. Length(Before(e, m), t) = Length(e, t)
        BY <4>1, LengthBefore
      <4> QED BY <4>1, <4>2 DEF Steps, Before
    <3> QED BY <3>1
  <2>7. Prod(g, 1..m) = Prod(f, 1..m)
    <3> DEFINE upto == 1..m
    <3>1. Numbers(g, upto) /\ \A t \in upto : g[t] = f[t]
      BY <2>5, <2>6
    <3> HIDE DEF upto, f, g
    <3>2. Prod(g, upto) = Prod(f, upto)
      BY <3>1, ProdCongruent
    <3> QED BY <3>2 DEF upto
  <2>8. f[m + 1] = Step(m + 1, tx, rx, Length(e, m + 1), e[m + 1])
    BY <2>2 DEF Steps
  <2>9. f[m + 1] \in Nat
    <3> HIDE DEF all, f
    <3> QED BY <2>1, <2>2 DEF Numbers
  <2>10. Prod(f, all) = Prod(g, 1..m) * f[m + 1]
    <3> HIDE DEF f, g
    <3>1. Prod(f, all) = f[m + 1] * Prod(g, 1..m)
      BY <2>2, <2>3, <2>7
    <3> HIDE DEF all
    <3>2. \A a, b \in Nat : a * b = b * a
      OBVIOUS
    <3> QED BY <2>5, <2>9, <3>1, <3>2
  <2> QED BY <2>8, <2>10 DEF Weight
<1> QED BY <1>1, <1>2

(***************************************************************************)
(* The weight of all events that leave j symbols                           *)
(***************************************************************************)

(* There are finitely many events to sum over.                             *)
LEMMA EventsFinite ==
  ASSUME NEW rho \in Nat
  PROVE  \A m \in Nat : IsFiniteSet(Events(m, rho))
<1> DEFINE V == [ins : 0..rho, kept : BOOLEAN]
           Ns == {m \in Nat : IsFiniteSet(Events(m, rho))}
<1>1. IsFiniteSet(V)
  <2>1. IsFiniteSet(0..rho) /\ IsFiniteSet(BOOLEAN)
    <3>1. IsFiniteSet({TRUE}) /\ IsFiniteSet({FALSE})
      BY FS_Singleton
    <3>2. IsFiniteSet({TRUE} \union {FALSE})
      BY <3>1, FS_Union
    <3>3. BOOLEAN = {TRUE} \union {FALSE}
      OBVIOUS
    <3>4. IsFiniteSet(BOOLEAN)
      BY <3>2, <3>3
    <3> QED BY <3>4, FS_Interval
  <2>2. IsFiniteSet((0..rho) \X BOOLEAN)
    BY <2>1, FS_Product
  <2> DEFINE f == [p \in (0..rho) \X BOOLEAN |-> [ins |-> p[1], kept |-> p[2]]]
  <2>3. f \in Surjection((0..rho) \X BOOLEAN, V)
    <3>1. f \in [(0..rho) \X BOOLEAN -> V]
      OBVIOUS
    <3>2. ASSUME NEW ev \in V PROVE \E p \in (0..rho) \X BOOLEAN : f[p] = ev
      <4>1. <<ev.ins, ev.kept>> \in (0..rho) \X BOOLEAN
        OBVIOUS
      <4>2. f[<<ev.ins, ev.kept>>] = ev
        OBVIOUS
      <4> QED BY <4>1, <4>2
    <3> HIDE DEF f
    <3> QED BY <3>1, <3>2 DEF Surjection
  <2> HIDE DEF V, f
  <2> QED BY <2>2, <2>3, FS_Surjection
<1>2. 0 \in Ns
  <2>1. Events(0, rho) \subseteq {[t \in {} |-> 0]}
    BY DEF Events
  <2>2. IsFiniteSet({[t \in {} |-> 0]})
    BY FS_Singleton
  <2> QED BY <2>1, <2>2, FS_Subset
<1>3. ASSUME NEW m \in Nat, m \in Ns PROVE m + 1 \in Ns
  <2> DEFINE f == [p \in Events(m, rho) \X V |-> Then(p[1], m, p[2])]
  <2>1. IsFiniteSet(Events(m, rho) \X V)
    <3> HIDE DEF V
    <3> QED BY <1>1, <1>3, FS_Product
  <2>2. f \in Surjection(Events(m, rho) \X V, Events(m + 1, rho))
    <3>1. f \in [Events(m, rho) \X V -> Events(m + 1, rho)]
      BY BeforeAndThen
    <3>2. ASSUME NEW e \in Events(m + 1, rho)
          PROVE  \E p \in Events(m, rho) \X V : f[p] = e
      <4>1. <<Before(e, m), e[m + 1]>> \in Events(m, rho) \X V
        BY BeforeAndThen
      <4>2. f[<<Before(e, m), e[m + 1]>>] = e
        BY <4>1, BeforeAndThen
      <4> QED BY <4>1, <4>2
    <3> HIDE DEF f, V
    <3> QED BY <3>1, <3>2 DEF Surjection
  <2> HIDE DEF f, V
  <2> QED BY <2>1, <2>2, FS_Surjection
<1> HIDE DEF Ns
<1>4. \A m \in Nat : m \in Ns
  BY <1>2, <1>3, SetInduction
<1> QED BY <1>4 DEF Ns

(* The events of m symbols that leave j, each of whose steps is in ok: a   *)
(* symbol, the length after it and what happened to it.                    *)
Paths(ok, m, rho, j) ==
  {e \in Events(m, rho) :
     Length(e, m) = j /\ \A t \in 1..m : <<t, Length(e, t), e[t]>> \in ok}

WeightsOf(m, rho, tx, rx) == [e \in Events(m, rho) |-> Weight(e, m, tx, rx)]
Total(ok, m, tx, rx, rho, j) == Sum(WeightsOf(m, rho, tx, rx), Paths(ok, m, rho, j))

LEMMA PathsCount ==
  ASSUME NEW m \in Nat, NEW rho \in Nat, NEW tx, NEW rx
  PROVE  /\ \A E \in SUBSET Events(m, rho) : Numbers(WeightsOf(m, rho, tx, rx), E)
         /\ \A ok, j : /\ Paths(ok, m, rho, j) \in SUBSET Events(m, rho)
                       /\ Total(ok, m, tx, rx, rho, j) \in Nat
<1>1. Numbers(WeightsOf(m, rho, tx, rx), Events(m, rho))
  BY EventsFinite, StepsCount DEF Numbers, WeightsOf
<1>2. \A E \in SUBSET Events(m, rho) : Numbers(WeightsOf(m, rho, tx, rx), E)
  BY <1>1, NumbersSubset
<1>3. \A ok, j : Paths(ok, m, rho, j) \in SUBSET Events(m, rho)
  BY DEF Paths
<1> QED BY <1>2, <1>3, SumProperties DEF Total

(* A path of m + 1 symbols is one of m symbols and an event allowed.       *)
LEMMA PathsGrow ==
  ASSUME NEW m \in Nat, NEW rho \in Nat, NEW ok, NEW j, NEW l, NEW e \in Events(m + 1, rho)
  PROVE  (e \in Paths(ok, m + 1, rho, j) /\ Length(e, m) = l)
         <=> (/\ Before(e, m) \in Paths(ok, m, rho, l)
              /\ <<m + 1, j, e[m + 1]>> \in ok
              /\ j = l + Left(e[m + 1]))
<1>1. Before(e, m) \in Events(m, rho)
  BY BeforeAndThen
<1>2. \A t \in 0..m : Length(Before(e, m), t) = Length(e, t)
  BY LengthBefore
<1>3. Length(e, m + 1) = Length(e, m) + Left(e[m + 1])
  <2>1. m + 1 \in Nat /\ m + 1 \in 1..m + 1 /\ (m + 1) - 1 = m
    OBVIOUS
  <2> QED BY <2>1, LengthsGrow
<1>4. \A t \in 1..m : Before(e, m)[t] = e[t] /\ t \in 0..m
  BY DEF Before
<1>5. \A t \in 1..m + 1 : t = m + 1 \/ t \in 1..m
  OBVIOUS
<1>6. m + 1 \in 1..m + 1 /\ m \in 0..m /\ \A t \in 1..m : t \in 1..m + 1
  OBVIOUS
<1>7. ASSUME e \in Paths(ok, m + 1, rho, j), Length(e, m) = l
      PROVE  /\ Before(e, m) \in Paths(ok, m, rho, l)
             /\ <<m + 1, j, e[m + 1]>> \in ok
             /\ j = l + Left(e[m + 1])
  <2>1. Length(e, m + 1) = j /\ \A t \in 1..m + 1 : <<t, Length(e, t), e[t]>> \in ok
    BY <1>7 DEF Paths
  <2>2. \A t \in 1..m : <<t, Length(Before(e, m), t), Before(e, m)[t]>> \in ok
    BY <1>2, <1>4, <1>6, <2>1
  <2>3. Length(Before(e, m), m) = l
    BY <1>2, <1>6, <1>7
  <2>4. Before(e, m) \in Paths(ok, m, rho, l)
    BY <1>1, <2>2, <2>3 DEF Paths
  <2> QED BY <1>3, <1>6, <1>7, <2>1, <2>4
<1>8. ASSUME Before(e, m) \in Paths(ok, m, rho, l), <<m + 1, j, e[m + 1]>> \in ok,
             j = l + Left(e[m + 1])
      PROVE  e \in Paths(ok, m + 1, rho, j) /\ Length(e, m) = l
  <2>1. /\ Length(Before(e, m), m) = l
        /\ \A t \in 1..m : <<t, Length(Before(e, m), t), Before(e, m)[t]>> \in ok
    BY <1>8 DEF Paths
  <2>2. Length(e, m) = l /\ Length(e, m + 1) = j
    BY <1>2, <1>3, <1>6, <1>8, <2>1
  <2>3. \A t \in 1..m : <<t, Length(e, t), e[t]>> \in ok
    BY <1>2, <1>4, <2>1
  <2>4. \A t \in 1..m + 1 : <<t, Length(e, t), e[t]>> \in ok
    BY <1>5, <1>8, <2>2, <2>3
  <2> QED BY <2>2, <2>4 DEF Paths
<1> QED BY <1>7, <1>8

(* Events whose last is ev.                                                *)
LEMMA TotalOfLast ==
  ASSUME NEW m \in Nat, NEW rho \in Nat, NEW tx, NEW rx, NEW ok, NEW j \in Nat, NEW l \in Nat,
         NEW ev \in [ins : 0..rho, kept : BOOLEAN], j = l + Left(ev)
  PROVE  Sum(WeightsOf(m + 1, rho, tx, rx),
             {e \in Paths(ok, m + 1, rho, j) : Length(e, m) = l /\ e[m + 1] = ev})
           = ValueIf(<<m + 1, j, ev>> \in ok,
                     Total(ok, m, tx, rx, rho, l) * Step(m + 1, tx, rx, j, ev))
<1> DEFINE D == {e \in Paths(ok, m + 1, rho, j) : Length(e, m) = l /\ e[m + 1] = ev}
           f == WeightsOf(m + 1, rho, tx, rx)
           T == Paths(ok, m, rho, l)
           c == Step(m + 1, tx, rx, j, ev)
           g == [p \in T |-> WeightsOf(m, rho, tx, rx)[p] * c]
           b == [e \in D |-> Before(e, m)]
<1>0. m + 1 \in Nat
  OBVIOUS
<1>1. D \in SUBSET Events(m + 1, rho) /\ T \in SUBSET Events(m, rho)
  BY <1>0, PathsCount
<1>2. CASE <<m + 1, j, ev>> \notin ok
  <2>1. ASSUME NEW e \in D PROVE FALSE
    <3>1. e \in Events(m + 1, rho) /\ e \in Paths(ok, m + 1, rho, j) /\ Length(e, m) = l
          /\ e[m + 1] = ev
      BY <1>1
    <3> QED BY <1>2, <3>1, PathsGrow
  <2>2. D = {}
    BY <2>1
  <2>3. Numbers(f, {})
    BY <1>0, PathsCount
  <2>4. Sum(f, {}) = 0
    BY <2>3, SumProperties
  <2> QED BY <1>2, <2>2, <2>4 DEF ValueIf
<1>3. CASE <<m + 1, j, ev>> \in ok
  <2>1. ASSUME NEW e \in D
        PROVE  /\ Before(e, m) \in T /\ f[e] = g[Before(e, m)]
               /\ Then(Before(e, m), m, ev) = e
    <3>1. e \in Events(m + 1, rho) /\ e \in Paths(ok, m + 1, rho, j) /\ Length(e, m) = l
          /\ e[m + 1] = ev /\ Length(e, m + 1) = j
      BY <1>1 DEF Paths
    <3>2. Before(e, m) \in T
      BY <3>1, PathsGrow
    <3>3. f[e] = Weight(e, m + 1, tx, rx)
          /\ WeightsOf(m, rho, tx, rx)[Before(e, m)] = Weight(Before(e, m), m, tx, rx)
      BY <1>1, <3>1, <3>2 DEF WeightsOf
    <3>4. Weight(e, m + 1, tx, rx) = Weight(Before(e, m), m, tx, rx) * c
      <4>1. Weight(e, m + 1, tx, rx) =
              Weight(Before(e, m), m, tx, rx) * Step(m + 1, tx, rx, Length(e, m + 1), e[m + 1])
        BY <3>1, WeightGrows
      <4> QED BY <3>1, <4>1
    <3>5. f[e] = g[Before(e, m)]
      <4> HIDE DEF T, f, c
      <4> QED BY <3>2, <3>3, <3>4
    <3> QED BY <3>1, <3>2, <3>5, BeforeAndThen
  <2>2. ASSUME NEW p \in T PROVE Then(p, m, ev) \in D /\ Before(Then(p, m, ev), m) = p
    <3>1. /\ p \in Events(m, rho) /\ Then(p, m, ev) \in Events(m + 1, rho)
          /\ Then(p, m, ev)[m + 1] = ev /\ Before(Then(p, m, ev), m) = p
      BY <1>1, BeforeAndThen
    <3>2. Then(p, m, ev) \in Paths(ok, m + 1, rho, j) /\ Length(Then(p, m, ev), m) = l
      BY <1>3, <3>1, PathsGrow
    <3> QED BY <3>1, <3>2
  <2>3. Numbers(f, D) /\ Numbers(WeightsOf(m, rho, tx, rx), T) /\ c \in Nat
    BY <1>0, <1>1, PathsCount, StepCounts
  <2> HIDE DEF D, f, T, c
  <2>4. \A p \in T : g[p] = WeightsOf(m, rho, tx, rx)[p] * c
    OBVIOUS
  <2> HIDE DEF g
  <2>5. Numbers(g, T) /\ Sum(g, T) = Sum(WeightsOf(m, rho, tx, rx), T) * c
    BY <2>3, <2>4, SumScaled
  <2>6. /\ \A e \in D : b[e] = Before(e, m)
        /\ \A e \in D : b[e] \in T /\ f[e] = g[b[e]]
    BY <2>1
  <2>7. \A d, e \in D : b[d] = b[e] => d = e
    <3>1. \A e \in D : Then(b[e], m, ev) = e
      BY <2>1, <2>6
    <3> HIDE DEF b
    <3> QED BY <3>1
  <2>8. \A p \in T : \E e \in D : b[e] = p
    BY <2>2, <2>6
  <2>9. IsFiniteSet(D)
    BY <2>3 DEF Numbers
  <2> HIDE DEF b
  <2>10. Sum(f, D) = Sum(g, T)
    <3>1. Renames(b, D, T, f, g)
      BY <2>6, <2>7, <2>8 DEF Renames
    <3>2. IsFiniteSet(D) /\ Numbers(g, T)
      BY <2>5, <2>9
    <3> QED BY <3>1, <3>2, SumRenamed
  <2>11. Sum(f, D) = Total(ok, m, tx, rx, rho, l) * c
    BY <2>5, <2>10 DEF Total, T
  <2> QED BY <1>3, <2>11 DEF ValueIf, D, f, c
<1> QED BY <1>2, <1>3

Deleted(k) == [ins |-> k, kept |-> FALSE]
Passed(k) == [ins |-> k, kept |-> TRUE]

(* What may happen to symbol i when l symbols are left before it and j     *)
(* after it.                                                               *)
Ways(ok, i, tx, rx, j, l) ==
  ValueIf(<<i, j, Deleted(j - l)>> \in ok, Step(i, tx, rx, j, Deleted(j - l)))
    + ValueIf(l < j /\ <<i, j, Passed(j - l - 1)>> \in ok, Step(i, tx, rx, j, Passed(j - l - 1)))

Reaching(ok, m, tx, rx, rho, j) ==
  [l \in 0..j |-> Total(ok, m, tx, rx, rho, l) * Ways(ok, m + 1, tx, rx, j, l)]

(* The last symbol is transmitted or deleted, after insertions that make   *)
(* up what is left.                                                        *)
LEMMA LastEvents ==
  ASSUME NEW rho \in Nat, NEW j \in 0..rho, NEW l \in 0..j
  PROVE  /\ Deleted(j - l) \in [ins : 0..rho, kept : BOOLEAN] /\ j = l + Left(Deleted(j - l))
         /\ l < j => Passed(j - l - 1) \in [ins : 0..rho, kept : BOOLEAN]
                     /\ j = l + Left(Passed(j - l - 1))
         /\ \A ev \in [ins : 0..rho, kept : BOOLEAN] :
              j = l + Left(ev) =>
                \/ ev = Deleted(j - l)
                \/ l < j /\ ev = Passed(j - l - 1)
<1>1. ASSUME NEW ev \in [ins : 0..rho, kept : BOOLEAN], j = l + Left(ev)
      PROVE  ev = Deleted(j - l) \/ (l < j /\ ev = Passed(j - l - 1))
  <2>0. ev = [ins |-> ev.ins, kept |-> ev.kept] /\ ev.ins \in Nat
    OBVIOUS
  <2>1. CASE ev.kept = TRUE
    <3>1. Left(ev) = ev.ins + 1
      BY <2>1 DEF Left
    <3>2. ev.ins = j - l - 1 /\ l < j
      BY <1>1, <2>0, <3>1
    <3> QED BY <2>0, <2>1, <3>2 DEF Passed
  <2>2. CASE ev.kept = FALSE
    <3>1. Left(ev) = ev.ins
      BY <2>2, <2>0 DEF Left
    <3>2. ev.ins = j - l
      BY <1>1, <2>0, <3>1
    <3>3. ev = [ins |-> ev.ins, kept |-> FALSE]
      BY <2>0, <2>2
    <3>4. ev = Deleted(ev.ins)
      BY <3>3, Zenon DEF Deleted
    <3> QED BY <3>2, <3>4
  <2> QED BY <2>1, <2>2
<1>2. Deleted(j - l) \in [ins : 0..rho, kept : BOOLEAN] /\ j = l + Left(Deleted(j - l))
  BY DEF Deleted, Left
<1>3. l < j => Passed(j - l - 1) \in [ins : 0..rho, kept : BOOLEAN]
               /\ j = l + Left(Passed(j - l - 1))
  BY DEF Passed, Left
<1> QED BY <1>1, <1>2, <1>3

LEMMA WaysCount ==
  ASSUME NEW rho \in Nat, NEW j \in 0..rho, NEW l \in 0..j, NEW ok, NEW i, NEW tx, NEW rx
  PROVE  Ways(ok, i, tx, rx, j, l) \in Nat
<1>1. Step(i, tx, rx, j, Deleted(j - l)) \in Nat
  BY LastEvents, StepCounts
<1>2. l < j => Step(i, tx, rx, j, Passed(j - l - 1)) \in Nat
  BY LastEvents, StepCounts
<1> QED BY <1>1, <1>2 DEF Ways, ValueIf

(* The total over m + 1 symbols, by what happened to the last.             *)
LEMMA TotalGrows ==
  ASSUME NEW m \in Nat, NEW rho \in Nat, NEW tx, NEW rx, NEW ok, NEW j \in 0..rho
  PROVE  /\ Numbers(Reaching(ok, m, tx, rx, rho, j), 0..j)
         /\ Total(ok, m + 1, tx, rx, rho, j) = Sum(Reaching(ok, m, tx, rx, rho, j), 0..j)
<1> DEFINE S == Paths(ok, m + 1, rho, j)
           f == WeightsOf(m + 1, rho, tx, rx)
           k == [e \in S |-> Length(e, m)]
           V == 0..j
           g == Reaching(ok, m, tx, rx, rho, j)
           V2 == [ins : 0..rho, kept : BOOLEAN]
<1>0. m + 1 \in Nat /\ j \in Nat
  OBVIOUS
<1>1. S \in SUBSET Events(m + 1, rho) /\ Numbers(f, S)
  BY <1>0, PathsCount
<1>2. ASSUME NEW e \in S
      PROVE  /\ e[m + 1] \in V2 /\ k[e] \in V /\ j = k[e] + Left(e[m + 1])
  <2>1. e \in Events(m + 1, rho) /\ Length(e, m + 1) = j
    BY DEF Paths
  <2>2. m \in 0..m + 1 /\ m + 1 \in 1..m + 1 /\ (m + 1) - 1 = m
    OBVIOUS
  <2>3. Length(e, m) \in Nat /\ Left(e[m + 1]) \in Nat /\ j = Length(e, m) + Left(e[m + 1])
    BY <1>0, <2>1, <2>2, LengthsGrow
  <2>4. e[m + 1] \in V2
    BY <2>1, BeforeAndThen
  <2> QED BY <2>3, <2>4
<1>3. ASSUME NEW l \in V PROVE g[l] = Sum(f, {e \in S : k[e] = l})
  <2> DEFINE D(ev) == {e \in S : Length(e, m) = l /\ e[m + 1] = ev}
             del == Deleted(j - l)
             snt == Passed(j - l - 1)
             tot == Total(ok, m, tx, rx, rho, l)
  <2>1. l \in Nat
    OBVIOUS
  <2>a. /\ del \in V2 /\ j = l + Left(del)
        /\ l < j => snt \in V2 /\ j = l + Left(snt)
        /\ \A ev \in V2 : j = l + Left(ev) => ev = del \/ (l < j /\ ev = snt)
    BY LastEvents
  <2>b. \A ev \in V2 : j = l + Left(ev) =>
          Sum(f, D(ev)) = ValueIf(<<m + 1, j, ev>> \in ok, tot * Step(m + 1, tx, rx, j, ev))
    BY <1>0, <2>1, TotalOfLast
  <2>2. Sum(f, D(del)) = ValueIf(<<m + 1, j, del>> \in ok, tot * Step(m + 1, tx, rx, j, del))
    <3> HIDE DEF D, del, f, tot
    <3> QED BY <2>a, <2>b
  <2>3. l < j => Sum(f, D(snt)) = ValueIf(<<m + 1, j, snt>> \in ok,
                                          tot * Step(m + 1, tx, rx, j, snt))
    <3> HIDE DEF D, snt, f, tot
    <3> QED BY <2>a, <2>b
  <2>4. {e \in S : k[e] = l} = IF l < j THEN D(del) \union D(snt) ELSE D(del)
    <3>1. ASSUME NEW e \in S, k[e] = l
          PROVE  e \in D(del) \/ (l < j /\ e \in D(snt))
      <4>1. j = l + Left(e[m + 1]) /\ e[m + 1] \in V2
        BY <1>2, <3>1
      <4>2. e[m + 1] = del \/ (l < j /\ e[m + 1] = snt)
        <5> HIDE DEF del, snt
        <5> QED BY <2>a, <4>1
      <4> QED BY <3>1, <4>2
    <3> HIDE DEF del, snt, S
    <3> QED BY <3>1
  <2>5. D(del) \cap D(snt) = {}
    <3>1. del # snt
      BY DEF Deleted, Passed
    <3> HIDE DEF del, snt
    <3> QED BY <3>1
  <2>6. Numbers(f, D(del)) /\ Numbers(f, D(snt))
    <3> HIDE DEF f, del, snt, S
    <3> QED BY <1>1, NumbersSubset
  <2>7. tot \in Nat
    BY PathsCount
  <2>8. Step(m + 1, tx, rx, j, del) \in Nat /\ (l < j => Step(m + 1, tx, rx, j, snt) \in Nat)
    BY LastEvents, StepCounts
  <2>9. Sum(f, {e \in S : k[e] = l}) =
          ValueIf(<<m + 1, j, del>> \in ok, tot * Step(m + 1, tx, rx, j, del))
            + ValueIf(l < j /\ <<m + 1, j, snt>> \in ok, tot * Step(m + 1, tx, rx, j, snt))
    <3>0. \A x \in Nat : tot * x \in Nat
      BY <2>7
    <3>1. CASE l < j
      <4>1. Sum(f, D(del) \union D(snt)) = Sum(f, D(del)) + Sum(f, D(snt))
        <5> HIDE DEF f, D
        <5> QED BY <2>5, <2>6, SumOfUnion
      <4>2. {e \in S : k[e] = l} = D(del) \union D(snt)
        BY <2>4, <3>1
      <4> HIDE DEF f, D, del, snt, tot, k, S
      <4> QED BY <2>2, <2>3, <3>1, <4>1, <4>2 DEF ValueIf
    <3>2. CASE ~ (l < j)
      <4>1. {e \in S : k[e] = l} = D(del)
        BY <2>4, <3>2
      <4>2. tot * Step(m + 1, tx, rx, j, del) \in Nat
        BY <2>8, <3>0
      <4> HIDE DEF f, D, del, snt, tot, k, S
      <4> QED BY <2>2, <3>2, <4>1, <4>2 DEF ValueIf
    <3> QED BY <3>1, <3>2
  <2>10. g[l] = tot * (ValueIf(<<m + 1, j, del>> \in ok, Step(m + 1, tx, rx, j, del))
                        + ValueIf(l < j /\ <<m + 1, j, snt>> \in ok,
                                  Step(m + 1, tx, rx, j, snt)))
    BY DEF Reaching, Ways
  <2> DEFINE a == Step(m + 1, tx, rx, j, del)
             b == Step(m + 1, tx, rx, j, snt)
             p == <<m + 1, j, del>> \in ok
             q == l < j /\ <<m + 1, j, snt>> \in ok
  <2>11. a \in Nat /\ (q => b \in Nat)
    BY <2>8
  <2> HIDE DEF a, b, p, q, tot, g, f, k, S, D, del, snt
  <2>12. tot * (ValueIf(p, a) + ValueIf(q, b)) = ValueIf(p, tot * a) + ValueIf(q, tot * b)
    <3>1. \A x, y \in Nat : tot * (x + y) = tot * x + tot * y
      BY <2>7
    <3>2. tot * 0 = 0 /\ 0 \in Nat
      BY <2>7
    <3>3. ValueIf(p, a) \in Nat /\ ValueIf(q, b) \in Nat
      BY <2>11 DEF ValueIf
    <3>4. tot * ValueIf(p, a) = ValueIf(p, tot * a) /\ tot * ValueIf(q, b) = ValueIf(q, tot * b)
      BY <3>2 DEF ValueIf
    <3> QED BY <3>1, <3>3, <3>4
  <2> QED BY <2>9, <2>10, <2>12 DEF a, b, p, q
<1>4. \A e \in S : k[e] \in V
  BY <1>2
<1>5. IsFiniteSet(V)
  BY FS_Interval
<1> HIDE DEF S, f, g, k, V
<1>6. Numbers(g, V) /\ Sum(f, S) = Sum(g, V)
  <2>1. Groups(f, S, k, V, g)
    BY <1>3, <1>4 DEF Groups
  <2> QED BY <1>1, <1>5, <2>1, SumByGroups
<1> QED BY <1>6 DEF S, f, g, V, Total

(* Of no symbols nothing is left.                                          *)
LEMMA TotalStarts ==
  ASSUME NEW rho \in Nat, NEW tx, NEW rx, NEW ok
  PROVE  /\ Total(ok, 0, tx, rx, rho, 0) = 1
         /\ \A l : l # 0 => Total(ok, 0, tx, rx, rho, l) = 0
<1> DEFINE none == [t \in 1..0 |-> 0]
           f == WeightsOf(0, rho, tx, rx)
<1>1. Events(0, rho) = {none}
  <2>1. 1..0 = {}
    OBVIOUS
  <2>2. none \in Events(0, rho)
    BY <2>1 DEF Events
  <2>3. \A e \in Events(0, rho) : e = none
    BY <2>1 DEF Events
  <2> QED BY <2>2, <2>3
<1> HIDE DEF none
<1>2. Length(none, 0) = 0
  <2>1. none \in Events(0, rho) /\ 0 \in Nat
    BY <1>1
  <2> QED BY <2>1, LengthsGrow
<1>3. f[none] = 1
  <2>1. none \in Events(0, rho)
    BY <1>1
  <2> QED BY <2>1, WeightGrows DEF WeightsOf
<1>4. Paths(ok, 0, rho, 0) = {none}
  BY <1>1, <1>2 DEF Paths
<1>5. \A l : l # 0 => Paths(ok, 0, rho, l) = {}
  BY <1>1, <1>2 DEF Paths
<1>6. Numbers(f, {none}) /\ Numbers(f, {})
  <2>1. {none} \in SUBSET Events(0, rho) /\ {} \in SUBSET Events(0, rho)
    BY <1>1
  <2> QED BY <2>1, PathsCount
<1> HIDE DEF f
<1>7. Sum(f, {}) = 0
  BY <1>6, SumProperties
<1>8. Sum(f, {none}) = 1
  <2>1. Sum(f, {none}) = f[none] + Sum(f, {none} \ {none})
    BY <1>6, SumProperties
  <2>2. {none} \ {none} = {}
    OBVIOUS
  <2> QED BY <1>3, <1>7, <2>1, <2>2
<1> QED BY <1>4, <1>5, <1>7, <1>8 DEF Total, f

(* The weight of what may have happened when j symbols are received and    *)
(* symbol m + 1 is next: m symbols are done, and insertions.               *)
Insertions(ok, m, tx, rx, rho, j) ==
  [l \in 0..j |-> Total(ok, m, tx, rx, rho, l) * Power(Pval_i, j - l)]

InRow(ok, m, tx, rx, rho, j) == Sum(Insertions(ok, m, tx, rx, rho, j), 0..j)

LEMMA InRowCounts ==
  ASSUME NEW m \in Nat, NEW rho \in Nat, NEW tx, NEW rx, NEW ok, NEW j \in Nat
  PROVE  /\ Numbers(Insertions(ok, m, tx, rx, rho, j), 0..j)
         /\ InRow(ok, m, tx, rx, rho, j) \in Nat
<1>1. ASSUME NEW l \in 0..j PROVE Insertions(ok, m, tx, rx, rho, j)[l] \in Nat
  <2>1. Power(Pval_i, j - l) \in Nat
    <3>1. j - l \in Nat
      OBVIOUS
    <3> QED BY <3>1, PowerGrows, Weights
  <2>2. Total(ok, m, tx, rx, rho, l) \in Nat
    BY PathsCount
  <2>3. \A a, b \in Nat : a * b \in Nat
    OBVIOUS
  <2> QED BY <2>1, <2>2, <2>3 DEF Insertions
<1>2. IsFiniteSet(0..j)
  BY FS_Interval
<1>3. Numbers(Insertions(ok, m, tx, rx, rho, j), 0..j)
  BY <1>1, <1>2 DEF Numbers
<1> QED BY <1>3, SumProperties DEF InRow

(* A column of a row has one insertion more than the column before it.     *)
LEMMA InRowGrows ==
  ASSUME NEW m \in Nat, NEW rho \in Nat, NEW tx, NEW rx, NEW ok
  PROVE  /\ InRow(ok, m, tx, rx, rho, 0) = Total(ok, m, tx, rx, rho, 0)
         /\ \A j \in Nat : j > 0 =>
              InRow(ok, m, tx, rx, rho, j) =
                Total(ok, m, tx, rx, rho, j) + InRow(ok, m, tx, rx, rho, j - 1) * Pval_i
<1> DEFINE T(l) == Total(ok, m, tx, rx, rho, l)
           f(j) == Insertions(ok, m, tx, rx, rho, j)
<1>0. \A l : T(l) \in Nat
  BY PathsCount
<1>1. ASSUME NEW j \in Nat
      PROVE  /\ f(j)[j] = T(j)
             /\ Sum(f(j), 0..j) = T(j) + Sum(f(j), (0..j) \ {j})
  <2>1. j \in 0..j /\ j - j = 0
    OBVIOUS
  <2>2. f(j)[j] = T(j) * 1
    BY <2>1, PowerGrows, Weights DEF Insertions
  <2>3. f(j)[j] = T(j)
    <3> HIDE DEF T, f
    <3> QED BY <1>0, <2>2
  <2>4. Numbers(f(j), 0..j)
    BY InRowCounts
  <2>5. Sum(f(j), 0..j) = f(j)[j] + Sum(f(j), (0..j) \ {j})
    <3> DEFINE all == 0..j
    <3>1. Numbers(f(j), all) /\ j \in all
      BY <2>1, <2>4
    <3> HIDE DEF all, f
    <3>2. Sum(f(j), all) = f(j)[j] + Sum(f(j), all \ {j})
      BY <3>1, SumProperties
    <3> QED BY <3>2 DEF all
  <2> QED BY <2>3, <2>5
<1>2. InRow(ok, m, tx, rx, rho, 0) = T(0)
  <2>1. (0..0) \ {0} = {}
    OBVIOUS
  <2>2. Sum(f(0), {}) = 0
    <3>1. Numbers(f(0), 0..0)
      BY InRowCounts
    <3>2. Numbers(f(0), {})
      BY <3>1, NumbersSubset
    <3> HIDE DEF f
    <3> QED BY <3>2, SumProperties
  <2>3. Sum(f(0), 0..0) = T(0) + Sum(f(0), (0..0) \ {0})
    BY <1>1
  <2> HIDE DEF f, T
  <2>4. Sum(f(0), 0..0) = T(0)
    <3>1. Sum(f(0), (0..0) \ {0}) = 0
      BY <2>1, <2>2
    <3>2. T(0) \in Nat
      BY <1>0
    <3> QED BY <2>3, <3>1, <3>2
  <2> QED BY <2>4 DEF InRow, f
<1>3. ASSUME NEW j \in Nat, j > 0
      PROVE  InRow(ok, m, tx, rx, rho, j) = T(j) + InRow(ok, m, tx, rx, rho, j - 1) * Pval_i
  <2>1. j - 1 \in Nat /\ (0..j) \ {j} = 0..(j - 1)
    BY <1>3
  <2>2. Numbers(f(j - 1), 0..(j - 1))
    BY <2>1, InRowCounts
  <2>3. ASSUME NEW l \in 0..(j - 1) PROVE f(j)[l] = f(j - 1)[l] * Pval_i
    <3>1. l \in 0..j /\ j - 1 - l \in Nat /\ j - l = (j - 1 - l) + 1
      BY <2>1
    <3>2. Power(Pval_i, j - l) = Power(Pval_i, j - 1 - l) * Pval_i
          /\ Power(Pval_i, j - 1 - l) \in Nat
      BY <3>1, PowerGrows, Weights
    <3>3. f(j)[l] = T(l) * Power(Pval_i, j - l) /\ f(j - 1)[l] = T(l) * Power(Pval_i, j - 1 - l)
      BY <3>1 DEF Insertions
    <3>4. \A a, b, c \in Nat : a * (b * c) = (a * b) * c
      OBVIOUS
    <3> HIDE DEF f, T
    <3> QED BY <1>0, <3>2, <3>3, <3>4, Weights
  <2>4. Sum(f(j), 0..(j - 1)) = Sum(f(j - 1), 0..(j - 1)) * Pval_i
    <3> DEFINE S == 0..(j - 1)
    <3>1. Numbers(f(j - 1), S) /\ (\A l \in S : f(j)[l] = f(j - 1)[l] * Pval_i) /\ Pval_i \in Nat
      BY <2>2, <2>3, Weights
    <3> HIDE DEF S, f
    <3>2. Sum(f(j), S) = Sum(f(j - 1), S) * Pval_i
      BY <3>1, SumScaled
    <3> QED BY <3>2 DEF S
  <2> QED BY <1>1, <2>1, <2>4 DEF InRow
<1> QED BY <1>2, <1>3

(* The step of the recursions by rows.                                     *)
LEMMA TotalFromRow ==
  ASSUME NEW m \in Nat, NEW rho \in Nat, NEW tx, NEW rx, NEW ok, NEW j \in 0..rho,
         NEW d \in BOOLEAN, NEW s \in BOOLEAN,
         \A k \in Nat : /\ <<m + 1, j, Deleted(k)>> \in ok <=> d
                        /\ <<m + 1, j, Passed(k)>> \in ok <=> s
  PROVE  Total(ok, m + 1, tx, rx, rho, j) =
           ValueIf(d, InRow(ok, m, tx, rx, rho, j) * Pval_d)
             + ValueIf(s /\ j > 0, InRow(ok, m, tx, rx, rho, j - 1) * SentAs(tx, m + 1, rx, j))
<1> DEFINE T(l) == Total(ok, m, tx, rx, rho, l)
           f == [l \in 0..j |-> ValueIf(d, Insertions(ok, m, tx, rx, rho, j)[l] * Pval_d)]
           g == [l \in 0..j |-> ValueIf(s /\ l < j,
                   Insertions(ok, m, tx, rx, rho, j - 1)[l] * SentAs(tx, m + 1, rx, j))]
           h == Reaching(ok, m, tx, rx, rho, j)
<1>a. j \in Nat
  OBVIOUS
<1>b. \A l : T(l) \in Nat
  BY PathsCount
<1>0. j \in Nat /\ \A l : T(l) \in Nat
  BY <1>a, <1>b
<1>1. SentAs(tx, m + 1, rx, j) \in Nat
  BY Weights DEF SentAs
<1>2. \A a, b, c \in Nat : a * (b * c) = (a * b) * c /\ a * b \in Nat
  OBVIOUS
<1>3. ASSUME NEW l \in 0..j
      PROVE  f[l] \in Nat /\ f[l] = T(l) * ValueIf(d, Step(m + 1, tx, rx, j, Deleted(j - l)))
  <2>1. Step(m + 1, tx, rx, j, Deleted(j - l)) = Power(Pval_i, j - l) * Pval_d
    BY DEF Step, Deleted
  <2>2. Insertions(ok, m, tx, rx, rho, j)[l] = T(l) * Power(Pval_i, j - l)
    BY DEF Insertions
  <2>3. Power(Pval_i, j - l) \in Nat
    <3>1. j - l \in Nat
      BY <1>0
    <3> QED BY <3>1, PowerGrows, Weights
  <2>4. f[l] = ValueIf(d, (T(l) * Power(Pval_i, j - l)) * Pval_d)
    BY <2>2
  <2>5. T(l) * 0 = 0
    BY <1>0
  <2> HIDE DEF f, T
  <2> QED BY <1>0, <1>2, <2>1, <2>3, <2>4, <2>5, Weights DEF ValueIf
<1>4. ASSUME NEW l \in 0..j
      PROVE  /\ g[l] \in Nat
             /\ g[l] = T(l) * ValueIf(s /\ l < j, Step(m + 1, tx, rx, j, Passed(j - l - 1)))
  <2>1. Step(m + 1, tx, rx, j, Passed(j - l - 1)) =
          Power(Pval_i, j - l - 1) * SentAs(tx, m + 1, rx, j)
    BY DEF Step, Passed
  <2>2. l < j => /\ Insertions(ok, m, tx, rx, rho, j - 1)[l] = T(l) * Power(Pval_i, j - l - 1)
                 /\ Power(Pval_i, j - l - 1) \in Nat
    <3>1. l < j => l \in 0..(j - 1) /\ j - l - 1 \in Nat /\ (j - 1) - l = j - l - 1
      BY <1>0
    <3> QED BY <3>1, PowerGrows, Weights DEF Insertions
  <2>3. g[l] = ValueIf(s /\ l < j, (T(l) * Power(Pval_i, j - l - 1)) * SentAs(tx, m + 1, rx, j))
    BY <2>2 DEF ValueIf
  <2>4. T(l) * 0 = 0
    BY <1>0
  <2> HIDE DEF g, T
  <2> QED BY <1>0, <1>1, <1>2, <2>1, <2>2, <2>3, <2>4 DEF ValueIf
<1>5. ASSUME NEW l \in 0..j PROVE h[l] = f[l] + g[l]
  <2> DEFINE x == Step(m + 1, tx, rx, j, Deleted(j - l))
             y == Step(m + 1, tx, rx, j, Passed(j - l - 1))
  <2>1. h[l] = T(l) * (ValueIf(<<m + 1, j, Deleted(j - l)>> \in ok, x)
                        + ValueIf(l < j /\ <<m + 1, j, Passed(j - l - 1)>> \in ok, y))
    BY DEF Reaching, Ways
  <2>2. ValueIf(<<m + 1, j, Deleted(j - l)>> \in ok, x) = ValueIf(d, x)
    <3>1. j - l \in Nat
      BY <1>0
    <3>2. <<m + 1, j, Deleted(j - l)>> \in ok <=> d
      BY <3>1
    <3> HIDE DEF x
    <3> QED BY <3>2 DEF ValueIf
  <2>3. ValueIf(l < j /\ <<m + 1, j, Passed(j - l - 1)>> \in ok, y) = ValueIf(s /\ l < j, y)
    <3>1. l < j => j - l - 1 \in Nat
      BY <1>0
    <3>2. l < j => (<<m + 1, j, Passed(j - l - 1)>> \in ok <=> s)
      BY <3>1
    <3> HIDE DEF y
    <3> QED BY <3>2 DEF ValueIf
  <2>4. x \in Nat /\ (l < j => y \in Nat)
    BY LastEvents, StepCounts
  <2>5. ValueIf(d, x) \in Nat /\ ValueIf(s /\ l < j, y) \in Nat
    <3> HIDE DEF x, y
    <3> QED BY <2>4 DEF ValueIf
  <2>6. \A u, v, w \in Nat : u * (v + w) = u * v + u * w
    OBVIOUS
  <2>7. f[l] = T(l) * ValueIf(d, x) /\ g[l] = T(l) * ValueIf(s /\ l < j, y)
    BY <1>3, <1>4
  <2>8. h[l] = T(l) * (ValueIf(d, x) + ValueIf(s /\ l < j, y))
    BY <2>1, <2>2, <2>3
  <2> HIDE DEF f, g, h, T, x, y
  <2> QED BY <1>0, <2>5, <2>6, <2>7, <2>8
<1>6. Numbers(f, 0..j) /\ Numbers(g, 0..j)
  <2>1. IsFiniteSet(0..j)
    BY FS_Interval
  <2> HIDE DEF f, g
  <2> QED BY <1>3, <1>4, <2>1 DEF Numbers
<1>7. Sum(h, 0..j) = Sum(f, 0..j) + Sum(g, 0..j)
  <2> DEFINE all == 0..j
  <2>1. Numbers(f, all) /\ Numbers(g, all) /\ Adds(f, g, h, all)
    BY <1>5, <1>6 DEF Adds
  <2> HIDE DEF f, g, h, all
  <2>2. Sum(h, all) = Sum(f, all) + Sum(g, all)
    BY <2>1, SumAdded
  <2> QED BY <2>2 DEF all
<1>8. Sum(f, 0..j) = ValueIf(d, InRow(ok, m, tx, rx, rho, j) * Pval_d)
  <2> DEFINE all == 0..j
             r == Insertions(ok, m, tx, rx, rho, j)
  <2>1. Numbers(r, all)
    BY <1>0, InRowCounts
  <2>2. IsFiniteSet(all)
    BY FS_Interval
  <2>3. CASE d
    <3>1. \A l \in all : f[l] = r[l] * Pval_d
      BY <2>3 DEF ValueIf
    <3> HIDE DEF all, r, f
    <3>2. Sum(f, all) = Sum(r, all) * Pval_d
      BY <2>1, <3>1, SumScaled, Weights
    <3> QED BY <2>3, <3>2 DEF ValueIf, InRow, all, r
  <2>4. CASE ~ d
    <3>1. \A l \in all : f[l] = 0
      BY <2>4 DEF ValueIf
    <3> HIDE DEF all, f
    <3>2. Sum(f, all) = 0
      BY <2>2, <3>1, SumOfZeros
    <3> QED BY <2>4, <3>2 DEF ValueIf, all
  <2> QED BY <2>3, <2>4
<1>9. Sum(g, 0..j) = ValueIf(s /\ j > 0,
                             InRow(ok, m, tx, rx, rho, j - 1) * SentAs(tx, m + 1, rx, j))
  <2> DEFINE all == 0..j
             sub == 0..(j - 1)
             r == Insertions(ok, m, tx, rx, rho, j - 1)
             c == SentAs(tx, m + 1, rx, j)
  <2>1. IsFiniteSet(all)
    BY FS_Interval
  <2>2. CASE s /\ j > 0
    <3>1. j - 1 \in Nat
      BY <1>0, <2>2
    <3>2. Numbers(r, sub)
      BY <3>1, InRowCounts
    <3>3. \A l \in sub : l \in 0..j /\ l < j
      BY <1>0, <2>2
    <3>4. \A l \in sub : g[l] = r[l] * c
      BY <2>2, <3>3 DEF ValueIf
    <3>5. \A l \in all \ sub : l \in 0..j /\ ~ (l < j)
      BY <1>0, <2>2
    <3>6. \A l \in all \ sub : g[l] = 0
      BY <3>5 DEF ValueIf
    <3>7. Numbers(g, all) /\ sub \subseteq all
      BY <1>6, <3>3
    <3> HIDE DEF all, sub, r, g, c
    <3>8. Sum(g, all) = Sum(g, sub)
      BY <3>6, <3>7, SumWhere
    <3>9. Sum(g, sub) = Sum(r, sub) * c
      BY <1>1, <3>2, <3>4, SumScaled DEF c
    <3> QED BY <2>2, <3>8, <3>9 DEF ValueIf, InRow, all, sub, r, c
  <2>3. CASE ~ (s /\ j > 0)
    <3>1. \A l \in all : g[l] = 0
      <4>1. \A l \in all : ~ (s /\ l < j)
        BY <1>0, <2>3
      <4> QED BY <4>1 DEF ValueIf
    <3> HIDE DEF all, g
    <3>2. Sum(g, all) = 0
      BY <2>1, <3>1, SumOfZeros
    <3> QED BY <2>3, <3>2 DEF ValueIf, all
  <2> QED BY <2>2, <2>3
<1> QED BY <1>7, <1>8, <1>9, TotalGrows

(***************************************************************************)
(* The recursions by rows                                                  *)
(***************************************************************************)

(* A step allowed, in the columns of a corridor: a deletion except in the  *)
(* last column.                                                            *)
InColumns(i, rho, lo, hi) == {j \in 0..rho : i + lo <= j /\ j <= i + hi}

CorridorSteps(ok, n, rho, lo, hi) ==
  \A i \in 1..n : \A j \in InColumns(i, rho, lo, hi) : \A k \in Nat :
    /\ <<i, j, Deleted(k)>> \in ok <=> j < i + hi
    /\ <<i, j, Passed(k)>> \in ok

FirstRow(F, rho, hi) ==
  \A j \in 0..rho : j <= hi => F[j] = (IF j = 0 THEN 1 ELSE F[j - 1] * Pval_i)

NextRow(F, G, i, n, tx, rx, rho, lo, hi) ==
  \A j \in InColumns(i, rho, lo, hi) :
    G[j] = ValueIf(j < i + hi, F[j] * Pval_d)
             + ValueIf(j > 0, F[j - 1] * SentAs(tx, i, rx, j))
             + ValueIf(i < n /\ j > 0, G[j - 1] * Pval_i)

CorridorRows(rows, n, tx, rx, rho, lo, hi) ==
  /\ FirstRow(rows[0], rho, hi)
  /\ \A i \in 1..n : NextRow(rows[i - 1], rows[i], i, n, tx, rx, rho, lo, hi)

(* Rows that follow the rule hold, in the last, the totals of all paths    *)
(* that keep to their columns.                                             *)
LEMMA RowsGiveTotals ==
  ASSUME NEW n \in Nat \ {0}, NEW rho \in Nat, NEW tx, NEW rx,
         NEW lo \in Int, lo <= 1 - n, NEW hi \in Nat, NEW rows, NEW ok,
         CorridorSteps(ok, n, rho, lo, hi), CorridorRows(rows, n, tx, rx, rho, lo, hi)
  PROVE  \A j \in InColumns(n, rho, lo, hi) : rows[n][j] = Total(ok, n, tx, rx, rho, j)
<1> DEFINE Q(i, j) == InRow(ok, i, tx, rx, rho, j)
           T(i, j) == Total(ok, i, tx, rx, rho, j)
           Right(i) == \A j \in 0..rho : j <= i + hi => rows[i][j] = Q(i, j)
           Is == {i \in Nat : i < n => Right(i)}
<1>0. \A i \in Nat : /\ \A j : T(i, j) \in Nat
                     /\ \A j \in Nat : Q(i, j) \in Nat
                     /\ Q(i, 0) = T(i, 0)
                     /\ \A j \in Nat : j > 0 => Q(i, j) = T(i, j) + Q(i, j - 1) * Pval_i
  <2> SUFFICES ASSUME NEW i \in Nat
               PROVE  /\ \A j : T(i, j) \in Nat
                      /\ \A j \in Nat : Q(i, j) \in Nat
                      /\ Q(i, 0) = T(i, 0)
                      /\ \A j \in Nat : j > 0 => Q(i, j) = T(i, j) + Q(i, j - 1) * Pval_i
    OBVIOUS
  <2>1. \A j : T(i, j) \in Nat
    BY PathsCount
  <2>2. \A j \in Nat : Q(i, j) \in Nat
    BY InRowCounts
  <2>3. /\ Q(i, 0) = T(i, 0)
        /\ \A j \in Nat : j > 0 => Q(i, j) = T(i, j) + Q(i, j - 1) * Pval_i
    BY InRowGrows
  <2> HIDE DEF Q, T
  <2> QED BY <2>1, <2>2, <2>3
<1>1. ASSUME NEW i \in 1..n, Right(i - 1), NEW j \in InColumns(i, rho, lo, hi)
      PROVE  rows[i][j] = T(i, j) + ValueIf(i < n /\ j > 0, rows[i][j - 1] * Pval_i)
  <2>1. /\ i - 1 \in Nat /\ (i - 1) + 1 = i /\ j \in 0..rho
        /\ j < i + hi => j <= (i - 1) + hi
        /\ j > 0 => j - 1 \in 0..rho /\ j - 1 <= (i - 1) + hi
    BY DEF InColumns
  <2>2. T(i, j) = ValueIf(j < i + hi, Q(i - 1, j) * Pval_d)
                    + ValueIf(j > 0, Q(i - 1, j - 1) * SentAs(tx, i, rx, j))
    <3>1. \A k \in Nat : /\ <<i, j, Deleted(k)>> \in ok <=> (j < i + hi)
                         /\ <<i, j, Passed(k)>> \in ok <=> TRUE
      BY DEF CorridorSteps
    <3> DEFINE d == j < i + hi
               s == TRUE
               m == i - 1
    <3>2. d \in BOOLEAN /\ s \in BOOLEAN
      OBVIOUS
    <3>3. \A k \in Nat : /\ <<m + 1, j, Deleted(k)>> \in ok <=> d
                         /\ <<m + 1, j, Passed(k)>> \in ok <=> s
      BY <2>1, <3>1
    <3>4. m \in Nat
      BY <2>1
    <3> HIDE DEF d, s, m
    <3>5. Total(ok, m + 1, tx, rx, rho, j) =
            ValueIf(d, InRow(ok, m, tx, rx, rho, j) * Pval_d)
             + ValueIf(s /\ j > 0, InRow(ok, m, tx, rx, rho, j - 1) * SentAs(tx, m + 1, rx, j))
      BY <2>1, <3>2, <3>3, <3>4, TotalFromRow
    <3>6. m + 1 = i
      BY <2>1 DEF m
    <3> QED BY <3>5, <3>6 DEF d, s, m, ValueIf
  <2>3. /\ j < i + hi => rows[i - 1][j] = Q(i - 1, j)
        /\ j > 0 => rows[i - 1][j - 1] = Q(i - 1, j - 1)
    BY <1>1, <2>1
  <2>4. rows[i][j] = ValueIf(j < i + hi, rows[i - 1][j] * Pval_d)
             + ValueIf(j > 0, rows[i - 1][j - 1] * SentAs(tx, i, rx, j))
             + ValueIf(i < n /\ j > 0, rows[i][j - 1] * Pval_i)
    BY DEF NextRow, CorridorRows
  <2>5. /\ ValueIf(j < i + hi, rows[i - 1][j] * Pval_d) = ValueIf(j < i + hi, Q(i - 1, j) * Pval_d)
        /\ ValueIf(j > 0, rows[i - 1][j - 1] * SentAs(tx, i, rx, j))
             = ValueIf(j > 0, Q(i - 1, j - 1) * SentAs(tx, i, rx, j))
    <3> HIDE DEF Q
    <3> QED BY <2>3 DEF ValueIf
  <2> HIDE DEF Q, T
  <2> QED BY <2>2, <2>4, <2>5
<1>2. 0 \in Is
  <2> DEFINE Js == {j \in Nat : j <= rho /\ j <= hi => rows[0][j] = Q(0, j)}
  <2>1. Q(0, 0) = 1 /\ \A j \in Nat : j > 0 => Q(0, j) = Q(0, j - 1) * Pval_i
    <3>1. T(0, 0) = 1 /\ \A j \in Nat : j > 0 => T(0, j) = 0
      <4>1. T(0, 0) = 1 /\ \A l : l # 0 => T(0, l) = 0
        BY TotalStarts
      <4>2. \A j \in Nat : j > 0 => j # 0
        OBVIOUS
      <4> HIDE DEF T
      <4> QED BY <4>1, <4>2
    <3>2. \A j \in Nat : j > 0 => Q(0, j - 1) * Pval_i \in Nat
      <4>0. \A j \in Nat : Q(0, j) \in Nat
        BY InRowCounts
      <4>1. \A j \in Nat : j > 0 => Q(0, j - 1) \in Nat
        <5>1. \A j \in Nat : j > 0 => j - 1 \in Nat
          OBVIOUS
        <5> HIDE DEF Q
        <5> QED BY <4>0, <5>1
      <4>2. \A a, b \in Nat : a * b \in Nat
        OBVIOUS
      <4> HIDE DEF Q
      <4> QED BY <4>1, <4>2, Weights
    <3> HIDE DEF Q, T
    <3> QED BY <1>0, <3>1, <3>2
  <2>2. 0 \in Js
    BY <2>1 DEF FirstRow, CorridorRows
  <2>3. ASSUME NEW j \in Nat, j \in Js PROVE j + 1 \in Js
    <3> SUFFICES ASSUME j + 1 <= rho, j + 1 <= hi PROVE rows[0][j + 1] = Q(0, j + 1)
      OBVIOUS
    <3>1. rows[0][j + 1] = rows[0][j] * Pval_i
      <4>1. j + 1 \in 0..rho /\ (j + 1) - 1 = j /\ j + 1 # 0
        OBVIOUS
      <4> QED BY <4>1 DEF FirstRow, CorridorRows
    <3>2. rows[0][j] = Q(0, j)
      BY <2>3
    <3>3. Q(0, j + 1) = Q(0, j) * Pval_i
      <4>1. j + 1 \in Nat /\ j + 1 > 0 /\ (j + 1) - 1 = j
        OBVIOUS
      <4> HIDE DEF Q
      <4> QED BY <2>1, <4>1
    <3> QED BY <3>1, <3>2, <3>3
  <2>4. \A j \in Nat : j \in Js
    <3> HIDE DEF Js
    <3> QED BY <2>2, <2>3, SetInduction
  <2>5. \A j \in 0..rho : j <= 0 + hi => rows[0][j] = Q(0, j)
    <3>1. \A j \in 0..rho : j \in Nat /\ (j <= 0 + hi => j <= rho /\ j <= hi)
      OBVIOUS
    <3> HIDE DEF Q
    <3> QED BY <2>4, <3>1
  <2> QED BY <2>5
<1>3. ASSUME NEW i \in Nat, i \in Is PROVE i + 1 \in Is
  <2> SUFFICES ASSUME i + 1 < n PROVE Right(i + 1)
    OBVIOUS
  <2> DEFINE Js == {j \in Nat : j <= rho /\ j <= (i + 1) + hi => rows[i + 1][j] = Q(i + 1, j)}
  <2>1. i + 1 \in 1..n /\ (i + 1) - 1 = i /\ Right((i + 1) - 1)
    BY <1>3
  <2>2. \A j \in 0..rho : j <= (i + 1) + hi => j \in InColumns(i + 1, rho, lo, hi)
    BY DEF InColumns
  <2>3. \A j \in 0..rho : j <= (i + 1) + hi =>
          rows[i + 1][j] = T(i + 1, j) + ValueIf(j > 0, rows[i + 1][j - 1] * Pval_i)
    <3> HIDE DEF T, Right
    <3>1. \A j \in InColumns(i + 1, rho, lo, hi) :
             rows[i + 1][j] = T(i + 1, j) + ValueIf(i + 1 < n /\ j > 0, rows[i + 1][j - 1] * Pval_i)
      BY <1>1, <2>1
    <3> QED BY <2>2, <3>1 DEF ValueIf
  <2>4. /\ Q(i + 1, 0) = T(i + 1, 0) /\ T(i + 1, 0) \in Nat
        /\ \A j \in Nat : j > 0 => Q(i + 1, j) = T(i + 1, j) + Q(i + 1, j - 1) * Pval_i
    <3>1. i + 1 \in Nat
      OBVIOUS
    <3> HIDE DEF Q, T
    <3> QED BY <1>0, <3>1
  <2>5. 0 \in Js
    <3>1. 0 \in 0..rho /\ 0 <= (i + 1) + hi
      OBVIOUS
    <3>2. rows[i + 1][0] = T(i + 1, 0) + 0
      BY <2>3, <3>1 DEF ValueIf
    <3>3. rows[i + 1][0] = Q(i + 1, 0)
      <4> HIDE DEF Q, T
      <4> QED BY <2>4, <3>2
    <3> QED BY <3>3
  <2>6. ASSUME NEW j \in Nat, j \in Js PROVE j + 1 \in Js
    <3> SUFFICES ASSUME j + 1 <= rho, j + 1 <= (i + 1) + hi
                 PROVE  rows[i + 1][j + 1] = Q(i + 1, j + 1)
      OBVIOUS
    <3>1. j + 1 \in 0..rho /\ j + 1 > 0 /\ (j + 1) - 1 = j /\ j <= rho /\ j <= (i + 1) + hi
          /\ j + 1 \in Nat
      OBVIOUS
    <3>2. rows[i + 1][j + 1] = T(i + 1, j + 1) + rows[i + 1][j] * Pval_i
      <4> HIDE DEF T
      <4> QED BY <2>3, <3>1 DEF ValueIf
    <3>3. rows[i + 1][j] = Q(i + 1, j)
      BY <2>6, <3>1
    <3>4. Q(i + 1, j + 1) = T(i + 1, j + 1) + Q(i + 1, j) * Pval_i
      <4> HIDE DEF Q, T
      <4> QED BY <2>4, <3>1
    <3> HIDE DEF Q, T
    <3> QED BY <3>2, <3>3, <3>4
  <2>7. \A j \in Nat : j \in Js
    <3> HIDE DEF Js
    <3> QED BY <2>5, <2>6, SetInduction
  <2>8. ASSUME NEW j \in 0..rho, j <= (i + 1) + hi PROVE rows[i + 1][j] = Q(i + 1, j)
    <3>1. j \in Nat /\ j <= rho
      OBVIOUS
    <3> HIDE DEF Q
    <3> QED BY <2>7, <2>8, <3>1
  <2> QED BY <2>8
<1>4. \A i \in Nat : i \in Is
  <2> HIDE DEF Is
  <2> QED BY <1>2, <1>3, SetInduction
<1> QED
  <2>1. n \in 1..n /\ n - 1 \in Nat /\ n - 1 < n
    OBVIOUS
  <2>2. Right(n - 1)
    <3> HIDE DEF Right
    <3> QED BY <1>4, <2>1
  <2>3. ASSUME NEW j \in InColumns(n, rho, lo, hi) PROVE rows[n][j] = T(n, j)
    <3>1. rows[n][j] = T(n, j) + ValueIf(n < n /\ j > 0, rows[n][j - 1] * Pval_i)
      <4> HIDE DEF Right, T
      <4> QED BY <1>1, <2>1, <2>2
    <3>2. T(n, j) \in Nat
      <4> HIDE DEF T
      <4> QED BY <1>0
    <3> HIDE DEF T
    <3> QED BY <3>1, <3>2 DEF ValueIf
  <2> QED BY <2>3

(* The sum that a likelihood is defined by.                                *)
SumOfWeights(E, tx, rx) == MapThenSumSet(LAMBDA e : WeightOf(e, tx, rx), E)

(* The sum over a set of events, as a sum of a function.                   *)
LEMMA WeightsSum ==
  ASSUME NEW n \in Nat, NEW tx, Len(tx) = n, NEW rho \in Nat, NEW rx,
         NEW E \in SUBSET Events(n, rho)
  PROVE  SumOfWeights(E, tx, rx) = Sum(WeightsOf(n, rho, tx, rx), E)
<1> DEFINE f == WeightsOf(n, rho, tx, rx)
           Def(it) == [s \in SUBSET E |->
                         IF s = {} THEN 0
                         ELSE WeightOf(CHOOSE x \in s : TRUE, tx, rx)
                                + it[s \ {CHOOSE x \in s : TRUE}]]
           iter == CHOOSE it : it = Def(it)
<1>1. SumOfWeights(E, tx, rx) = iter[E]
  BY DEF SumOfWeights, MapThenSumSet, MapThenFoldSet
<1>2. ASSUME NEW s \in SUBSET E, s # {}
      PROVE  /\ AnyOf(s) = (CHOOSE x \in s : TRUE)
             /\ WeightOf(AnyOf(s), tx, rx) = f[AnyOf(s)]
  <2>1. AnyOf(s) \in s
    BY <1>2 DEF AnyOf
  <2>2. AnyOf(s) \in Events(n, rho)
    BY <2>1
  <2>3. WeightOf(AnyOf(s), tx, rx) = Weight(AnyOf(s), n, tx, rx)
    BY <2>2, WeightIsOf
  <2> QED BY <2>2, <2>3 DEF WeightsOf, AnyOf
<1>3. Numbers(f, E)
  BY PathsCount
<1> HIDE DEF f
<1>4. \A it : it = Def(it) <=> SumRule(f, E, it)
  <2> SUFFICES ASSUME NEW it PROVE it = Def(it) <=> SumRule(f, E, it)
    OBVIOUS
  <2> DEFINE x(s) == CHOOSE y \in s : TRUE
  <2>1. \A s \in SUBSET E :
          (IF s = {} THEN 0 ELSE WeightOf(x(s), tx, rx) + it[s \ {x(s)}])
            = (IF s = {} THEN 0 ELSE f[AnyOf(s)] + it[s \ {AnyOf(s)}])
    <3> SUFFICES ASSUME NEW s \in SUBSET E, s # {}
                 PROVE  WeightOf(x(s), tx, rx) + it[s \ {x(s)}]
                          = f[AnyOf(s)] + it[s \ {AnyOf(s)}]
      OBVIOUS
    <3>1. AnyOf(s) = x(s) /\ WeightOf(AnyOf(s), tx, rx) = f[AnyOf(s)]
      BY <1>2
    <3> HIDE DEF x
    <3> QED BY <3>1
  <2>2. Def(it) = [s \in SUBSET E |->
                     IF s = {} THEN 0 ELSE f[AnyOf(s)] + it[s \ {AnyOf(s)}]]
    BY <2>1
  <2> QED BY <2>2 DEF SumRule
<1>5. iter = Def(iter)
  <2>1. \E it : SumRule(f, E, it)
    BY <1>3, SumMadeByRule
  <2> HIDE DEF Def
  <2> QED BY <1>4, <2>1
<1>6. SumRule(f, E, iter)
  <2> HIDE DEF Def, iter
  <2> QED BY <1>4, <1>5
<1>7. iter[E] = Sum(f, E)
  <2> HIDE DEF iter
  <2> QED BY <1>3, <1>6, SumMadeByRule
<1> QED BY <1>1, <1>7 DEF f

(* What a receiver is asked for is a total.                                *)
TrellisLikelihood(tx, rx, x, lim) == Likelihood(tx, rx, x, LAMBDA e : InTrellis(e, lim))
CorridorLikelihood(tx, rx, x, lim) == Likelihood(tx, rx, x, LAMBDA e : InCorridor(e, lim))

LEMMA LatticeLikelihoodIsTotal ==
  ASSUME NEW n \in Nat, NEW tx, Len(tx) = n, NEW rho \in Nat, NEW rx, Len(rx) = rho,
         NEW x \in Int, NEW ok,
         \A e \in Events(n, rho), t \in 1..n : <<t, Length(e, t), e[t]>> \in ok
  PROVE  Likelihood(tx, rx, x, LAMBDA e : TRUE) = Total(ok, n, tx, rx, rho, n + x)
<1> DEFINE E == {e \in Events(n, rho) : LengthAfter(e, n) = n + x /\ TRUE}
<1>1. Likelihood(tx, rx, x, LAMBDA e : TRUE) = SumOfWeights(E, tx, rx)
  BY DEF Likelihood, SumOfWeights
<1>2. E \in SUBSET Events(n, rho)
  OBVIOUS
<1>3. E = Paths(ok, n, rho, n + x)
  <2>1. n \in 0..n
    OBVIOUS
  <2>2. \A e \in Events(n, rho) : LengthAfter(e, n) = Length(e, n)
    BY <2>1, LengthIsAfter
  <2> QED BY <2>2 DEF Paths
<1> HIDE DEF E
<1>4. SumOfWeights(E, tx, rx) = Sum(WeightsOf(n, rho, tx, rx), E)
  BY <1>2, WeightsSum
<1> QED BY <1>1, <1>3, <1>4 DEF Total

LEMMA TrellisLikelihoodIsTotal ==
  ASSUME NEW n \in Nat, NEW tx, Len(tx) = n, NEW rho \in Nat, NEW rx, Len(rx) = rho,
         NEW x \in Int, NEW lim, NEW ok,
         \A e \in Events(n, rho) :
           InTrellis(e, lim) <=> \A t \in 1..n : <<t, Length(e, t), e[t]>> \in ok
  PROVE  TrellisLikelihood(tx, rx, x, lim) = Total(ok, n, tx, rx, rho, n + x)
<1> DEFINE E == {e \in Events(n, rho) : LengthAfter(e, n) = n + x /\ InTrellis(e, lim)}
<1>1. TrellisLikelihood(tx, rx, x, lim) = SumOfWeights(E, tx, rx)
  BY DEF TrellisLikelihood, Likelihood, SumOfWeights
<1>2. E \in SUBSET Events(n, rho)
  OBVIOUS
<1>3. E = Paths(ok, n, rho, n + x)
  <2>1. n \in 0..n
    OBVIOUS
  <2>2. \A e \in Events(n, rho) : LengthAfter(e, n) = Length(e, n)
    BY <2>1, LengthIsAfter
  <2> QED BY <2>2 DEF Paths
<1> HIDE DEF E
<1>4. SumOfWeights(E, tx, rx) = Sum(WeightsOf(n, rho, tx, rx), E)
  BY <1>2, WeightsSum
<1> QED BY <1>1, <1>3, <1>4 DEF Total

LEMMA CorridorLikelihoodIsTotal ==
  ASSUME NEW n \in Nat, NEW tx, Len(tx) = n, NEW rho \in Nat, NEW rx, Len(rx) = rho,
         NEW x \in Int, NEW lim, NEW ok,
         \A e \in Events(n, rho) :
           InCorridor(e, lim) <=> \A t \in 1..n : <<t, Length(e, t), e[t]>> \in ok
  PROVE  CorridorLikelihood(tx, rx, x, lim) = Total(ok, n, tx, rx, rho, n + x)
<1> DEFINE E == {e \in Events(n, rho) : LengthAfter(e, n) = n + x /\ InCorridor(e, lim)}
<1>1. CorridorLikelihood(tx, rx, x, lim) = SumOfWeights(E, tx, rx)
  BY DEF CorridorLikelihood, Likelihood, SumOfWeights
<1>2. E \in SUBSET Events(n, rho)
  OBVIOUS
<1>3. E = Paths(ok, n, rho, n + x)
  <2>1. n \in 0..n
    OBVIOUS
  <2>2. \A e \in Events(n, rho) : LengthAfter(e, n) = Length(e, n)
    BY <2>1, LengthIsAfter
  <2> QED BY <2>2 DEF Paths
<1> HIDE DEF E
<1>4. SumOfWeights(E, tx, rx) = Sum(WeightsOf(n, rho, tx, rx), E)
  BY <1>2, WeightsSum
<1> QED BY <1>1, <1>3, <1>4 DEF Total

(* A row whose columns are computed one after the other: b, and for the    *)
(* columns in P what an insertion brings from the column before.           *)
RowRule(rho, a, b, P, F) ==
  /\ F = [j \in 0..rho |-> F[j]]
  /\ F[0] = a
  /\ \A j \in 1..rho : F[j] = b[j] + ValueIf(j \in P, F[j - 1] * Pval_i)

(* Such a row exists, and it is the function that its definition chooses.  *)
LEMMA RowMade ==
  ASSUME NEW rho \in Nat, NEW a \in Nat, NEW b, \A j \in 1..rho : b[j] \in Nat, NEW P
  PROVE  /\ \E F : RowRule(rho, a, b, P, F)
         /\ \A F : RowRule(rho, a, b, P, F) => F \in [0..rho -> Nat]
<1> DEFINE h == [x \in Nat \X Nat |->
                  IF x[1] \in 1..rho THEN b[x[1]] + ValueIf(x[1] \in P, x[2] * Pval_i) ELSE 0]
<1>0. \A u \in Nat : u * Pval_i \in Nat
  BY Weights
<1>1. h \in [Nat \X Nat -> Nat]
  <2>1. ASSUME NEW x \in Nat \X Nat, x[1] \in 1..rho
        PROVE  b[x[1]] + ValueIf(x[1] \in P, x[2] * Pval_i) \in Nat
    <3>1. x[2] * Pval_i \in Nat
      BY <1>0
    <3>2. b[x[1]] \in Nat
      BY <2>1
    <3> QED BY <3>1, <3>2 DEF ValueIf
  <2> QED BY <2>1
<1>2. Recursion(Nat, a, h, rho) # {}
  <2> HIDE DEF h
  <2> QED BY <1>1, RecursionExists
<1>3. PICK F \in [0..rho -> Nat] : F[0] = a /\ \A j \in 1..rho : F[j] = h[<<j, F[j - 1]>>]
  <2> HIDE DEF h
  <2> QED BY <1>2 DEF Recursion
<1>4. ASSUME NEW j \in 1..rho
      PROVE  F[j] = b[j] + ValueIf(j \in P, F[j - 1] * Pval_i)
  <2>1. j \in Nat /\ F[j - 1] \in Nat
    OBVIOUS
  <2>2. h[<<j, F[j - 1]>>] = b[j] + ValueIf(j \in P, F[j - 1] * Pval_i)
    <3>1. <<j, F[j - 1]>> \in Nat \X Nat
      BY <2>1
    <3> QED BY <3>1
  <2> QED BY <1>3, <2>2
<1>5. RowRule(rho, a, b, P, F)
  <2> HIDE DEF h
  <2>1. F = [j \in 0..rho |-> F[j]]
    OBVIOUS
  <2> QED BY <1>3, <1>4, <2>1 DEF RowRule
<1>6. ASSUME NEW G, RowRule(rho, a, b, P, G) PROVE G \in [0..rho -> Nat]
  <2> DEFINE Js == {j \in Nat : j <= rho => G[j] \in Nat}
  <2>1. 0 \in Js
    BY <1>6 DEF RowRule
  <2>2. ASSUME NEW j \in Nat, j \in Js PROVE j + 1 \in Js
    <3> SUFFICES ASSUME j + 1 <= rho PROVE G[j + 1] \in Nat
      OBVIOUS
    <3>1. j + 1 \in 1..rho /\ (j + 1) - 1 = j /\ j <= rho
      OBVIOUS
    <3>2. G[j + 1] = b[j + 1] + ValueIf(j + 1 \in P, G[j] * Pval_i)
      BY <1>6, <3>1 DEF RowRule
    <3>3. G[j] * Pval_i \in Nat /\ b[j + 1] \in Nat
      BY <1>0, <2>2, <3>1
    <3> QED BY <3>2, <3>3 DEF ValueIf
  <2>3. \A j \in Nat : j \in Js
    <3> HIDE DEF Js
    <3> QED BY <2>1, <2>2, SetInduction
  <2>4. \A j \in 0..rho : G[j] \in Nat
    <3>1. \A j \in 0..rho : j \in Nat /\ j <= rho
      OBVIOUS
    <3> QED BY <2>3, <3>1
  <2>5. G = [j \in 0..rho |-> G[j]]
    BY <1>6 DEF RowRule
  <2> QED BY <2>4, <2>5
<1> QED BY <1>5, <1>6

LEMMA NumberSums == \A a, b, c \in Nat : a * b \in Nat /\ a * b + c \in Nat /\ a + b \in Nat
OBVIOUS

(***************************************************************************)
(* receive_lattice                                                         *)
(***************************************************************************)
LatticeRow(tx, rx, n, rho, i, above) ==
  LET F[j \in 0..rho] ==
        above[j] * Pval_d
          + ValueIf(j > 0, above[j - 1] * SentAs(tx, i, rx, j))
          + ValueIf(i < n /\ j > 0, F[j - 1] * Pval_i)
  IN  F

LatticeFirst(rho) ==
  LET first[j \in 0..rho] == IF j = 0 THEN 1 ELSE first[j - 1] * Pval_i
  IN  first

LatticeRows(tx, rx, n, rho) ==
  LET rows[i \in 0..n] ==
        IF i = 0 THEN LatticeFirst(rho) ELSE LatticeRow(tx, rx, n, rho, i, rows[i - 1])
  IN  rows

(* receive_lattice reads its last row.                                     *)
LEMMA LatticeIsRows ==
  ASSUME NEW tx, NEW rx, NEW lim
  PROVE  ReceiveLattice(tx, rx, lim) =
           DriftTable(LatticeRows(tx, rx, Len(tx), Len(rx))[Len(tx)], Len(tx), Len(rx), lim)
BY DEF ReceiveLattice, LatticeRows, LatticeRow, LatticeFirst

LEMMA LatticeFirstMade ==
  ASSUME NEW rho \in Nat
  PROVE  /\ LatticeFirst(rho) \in [0..rho -> Nat]
         /\ \A hi : FirstRow(LatticeFirst(rho), rho, hi)
<1> DEFINE Def(F) == [j \in 0..rho |-> IF j = 0 THEN 1 ELSE F[j - 1] * Pval_i]
           first == CHOOSE F : F = Def(F)
           b == [j \in 1..rho |-> 0]
<1>1. LatticeFirst(rho) = first
  BY DEF LatticeFirst
<1>2. 1 \in Nat /\ \A j \in 1..rho : b[j] \in Nat
  OBVIOUS
<1>3. PICK G : RowRule(rho, 1, b, 1..rho, G)
  <2> HIDE DEF b
  <2> QED BY <1>2, RowMade
<1>4. G \in [0..rho -> Nat]
  <2> HIDE DEF b
  <2> QED BY <1>2, <1>3, RowMade
<1>5. G = Def(G)
  <2>1. ASSUME NEW j \in 1..rho PROVE G[j] = G[j - 1] * Pval_i
    <3>1. G[j] = 0 + G[j - 1] * Pval_i
      BY <1>3 DEF RowRule, ValueIf
    <3>2. G[j - 1] \in Nat
      BY <1>4
    <3> QED BY <3>1, <3>2, NumberSums, Weights
  <2>2. \A j \in 0..rho : j = 0 \/ j \in 1..rho
    OBVIOUS
  <2>3. \A j \in 0..rho : G[j] = IF j = 0 THEN 1 ELSE G[j - 1] * Pval_i
    BY <1>3, <2>1, <2>2 DEF RowRule
  <2> QED BY <1>4, <2>3
<1>6. first = Def(first)
  <2> HIDE DEF Def
  <2> QED BY <1>5
<1>7. /\ first = [j \in 0..rho |-> first[j]]
      /\ \A j \in 0..rho : first[j] = IF j = 0 THEN 1 ELSE first[j - 1] * Pval_i
  <2> HIDE DEF first
  <2> QED BY <1>6
<1> HIDE DEF first
<1>8. \A j \in 0..rho : first[j] = G[j]
  <2> DEFINE Js == {j \in Nat : j <= rho => first[j] = G[j]}
  <2>1. 0 \in Js
    <3>1. 0 \in 0..rho
      OBVIOUS
    <3>2. first[0] = 1 /\ G[0] = 1
      BY <1>3, <1>7, <3>1 DEF RowRule
    <3> QED BY <3>2
  <2>2. ASSUME NEW j \in Nat, j \in Js PROVE j + 1 \in Js
    <3> SUFFICES ASSUME j + 1 <= rho PROVE first[j + 1] = G[j + 1]
      OBVIOUS
    <3>1. j + 1 \in 0..rho /\ (j + 1) - 1 = j /\ j <= rho /\ j + 1 # 0
      OBVIOUS
    <3>2. first[j] = G[j]
      BY <2>2, <3>1
    <3>3. first[j + 1] = first[j] * Pval_i
      BY <1>7, <3>1
    <3>4. G[j + 1] = G[j] * Pval_i
      BY <1>5, <3>1
    <3> QED BY <3>2, <3>3, <3>4
  <2>3. \A j \in Nat : j \in Js
    <3> HIDE DEF Js
    <3> QED BY <2>1, <2>2, SetInduction
  <2>4. \A j \in 0..rho : j \in Nat /\ j <= rho
    OBVIOUS
  <2> QED BY <2>3, <2>4
<1>9. first \in [0..rho -> Nat]
  BY <1>4, <1>7, <1>8
<1>10. \A hi : FirstRow(first, rho, hi)
  BY <1>7 DEF FirstRow
<1> QED BY <1>1, <1>9, <1>10

RowValues(rho) == [0..rho -> Nat]

LatticeRule(row, tx, rx, n, rho, i, above) ==
  \A j \in 0..rho :
    row[j] = above[j] * Pval_d
               + ValueIf(j > 0, above[j - 1] * SentAs(tx, i, rx, j))
               + ValueIf(i < n /\ j > 0, row[j - 1] * Pval_i)

LEMMA LatticeRowMade ==
  ASSUME NEW rho \in Nat, NEW n \in Nat, NEW tx, NEW rx, NEW i,
         NEW above \in RowValues(rho)
  PROVE  /\ LatticeRow(tx, rx, n, rho, i, above) \in RowValues(rho)
         /\ LatticeRule(LatticeRow(tx, rx, n, rho, i, above), tx, rx, n, rho, i, above)
<1> USE DEF RowValues
<1> DEFINE Def(F) == [j \in 0..rho |->
                       above[j] * Pval_d
                         + ValueIf(j > 0, above[j - 1] * SentAs(tx, i, rx, j))
                         + ValueIf(i < n /\ j > 0, F[j - 1] * Pval_i)]
           row == CHOOSE F : F = Def(F)
           b == [j \in 0..rho |->
                  above[j] * Pval_d + ValueIf(j > 0, above[j - 1] * SentAs(tx, i, rx, j))]
           P == {j \in 1..rho : i < n}
<1>1. LatticeRow(tx, rx, n, rho, i, above) = row
  BY DEF LatticeRow
<1>2. \A j \in 0..rho : b[j] \in Nat
  <2>1. ASSUME NEW j \in 0..rho PROVE b[j] \in Nat
    <3>1. above[j] * Pval_d \in Nat
      BY NumberSums, Weights
    <3>2. j > 0 => above[j - 1] \in Nat
      OBVIOUS
    <3>3. SentAs(tx, i, rx, j) \in Nat
      BY Weights DEF SentAs
    <3>4. ValueIf(j > 0, above[j - 1] * SentAs(tx, i, rx, j)) \in Nat
      BY <3>2, <3>3, NumberSums DEF ValueIf
    <3> QED BY <3>1, <3>4, NumberSums
  <2> QED BY <2>1
<1>3. \A F : F = Def(F) <=> RowRule(rho, b[0], b, P, F)
  <2> SUFFICES ASSUME NEW F
               PROVE  F = Def(F) <=> RowRule(rho, b[0], b, P, F)
    OBVIOUS
  <2>1. \A j \in 0..rho : Def(F)[j] = b[j] + ValueIf(j \in P, F[j - 1] * Pval_i)
    <3>1. ASSUME NEW j \in 0..rho
          PROVE  ValueIf(i < n /\ j > 0, F[j - 1] * Pval_i) = ValueIf(j \in P, F[j - 1] * Pval_i)
      BY DEF ValueIf
    <3> QED BY <3>1
  <2>2. Def(F) = [j \in 0..rho |-> Def(F)[j]]
    OBVIOUS
  <2>3. b[0] \in Nat /\ 0 \notin P
    <3>1. 0 \in 0..rho
      OBVIOUS
    <3> QED BY <1>2, <3>1
  <2>4. \A j \in 0..rho : j = 0 \/ j \in 1..rho
    OBVIOUS
  <2>5. \A j \in 1..rho : j \in 0..rho
    OBVIOUS
  <2>6. b[0] + ValueIf(0 \in P, F[0 - 1] * Pval_i) = b[0]
    BY <2>3 DEF ValueIf
  <2> HIDE DEF Def, b, P
  <2>7. ASSUME F = Def(F) PROVE RowRule(rho, b[0], b, P, F)
    <3>1. F = [j \in 0..rho |-> F[j]]
      BY <2>2, <2>7
    <3>2. 0 \in 0..rho
      OBVIOUS
    <3>3. F[0] = b[0]
      BY <2>1, <2>6, <2>7, <3>2
    <3>4. \A j \in 1..rho : F[j] = b[j] + ValueIf(j \in P, F[j - 1] * Pval_i)
      BY <2>1, <2>5, <2>7
    <3> QED BY <3>1, <3>3, <3>4 DEF RowRule
  <2>8. ASSUME RowRule(rho, b[0], b, P, F) PROVE F = Def(F)
    <3>1. F = [j \in 0..rho |-> F[j]] /\ F[0] = b[0]
          /\ \A j \in 1..rho : F[j] = b[j] + ValueIf(j \in P, F[j - 1] * Pval_i)
      BY <2>8 DEF RowRule
    <3>2. \A j \in 0..rho : F[j] = Def(F)[j]
      BY <2>1, <2>4, <2>6, <3>1
    <3>3. F = [j \in 0..rho |-> Def(F)[j]]
      BY <3>1, <3>2
    <3> QED BY <2>2, <3>3
  <2> QED BY <2>7, <2>8
<1>4. b[0] \in Nat /\ \A j \in 1..rho : b[j] \in Nat
  <2>1. 0 \in 0..rho /\ \A j \in 1..rho : j \in 0..rho
    OBVIOUS
  <2> QED BY <1>2, <2>1
<1>5. row = Def(row)
  <2> HIDE DEF Def, b, P
  <2>1. \E F : RowRule(rho, b[0], b, P, F)
    BY <1>4, RowMade
  <2> QED BY <1>3, <2>1
<1>6. row \in [0..rho -> Nat]
  <2> HIDE DEF Def, b, P, row
  <2> QED BY <1>3, <1>4, <1>5, RowMade
<1>7. \A j \in 0..rho : row[j] = above[j] * Pval_d
                         + ValueIf(j > 0, above[j - 1] * SentAs(tx, i, rx, j))
                         + ValueIf(i < n /\ j > 0, row[j - 1] * Pval_i)
  <2> HIDE DEF row
  <2> QED BY <1>5
<1> HIDE DEF row
<1> QED BY <1>1, <1>6, <1>7 DEF LatticeRule

(* Its rows are functions that follow the rule.                            *)
LEMMA LatticeRowsMade ==
  ASSUME NEW rho \in Nat, NEW n \in Nat, NEW tx, NEW rx
  PROVE  /\ LatticeRows(tx, rx, n, rho)[0] = LatticeFirst(rho)
         /\ \A i \in 0..n : LatticeRows(tx, rx, n, rho)[i] \in RowValues(rho)
         /\ \A i \in 1..n : LatticeRows(tx, rx, n, rho)[i]
                              = LatticeRow(tx, rx, n, rho, i, LatticeRows(tx, rx, n, rho)[i - 1])
<1> DEFINE A == RowValues(rho)
           Def(r) == [i \in 0..n |->
                        IF i = 0 THEN LatticeFirst(rho)
                        ELSE LatticeRow(tx, rx, n, rho, i, r[i - 1])]
           rows == CHOOSE r : r = Def(r)
           h == [x \in Nat \X A |-> LatticeRow(tx, rx, n, rho, x[1], x[2])]
<1>1. LatticeRows(tx, rx, n, rho) = rows
  BY DEF LatticeRows
<1>2. LatticeFirst(rho) \in A
  BY LatticeFirstMade DEF RowValues
<1>3. \A i, F : F \in A => LatticeRow(tx, rx, n, rho, i, F) \in A
  BY LatticeRowMade
<1> HIDE DEF A
<1>4. h \in [Nat \X A -> A]
  BY <1>3
<1>5. PICK g \in [0..n -> A] : g[0] = LatticeFirst(rho) /\ \A i \in 1..n : g[i] = h[<<i, g[i - 1]>>]
  <2> HIDE DEF h
  <2>1. Recursion(A, LatticeFirst(rho), h, n) # {}
    BY <1>2, <1>4, RecursionExists
  <2> QED BY <2>1 DEF Recursion
<1>6. g = Def(g)
  <2>1. ASSUME NEW i \in 1..n PROVE g[i] = LatticeRow(tx, rx, n, rho, i, g[i - 1])
    <3>1. i \in Nat /\ i - 1 \in 0..n
      OBVIOUS
    <3>2. <<i, g[i - 1]>> \in Nat \X A
      BY <3>1
    <3> QED BY <1>5, <3>2
  <2>2. \A i \in 0..n : i # 0 => i \in 1..n
    OBVIOUS
  <2>3. \A i \in 0..n : g[i] = IF i = 0 THEN LatticeFirst(rho)
                               ELSE LatticeRow(tx, rx, n, rho, i, g[i - 1])
    <3> HIDE DEF h
    <3> QED BY <1>5, <2>1, <2>2
  <2> QED BY <2>3
<1>7. rows = Def(rows)
  <2> HIDE DEF Def
  <2> QED BY <1>6
<1>8. \A i \in 0..n : rows[i] = IF i = 0 THEN LatticeFirst(rho)
                                ELSE LatticeRow(tx, rx, n, rho, i, rows[i - 1])
  <2> HIDE DEF rows
  <2> QED BY <1>7
<1> HIDE DEF rows
<1>9. /\ rows[0] = LatticeFirst(rho)
      /\ \A i \in 1..n : rows[i] = LatticeRow(tx, rx, n, rho, i, rows[i - 1])
  <2>1. 0 \in 0..n /\ \A i \in 1..n : i \in 0..n /\ i # 0
    OBVIOUS
  <2> QED BY <1>8, <2>1
<1>10. \A i \in 0..n : rows[i] \in A
  <2> DEFINE S == {i \in 0..n : rows[i] \in A}
  <2>1. 0 \in S
    BY <1>2, <1>9
  <2>2. ASSUME NEW i \in 1..n, i - 1 \in S PROVE i \in S
    <3>1. i \in Nat /\ i \in 0..n
      OBVIOUS
    <3> QED BY <1>3, <1>9, <2>2, <3>1
  <2> HIDE DEF S
  <2>3. \A i \in 0..n : i \in S
    BY <2>1, <2>2, IntervalInduction
  <2> QED BY <2>3 DEF S
<1> QED BY <1>1, <1>9, <1>10 DEF A

(* Every way leaves the limits that the lattice has: none.                 *)
LEMMA LatticeIsExact ==
  ASSUME NEW n \in Nat \ {0}, NEW tx, Len(tx) = n, NEW rho \in Nat, NEW rx, Len(rx) = rho,
         NEW lim, lim.min \in Int, lim.max \in Int
  PROVE  LatticeExact(tx, rx, lim)
<1> SUFFICES ASSUME NEW x \in lim.min..lim.max, x + n \in 0..rho
             PROVE  ReceiveLattice(tx, rx, lim)[x] = Likelihood(tx, rx, x, LAMBDA e : TRUE)
  BY DEF LatticeExact, DriftsAsked
<1> DEFINE rows == LatticeRows(tx, rx, n, rho)
           ok == (1..n) \X Nat \X [ins : Nat, kept : BOOLEAN]
           lo == - n
<1>0. n \in Nat /\ lo \in Int /\ lo <= 1 - n
  OBVIOUS
<1>1. ReceiveLattice(tx, rx, lim)[x] = rows[n][x + n]
  <2>1. ReceiveLattice(tx, rx, lim) = DriftTable(rows[n], n, rho, lim)
    BY LatticeIsRows
  <2> HIDE DEF rows
  <2>2. DriftTable(rows[n], n, rho, lim)[x] = ValueIf(x + n \in 0..rho, rows[n][x + n])
    BY DEF DriftTable
  <2> QED BY <2>1, <2>2 DEF ValueIf
<1>2. Likelihood(tx, rx, x, LAMBDA e : TRUE) = Total(ok, n, tx, rx, rho, n + x)
  <2>1. ASSUME NEW e \in Events(n, rho), NEW t \in 1..n
        PROVE  <<t, Length(e, t), e[t]>> \in ok
    <3>1. t \in 0..n
      OBVIOUS
    <3>2. Length(e, t) \in Nat
      BY <1>0, <3>1, LengthsGrow
    <3>3. e[t] \in [ins : Nat, kept : BOOLEAN]
      BY DEF Events
    <3> QED BY <3>2, <3>3
  <2>2. x \in Int
    OBVIOUS
  <2> HIDE DEF ok
  <2> QED BY <1>0, <2>1, <2>2, LatticeLikelihoodIsTotal
<1>3. CorridorSteps(ok, n, rho, lo, rho)
  <2>1. ASSUME NEW i \in 1..n, NEW j \in InColumns(i, rho, lo, rho), NEW k \in Nat
        PROVE  /\ <<i, j, Deleted(k)>> \in ok
               /\ <<i, j, Passed(k)>> \in ok
               /\ j < i + rho
    <3>1. j \in Nat /\ j < i + rho
      BY DEF InColumns
    <3>2. Deleted(k) \in [ins : Nat, kept : BOOLEAN] /\ Passed(k) \in [ins : Nat, kept : BOOLEAN]
      BY DEF Deleted, Passed
    <3> QED BY <3>1, <3>2
  <2> HIDE DEF ok
  <2> QED BY <2>1 DEF CorridorSteps
<1>4. FirstRow(rows[0], rho, rho)
  <2>1. rows[0] = LatticeFirst(rho)
    BY <1>0, LatticeRowsMade
  <2>2. FirstRow(LatticeFirst(rho), rho, rho)
    BY LatticeFirstMade
  <2> HIDE DEF rows
  <2> QED BY <2>1, <2>2
<1>5. ASSUME NEW i \in 1..n PROVE NextRow(rows[i - 1], rows[i], i, n, tx, rx, rho, lo, rho)
  <2>1. i - 1 \in 0..n
    OBVIOUS
  <2>2. rows[i - 1] \in RowValues(rho) /\ rows[i] = LatticeRow(tx, rx, n, rho, i, rows[i - 1])
    BY <1>0, <2>1, LatticeRowsMade
  <2> HIDE DEF rows
  <2>3. LatticeRule(rows[i], tx, rx, n, rho, i, rows[i - 1])
    BY <1>0, <2>2, LatticeRowMade
  <2>4. \A j \in InColumns(i, rho, lo, rho) : j \in 0..rho /\ j < i + rho
    BY DEF InColumns
  <2> QED BY <2>3, <2>4 DEF NextRow, ValueIf, LatticeRule
<1>6. x + n \in InColumns(n, rho, lo, rho)
  BY DEF InColumns
<1>7. rows[n][x + n] = Total(ok, n, tx, rx, rho, x + n)
  <2> HIDE DEF rows, ok, lo
  <2>1. CorridorRows(rows, n, tx, rx, rho, lo, rho)
    BY <1>4, <1>5 DEF CorridorRows
  <2>2. \A j \in InColumns(n, rho, lo, rho) : rows[n][j] = Total(ok, n, tx, rx, rho, j)
    BY <1>0, <1>3, <2>1, RowsGiveTotals
  <2> QED BY <1>6, <2>2
<1>8. n + x = x + n
  OBVIOUS
<1> QED BY <1>1, <1>2, <1>7, <1>8

(***************************************************************************)
(* receive_lattice_corridor                                                *)
(***************************************************************************)
CorridorFirst(rho, lim) ==
  LET first[j \in 0..rho] ==
        IF j = 0 THEN 1 ELSE ValueIf(j <= lim.max, first[j - 1] * Pval_i)
  IN  first

CorridorMade(tx, rx, lim, n, rho) ==
  LET rows[i \in 0..n] ==
        IF i = 0 THEN CorridorFirst(rho, lim) ELSE CorridorRow(tx, rx, lim, i, rows[i - 1])
  IN  rows

(* receive_lattice_corridor reads its last row.                            *)
LEMMA CorridorIsRows ==
  ASSUME NEW tx, NEW rx, NEW lim
  PROVE  ReceiveCorridor(tx, rx, lim) =
           DriftTable(CorridorMade(tx, rx, lim, Len(tx), Len(rx))[Len(tx)],
                      Len(tx), Len(rx), lim)
BY DEF ReceiveCorridor, CorridorMade, CorridorFirst

LEMMA CorridorFirstMade ==
  ASSUME NEW rho \in Nat, NEW lim
  PROVE  /\ CorridorFirst(rho, lim) \in RowValues(rho)
         /\ FirstRow(CorridorFirst(rho, lim), rho, lim.max)
<1> DEFINE Def(F) == [j \in 0..rho |->
                       IF j = 0 THEN 1 ELSE ValueIf(j <= lim.max, F[j - 1] * Pval_i)]
           first == CHOOSE F : F = Def(F)
           b == [j \in 1..rho |-> 0]
           P == {j \in 1..rho : j <= lim.max}
<1>1. CorridorFirst(rho, lim) = first
  BY DEF CorridorFirst
<1>2. 1 \in Nat /\ \A j \in 1..rho : b[j] \in Nat
  OBVIOUS
<1>3. PICK G : RowRule(rho, 1, b, P, G)
  <2> HIDE DEF b, P
  <2> QED BY <1>2, RowMade
<1>4. G \in [0..rho -> Nat]
  <2> HIDE DEF b, P
  <2> QED BY <1>2, <1>3, RowMade
<1>5. G = Def(G)
  <2>1. ASSUME NEW j \in 1..rho PROVE G[j] = ValueIf(j <= lim.max, G[j - 1] * Pval_i)
    <3>1. G[j] = 0 + ValueIf(j \in P, G[j - 1] * Pval_i)
      BY <1>3 DEF RowRule
    <3>2. ValueIf(j \in P, G[j - 1] * Pval_i) = ValueIf(j <= lim.max, G[j - 1] * Pval_i)
      BY DEF ValueIf
    <3>3. ValueIf(j <= lim.max, G[j - 1] * Pval_i) \in Nat
      <4>1. G[j - 1] \in Nat
        BY <1>4
      <4> QED BY <4>1, NumberSums, Weights DEF ValueIf
    <3> QED BY <3>1, <3>2, <3>3
  <2>2. \A j \in 0..rho : j = 0 \/ j \in 1..rho
    OBVIOUS
  <2>3. \A j \in 0..rho : G[j] = IF j = 0 THEN 1 ELSE ValueIf(j <= lim.max, G[j - 1] * Pval_i)
    BY <1>3, <2>1, <2>2 DEF RowRule
  <2> QED BY <1>4, <2>3
<1>6. first = Def(first)
  <2> HIDE DEF Def
  <2> QED BY <1>5
<1>7. /\ first = [j \in 0..rho |-> first[j]]
      /\ \A j \in 0..rho : first[j] = IF j = 0 THEN 1
                                      ELSE ValueIf(j <= lim.max, first[j - 1] * Pval_i)
  <2> HIDE DEF first
  <2> QED BY <1>6
<1> HIDE DEF first
<1>8. \A j \in 0..rho : first[j] \in Nat
  <2> DEFINE Js == {j \in Nat : j <= rho => first[j] \in Nat}
  <2>1. 0 \in Js
    <3>1. 0 \in 0..rho
      OBVIOUS
    <3>2. first[0] = 1
      BY <1>7, <3>1
    <3> QED BY <3>2
  <2>2. ASSUME NEW j \in Nat, j \in Js PROVE j + 1 \in Js
    <3> SUFFICES ASSUME j + 1 <= rho PROVE first[j + 1] \in Nat
      OBVIOUS
    <3>1. j + 1 \in 0..rho /\ (j + 1) - 1 = j /\ j <= rho /\ j + 1 # 0
      OBVIOUS
    <3>2. first[j + 1] = ValueIf(j + 1 <= lim.max, first[j] * Pval_i)
      BY <1>7, <3>1
    <3> QED BY <2>2, <3>1, <3>2, NumberSums, Weights DEF ValueIf
  <2>3. \A j \in Nat : j \in Js
    <3> HIDE DEF Js
    <3> QED BY <2>1, <2>2, SetInduction
  <2>4. \A j \in 0..rho : j \in Nat /\ j <= rho
    OBVIOUS
  <2> QED BY <2>3, <2>4
<1>9. first \in RowValues(rho)
  BY <1>7, <1>8 DEF RowValues
<1>10. FirstRow(first, rho, lim.max)
  BY <1>7 DEF FirstRow, ValueIf
<1> QED BY <1>1, <1>9, <1>10

(* A row of the corridor, column by column.                                *)
CorridorRule(row, above, tx, rx, n, rho, lim, i) ==
  /\ row[0] = IF i + lim.min <= 0 THEN above[0] * Pval_d ELSE above[0]
  /\ \A j \in 1..rho :
       row[j] = IF j \notin (IF i < n THEN HighestOf(i + lim.min, 1) ELSE 1)..
                            (IF i < n THEN LowestOf(i + lim.max, rho) ELSE rho)
                THEN above[j]
                ELSE above[j - 1] * SentAs(tx, i, rx, j)
                       + ValueIf(j < i + lim.max, above[j] * Pval_d)
                       + ValueIf(i < n, row[j - 1] * Pval_i)

LEMMA CorridorRowMade ==
  ASSUME NEW n \in Nat, NEW tx, Len(tx) = n, NEW rho \in Nat, NEW rx, Len(rx) = rho,
         NEW lim, NEW i, NEW above \in RowValues(rho)
  PROVE  /\ CorridorRow(tx, rx, lim, i, above) \in RowValues(rho)
         /\ CorridorRule(CorridorRow(tx, rx, lim, i, above), above, tx, rx, n, rho, lim, i)
<1> USE DEF RowValues
<1> DEFINE jmin == IF i < n THEN HighestOf(i + lim.min, 1) ELSE 1
           jmax == IF i < n THEN LowestOf(i + lim.max, rho) ELSE rho
           inside(j) == j \in jmin..jmax
           old(j) == above[j - 1] * SentAs(tx, i, rx, j)
                       + ValueIf(j < i + lim.max, above[j] * Pval_d)
           a == IF i + lim.min <= 0 THEN above[0] * Pval_d ELSE above[0]
           Def(F) == [j \in 0..rho |->
                       IF j = 0 THEN a
                       ELSE IF j \notin jmin..jmax THEN above[j]
                       ELSE above[j - 1] * SentAs(tx, i, rx, j)
                              + ValueIf(j < i + lim.max, above[j] * Pval_d)
                              + ValueIf(i < n, F[j - 1] * Pval_i)]
           row == CHOOSE F : F = Def(F)
           b == [j \in 1..rho |-> IF inside(j) THEN old(j) ELSE above[j]]
           P == {j \in 1..rho : inside(j) /\ i < n}
<1>1. CorridorRow(tx, rx, lim, i, above) = row
  BY DEF CorridorRow
<1> HIDE DEF jmin, jmax
<1>2. a \in Nat
  <2>1. 0 \in 0..rho
    OBVIOUS
  <2>2. above[0] \in Nat
    BY <2>1
  <2> QED BY <2>2, NumberSums, Weights
<1>3. ASSUME NEW j \in 1..rho PROVE above[j] \in Nat /\ old(j) \in Nat
  <2>1. above[j] \in Nat /\ above[j - 1] \in Nat
    OBVIOUS
  <2>2. SentAs(tx, i, rx, j) \in Nat
    BY Weights DEF SentAs
  <2>3. ValueIf(j < i + lim.max, above[j] * Pval_d) \in Nat
    BY <2>1, NumberSums, Weights DEF ValueIf
  <2> QED BY <2>1, <2>2, <2>3, NumberSums
<1>4. \A j \in 1..rho : b[j] \in Nat
  <2> HIDE DEF old, inside
  <2> QED BY <1>3
<1>5. \A F : \A j \in 1..rho :
        Def(F)[j] = IF inside(j) THEN old(j) + ValueIf(i < n, F[j - 1] * Pval_i) ELSE above[j]
  <2> SUFFICES ASSUME NEW F, NEW j \in 1..rho
               PROVE  Def(F)[j] = IF inside(j) THEN old(j) + ValueIf(i < n, F[j - 1] * Pval_i)
                                  ELSE above[j]
    OBVIOUS
  <2>1. j \in 0..rho /\ j # 0
    OBVIOUS
  <2> QED BY <2>1
<1>6. \A F : Def(F) = [j \in 0..rho |-> Def(F)[j]] /\ Def(F)[0] = a
  OBVIOUS
<1>7. \E F : F = Def(F)
  <2>1. PICK G : RowRule(rho, a, b, P, G)
    <3> HIDE DEF a, b, P
    <3> QED BY <1>2, <1>4, RowMade
  <2>2. G \in [0..rho -> Nat]
    <3> HIDE DEF a, b, P
    <3> QED BY <1>2, <1>4, <2>1, RowMade
  <2>3. ASSUME NEW j \in 1..rho PROVE G[j] = Def(G)[j]
    <3>1. G[j] = b[j] + ValueIf(j \in P, G[j - 1] * Pval_i)
      <4> HIDE DEF b, P
      <4> QED BY <2>1 DEF RowRule
    <3>2. CASE inside(j)
      <4>1. b[j] = old(j) /\ (j \in P <=> i < n)
        BY <3>2
      <4> HIDE DEF b, P, old, inside, Def
      <4> QED BY <1>5, <3>1, <3>2, <4>1 DEF ValueIf
    <3>3. CASE ~ inside(j)
      <4>1. b[j] = above[j] /\ j \notin P
        BY <3>3
      <4> HIDE DEF b, P, old, inside, Def
      <4> QED BY <1>3, <1>5, <3>1, <3>3, <4>1 DEF ValueIf
    <3> QED BY <3>2, <3>3
  <2>4. G[0] = a
    BY <2>1 DEF RowRule
  <2>5. \A j \in 0..rho : j = 0 \/ j \in 1..rho
    OBVIOUS
  <2> HIDE DEF Def, a
  <2>6. \A j \in 0..rho : G[j] = Def(G)[j]
    BY <1>6, <2>3, <2>4, <2>5
  <2>7. G = [j \in 0..rho |-> Def(G)[j]]
    BY <2>2, <2>6
  <2> QED BY <1>6, <2>7
<1>8. row = Def(row)
  <2> HIDE DEF Def
  <2> QED BY <1>7
<1> HIDE DEF row
<1>9. /\ row = [j \in 0..rho |-> row[j]]
      /\ row[0] = a
      /\ \A j \in 1..rho :
           row[j] = IF inside(j) THEN old(j) + ValueIf(i < n, row[j - 1] * Pval_i) ELSE above[j]
  <2> HIDE DEF Def, old, inside, a
  <2> QED BY <1>5, <1>6, <1>8
<1>10. \A j \in 0..rho : row[j] \in Nat
  <2> DEFINE Js == {j \in Nat : j <= rho => row[j] \in Nat}
  <2> HIDE DEF old, inside, a
  <2>1. 0 \in Js
    BY <1>2, <1>9
  <2>2. ASSUME NEW j \in Nat, j \in Js PROVE j + 1 \in Js
    <3> SUFFICES ASSUME j + 1 <= rho PROVE row[j + 1] \in Nat
      OBVIOUS
    <3>1. j + 1 \in 1..rho /\ (j + 1) - 1 = j /\ j <= rho
      OBVIOUS
    <3>2. row[j + 1] = IF inside(j + 1) THEN old(j + 1) + ValueIf(i < n, row[j] * Pval_i)
                       ELSE above[j + 1]
      BY <1>9, <3>1
    <3>3. ValueIf(i < n, row[j] * Pval_i) \in Nat
      BY <2>2, <3>1, NumberSums, Weights DEF ValueIf
    <3> QED BY <1>3, <3>1, <3>2, <3>3, NumberSums
  <2>3. \A j \in Nat : j \in Js
    <3> HIDE DEF Js
    <3> QED BY <2>1, <2>2, SetInduction
  <2>4. \A j \in 0..rho : j \in Nat /\ j <= rho
    OBVIOUS
  <2> QED BY <2>3, <2>4
<1>11. row \in RowValues(rho)
  <2> HIDE DEF inside, old, a
  <2> QED BY <1>9, <1>10 DEF RowValues
<1>12. \A j \in 1..rho :
         row[j] = IF j \notin jmin..jmax THEN above[j]
                  ELSE above[j - 1] * SentAs(tx, i, rx, j)
                         + ValueIf(j < i + lim.max, above[j] * Pval_d)
                         + ValueIf(i < n, row[j - 1] * Pval_i)
  BY <1>9
<1> QED BY <1>1, <1>9, <1>11, <1>12 DEF CorridorRule, jmin, jmax

(* Its rows are functions that follow the rule.                            *)
LEMMA CorridorRowsMade ==
  ASSUME NEW n \in Nat, NEW tx, Len(tx) = n, NEW rho \in Nat, NEW rx, Len(rx) = rho, NEW lim
  PROVE  /\ CorridorMade(tx, rx, lim, n, rho)[0] = CorridorFirst(rho, lim)
         /\ \A i \in 0..n : CorridorMade(tx, rx, lim, n, rho)[i] \in RowValues(rho)
         /\ \A i \in 1..n : CorridorMade(tx, rx, lim, n, rho)[i]
                              = CorridorRow(tx, rx, lim, i, CorridorMade(tx, rx, lim, n, rho)[i - 1])
<1> DEFINE A == RowValues(rho)
           Def(r) == [i \in 0..n |->
                        IF i = 0 THEN CorridorFirst(rho, lim)
                        ELSE CorridorRow(tx, rx, lim, i, r[i - 1])]
           rows == CHOOSE r : r = Def(r)
           h == [x \in Nat \X A |-> CorridorRow(tx, rx, lim, x[1], x[2])]
<1>1. CorridorMade(tx, rx, lim, n, rho) = rows
  BY DEF CorridorMade
<1>2. CorridorFirst(rho, lim) \in A
  BY CorridorFirstMade
<1>3. \A i, F : F \in A => CorridorRow(tx, rx, lim, i, F) \in A
  BY CorridorRowMade
<1> HIDE DEF A
<1>4. h \in [Nat \X A -> A]
  BY <1>3
<1>5. PICK g \in [0..n -> A] : g[0] = CorridorFirst(rho, lim) /\ \A i \in 1..n : g[i] = h[<<i, g[i - 1]>>]
  <2> HIDE DEF h
  <2>1. Recursion(A, CorridorFirst(rho, lim), h, n) # {}
    BY <1>2, <1>4, RecursionExists
  <2> QED BY <2>1 DEF Recursion
<1>6. g = Def(g)
  <2>1. ASSUME NEW i \in 1..n PROVE g[i] = CorridorRow(tx, rx, lim, i, g[i - 1])
    <3>1. i \in Nat /\ i - 1 \in 0..n
      OBVIOUS
    <3>2. <<i, g[i - 1]>> \in Nat \X A
      BY <3>1
    <3> QED BY <1>5, <3>2
  <2>2. \A i \in 0..n : i # 0 => i \in 1..n
    OBVIOUS
  <2>3. \A i \in 0..n : g[i] = IF i = 0 THEN CorridorFirst(rho, lim)
                               ELSE CorridorRow(tx, rx, lim, i, g[i - 1])
    <3> HIDE DEF h
    <3> QED BY <1>5, <2>1, <2>2
  <2> QED BY <2>3
<1>7. rows = Def(rows)
  <2> HIDE DEF Def
  <2> QED BY <1>6
<1>8. \A i \in 0..n : rows[i] = IF i = 0 THEN CorridorFirst(rho, lim)
                                ELSE CorridorRow(tx, rx, lim, i, rows[i - 1])
  <2> HIDE DEF rows
  <2> QED BY <1>7
<1> HIDE DEF rows
<1>9. /\ rows[0] = CorridorFirst(rho, lim)
      /\ \A i \in 1..n : rows[i] = CorridorRow(tx, rx, lim, i, rows[i - 1])
  <2>1. 0 \in 0..n /\ \A i \in 1..n : i \in 0..n /\ i # 0
    OBVIOUS
  <2> QED BY <1>8, <2>1
<1>10. \A i \in 0..n : rows[i] \in A
  <2> DEFINE S == {i \in 0..n : rows[i] \in A}
  <2>1. 0 \in S
    BY <1>2, <1>9
  <2>2. ASSUME NEW i \in 1..n, i - 1 \in S PROVE i \in S
    <3>1. i \in Nat /\ i \in 0..n
      OBVIOUS
    <3> QED BY <1>3, <1>9, <2>2, <3>1
  <2> HIDE DEF S
  <2>3. \A i \in 0..n : i \in S
    BY <2>1, <2>2, IntervalInduction
  <2> QED BY <2>3 DEF S
<1> QED BY <1>1, <1>9, <1>10 DEF A

(* What a path may do at each step to stay in the corridor.                *)
CorridorOk(n, lim) ==
  {p \in (1..n) \X Nat \X [ins : Nat, kept : BOOLEAN] :
     /\ p[2] - p[1] \in lim.min..lim.max
     /\ (p[2] - (IF p[3].kept THEN 1 ELSE 0)) - (p[1] - 1) \in lim.min..lim.max}

(* Events in the corridor, step by step.                                   *)
LEMMA InCorridorByStep ==
  ASSUME NEW n \in Nat, NEW rho \in Nat, NEW lim, lim.min \in Int, lim.max \in Int,
         NEW e \in Events(n, rho)
  PROVE  InCorridor(e, lim) <=> \A t \in 1..n : <<t, Length(e, t), e[t]>> \in CorridorOk(n, lim)
<1>1. DOMAIN e = 1..n /\ \A t \in 1..n : e[t] \in [ins : 0..rho, kept : BOOLEAN]
  BY DEF Events
<1>2. ASSUME NEW t \in 1..n
      PROVE  (/\ LengthAfter(e, t) - t \in lim.min..lim.max
              /\ LengthAfter(e, t - 1) + e[t].ins - (t - 1) \in lim.min..lim.max)
             <=> <<t, Length(e, t), e[t]>> \in CorridorOk(n, lim)
  <2>1. t \in 0..n /\ t - 1 \in 0..n
    OBVIOUS
  <2>2. LengthAfter(e, t) = Length(e, t) /\ LengthAfter(e, t - 1) = Length(e, t - 1)
    BY <2>1, LengthIsAfter
  <2>3. Length(e, t) \in Nat /\ Length(e, t - 1) \in Nat /\ Length(e, t) = Length(e, t - 1) + Left(e[t])
    BY <2>1, LengthsGrow
  <2>4. e[t] \in [ins : Nat, kept : BOOLEAN] /\ e[t].ins \in Nat
    BY <1>1
  <2> DEFINE k == IF e[t].kept THEN 1 ELSE 0
  <2>5. Left(e[t]) = e[t].ins + k /\ k \in Nat
    BY DEF Left
  <2>6. <<t, Length(e, t), e[t]>> \in CorridorOk(n, lim) <=>
          /\ Length(e, t) - t \in lim.min..lim.max
          /\ (Length(e, t) - k) - (t - 1) \in lim.min..lim.max
    BY <2>3, <2>4 DEF CorridorOk
  <2> HIDE DEF k
  <2>7. (Length(e, t) - k) - (t - 1) = Length(e, t - 1) + e[t].ins - (t - 1)
    BY <2>3, <2>4, <2>5
  <2> QED BY <2>2, <2>6, <2>7
<1> QED BY <1>1, <1>2 DEF InCorridor

LEMMA CorridorStepsOk ==
  ASSUME NEW n \in Nat, NEW rho \in Nat, NEW lim, lim.min \in Int, lim.max \in Int
  PROVE  CorridorSteps(CorridorOk(n, lim), n, rho, lim.min, lim.max)
<1> SUFFICES ASSUME NEW i \in 1..n, NEW j \in InColumns(i, rho, lim.min, lim.max), NEW k \in Nat
             PROVE  /\ <<i, j, Deleted(k)>> \in CorridorOk(n, lim) <=> j < i + lim.max
                    /\ <<i, j, Passed(k)>> \in CorridorOk(n, lim)
  BY DEF CorridorSteps
<1>1. j \in Nat /\ i + lim.min <= j /\ j <= i + lim.max
  BY DEF InColumns
<1>2. /\ Deleted(k) \in [ins : Nat, kept : BOOLEAN] /\ Deleted(k).kept = FALSE
      /\ Passed(k) \in [ins : Nat, kept : BOOLEAN] /\ Passed(k).kept = TRUE
  BY DEF Deleted, Passed
<1>3. <<i, j, Deleted(k)>> \in CorridorOk(n, lim) <=>
        /\ j - i \in lim.min..lim.max
        /\ (j - 0) - (i - 1) \in lim.min..lim.max
  BY <1>1, <1>2 DEF CorridorOk
<1>4. <<i, j, Passed(k)>> \in CorridorOk(n, lim) <=>
        /\ j - i \in lim.min..lim.max
        /\ (j - 1) - (i - 1) \in lim.min..lim.max
  BY <1>1, <1>2 DEF CorridorOk
<1> QED BY <1>1, <1>3, <1>4

(* Its rows are those of a lattice that has the columns of the corridor    *)
(* only.                                                                   *)
LEMMA CorridorNextRow ==
  ASSUME NEW n \in Nat, NEW rho \in Nat, NEW tx, NEW rx, NEW lim,
         lim.min \in Int, lim.min <= 1 - n, lim.max \in Nat, NEW i \in 1..n,
         NEW above \in RowValues(rho), NEW row \in RowValues(rho),
         CorridorRule(row, above, tx, rx, n, rho, lim, i)
  PROVE  NextRow(above, row, i, n, tx, rx, rho, lim.min, lim.max)
<1> SUFFICES ASSUME NEW j \in InColumns(i, rho, lim.min, lim.max)
             PROVE  row[j] = ValueIf(j < i + lim.max, above[j] * Pval_d)
                               + ValueIf(j > 0, above[j - 1] * SentAs(tx, i, rx, j))
                               + ValueIf(i < n /\ j > 0, row[j - 1] * Pval_i)
  BY DEF NextRow
<1>1. j \in 0..rho /\ i + lim.min <= j /\ j <= i + lim.max
  BY DEF InColumns
<1>2. CASE j = 0
  <2>1. i + lim.min <= 0 /\ 0 < i + lim.max
    BY <1>1, <1>2
  <2>2. row[0] = above[0] * Pval_d
    BY <2>1 DEF CorridorRule
  <2>3. above[0] * Pval_d \in Nat
    <3>1. above[0] \in Nat
      BY DEF RowValues
    <3> QED BY <3>1, NumberSums, Weights
  <2>4. /\ ValueIf(j < i + lim.max, above[j] * Pval_d) = above[0] * Pval_d
        /\ ValueIf(j > 0, above[j - 1] * SentAs(tx, i, rx, j)) = 0
        /\ ValueIf(i < n /\ j > 0, row[j - 1] * Pval_i) = 0
    BY <1>2, <2>1 DEF ValueIf
  <2> QED BY <1>2, <2>2, <2>3, <2>4
<1>3. CASE j # 0
  <2>1. j \in 1..rho /\ j > 0
    BY <1>1, <1>3
  <2>2. j \in (IF i < n THEN HighestOf(i + lim.min, 1) ELSE 1)..
              (IF i < n THEN LowestOf(i + lim.max, rho) ELSE rho)
    <3>1. CASE i < n
      <4>1. i + lim.min <= 0
        BY <3>1
      <4>2. HighestOf(i + lim.min, 1) = 1
        BY <4>1 DEF HighestOf
      <4>3. LowestOf(i + lim.max, rho) \in Int /\ j <= LowestOf(i + lim.max, rho)
        BY <1>1 DEF LowestOf
      <4> QED BY <2>1, <3>1, <4>2, <4>3
    <3>2. CASE ~ (i < n)
      BY <2>1, <3>2
    <3> QED BY <3>1, <3>2
  <2> DEFINE u == above[j - 1] * SentAs(tx, i, rx, j)
             v == ValueIf(j < i + lim.max, above[j] * Pval_d)
             w == ValueIf(i < n, row[j - 1] * Pval_i)
  <2>3. row[j] = u + v + w
    BY <2>1, <2>2 DEF CorridorRule
  <2>4. u \in Nat /\ v \in Nat /\ w \in Nat
    <3>1. above[j - 1] \in Nat /\ above[j] \in Nat /\ row[j - 1] \in Nat
      BY <2>1 DEF RowValues
    <3>2. SentAs(tx, i, rx, j) \in Nat
      BY Weights DEF SentAs
    <3> QED BY <3>1, <3>2, NumberSums, Weights DEF ValueIf
  <2>5. /\ ValueIf(j > 0, above[j - 1] * SentAs(tx, i, rx, j)) = u
        /\ ValueIf(i < n /\ j > 0, row[j - 1] * Pval_i) = w
    BY <2>1 DEF ValueIf
  <2> HIDE DEF u, w
  <2>6. row[j] = v + u + w
    <3> HIDE DEF v
    <3> QED BY <2>3, <2>4
  <2> QED BY <2>5, <2>6
<1> QED BY <1>2, <1>3

(* The row that is overwritten holds the weight of all events whose drifts *)
(* keep to the limits.                                                     *)
LEMMA CorridorIsExact ==
  ASSUME NEW n \in Nat \ {0}, NEW tx, Len(tx) = n, NEW rho \in Nat, NEW rx, Len(rx) = rho,
         NEW lim, lim.min \in Int, lim.min <= 1 - n, lim.max \in Nat
  PROVE  CorridorExact(tx, rx, lim)
<1> SUFFICES ASSUME NEW x \in lim.min..lim.max, x + n \in 0..rho
             PROVE  ReceiveCorridor(tx, rx, lim)[x] = CorridorLikelihood(tx, rx, x, lim)
  BY DEF CorridorExact, DriftsAsked, CorridorLikelihood
<1> DEFINE rows == CorridorMade(tx, rx, lim, n, rho)
           ok == CorridorOk(n, lim)
<1>0. n \in Nat /\ n \in 0..n /\ lim.max \in Int
  OBVIOUS
<1>1. ReceiveCorridor(tx, rx, lim)[x] = rows[n][x + n]
  <2>1. ReceiveCorridor(tx, rx, lim) = DriftTable(rows[n], n, rho, lim)
    BY CorridorIsRows
  <2> HIDE DEF rows
  <2>2. DriftTable(rows[n], n, rho, lim)[x] = ValueIf(x + n \in 0..rho, rows[n][x + n])
    BY DEF DriftTable
  <2> QED BY <2>1, <2>2 DEF ValueIf
<1>2. CorridorLikelihood(tx, rx, x, lim) = Total(ok, n, tx, rx, rho, n + x)
  <2>1. \A e \in Events(n, rho) :
          InCorridor(e, lim) <=> \A t \in 1..n : <<t, Length(e, t), e[t]>> \in ok
    BY <1>0, InCorridorByStep
  <2>2. x \in Int
    OBVIOUS
  <2> HIDE DEF ok
  <2> QED BY <1>0, <2>1, <2>2, CorridorLikelihoodIsTotal
<1>3. CorridorSteps(ok, n, rho, lim.min, lim.max)
  BY <1>0, CorridorStepsOk
<1>4. FirstRow(rows[0], rho, lim.max)
  <2>1. rows[0] = CorridorFirst(rho, lim)
    BY <1>0, CorridorRowsMade
  <2>2. FirstRow(CorridorFirst(rho, lim), rho, lim.max)
    BY CorridorFirstMade
  <2> HIDE DEF rows
  <2> QED BY <2>1, <2>2
<1>5. ASSUME NEW i \in 1..n
      PROVE  NextRow(rows[i - 1], rows[i], i, n, tx, rx, rho, lim.min, lim.max)
  <2>1. i - 1 \in 0..n /\ i \in 0..n
    OBVIOUS
  <2>2. /\ rows[i - 1] \in RowValues(rho) /\ rows[i] \in RowValues(rho)
        /\ rows[i] = CorridorRow(tx, rx, lim, i, rows[i - 1])
    BY <1>0, <2>1, CorridorRowsMade
  <2> HIDE DEF rows
  <2>3. CorridorRule(rows[i], rows[i - 1], tx, rx, n, rho, lim, i)
    BY <1>0, <2>2, CorridorRowMade
  <2> QED BY <1>0, <2>2, <2>3, CorridorNextRow
<1>6. x + n \in InColumns(n, rho, lim.min, lim.max)
  BY DEF InColumns
<1>7. rows[n][x + n] = Total(ok, n, tx, rx, rho, x + n)
  <2> HIDE DEF rows, ok
  <2>1. CorridorRows(rows, n, tx, rx, rho, lim.min, lim.max)
    BY <1>4, <1>5 DEF CorridorRows
  <2> DEFINE lo == lim.min
             hi == lim.max
  <2>2. lo \in Int /\ lo <= 1 - n /\ hi \in Nat
    OBVIOUS
  <2>3. CorridorRows(rows, n, tx, rx, rho, lo, hi) /\ CorridorSteps(ok, n, rho, lo, hi)
    BY <1>3, <2>1
  <2>4. x + n \in InColumns(n, rho, lo, hi)
    BY <1>6
  <2> HIDE DEF lo, hi
  <2>5. \A j \in InColumns(n, rho, lo, hi) : rows[n][j] = Total(ok, n, tx, rx, rho, j)
    BY <2>2, <2>3, RowsGiveTotals
  <2> QED BY <2>4, <2>5
<1>8. n + x = x + n
  OBVIOUS
<1> QED BY <1>1, <1>2, <1>7, <1>8

(***************************************************************************)
(* receive_trellis                                                         *)
(***************************************************************************)

(* An entry of the table, in the two ways that a symbol leaves a length.   *)
LEMMA RtableCounts ==
  ASSUME NEW differs, NEW mu \in Nat
  PROVE  /\ Power(Pval_i, mu) \in Nat
         /\ Rtable(differs, mu) \in Nat
         /\ Rtable(differs, mu) =
              Power(Pval_i, mu + 1) * Pval_d
                + Power(Pval_i, mu) * (IF differs THEN Pval_te ELSE Pval_tc)
<1> DEFINE p == Power(Pval_i, mu)
           s == IF differs THEN Pval_te ELSE Pval_tc
<1>1. p \in Nat /\ Power(Pval_i, mu + 1) = p * Pval_i
  BY PowerGrows, Weights
<1>2. s \in Nat
  BY Weights
<1>3. Rtable(differs, mu) = p * (s + Pval_i * Pval_d)
  BY DEF Rtable
<1> HIDE DEF p, s
<1>4. \A a, b, c, d \in Nat : a * (b + c * d) = (a * c) * d + a * b /\ a * (b + c * d) \in Nat
  OBVIOUS
<1>5. p * (s + Pval_i * Pval_d) = (p * Pval_i) * Pval_d + p * s /\ p * (s + Pval_i * Pval_d) \in Nat
  BY <1>1, <1>2, <1>4, Weights
<1>6. Rtable(differs, mu) \in Nat /\ Rtable(differs, mu) = Power(Pval_i, mu + 1) * Pval_d + p * s
  BY <1>1, <1>3, <1>5
<1> QED BY <1>1, <1>6 DEF p, s

(* The sum of a cell of the trellis.                                       *)
TrellisSum(F, differs, y, K) == MapThenSumSet(LAMBDA a : F[a] * Rtable(differs, y - a), K)
Carried(F, differs, y, K) == [a \in K |-> F[a] * Rtable(differs, y - a)]

LEMMA TrellisSums ==
  ASSUME NEW F, NEW differs, NEW y \in Int, NEW K, IsFiniteSet(K),
         \A a \in K : F[a] \in Nat /\ y - a \in Nat
  PROVE  /\ Numbers(Carried(F, differs, y, K), K)
         /\ TrellisSum(F, differs, y, K) = Sum(Carried(F, differs, y, K), K)
<1> DEFINE f == Carried(F, differs, y, K)
           Def(it) == [s \in SUBSET K |->
                         IF s = {} THEN 0
                         ELSE F[CHOOSE x \in s : TRUE] * Rtable(differs, y - (CHOOSE x \in s : TRUE))
                                + it[s \ {CHOOSE x \in s : TRUE}]]
           iter == CHOOSE it : it = Def(it)
<1>1. TrellisSum(F, differs, y, K) = iter[K]
  BY DEF TrellisSum, MapThenSumSet, MapThenFoldSet
<1>2. ASSUME NEW s \in SUBSET K, s # {}
      PROVE  /\ AnyOf(s) = (CHOOSE x \in s : TRUE)
             /\ F[AnyOf(s)] * Rtable(differs, y - AnyOf(s)) = f[AnyOf(s)]
  <2>1. AnyOf(s) \in s
    BY <1>2 DEF AnyOf
  <2>2. AnyOf(s) \in K
    BY <2>1
  <2> QED BY <2>2 DEF Carried, AnyOf
<1>3. Numbers(f, K)
  <2>1. ASSUME NEW a \in K PROVE f[a] \in Nat
    <3>1. Rtable(differs, y - a) \in Nat
      BY RtableCounts
    <3> QED BY <3>1, NumberSums DEF Carried
  <2> HIDE DEF f
  <2> QED BY <2>1 DEF Numbers
<1> HIDE DEF f
<1>4. \A it : it = Def(it) <=> SumRule(f, K, it)
  <2> SUFFICES ASSUME NEW it PROVE it = Def(it) <=> SumRule(f, K, it)
    OBVIOUS
  <2> DEFINE x(s) == CHOOSE z \in s : TRUE
  <2>1. \A s \in SUBSET K :
          (IF s = {} THEN 0 ELSE F[x(s)] * Rtable(differs, y - x(s)) + it[s \ {x(s)}])
            = (IF s = {} THEN 0 ELSE f[AnyOf(s)] + it[s \ {AnyOf(s)}])
    <3> SUFFICES ASSUME NEW s \in SUBSET K, s # {}
                 PROVE  F[x(s)] * Rtable(differs, y - x(s)) + it[s \ {x(s)}]
                          = f[AnyOf(s)] + it[s \ {AnyOf(s)}]
      OBVIOUS
    <3>1. AnyOf(s) = x(s) /\ F[AnyOf(s)] * Rtable(differs, y - AnyOf(s)) = f[AnyOf(s)]
      BY <1>2
    <3> HIDE DEF x
    <3> QED BY <3>1
  <2>2. Def(it) = [s \in SUBSET K |->
                     IF s = {} THEN 0 ELSE f[AnyOf(s)] + it[s \ {AnyOf(s)}]]
    BY <2>1
  <2> QED BY <2>2 DEF SumRule
<1>5. iter = Def(iter)
  <2>1. \E it : SumRule(f, K, it)
    BY <1>3, SumMadeByRule
  <2> HIDE DEF Def
  <2> QED BY <1>4, <2>1
<1>6. SumRule(f, K, iter)
  <2> HIDE DEF Def, iter
  <2> QED BY <1>4, <1>5
<1>7. iter[K] = Sum(f, K)
  <2> HIDE DEF iter
  <2> QED BY <1>3, <1>6, SumMadeByRule
<1> QED BY <1>1, <1>3, <1>7 DEF f

(* Drifts before symbol j from which y is reached with an insertion less.  *)
DriftsKept(lim, j, y) == {a \in lim.min..lim.max : 1 - j <= a /\ y - lim.top <= a /\ a <= y}

DriftLimitsAllow(lim) ==
  lim.min \in Int /\ lim.min <= 0 /\ lim.max \in Nat /\ lim.top \in Nat

DriftRow(lim) == [lim.min..lim.max -> Nat]

HasLength(s, n) == Len(s) = n

LEMMA TrellisCell ==
  ASSUME NEW tx, NEW rho \in Nat, NEW rx, HasLength(rx, rho), NEW lim, DriftLimitsAllow(lim),
         NEW j \in Nat, NEW F, NEW y \in lim.min..lim.max
  PROVE  TrellisRow(tx, rx, lim, j, F)[y] =
           IF y + j \in 0..rho
           THEN ValueIf(y < lim.max, F[y + 1] * Pval_d)
                  + TrellisSum(F, tx[j] # rx[j + y], y, DriftsKept(lim, j, y))
           ELSE 0
<1> DEFINE within == HighestOf(lim.min, - j)..LowestOf(lim.max, rho - j)
           amin == HighestOf(HighestOf(lim.min, 1 - j), y - lim.top)
           amax == LowestOf(lim.max, y + 1)
           kept == amin..IF y < amax THEN amax - 1 ELSE amax
<1>0. lim.min \in Int /\ lim.max \in Int /\ lim.top \in Int /\ y \in Int /\ y <= lim.max
      /\ lim.min <= y
  BY DEF DriftLimitsAllow
<1>1. TrellisRow(tx, rx, lim, j, F)[y] =
        IF y \notin within THEN 0
        ELSE ValueIf(y < amax, F[amax] * Pval_d) + TrellisSum(F, tx[j] # rx[j + y], y, kept)
  BY DEF TrellisRow, TrellisSum, HasLength
<1>2. y \in within <=> y + j \in 0..rho
  <2>1. HighestOf(lim.min, - j) \in Int /\ (HighestOf(lim.min, - j) <= y <=> - j <= y)
    BY <1>0 DEF HighestOf
  <2>2. LowestOf(lim.max, rho - j) \in Int /\ (y <= LowestOf(lim.max, rho - j) <=> y <= rho - j)
    BY <1>0 DEF LowestOf
  <2> QED BY <1>0, <2>1, <2>2
<1>3. kept = DriftsKept(lim, j, y)
  <2>1. amin \in Int /\ \A a \in Int : amin <= a <=> lim.min <= a /\ 1 - j <= a /\ y - lim.top <= a
    BY <1>0 DEF HighestOf
  <2>2. (IF y < amax THEN amax - 1 ELSE amax) = y
    BY <1>0 DEF LowestOf
  <2>3. kept = amin..y
    <3> HIDE DEF amin, amax
    <3> QED BY <2>2
  <2> HIDE DEF amin, amax, kept
  <2> QED BY <1>0, <2>1, <2>3 DEF DriftsKept
<1>4. ValueIf(y < amax, F[amax] * Pval_d) = ValueIf(y < lim.max, F[y + 1] * Pval_d)
  <2>1. CASE y < lim.max
    <3>1. amax = y + 1 /\ y < amax
      BY <1>0, <2>1 DEF LowestOf
    <3> HIDE DEF amax
    <3> QED BY <2>1, <3>1 DEF ValueIf
  <2>2. CASE ~ (y < lim.max)
    <3>1. ~ (y < amax)
      BY <1>0, <2>2 DEF LowestOf
    <3> HIDE DEF amax
    <3> QED BY <2>2, <3>1 DEF ValueIf
  <2> QED BY <2>1, <2>2
<1> HIDE DEF within, amin, amax, kept
<1> QED BY <1>1, <1>2, <1>3, <1>4

LEMMA KeptSums ==
  ASSUME NEW lim, DriftLimitsAllow(lim), NEW j \in Nat, NEW F \in DriftRow(lim), NEW differs,
         NEW y \in lim.min..lim.max
  PROVE  LET K == DriftsKept(lim, j, y)
         IN  /\ IsFiniteSet(K)
             /\ Numbers(Carried(F, differs, y, K), K)
             /\ TrellisSum(F, differs, y, K) = Sum(Carried(F, differs, y, K), K)
             /\ TrellisSum(F, differs, y, K) \in Nat
<1> DEFINE K == DriftsKept(lim, j, y)
<1>1. IsFiniteSet(K)
  <2>1. lim.min \in Int /\ lim.max \in Int
    BY DEF DriftLimitsAllow
  <2>2. IsFiniteSet(lim.min..lim.max)
    BY <2>1, FS_Interval
  <2> QED BY <2>2, FS_Subset DEF DriftsKept
<1>2. y \in Int /\ \A a \in K : F[a] \in Nat /\ y - a \in Nat
  BY DEF DriftsKept, DriftLimitsAllow, DriftRow
<1> HIDE DEF K
<1>3. /\ Numbers(Carried(F, differs, y, K), K)
      /\ TrellisSum(F, differs, y, K) = Sum(Carried(F, differs, y, K), K)
  BY <1>1, <1>2, TrellisSums
<1>4. Sum(Carried(F, differs, y, K), K) \in Nat
  BY <1>3, SumProperties
<1> QED BY <1>1, <1>3, <1>4 DEF K

LEMMA TrellisRowCounts ==
  ASSUME NEW tx, NEW rho \in Nat, NEW rx, HasLength(rx, rho), NEW lim, DriftLimitsAllow(lim),
         NEW j \in Nat, NEW F \in DriftRow(lim)
  PROVE  TrellisRow(tx, rx, lim, j, F) \in DriftRow(lim)
<1>1. ASSUME NEW y \in lim.min..lim.max PROVE TrellisRow(tx, rx, lim, j, F)[y] \in Nat
  <2>1. TrellisSum(F, tx[j] # rx[j + y], y, DriftsKept(lim, j, y)) \in Nat
    BY KeptSums
  <2>2. ValueIf(y < lim.max, F[y + 1] * Pval_d) \in Nat
    <3>1. y < lim.max => y + 1 \in lim.min..lim.max
      BY DEF DriftLimitsAllow
    <3>2. y < lim.max => F[y + 1] \in Nat
      BY <3>1 DEF DriftRow
    <3> QED BY <3>2, NumberSums, Weights DEF ValueIf
  <2> QED BY <2>1, <2>2, TrellisCell, NumberSums
<1>2. TrellisRow(tx, rx, lim, j, F) =
        [y \in lim.min..lim.max |-> TrellisRow(tx, rx, lim, j, F)[y]]
  BY DEF TrellisRow
<1> QED BY <1>1, <1>2 DEF DriftRow

(* What a path may do at each step to stay in the trellis.                 *)
TrellisOk(n, lim) ==
  {p \in (1..n) \X Nat \X [ins : Nat, kept : BOOLEAN] :
     p[2] - p[1] \in lim.min..lim.max /\ Left(p[3]) - 1 <= lim.top}

(* Events in the trellis, step by step.                                    *)
LEMMA InTrellisByStep ==
  ASSUME NEW n \in Nat, NEW rho \in Nat, NEW lim, DriftLimitsAllow(lim),
         NEW e \in Events(n, rho)
  PROVE  InTrellis(e, lim) <=> \A t \in 1..n : <<t, Length(e, t), e[t]>> \in TrellisOk(n, lim)
<1>1. DOMAIN e = 1..n /\ \A t \in 1..n : e[t] \in [ins : 0..rho, kept : BOOLEAN]
  BY DEF Events
<1>2. ASSUME NEW t \in 1..n
      PROVE  (/\ LengthAfter(e, t) - t \in lim.min..lim.max
              /\ LengthAfter(e, t) - LengthAfter(e, t - 1) - 1 <= lim.top)
             <=> <<t, Length(e, t), e[t]>> \in TrellisOk(n, lim)
  <2>1. t \in 0..n /\ t - 1 \in 0..n
    OBVIOUS
  <2>2. LengthAfter(e, t) = Length(e, t) /\ LengthAfter(e, t - 1) = Length(e, t - 1)
    BY <2>1, LengthIsAfter
  <2>3. /\ Length(e, t) \in Nat /\ Length(e, t - 1) \in Nat /\ Left(e[t]) \in Nat
        /\ Length(e, t) = Length(e, t - 1) + Left(e[t])
    BY <2>1, LengthsGrow
  <2>4. e[t] \in [ins : Nat, kept : BOOLEAN]
    BY <1>1
  <2>5. <<t, Length(e, t), e[t]>> \in TrellisOk(n, lim) <=>
          Length(e, t) - t \in lim.min..lim.max /\ Left(e[t]) - 1 <= lim.top
    BY <2>3, <2>4 DEF TrellisOk
  <2>6. Length(e, t) - Length(e, t - 1) - 1 = Left(e[t]) - 1
    BY <2>3
  <2> QED BY <2>2, <2>5, <2>6
<1> QED BY <1>1, <1>2 DEF InTrellis

(* No path ends a symbol at a drift out of the limits.                     *)
LEMMA TotalOutside ==
  ASSUME NEW n \in Nat, NEW rho \in Nat, NEW tx, NEW rx, NEW lim, DriftLimitsAllow(lim),
         NEW m \in 0..n, NEW l \in Nat, l - m \notin lim.min..lim.max
  PROVE  Total(TrellisOk(n, lim), m, tx, rx, rho, l) = 0
<1> DEFINE ok == TrellisOk(n, lim)
<1>1. CASE m = 0
  <2>1. l # 0
    BY <1>1 DEF DriftLimitsAllow
  <2> HIDE DEF ok
  <2> QED BY <1>1, <2>1, TotalStarts DEF ok
<1>2. CASE m # 0
  <2>1. m \in 1..m /\ m \in Nat
    BY <1>2
  <2>2. Paths(ok, m, rho, l) = {}
    <3> SUFFICES ASSUME NEW e \in Paths(ok, m, rho, l) PROVE FALSE
      OBVIOUS
    <3>1. <<m, l, e[m]>> \in ok
      <4> HIDE DEF ok
      <4> QED BY <2>1 DEF Paths
    <3> QED BY <3>1 DEF TrellisOk
  <2> HIDE DEF ok
  <2>3. Numbers(WeightsOf(m, rho, tx, rx), {})
    BY <2>1, PathsCount
  <2> QED BY <2>2, <2>3, SumProperties DEF Total, ok
<1> QED BY <1>1, <1>2

(* What may happen to symbol j, by the symbols that are received of it.    *)
WaysByLength(ok, tx, rx, lim, j, y) ==
  \A l \in 0..(y + j) :
    Ways(ok, j, tx, rx, y + j, l) =
      IF l = y + j THEN Pval_d
      ELSE ValueIf(y + j - l - 1 <= lim.top, Rtable(tx[j] # rx[j + y], y + j - l - 1))

(* The ways to go from one drift to the next: with an insertion more and a *)
(* deletion, or a transmission.                                            *)
LEMMA TrellisWays ==
  ASSUME NEW n \in Nat, NEW rho \in Nat, NEW tx, NEW rx, NEW lim, DriftLimitsAllow(lim),
         NEW j \in 1..n, NEW y \in lim.min..lim.max, y + j \in 0..rho
  PROVE  WaysByLength(TrellisOk(n, lim), tx, rx, lim, j, y)
<1> SUFFICES ASSUME NEW l \in 0..(y + j)
             PROVE  Ways(TrellisOk(n, lim), j, tx, rx, y + j, l) =
                      IF l = y + j THEN Pval_d
                      ELSE ValueIf(y + j - l - 1 <= lim.top,
                                   Rtable(tx[j] # rx[j + y], y + j - l - 1))
  BY DEF WaysByLength
<1> DEFINE ok == TrellisOk(n, lim)
           J == y + j
           k == J - l
<1>0. /\ y \in Int /\ J \in Nat /\ J \in 0..rho /\ k \in Nat /\ l \in 0..J /\ l \in Nat
      /\ (l < J => k - 1 \in Nat) /\ J - j = y /\ j + y = J /\ lim.top \in Nat
  BY DEF DriftLimitsAllow
<1>1. <<j, J, Deleted(k)>> \in ok <=> k - 1 <= lim.top
  <2>1. Deleted(k) \in [ins : Nat, kept : BOOLEAN] /\ Left(Deleted(k)) = k
    BY <1>0 DEF Deleted, Left
  <2> HIDE DEF J, k
  <2> QED BY <1>0, <2>1 DEF TrellisOk
<1>2. l < J => (<<j, J, Passed(k - 1)>> \in ok <=> k - 1 <= lim.top)
  <2>1. l < J => Passed(k - 1) \in [ins : Nat, kept : BOOLEAN] /\ Left(Passed(k - 1)) = k
    BY <1>0 DEF Passed, Left
  <2> HIDE DEF J, k
  <2> QED BY <1>0, <2>1 DEF TrellisOk
<1>3. Step(j, tx, rx, J, Deleted(k)) = Power(Pval_i, k) * Pval_d
  BY DEF Step, Deleted
<1>4. Step(j, tx, rx, J, Passed(k - 1)) = Power(Pval_i, k - 1) * SentAs(tx, j, rx, J)
  BY DEF Step, Passed
<1>5. Ways(ok, j, tx, rx, J, l) =
        ValueIf(k - 1 <= lim.top, Power(Pval_i, k) * Pval_d)
          + ValueIf(l < J /\ k - 1 <= lim.top, Power(Pval_i, k - 1) * SentAs(tx, j, rx, J))
  <2>1. Ways(ok, j, tx, rx, J, l) =
          ValueIf(<<j, J, Deleted(k)>> \in ok, Step(j, tx, rx, J, Deleted(k)))
            + ValueIf(l < J /\ <<j, J, Passed(k - 1)>> \in ok, Step(j, tx, rx, J, Passed(k - 1)))
    BY DEF Ways
  <2> HIDE DEF ok, J, k
  <2> QED BY <1>1, <1>2, <1>3, <1>4, <2>1 DEF ValueIf
<1>6. CASE l = J
  <2>1. k = 0 /\ k - 1 <= lim.top /\ ~ (l < J)
    BY <1>0, <1>6
  <2>2. Power(Pval_i, k) = 1
    BY <2>1, PowerGrows, Weights
  <2>3. 1 * Pval_d + 0 = Pval_d
    BY Weights
  <2>4. Ways(ok, j, tx, rx, J, l) = Pval_d
    <3> HIDE DEF ok, J, k
    <3> QED BY <1>5, <2>1, <2>2, <2>3 DEF ValueIf
  <2> QED BY <1>6, <2>4
<1>7. CASE l # J
  <2>1. l < J /\ k - 1 \in Nat /\ (k - 1) + 1 = k
    BY <1>0, <1>7
  <2>2. SentAs(tx, j, rx, J) = IF tx[j] # rx[J] THEN Pval_te ELSE Pval_tc
    BY DEF SentAs
  <2>3. Rtable(tx[j] # rx[J], k - 1) =
          Power(Pval_i, k) * Pval_d + Power(Pval_i, k - 1) * SentAs(tx, j, rx, J)
    <3> HIDE DEF J, k
    <3> QED BY <2>1, <2>2, RtableCounts
  <2>4. Ways(ok, j, tx, rx, J, l) = ValueIf(k - 1 <= lim.top, Rtable(tx[j] # rx[J], k - 1))
    <3> HIDE DEF ok, J, k
    <3> QED BY <1>5, <2>1, <2>3 DEF ValueIf
  <2>5. j + y = J
    BY <1>0
  <2> QED BY <1>7, <2>4, <2>5
<1> QED BY <1>6, <1>7

(* A row of drifts that holds the totals after m symbols.                  *)
HoldsTotals(F, ok, m, tx, rx, rho, lim) ==
  \A a \in lim.min..lim.max : a + m \in 0..rho => F[a] = Total(ok, m, tx, rx, rho, a + m)

(* A row of the trellis that holds totals is followed by one that does.    *)
LEMMA TrellisStep ==
  ASSUME NEW n \in Nat, NEW tx, NEW rho \in Nat, NEW rx, HasLength(rx, rho),
         NEW lim, lim.min \in Int, lim.max \in Int, DriftLimitsAllow(lim), NEW j \in 1..n, NEW F \in DriftRow(lim),
         HoldsTotals(F, TrellisOk(n, lim), j - 1, tx, rx, rho, lim)
  PROVE  HoldsTotals(TrellisRow(tx, rx, lim, j, F), TrellisOk(n, lim), j, tx, rx, rho, lim)
<1> SUFFICES ASSUME NEW y \in Int, y \in lim.min..lim.max, y + j \in 0..rho
             PROVE  TrellisRow(tx, rx, lim, j, F)[y]
                      = Total(TrellisOk(n, lim), j, tx, rx, rho, y + j)
  BY DEF HoldsTotals, DriftLimitsAllow
<1> DEFINE ok == TrellisOk(n, lim)
           J == y + j
           m == j - 1
           T(l) == Total(ok, m, tx, rx, rho, l)
           W(l) == Ways(ok, j, tx, rx, J, l)
           h == Reaching(ok, m, tx, rx, rho, J)
           K == DriftsKept(lim, j, y)
           d == tx[j] # rx[j + y]
           g == Carried(F, d, y, K)
           below == 0..(J - 1)
           S == {l \in below : l - m \in K}
           b == [l \in S |-> l - m]
<1>0. /\ lim.min \in Int /\ lim.max \in Int /\ lim.top \in Int /\ y \in Int /\ j \in Nat
      /\ lim.min <= y /\ y <= lim.max
      /\ m \in Nat /\ m \in 0..n /\ m + 1 = j /\ J \in 0..rho /\ J \in Nat
      /\ J = y + j /\ m = j - 1
  BY DEF DriftLimitsAllow
<1>w. WaysByLength(TrellisOk(n, lim), tx, rx, lim, j, y)
  BY TrellisWays
<1>1. Numbers(h, 0..J) /\ Total(ok, j, tx, rx, rho, J) = Sum(h, 0..J)
  <2> HIDE DEF ok, J, m
  <2>1. Numbers(h, 0..J) /\ Total(ok, m + 1, tx, rx, rho, J) = Sum(h, 0..J)
    BY <1>0, TotalGrows
  <2> QED BY <1>0, <2>1
<1>2. ASSUME NEW l \in 0..J
      PROVE  h[l] = T(l) * W(l) /\ T(l) \in Nat
  <2>1. h[l] = T(l) * Ways(ok, m + 1, tx, rx, J, l)
    BY DEF Reaching
  <2>2. T(l) \in Nat
    <3> HIDE DEF ok, m
    <3> QED BY <1>0, PathsCount
  <2> HIDE DEF ok, J, m, h
  <2> QED BY <1>0, <2>1, <2>2
<1>3. W(J) = Pval_d
  <2>1. J \in 0..J
    BY <1>0
  <2> QED BY <1>w, <2>1 DEF WaysByLength
<1>4. ASSUME NEW l \in below
      PROVE  /\ l \in 0..J /\ l \in 0..rho
             /\ W(l) = ValueIf(y - (l - m) <= lim.top, Rtable(d, y - (l - m)))
             /\ (l - m) + m = l
             /\ l - m \in lim.min..lim.max => F[l - m] = T(l)
             /\ l - m \notin lim.min..lim.max => T(l) = 0
  <2>1. l \in Nat /\ l \in 0..J /\ l # J /\ l \in 0..rho /\ J - l - 1 = y - (l - m)
        /\ (l - m) + m = l
    BY <1>0
  <2>2. W(l) = ValueIf(J - l - 1 <= lim.top, Rtable(d, J - l - 1))
    BY <1>w, <2>1 DEF WaysByLength
  <2>3. l - m \in lim.min..lim.max => F[l - m] = T(l)
    <3> HIDE DEF ok, T
    <3> QED BY <2>1 DEF HoldsTotals, T, ok
  <2>4. l - m \notin lim.min..lim.max => T(l) = 0
    <3> HIDE DEF ok, m
    <3> QED BY <1>0, <2>1, TotalOutside DEF ok
  <2> HIDE DEF ok, T, W, d, J, m
  <2> QED BY <2>1, <2>2, <2>3, <2>4
<1>5. Sum(h, 0..J) = h[J] + Sum(h, below)
  <2>1. J \in 0..J /\ (0..J) \ {J} = below
    BY <1>0
  <2> DEFINE all == 0..J
  <2>2. Numbers(h, all) /\ J \in all /\ all \ {J} = below
    BY <1>1, <2>1
  <2> HIDE DEF all, h, below, J
  <2>3. Sum(h, all) = h[J] + Sum(h, all \ {J})
    BY <2>2, SumProperties
  <2> QED BY <2>2, <2>3 DEF all
<1>6. h[J] = ValueIf(y < lim.max, F[y + 1] * Pval_d)
  <2>1. h[J] = T(J) * Pval_d /\ T(J) \in Nat
    <3>1. J \in 0..J
      BY <1>0
    <3> HIDE DEF h, T, W, J
    <3> QED BY <1>2, <1>3, <3>1
  <2>2. CASE y < lim.max
    <3>1. y + 1 \in lim.min..lim.max /\ (y + 1) + m = J
      BY <1>0, <2>2
    <3>2. F[y + 1] = T(J)
      <4> HIDE DEF ok, T, J, m
      <4> QED BY <1>0, <3>1 DEF HoldsTotals, T, ok, m
    <3> HIDE DEF h, T, J
    <3> QED BY <2>1, <2>2, <3>2 DEF ValueIf
  <2>3. CASE ~ (y < lim.max)
    <3>1. J - m \notin lim.min..lim.max
      BY <1>0, <2>3
    <3>2. T(J) = 0
      <4> HIDE DEF ok, J, m
      <4> QED BY <1>0, <3>1, TotalOutside DEF ok
    <3>3. 0 * Pval_d = 0
      BY Weights
    <3> HIDE DEF h, T, J
    <3> QED BY <2>1, <2>3, <3>2, <3>3 DEF ValueIf
  <2> QED BY <2>2, <2>3
<1>7. Sum(h, below) = Sum(h, S)
  <2>1. Numbers(h, below) /\ S \subseteq below
    <3>1. below \subseteq 0..J
      BY <1>0
    <3> HIDE DEF h, J, below
    <3> QED BY <1>1, <3>1, NumbersSubset
  <2>2. ASSUME NEW l \in below \ S PROVE h[l] = 0
    <3>1. l \in below /\ l - m \notin K /\ h[l] = T(l) * W(l) /\ T(l) \in Nat
      <4>1. l \in below /\ l - m \notin K
        OBVIOUS
      <4>2. l \in 0..J
        BY <1>4, <4>1
      <4> HIDE DEF h, T, W, J, below, K, S, m
      <4> QED BY <1>2, <4>1, <4>2
    <3>2. l - m \notin lim.min..lim.max \/ ~ (y - (l - m) <= lim.top)
      <4>1. l - m \in Int /\ 1 - j <= l - m /\ l - m <= y
        BY <1>0, <3>1
      <4>2. y - (l - m) <= lim.top => y - lim.top <= l - m
        BY <1>0, <4>1
      <4> HIDE DEF m, below
      <4> QED BY <1>0, <3>1, <4>1, <4>2 DEF DriftsKept
    <3>3. CASE l - m \notin lim.min..lim.max
      <4>1. T(l) = 0
        BY <1>4, <3>1, <3>3
      <4>2. W(l) \in Nat
        <5>1. l \in 0..J
          BY <1>4, <3>1
        <5> HIDE DEF ok, J
        <5> QED BY <1>0, <5>1, WaysCount
      <4>3. 0 * W(l) = 0
        <5> HIDE DEF W
        <5> QED BY <4>2
      <4> HIDE DEF T, W, h
      <4> QED BY <3>1, <4>1, <4>3
    <3>4. CASE ~ (y - (l - m) <= lim.top)
      <4>1. W(l) = ValueIf(y - (l - m) <= lim.top, Rtable(d, y - (l - m)))
        BY <1>4, <3>1
      <4>2. W(l) = 0
        <5> HIDE DEF W, d, m
        <5> QED BY <3>4, <4>1 DEF ValueIf
      <4> HIDE DEF T, W, h
      <4> QED BY <3>1, <4>2
    <3> QED BY <3>2, <3>3, <3>4
  <2> HIDE DEF h, below, S
  <2> QED BY <2>1, <2>2, SumWhere
<1>8. Sum(h, S) = Sum(g, K)
  <2>1. \A l \in S : b[l] = l - m /\ l - m \in K /\ l \in below
    OBVIOUS
  <2>2. ASSUME NEW l \in S PROVE b[l] \in K /\ h[l] = g[b[l]]
    <3>1. b[l] = l - m /\ l - m \in K /\ l \in below
      BY <2>1
    <3>2. l - m \in lim.min..lim.max /\ y - (l - m) <= lim.top
      <4>1. l - m \in lim.min..lim.max /\ y - lim.top <= l - m
        BY <3>1 DEF DriftsKept
      <4> HIDE DEF m
      <4> QED BY <1>0, <4>1
    <3>3. F[l - m] = T(l) /\ W(l) = Rtable(d, y - (l - m))
      <4>1. /\ W(l) = ValueIf(y - (l - m) <= lim.top, Rtable(d, y - (l - m)))
            /\ l - m \in lim.min..lim.max => F[l - m] = T(l)
        BY <1>4, <3>1
      <4> HIDE DEF T, W, d, m
      <4> QED BY <3>2, <4>1 DEF ValueIf
    <3>4. h[l] = T(l) * W(l)
      <4>1. l \in 0..J
        BY <1>4, <3>1
      <4> HIDE DEF h, T, W, J
      <4> QED BY <1>2, <4>1
    <3>5. g[l - m] = F[l - m] * Rtable(d, y - (l - m))
      <4> HIDE DEF m, d, K
      <4> QED BY <3>1 DEF Carried
    <3> HIDE DEF h, g, T, W, d, m, b, K
    <3> QED BY <3>1, <3>3, <3>4, <3>5
  <2>3. \A k, l \in S : b[k] = b[l] => k = l
    <3>1. \A l \in S : b[l] = l - m /\ l \in Int
      BY <2>1
    <3> HIDE DEF S, b
    <3> QED BY <1>0, <3>1
  <2>4. ASSUME NEW a \in K PROVE \E l \in S : b[l] = a
    <3>1. a \in Int /\ 1 - j <= a /\ a <= y
      BY <1>0 DEF DriftsKept
    <3>2. a + m \in below /\ (a + m) - m = a
      BY <1>0, <3>1
    <3>3. a + m \in S
      <4> HIDE DEF below, K, m
      <4> QED BY <3>2
    <3> HIDE DEF S, K
    <3> QED BY <3>2, <3>3
  <2>5. Numbers(g, K)
    <3> HIDE DEF d
    <3> QED BY <1>0, KeptSums
  <2>6. IsFiniteSet(S)
    <3>1. IsFiniteSet(below)
      BY <1>0, FS_Interval
    <3>2. S \subseteq below
      OBVIOUS
    <3> HIDE DEF S, below
    <3> QED BY <3>1, <3>2, FS_Subset
  <2> HIDE DEF S, K, h, g, b, below, J, m, d, ok
  <2>7. Renames(b, S, K, h, g)
    BY <2>2, <2>3, <2>4 DEF Renames
  <2>8. IsFiniteSet(S) /\ Numbers(g, K)
    BY <2>5, <2>6
  <2> QED BY <2>7, <2>8, SumRenamed
<1>9. TrellisSum(F, d, y, K) = Sum(g, K)
  <2> HIDE DEF d
  <2> QED BY <1>0, KeptSums
<1>10. TrellisRow(tx, rx, lim, j, F)[y]
         = ValueIf(y < lim.max, F[y + 1] * Pval_d) + TrellisSum(F, d, y, K)
  BY <1>0, TrellisCell
<1>11. TrellisRow(tx, rx, lim, j, F)[y] = Total(ok, j, tx, rx, rho, J)
  <2> HIDE DEF ok, J, h, K, d, g, below, S
  <2> QED BY <1>1, <1>5, <1>6, <1>7, <1>8, <1>9, <1>10
<1> QED BY <1>11

TrellisMade(tx, rx, lim, n) ==
  LET rows[j \in 0..n] ==
        IF j = 0 THEN [x \in lim.min..lim.max |-> ValueIf(x = 0, 1)]
        ELSE TrellisRow(tx, rx, lim, j, rows[j - 1])
  IN  rows

(* receive_trellis returns its last row.                                   *)
LEMMA TrellisIsRows ==
  ASSUME NEW tx, NEW rx, NEW lim
  PROVE  ReceiveTrellis(tx, rx, lim) = TrellisMade(tx, rx, lim, Len(tx))[Len(tx)]
BY DEF ReceiveTrellis, TrellisMade

TrellisRows(rows, tx, rx, lim, n) ==
  /\ rows[0] = [x \in lim.min..lim.max |-> ValueIf(x = 0, 1)]
  /\ \A i \in 0..n : rows[i] \in DriftRow(lim)
  /\ \A i \in 1..n : rows[i] = TrellisRow(tx, rx, lim, i, rows[i - 1])

(* Its rows follow from one another.                                       *)
LEMMA TrellisRowsMade ==
  ASSUME NEW n \in Nat, NEW tx, NEW rho \in Nat, NEW rx, HasLength(rx, rho), NEW lim,
         DriftLimitsAllow(lim)
  PROVE  TrellisRows(TrellisMade(tx, rx, lim, n), tx, rx, lim, n)
<1> DEFINE A == DriftRow(lim)
           first == [x \in lim.min..lim.max |-> ValueIf(x = 0, 1)]
           Def(r) == [i \in 0..n |->
                        IF i = 0 THEN first ELSE TrellisRow(tx, rx, lim, i, r[i - 1])]
           rows == CHOOSE r : r = Def(r)
           h == [x \in Nat \X A |-> TrellisRow(tx, rx, lim, x[1], x[2])]
<1>1. TrellisMade(tx, rx, lim, n) = rows
  BY DEF TrellisMade
<1>2. first \in A
  BY DEF DriftRow, ValueIf
<1>3. \A i \in Nat, F \in A : TrellisRow(tx, rx, lim, i, F) \in A
  <2> HIDE DEF A
  <2> QED BY TrellisRowCounts DEF A
<1> HIDE DEF A, first
<1>4. h \in [Nat \X A -> A]
  BY <1>3
<1>5. PICK g \in [0..n -> A] : g[0] = first /\ \A i \in 1..n : g[i] = h[<<i, g[i - 1]>>]
  <2> HIDE DEF h
  <2>1. Recursion(A, first, h, n) # {}
    BY <1>2, <1>4, RecursionExists
  <2> QED BY <2>1 DEF Recursion
<1>6. g = Def(g)
  <2>1. ASSUME NEW i \in 1..n PROVE g[i] = TrellisRow(tx, rx, lim, i, g[i - 1])
    <3>1. i \in Nat /\ i - 1 \in 0..n
      OBVIOUS
    <3>2. <<i, g[i - 1]>> \in Nat \X A
      BY <3>1
    <3> QED BY <1>5, <3>2
  <2>2. \A i \in 0..n : i # 0 => i \in 1..n
    OBVIOUS
  <2>3. \A i \in 0..n : g[i] = IF i = 0 THEN first ELSE TrellisRow(tx, rx, lim, i, g[i - 1])
    <3> HIDE DEF h
    <3> QED BY <1>5, <2>1, <2>2
  <2> QED BY <2>3
<1>7. rows = Def(rows)
  <2> HIDE DEF Def
  <2> QED BY <1>6
<1>8. \A i \in 0..n : rows[i] = IF i = 0 THEN first
                                ELSE TrellisRow(tx, rx, lim, i, rows[i - 1])
  <2> HIDE DEF rows
  <2> QED BY <1>7
<1> HIDE DEF rows
<1>9. /\ rows[0] = first
      /\ \A i \in 1..n : rows[i] = TrellisRow(tx, rx, lim, i, rows[i - 1])
  <2>1. 0 \in 0..n /\ \A i \in 1..n : i \in 0..n /\ i # 0
    OBVIOUS
  <2> QED BY <1>8, <2>1
<1>10. \A i \in 0..n : rows[i] \in A
  <2> DEFINE S == {i \in 0..n : rows[i] \in A}
  <2>1. 0 \in S
    BY <1>2, <1>9
  <2>2. ASSUME NEW i \in 1..n, i - 1 \in S PROVE i \in S
    <3>1. i \in Nat /\ i \in 0..n
      OBVIOUS
    <3> QED BY <1>3, <1>9, <2>2, <3>1
  <2> HIDE DEF S
  <2>3. \A i \in 0..n : i \in S
    BY <2>1, <2>2, IntervalInduction
  <2> QED BY <2>3 DEF S
<1> QED BY <1>1, <1>9, <1>10 DEF TrellisRows, A, first

(* The last row holds the weight of all events whose drifts at the ends of *)
(* symbols keep to the limits.                                             *)
LEMMA TrellisIsExact ==
  ASSUME NEW n \in Nat, NEW tx, HasLength(tx, n), NEW rho \in Nat, NEW rx, HasLength(rx, rho),
         NEW lim, lim.min \in Int, lim.max \in Int, DriftLimitsAllow(lim)
  PROVE  TrellisExact(tx, rx, lim)
<1> SUFFICES ASSUME NEW x \in DriftsAsked(tx, rx, lim)
             PROVE  ReceiveTrellis(tx, rx, lim)[x] = TrellisLikelihood(tx, rx, x, lim)
  BY DEF TrellisExact, TrellisLikelihood
<1>a. x \in Int /\ x \in lim.min..lim.max /\ x + n \in 0..rho
  BY DEF DriftsAsked, HasLength
<1> DEFINE rows == TrellisMade(tx, rx, lim, n)
           ok == TrellisOk(n, lim)
           Right(i) == HoldsTotals(rows[i], ok, i, tx, rx, rho, lim)
<1>0. TrellisRows(rows, tx, rx, lim, n)
  BY TrellisRowsMade
<1>1. ReceiveTrellis(tx, rx, lim)[x] = rows[n][x]
  BY TrellisIsRows DEF HasLength
<1>2. TrellisLikelihood(tx, rx, x, lim) = Total(ok, n, tx, rx, rho, n + x)
  <2>1. \A e \in Events(n, rho) :
          InTrellis(e, lim) <=> \A t \in 1..n : <<t, Length(e, t), e[t]>> \in ok
    BY InTrellisByStep
  <2> HIDE DEF ok
  <2>2. Len(tx) = n /\ Len(rx) = rho
    BY DEF HasLength
  <2> QED BY <1>a, <2>1, <2>2, TrellisLikelihoodIsTotal
<1> DEFINE Is == {i \in Nat : i <= n => Right(i)}
<1>3. 0 \in Is
  <2>1. ASSUME NEW a \in lim.min..lim.max, a + 0 \in 0..rho
        PROVE  rows[0][a] = Total(ok, 0, tx, rx, rho, a + 0)
    <3>1. rows[0][a] = ValueIf(a = 0, 1)
      <4> HIDE DEF rows
      <4> QED BY <1>0 DEF TrellisRows
    <3>2. a + 0 = a
      BY DEF DriftLimitsAllow
    <3> HIDE DEF rows, ok
    <3>3. Total(ok, 0, tx, rx, rho, 0) = 1 /\ \A l : l # 0 => Total(ok, 0, tx, rx, rho, l) = 0
      BY TotalStarts
    <3>4. Total(ok, 0, tx, rx, rho, a) = ValueIf(a = 0, 1)
      BY <3>3 DEF ValueIf
    <3> QED BY <3>1, <3>2, <3>4
  <2> HIDE DEF rows, ok
  <2> QED BY <2>1 DEF HoldsTotals, DriftLimitsAllow
<1>4. ASSUME NEW i \in Nat, i \in Is PROVE i + 1 \in Is
  <2> SUFFICES ASSUME i + 1 <= n PROVE Right(i + 1)
    OBVIOUS
  <2>1. i + 1 \in 1..n /\ (i + 1) - 1 = i /\ i <= n /\ i \in 0..n
    OBVIOUS
  <2>2. Right(i)
    BY <1>4, <2>1
  <2>3. rows[i] \in DriftRow(lim) /\ rows[i + 1] = TrellisRow(tx, rx, lim, i + 1, rows[i])
    <3> HIDE DEF rows
    <3> QED BY <1>0, <2>1 DEF TrellisRows
  <2> DEFINE j == i + 1
             F == rows[i]
  <2>4. j \in 1..n /\ j - 1 = i /\ F \in DriftRow(lim)
    BY <2>1, <2>3
  <2>5. HoldsTotals(F, TrellisOk(n, lim), j - 1, tx, rx, rho, lim)
    <3> HIDE DEF rows, j
    <3> QED BY <2>2, <2>4
  <2> HIDE DEF j, F
  <2>6. HoldsTotals(TrellisRow(tx, rx, lim, j, F), TrellisOk(n, lim), j, tx, rx, rho, lim)
    BY <2>4, <2>5, TrellisStep
  <2> HIDE DEF rows
  <2> QED BY <2>3, <2>6 DEF j, F
<1>5. Right(n)
  <2>1. \A i \in Nat : i \in Is
    <3> HIDE DEF Is
    <3> QED BY <1>3, <1>4, SetInduction
  <2> HIDE DEF Right
  <2> QED BY <2>1
<1>6. rows[n][x] = Total(ok, n, tx, rx, rho, x + n)
  <2> HIDE DEF rows, ok
  <2> QED BY <1>5, <1>a DEF HoldsTotals
<1>7. n + x = x + n
  BY <1>a
<1> QED BY <1>1, <1>2, <1>6, <1>7

(***************************************************************************)
(* get_drift, as a function of the state that it reads                     *)
(***************************************************************************)
DriftOf(ins, tx, t) ==
  LET d[i \in 0..t] ==
        IF i = 0 THEN 0
        ELSE d[i - 1] + ins[i] - (IF tx[i] THEN 0 ELSE 1)
  IN  d[t]

LEMMA DriftIsOfState == \A t : Drift(t) = DriftOf(state_ins, state_tx, t)
BY DEF Drift, DriftOf

LEMMA DriftSums ==
  ASSUME NEW n \in Nat, NEW ins, NEW tx,
         \A i \in 1..n : ins[i] \in Nat
  PROVE  /\ DriftOf(ins, tx, 0) = 0
         /\ \A t \in 0..n : DriftOf(ins, tx, t) \in Int
         /\ \A t \in 1..n : DriftOf(ins, tx, t) =
              DriftOf(ins, tx, t - 1) + ins[t] - (IF tx[t] THEN 0 ELSE 1)
<1>1. PICK g \in [0..n -> Int] :
        /\ g[0] = 0
        /\ \A i \in 1..n : g[i] = g[i - 1] + ins[i] - (IF tx[i] THEN 0 ELSE 1)
  <2> DEFINE h == [x \in Nat \X Int |->
                     IF x[1] \in 1..n THEN x[2] + ins[x[1]] - (IF tx[x[1]] THEN 0 ELSE 1)
                     ELSE 0]
  <2>1. h \in [Nat \X Int -> Int]
    <3>1. ASSUME NEW x \in Nat \X Int, x[1] \in 1..n
          PROVE  x[2] + ins[x[1]] - (IF tx[x[1]] THEN 0 ELSE 1) \in Int
      BY <3>1
    <3> QED BY <3>1
  <2>2. PICK g \in [0..n -> Int] :
          g[0] = 0 /\ \A i \in 1..n : g[i] = h[<<i, g[i - 1]>>]
    <3> HIDE DEF h
    <3>1. Recursion(Int, 0, h, n) # {}
      <4>1. 0 \in Int
        OBVIOUS
      <4> QED BY <2>1, <4>1, RecursionExists
    <3> QED BY <3>1 DEF Recursion
  <2>3. ASSUME NEW i \in 1..n
        PROVE  g[i] = g[i - 1] + ins[i] - (IF tx[i] THEN 0 ELSE 1)
    <3>1. <<i, g[i - 1]>> \in Nat \X Int
      OBVIOUS
    <3>2. h[<<i, g[i - 1]>>] = g[i - 1] + ins[i] - (IF tx[i] THEN 0 ELSE 1)
      BY <3>1
    <3> QED BY <2>2, <3>2
  <2> QED BY <2>2, <2>3
<1>2. ASSUME NEW t \in 0..n
      PROVE  DriftOf(ins, tx, t) = g[t]
  <2> DEFINE Def(f) == [i \in 0..t |->
                         IF i = 0 THEN 0
                         ELSE f[i - 1] + ins[i] - (IF tx[i] THEN 0 ELSE 1)]
             d == CHOOSE f : f = Def(f)
             S == {i \in Nat : i \in 0..t => d[i] = g[i]}
  <2>1. [i \in 0..t |-> g[i]] = Def([i \in 0..t |-> g[i]])
    <3>1. \A i \in 0..t : i \in 0..n /\ (i # 0 => i - 1 \in 0..t /\ i \in 1..n)
      OBVIOUS
    <3>2. ASSUME NEW i \in 0..t
          PROVE  g[i] = IF i = 0 THEN 0
                        ELSE [j \in 0..t |-> g[j]][i - 1] + ins[i] - (IF tx[i] THEN 0 ELSE 1)
      BY <1>1, <3>1
    <3> QED BY <3>2
  <2>2. d = Def(d)
    <3> HIDE DEF Def
    <3> QED BY <2>1
  <2> HIDE DEF d
  <2>3. 0 \in S
    BY <1>1, <2>2
  <2>4. ASSUME NEW i \in Nat, i \in S
        PROVE  i + 1 \in S
    <3> SUFFICES ASSUME i + 1 \in 0..t
                 PROVE  d[i + 1] = g[i + 1]
      OBVIOUS
    <3>1. /\ i \in 0..t /\ i + 1 # 0 /\ i + 1 \in 1..n /\ (i + 1) - 1 = i
      OBVIOUS
    <3>2. d[i + 1] = d[i] + ins[i + 1] - (IF tx[i + 1] THEN 0 ELSE 1)
      BY <2>2, <3>1
    <3> QED BY <1>1, <2>4, <3>1, <3>2
  <2>5. t \in S
    <3> HIDE DEF S
    <3>1. \A i \in Nat : i \in S
      BY <2>3, <2>4, SetInduction
    <3> QED BY <3>1
  <2>6. DriftOf(ins, tx, t) = d[t]
    BY DEF DriftOf, d
  <2> QED BY <2>5, <2>6
<1>3. \A t \in 1..n : t \in 0..n /\ t - 1 \in 0..n
  OBVIOUS
<1> QED BY <1>1, <1>2, <1>3

(***************************************************************************)
(* The received sequence, as a function of the state that it reads         *)
(***************************************************************************)
ReceivedOf(ins, tx, n) ==
  LET r[i \in 0..n] ==
        IF i = 0 THEN <<>>
        ELSE r[i - 1] \o [k \in 1..ins[i] |-> 0]
               \o (IF tx[i] THEN <<i>> ELSE <<>>)
  IN  r[n]

LEMMA ReceivedIsOfState == ReceivedSymbols = ReceivedOf(state_ins, state_tx, tau)
BY DEF ReceivedSymbols, ReceivedOf

(* What a symbol appends to what was received before.                      *)
Own(passed, i) == IF passed THEN <<i>> ELSE <<>>

Appended(before, m, own) == before \o [k \in 1..m |-> 0] \o own

LEMMA OwnSymbol ==
  ASSUME NEW i \in Nat, NEW passed \in BOOLEAN
  PROVE  /\ Own(passed, i) \in Seq(Nat)
         /\ Len(Own(passed, i)) = IF passed THEN 1 ELSE 0
         /\ passed => Own(passed, i)[1] = i
BY DEF Own

LEMMA SymbolAppends ==
  ASSUME NEW before \in Seq(Nat), NEW m \in Nat, NEW own \in Seq(Nat)
  PROVE  /\ Appended(before, m, own) \in Seq(Nat)
         /\ Len(Appended(before, m, own)) = Len(before) + m + Len(own)
         /\ \A j \in 1..Len(before) : Appended(before, m, own)[j] = before[j]
         /\ \A j \in 1..Len(own) : Appended(before, m, own)[Len(before) + m + j] = own[j]
<1> DEFINE made == [k \in 1..m |-> 0]
           first == before \o made
<1>1. made \in Seq(Nat) /\ Len(made) = m
  OBVIOUS
<1> HIDE DEF made
<1>2. /\ first \in Seq(Nat) /\ Len(first) = Len(before) + m
      /\ \A j \in 1..Len(before) : first[j] = before[j]
  <2>1. /\ before \o made \in Seq(Nat)
        /\ Len(before \o made) = Len(before) + Len(made)
        /\ \A j \in 1 .. Len(before) + Len(made) :
             (before \o made)[j] = IF j <= Len(before) THEN before[j] ELSE made[j - Len(before)]
    BY <1>1, ConcatProperties
  <2> QED BY <1>1, <2>1
<1> HIDE DEF first
<1>3. /\ first \o own \in Seq(Nat)
      /\ Len(first \o own) = Len(first) + Len(own)
      /\ \A j \in 1 .. Len(first) + Len(own) :
           (first \o own)[j] = IF j <= Len(first) THEN first[j] ELSE own[j - Len(first)]
  BY <1>2, ConcatProperties
<1>4. \A j \in 1..Len(before) : (first \o own)[j] = before[j]
  BY <1>1, <1>2, <1>3
<1>5. \A j \in 1..Len(own) : (first \o own)[Len(before) + m + j] = own[j]
  BY <1>2, <1>3
<1> QED BY <1>2, <1>3, <1>4, <1>5 DEF first, made, Appended

LEMMA ReceivedLocated ==
  ASSUME NEW n \in Nat, NEW ins, NEW tx,
         \A i \in 1..n : ins[i] \in Nat /\ tx[i] \in BOOLEAN
  PROVE  /\ ReceivedOf(ins, tx, n) \in Seq(Nat)
         /\ Len(ReceivedOf(ins, tx, n)) = n + DriftOf(ins, tx, n)
         /\ \A t \in 1..n :
              tx[t] => ReceivedOf(ins, tx, n)[t + DriftOf(ins, tx, t - 1) + ins[t]] = t
<1> DEFINE Def(f) == [i \in 0..n |->
                        IF i = 0 THEN <<>>
                        ELSE Appended(f[i - 1], ins[i], Own(tx[i], i))]
           r == CHOOSE f : f = Def(f)
           Drifted(t) == DriftOf(ins, tx, t)
           S == {i \in Nat : i \in 0..n =>
                   /\ r[i] \in Seq(Nat) /\ Len(r[i]) = i + Drifted(i)
                   /\ \A t \in 1..i :
                        tx[t] => /\ t + Drifted(t - 1) + ins[t] \in 1..Len(r[i])
                                 /\ r[i][t + Drifted(t - 1) + ins[t]] = t}
<1>1. \E f : f = Def(f)
  <2> DEFINE h == [x \in Nat \X Seq(Nat) |->
                     IF x[1] \in 1..n
                     THEN Appended(x[2], ins[x[1]], Own(tx[x[1]], x[1]))
                     ELSE <<>>]
  <2>1. h \in [Nat \X Seq(Nat) -> Seq(Nat)]
    <3>1. ASSUME NEW x \in Nat \X Seq(Nat), x[1] \in 1..n
          PROVE  Appended(x[2], ins[x[1]], Own(tx[x[1]], x[1])) \in Seq(Nat)
      <4>1. x[2] \in Seq(Nat) /\ x[1] \in Nat /\ ins[x[1]] \in Nat /\ tx[x[1]] \in BOOLEAN
        BY <3>1
      <4> QED BY <4>1, OwnSymbol, SymbolAppends
    <3> QED BY <3>1
  <2>2. PICK g \in [0..n -> Seq(Nat)] :
          g[0] = <<>> /\ \A i \in 1..n : g[i] = h[<<i, g[i - 1]>>]
    <3> HIDE DEF h, Def, r, S
    <3>1. Recursion(Seq(Nat), <<>>, h, n) # {}
      <4>1. <<>> \in Seq(Nat)
        OBVIOUS
      <4> QED BY <2>1, <4>1, RecursionExists
    <3> QED BY <3>1 DEF Recursion
  <2>3. ASSUME NEW i \in 1..n
        PROVE  g[i] = Appended(g[i - 1], ins[i], Own(tx[i], i))
    <3>1. <<i, g[i - 1]>> \in Nat \X Seq(Nat)
      OBVIOUS
    <3>2. h[<<i, g[i - 1]>>] =
            Appended(g[i - 1], ins[i], Own(tx[i], i))
      BY <3>1
    <3> QED BY <2>2, <3>2
  <2> DEFINE G(i) == IF i = 0 THEN <<>>
                     ELSE Appended(g[i - 1], ins[i], Own(tx[i], i))
  <2>4. g = Def(g)
    <3>1. \A i \in 0..n : g[i] = G(i)
      BY <2>2, <2>3
    <3> HIDE DEF G
    <3>2. g = [i \in 0..n |-> G(i)]
      BY <3>1
    <3> QED BY <3>2 DEF G
  <2> QED BY <2>4
<1>2. r = Def(r)
  <2> HIDE DEF Def
  <2> QED BY <1>1
<1> HIDE DEF r
<1>3. /\ Drifted(0) = 0
      /\ \A t \in 0..n : Drifted(t) \in Int
      /\ \A t \in 1..n :
           Drifted(t) = Drifted(t - 1) + ins[t] - (IF tx[t] THEN 0 ELSE 1)
  BY DriftSums
<1> HIDE DEF Drifted
<1>4. 0 \in S
  <2>1. r[0] = <<>> /\ <<>> \in Seq(Nat) /\ Len(<<>>) = 0 /\ 1..0 = {}
    BY <1>2
  <2> SUFFICES /\ r[0] \in Seq(Nat) /\ Len(r[0]) = 0 + Drifted(0)
               /\ 1..0 = {}
    OBVIOUS
  <2> QED BY <1>3, <2>1
<1>5. ASSUME NEW i \in Nat, i \in S
      PROVE  i + 1 \in S
  <2> SUFFICES ASSUME i + 1 \in 0..n
               PROVE  /\ r[i + 1] \in Seq(Nat) /\ Len(r[i + 1]) = i + 1 + Drifted(i + 1)
                      /\ \A t \in 1..i + 1 :
                           tx[t] => /\ t + Drifted(t - 1) + ins[t] \in 1..Len(r[i + 1])
                                    /\ r[i + 1][t + Drifted(t - 1) + ins[t]] = t
    OBVIOUS
  <2> DEFINE m == ins[i + 1]
             passed == tx[i + 1]
  <2>1. /\ i \in 0..n /\ i + 1 \in 1..n /\ i + 1 # 0 /\ (i + 1) - 1 = i
        /\ m \in Nat /\ passed \in BOOLEAN
    OBVIOUS
  <2>2. r[i + 1] = Appended(r[i], m, Own(passed, i + 1))
    BY <1>2, <2>1
  <2>3. /\ r[i] \in Seq(Nat) /\ Len(r[i]) = i + Drifted(i)
        /\ \A t \in 1..i :
             tx[t] => /\ t + Drifted(t - 1) + ins[t] \in 1..Len(r[i])
                      /\ r[i][t + Drifted(t - 1) + ins[t]] = t
    BY <1>5, <2>1
  <2> HIDE DEF m, passed, S
  <2>4. /\ r[i + 1] \in Seq(Nat)
        /\ Len(r[i + 1]) = Len(r[i]) + m + (IF passed THEN 1 ELSE 0)
        /\ \A j \in 1..Len(r[i]) : r[i + 1][j] = r[i][j]
        /\ passed => r[i + 1][Len(r[i]) + m + 1] = i + 1
    <3> DEFINE before == r[i]
               own == Own(passed, i + 1)
    <3>1. /\ own \in Seq(Nat) /\ Len(own) = IF passed THEN 1 ELSE 0
          /\ passed => own[1] = i + 1
      <4>1. i + 1 \in Nat
        OBVIOUS
      <4> QED BY <2>1, <4>1, OwnSymbol
    <3>2. before \in Seq(Nat) /\ m \in Nat /\ r[i + 1] = Appended(before, m, own)
      BY <2>1, <2>2, <2>3
    <3> HIDE DEF before, own
    <3>3. /\ Appended(before, m, own) \in Seq(Nat)
          /\ Len(Appended(before, m, own)) = Len(before) + m + Len(own)
          /\ \A j \in 1..Len(before) : Appended(before, m, own)[j] = before[j]
          /\ \A j \in 1..Len(own) : Appended(before, m, own)[Len(before) + m + j] = own[j]
      BY <3>1, <3>2, SymbolAppends
    <3>4. passed => Appended(before, m, own)[Len(before) + m + 1] = i + 1
      BY <3>1, <3>3
    <3> QED BY <3>1, <3>2, <3>3, <3>4 DEF before
  <2>5. /\ Drifted(i + 1) = Drifted(i) + m - (IF passed THEN 0 ELSE 1)
        /\ Drifted(i) \in Int /\ Drifted(i + 1) \in Int
    BY <1>3, <2>1 DEF m, passed
  <2>6. Len(r[i + 1]) = i + 1 + Drifted(i + 1) /\ Len(r[i]) \in Nat /\ Len(r[i + 1]) \in Nat
    <3>1. Len(r[i]) \in Nat /\ Len(r[i + 1]) \in Nat
      BY <2>3, <2>4
    <3>2. CASE passed
      <4>1. Len(r[i + 1]) = i + Drifted(i) + m + 1 /\ Drifted(i + 1) = Drifted(i) + m - 0
        BY <2>3, <2>4, <2>5, <3>2
      <4> QED BY <2>1, <2>5, <3>1, <4>1
    <3>3. CASE ~ passed
      <4>1. Len(r[i + 1]) = i + Drifted(i) + m + 0 /\ Drifted(i + 1) = Drifted(i) + m - 1
        BY <2>3, <2>4, <2>5, <3>3
      <4> QED BY <2>1, <2>5, <3>1, <4>1
    <3> QED BY <3>1, <3>2, <3>3
  <2>7. ASSUME NEW t \in 1..i + 1, tx[t]
        PROVE  /\ t + Drifted(t - 1) + ins[t] \in 1..Len(r[i + 1])
               /\ r[i + 1][t + Drifted(t - 1) + ins[t]] = t
    <3>1. CASE t \in 1..i
      <4>1. /\ t + Drifted(t - 1) + ins[t] \in 1..Len(r[i])
            /\ r[i][t + Drifted(t - 1) + ins[t]] = t
        BY <2>3, <2>7, <3>1
      <4>2. Len(r[i]) <= Len(r[i + 1])
        <5>1. PICK one \in {0, 1} : Len(r[i + 1]) = Len(r[i]) + m + one
          BY <2>4
        <5> QED BY <2>1, <2>6, <5>1
      <4>3. \A j \in 1..Len(r[i]) : j \in 1..Len(r[i + 1])
        BY <2>6, <4>2
      <4> QED BY <2>4, <4>1, <4>3
    <3>2. CASE t = i + 1
      <4>1. passed /\ t - 1 = i /\ ins[t] = m
        BY <2>7, <3>2 DEF passed, m
      <4>2. t + Drifted(t - 1) + ins[t] = Len(r[i]) + m + 1
        BY <2>1, <2>3, <2>5, <3>2, <4>1
      <4>3. Len(r[i]) + m + 1 \in 1..Len(r[i + 1])
        <5>1. Len(r[i + 1]) = Len(r[i]) + m + 1
          BY <2>4, <4>1
        <5> QED BY <2>1, <2>6, <5>1
      <4> QED BY <2>4, <3>2, <4>1, <4>2, <4>3
    <3> QED BY <3>1, <3>2
  <2> QED BY <2>4, <2>6, <2>7
<1>6. n \in S
  <2> HIDE DEF S
  <2>1. \A i \in Nat : i \in S
    BY <1>4, <1>5, SetInduction
  <2> QED BY <2>1
<1>7. ReceivedOf(ins, tx, n) = r[n]
  BY DEF ReceivedOf, r, Appended, Own
<1> QED BY <1>6, <1>7 DEF Drifted

(***************************************************************************)
(* The inductive invariant                                                 *)
(***************************************************************************)

(* Of the insertions before a symbol that is not complete, there is an     *)
(* entry once one happened.                                                *)
EventsInv ==
  /\ channel \in Qids \cup Markov
  /\ tau \in Nat \ {0}
  /\ state_ins \in Seq(Nat) /\ state_tx \in Seq(BOOLEAN)
  /\ Sent <= tau
  /\ Len(state_ins) = Sent \/ (Sent < tau /\ Len(state_ins) = Sent + 1)
  /\ Z \in Seq(Int)
  /\ output # <<>> => (channel.kind = "qids" => Sent = tau /\ output = ReceivedSymbols)

(* With both caps, the insertion in progress has room.                     *)
Capped ==
  channel.kind = "qids" /\ channel.tx_Scap /\ channel.tx_Icap /\ channel.Icap = 1

CapInv ==
  Capped =>
    /\ \A t \in 0..Sent :
         DriftOf(state_ins, state_tx, t) \in - channel.Scap..channel.Scap
    /\ \/ Inserted = 0
       \/ Inserted = 1 /\ DriftOf(state_ins, state_tx, Sent) < channel.Scap

ChannelInv == EventsInv /\ CapInv /\ (channel.kind # "qids" => DriftWithinLimits)

LEMMA ChannelKinds ==
  ASSUME EventsInv
  PROVE  IF channel.kind = "qids"
         THEN channel \in Qids /\ channel.Icap \in Nat /\ channel.Scap \in Nat
         ELSE /\ channel \in Markov /\ channel.kind \in {"bpmr", "dids"}
              /\ channel.Zmin \in Int /\ channel.Zmin <= 0 /\ channel.Zmax \in Nat
BY ChannelAssumption DEF EventsInv, Qids, Markov

LEMMA EventTypes ==
  ASSUME EventsInv
  PROVE  /\ Sent \in Nat /\ Inserted \in Nat
         /\ \A i \in 1..Sent : state_ins[i] \in Nat /\ state_tx[i] \in BOOLEAN
         /\ \A t \in 0..Sent : DriftOf(state_ins, state_tx, t) \in Int
         /\ DriftOf(state_ins, state_tx, 0) = 0
<1>1. /\ Sent \in Nat /\ Inserted \in Nat
      /\ \A i \in 1..Sent : state_ins[i] \in Nat /\ state_tx[i] \in BOOLEAN
  BY DEF EventsInv, Sent, Inserted
<1> HIDE DEF Sent
<1> QED BY <1>1, DriftSums

LEMMA ChannelInitInv ==
  ASSUME ChannelInit
  PROVE  ChannelInv
<1>1. /\ Len(state_ins) = 0 /\ Sent = 0 /\ Inserted = 0 /\ Uses = 0
      /\ state_ins \in Seq(Nat) /\ state_tx \in Seq(BOOLEAN) /\ Z \in Seq(Int)
  BY DEF ChannelInit, Sent, Inserted, Uses
<1>2. EventsInv
  BY <1>1, ChannelAssumption DEF ChannelInit, EventsInv
<1>3. CapInv
  <2> SUFFICES ASSUME Capped
               PROVE  \A t \in 0..0 : DriftOf(state_ins, state_tx, t)
                                        \in - channel.Scap..channel.Scap
    BY <1>1 DEF CapInv
  <2>1. DriftOf(state_ins, state_tx, 0) = 0 /\ channel.Scap \in Nat
    BY <1>2, EventTypes, ChannelKinds DEF Capped
  <2> QED BY <2>1
<1>4. channel.kind # "qids" => DriftWithinLimits
  BY <1>1 DEF DriftWithinLimits
<1> QED BY <1>2, <1>3, <1>4 DEF ChannelInv

(* Drifts up to a symbol depend on the events up to it.                    *)
SameEvents(n, ins, tx, ins2, tx2) ==
  \A i \in 1..n : ins[i] \in Nat /\ ins2[i] = ins[i] /\ tx2[i] = tx[i]

SameDrifts(n, ins, tx, ins2, tx2) ==
  \A t \in 0..n : DriftOf(ins2, tx2, t) = DriftOf(ins, tx, t)

LEMMA DriftStays ==
  ASSUME NEW n \in Nat, NEW ins, NEW tx, NEW ins2, NEW tx2,
         SameEvents(n, ins, tx, ins2, tx2)
  PROVE  SameDrifts(n, ins, tx, ins2, tx2)
<1> USE DEF SameEvents
<1> DEFINE S == {t \in Nat : t \in 0..n => DriftOf(ins2, tx2, t) = DriftOf(ins, tx, t)}
<1>1. /\ DriftOf(ins, tx, 0) = 0
      /\ \A t \in 1..n : DriftOf(ins, tx, t) =
           DriftOf(ins, tx, t - 1) + ins[t] - (IF tx[t] THEN 0 ELSE 1)
  BY DriftSums
<1>2. /\ DriftOf(ins2, tx2, 0) = 0
      /\ \A t \in 1..n : DriftOf(ins2, tx2, t) =
           DriftOf(ins2, tx2, t - 1) + ins2[t] - (IF tx2[t] THEN 0 ELSE 1)
  <2>1. \A i \in 1..n : ins2[i] \in Nat
    OBVIOUS
  <2> QED BY <2>1, DriftSums
<1>3. 0 \in S
  BY <1>1, <1>2
<1>4. ASSUME NEW t \in Nat, t \in S
      PROVE  t + 1 \in S
  <2> SUFFICES ASSUME t + 1 \in 0..n
               PROVE  DriftOf(ins2, tx2, t + 1) = DriftOf(ins, tx, t + 1)
    OBVIOUS
  <2>1. t + 1 \in 1..n /\ t \in 0..n /\ (t + 1) - 1 = t
    OBVIOUS
  <2>2. DriftOf(ins2, tx2, t) = DriftOf(ins, tx, t)
    BY <1>4, <2>1
  <2>3. ins2[t + 1] = ins[t + 1] /\ tx2[t + 1] = tx[t + 1]
    BY <2>1
  <2> QED BY <1>1, <1>2, <2>1, <2>2, <2>3
<1>5. \A t \in Nat : t \in S
  <2> HIDE DEF S
  <2> QED BY <1>3, <1>4, SetInduction
<1> QED BY <1>5 DEF SameDrifts

(* The events before the symbol in progress, with its insertions.          *)
LEMMA InsertionsRecorded ==
  ASSUME EventsInv, NEW m \in Nat
  PROVE  LET ins == Append(SubSeq(state_ins, 1, Sent), m)
         IN  /\ ins \in Seq(Nat) /\ Len(ins) = Sent + 1
             /\ \A i \in 1..Sent : ins[i] = state_ins[i]
             /\ ins[Sent + 1] = m
<1>1. Sent \in Nat /\ Sent <= Len(state_ins) /\ state_ins \in Seq(Nat)
  BY DEF EventsInv, Sent
<1> HIDE DEF Sent
<1> DEFINE before == SubSeq(state_ins, 1, Sent)
<1>2. /\ before \in Seq(Nat) /\ Len(before) = Sent
      /\ \A i \in 1..Sent : before[i] = state_ins[i]
  <2>1. \A i \in 1..Sent : state_ins[i] \in Nat
    BY <1>1
  <2> QED BY <1>1, <2>1, SubSeqProperties
<1> HIDE DEF before
<1>3. /\ Append(before, m) \in Seq(Nat) /\ Len(Append(before, m)) = Len(before) + 1
      /\ \A i \in 1..Len(before) : Append(before, m)[i] = before[i]
      /\ Append(before, m)[Len(before) + 1] = m
  BY <1>2, AppendProperties
<1> QED BY <1>2, <1>3 DEF before

LEMMA InsertStep ==
  ASSUME ChannelInv, InsertSymbol
  PROVE  ChannelInv'
<1>1. /\ channel.kind = "qids" /\ Sent < tau /\ ~ InsertionProhibited
      /\ state_ins' = Append(SubSeq(state_ins, 1, Sent), Inserted + 1)
      /\ UNCHANGED <<channel, tau, state_tx, Z, output>>
      /\ EventsInv /\ CapInv /\ Sent \in Nat /\ Inserted \in Nat
      /\ Inserted + 1 \in Nat
  BY EventTypes DEF InsertSymbol, ChannelInv
<1>2. Sent' = Sent
  BY <1>1 DEF Sent
<1>3. /\ state_ins' \in Seq(Nat) /\ Len(state_ins') = Sent + 1
      /\ \A i \in 1..Sent : state_ins'[i] = state_ins[i]
      /\ state_ins'[Sent + 1] = Inserted + 1
  BY <1>1, InsertionsRecorded
<1>4. EventsInv'
  BY <1>1, <1>2, <1>3 DEF EventsInv
<1>5. Inserted' = Inserted + 1
  BY <1>1, <1>2, <1>3 DEF Inserted
<1>6. CapInv'
  <2> DEFINE D(t) == DriftOf(state_ins, state_tx, t)
             E(t) == DriftOf(state_ins', state_tx, t)
  <2> SUFFICES ASSUME Capped
               PROVE  /\ \A t \in 0..Sent : E(t) \in - channel.Scap..channel.Scap
                      /\ Inserted' = 1 /\ E(Sent) < channel.Scap
    BY <1>1, <1>2 DEF CapInv, Capped
  <2>1. \A t \in 0..Sent : E(t) = D(t)
    <3>1. \A i \in 1..Sent : state_ins[i] \in Nat /\ state_tx[i] \in BOOLEAN
      BY <1>1, EventTypes
    <3>2. SameEvents(Sent, state_ins, state_tx, state_ins', state_tx)
      BY <1>3, <3>1 DEF SameEvents
    <3>3. SameDrifts(Sent, state_ins, state_tx, state_ins', state_tx)
      BY <1>1, <3>2, DriftStays
    <3> QED BY <3>3 DEF SameDrifts
  <2>2. /\ \A t \in 0..Sent : D(t) \in - channel.Scap..channel.Scap
        /\ Inserted = 0 \/ Inserted = 1
    BY <1>1 DEF CapInv
  <2>3. Inserted # 1 /\ D(Sent) # channel.Scap
    BY <1>1, DriftIsOfState DEF InsertionProhibited, Capped
  <2>4. channel.Scap \in Nat /\ Sent \in 0..Sent
    BY <1>1, ChannelKinds
  <2> HIDE DEF D, E
  <2>5. D(Sent) \in - channel.Scap..channel.Scap /\ E(Sent) = D(Sent)
    BY <2>1, <2>2, <2>4
  <2>6. E(Sent) < channel.Scap
    BY <2>3, <2>4, <2>5
  <2> QED BY <1>5, <2>1, <2>2, <2>3, <2>6
<1> QED BY <1>1, <1>4, <1>6 DEF ChannelInv

(* The symbol's insertions and whether it was transmitted are recorded.    *)
LEMMA PassStep ==
  ASSUME ChannelInv, NEW passed \in BOOLEAN, PassSymbol(passed),
         passed \/ ~ DeletionProhibited
  PROVE  ChannelInv'
<1>1. /\ channel.kind = "qids" /\ Sent < tau
      /\ state_ins' = Append(SubSeq(state_ins, 1, Sent), Inserted)
      /\ state_tx' = Append(state_tx, passed)
      /\ UNCHANGED <<channel, tau, Z, output>>
      /\ EventsInv /\ CapInv /\ Sent \in Nat /\ Inserted \in Nat
  BY EventTypes DEF PassSymbol, ChannelInv
<1>2. /\ state_ins' \in Seq(Nat) /\ Len(state_ins') = Sent + 1
      /\ \A i \in 1..Sent : state_ins'[i] = state_ins[i]
      /\ state_ins'[Sent + 1] = Inserted
  BY <1>1, InsertionsRecorded
<1>3. /\ state_tx' \in Seq(BOOLEAN) /\ Len(state_tx') = Sent + 1 /\ Sent' = Sent + 1
      /\ \A i \in 1..Sent : state_tx'[i] = state_tx[i]
      /\ state_tx'[Sent + 1] = passed
  <2>1. state_tx \in Seq(BOOLEAN)
    BY <1>1 DEF EventsInv
  <2>2. /\ Append(state_tx, passed) \in Seq(BOOLEAN)
        /\ Len(Append(state_tx, passed)) = Len(state_tx) + 1
        /\ \A i \in 1..Len(state_tx) : Append(state_tx, passed)[i] = state_tx[i]
        /\ Append(state_tx, passed)[Len(state_tx) + 1] = passed
    BY <2>1, AppendProperties
  <2> QED BY <1>1, <2>2 DEF Sent
<1>4. EventsInv'
  <2>1. Sent' <= tau' /\ Len(state_ins') = Sent' /\ tau' \in Nat
    BY <1>1, <1>2, <1>3 DEF EventsInv
  <2>2. output' = <<>> \/ channel'.kind # "qids"
    BY <1>1 DEF EventsInv
  <2> QED BY <1>1, <1>2, <1>3, <2>1, <2>2 DEF EventsInv
<1>5. Inserted' = 0
  BY <1>1, <1>2, <1>3 DEF Inserted
<1>6. CapInv'
  <2> DEFINE D(t) == DriftOf(state_ins, state_tx, t)
             E(t) == DriftOf(state_ins', state_tx', t)
  <2> SUFFICES ASSUME Capped
               PROVE  \A t \in 0 .. Sent + 1 : E(t) \in - channel.Scap..channel.Scap
    BY <1>1, <1>3, <1>5 DEF CapInv, Capped
  <2>1. \A i \in 1..Sent : state_ins[i] \in Nat /\ state_tx[i] \in BOOLEAN
    BY <1>1, EventTypes
  <2>2. \A t \in 0..Sent : E(t) = D(t)
    <3>1. SameEvents(Sent, state_ins, state_tx, state_ins', state_tx')
      BY <1>2, <1>3, <2>1 DEF SameEvents
    <3>2. SameDrifts(Sent, state_ins, state_tx, state_ins', state_tx')
      BY <1>1, <3>1, DriftStays
    <3> QED BY <3>2 DEF SameDrifts
  <2>3. E(Sent + 1) = E(Sent) + Inserted - (IF passed THEN 0 ELSE 1)
    <3>1. \A i \in 1 .. Sent + 1 : state_ins'[i] \in Nat /\ state_tx'[i] \in BOOLEAN
      BY <1>2, <1>3
    <3>2. \A t \in 1 .. Sent + 1 : E(t) =
            E(t - 1) + state_ins'[t] - (IF state_tx'[t] THEN 0 ELSE 1)
      <4>1. Sent + 1 \in Nat
        BY <1>1
      <4> QED BY <3>1, <4>1, DriftSums
    <3>3. Sent + 1 \in 1 .. Sent + 1 /\ (Sent + 1) - 1 = Sent
      BY <1>1
    <3> HIDE DEF E
    <3> QED BY <1>2, <1>3, <3>2, <3>3
  <2>4. /\ \A t \in 0..Sent : D(t) \in - channel.Scap..channel.Scap
        /\ Inserted = 0 \/ (Inserted = 1 /\ D(Sent) < channel.Scap)
    BY <1>1 DEF CapInv
  <2>5. ~ passed => D(Sent) # - channel.Scap
    BY <1>1, DriftIsOfState DEF DeletionProhibited, Capped
  <2>6. channel.Scap \in Nat /\ Sent \in 0..Sent
    BY <1>1, ChannelKinds
  <2> HIDE DEF D, E
  <2>7. E(Sent + 1) = D(Sent) + Inserted - (IF passed THEN 0 ELSE 1)
    BY <2>2, <2>3, <2>6
  <2>8. D(Sent) \in - channel.Scap..channel.Scap
    BY <2>4, <2>6
  <2>9. E(Sent + 1) \in - channel.Scap..channel.Scap
    BY <2>4, <2>5, <2>6, <2>7, <2>8
  <2>10. \A t \in 0 .. Sent + 1 : t \in 0..Sent \/ t = Sent + 1
    BY <1>1
  <2> QED BY <2>2, <2>4, <2>9, <2>10
<1> QED BY <1>1, <1>4, <1>6 DEF ChannelInv

(* The chain moves by one state, and from its last state only back.        *)
LEMMA UseStep ==
  ASSUME ChannelInv, UseChannel
  PROVE  ChannelInv'
<1>1. PICK z \in NextDrifts(DriftBefore(1), DriftBefore(2)) : Z' = Append(Z, z)
  BY DEF UseChannel
<1>2. /\ channel.kind # "qids" /\ EventsInv /\ DriftWithinLimits
      /\ UNCHANGED <<channel, tau, state_ins, state_tx, output>>
      /\ Z \in Seq(Int) /\ Uses \in Nat
      /\ channel.kind \in {"bpmr", "dids"}
      /\ channel.Zmin \in Int /\ channel.Zmin <= 0 /\ channel.Zmax \in Nat
  BY ChannelKinds DEF UseChannel, ChannelInv, EventsInv, Uses
<1> DEFINE z1 == DriftBefore(1)
           z2 == DriftBefore(2)
<1>3. /\ z1 \in Int /\ z2 \in Int
      /\ z1 = IF Uses >= 1 THEN Z[Uses] ELSE 0
      /\ Uses >= 2 => z2 = Z[Uses - 1]
  BY <1>2 DEF DriftBefore, Uses
<1> HIDE DEF z1, z2
<1>4. /\ z \in {z1, z1 - 1, z1 + 1}
      /\ z = z1 + 1 => (channel.kind = "bpmr" \/ z1 - z2 < 1)
      /\ z1 = channel.Zmax => z # z1 + 1
      /\ z1 = channel.Zmin => z # z1 - 1 \/ channel.Zmin = channel.Zmax
  BY <1>1, <1>3 DEF NextDrifts, InsertionPossible, z1, z2
<1>5. /\ Z' \in Seq(Int) /\ Uses' = Uses + 1 /\ Z'[Uses + 1] = z
      /\ \A i \in 1..Uses : Z'[i] = Z[i]
  <2>1. z \in Int
    BY <1>3, <1>4
  <2> QED BY <1>1, <1>2, <2>1, AppendProperties DEF Uses
<1>6. EventsInv'
  BY <1>2, <1>5 DEF EventsInv, Sent
<1>7. CapInv'
  BY <1>2 DEF CapInv, Capped
<1>8. DriftWithinLimits'
  <2>1. ASSUME channel.Zmin < channel.Zmax
        PROVE  \A i \in 1 .. Uses + 1 : Z'[i] \in channel.Zmin..channel.Zmax
    <3>1. \A i \in 1..Uses : Z[i] \in channel.Zmin..channel.Zmax
      BY <1>2, <2>1 DEF DriftWithinLimits
    <3>2. z1 \in channel.Zmin..channel.Zmax
      BY <1>2, <1>3, <3>1
    <3>3. z \in channel.Zmin..channel.Zmax
      BY <1>2, <1>3, <1>4, <2>1, <3>2
    <3>4. \A i \in 1 .. Uses + 1 : i \in 1..Uses \/ i = Uses + 1
      BY <1>2
    <3> QED BY <1>5, <3>1, <3>3, <3>4
  <2>2. ASSUME channel.kind = "dids", NEW i \in 3 .. Uses + 1,
               Z'[i] > Z'[i - 1], Z'[i - 1] > Z'[i - 2]
        PROVE  FALSE
    <3>1. CASE i \in 3..Uses
      <4>1. Z'[i] = Z[i] /\ Z'[i - 1] = Z[i - 1] /\ Z'[i - 2] = Z[i - 2]
        <5>1. i \in 1..Uses /\ i - 1 \in 1..Uses /\ i - 2 \in 1..Uses
          BY <1>2, <3>1
        <5> QED BY <1>5, <5>1
      <4> QED BY <1>2, <2>2, <3>1, <4>1 DEF DriftWithinLimits
    <3>2. CASE i = Uses + 1
      <4>1. /\ Uses >= 2 /\ Z'[i] = z /\ Z'[i - 1] = Z[Uses] /\ Z'[i - 2] = Z[Uses - 1]
        BY <1>2, <1>5, <3>2
      <4>2. z > z1 /\ z1 > z2
        BY <1>2, <1>3, <2>2, <4>1
      <4> QED BY <1>3, <1>4, <2>2, <4>2
    <3> QED BY <1>2, <3>1, <3>2
  <2> QED BY <1>2, <1>5, <2>1, <2>2 DEF DriftWithinLimits
<1> QED BY <1>6, <1>7, <1>8 DEF ChannelInv

LEMMA EndStep ==
  ASSUME ChannelInv, EndTransmission \/ UNCHANGED channelvars
  PROVE  ChannelInv'
<1>1. UNCHANGED <<channel, tau, state_ins, state_tx, Z>>
  BY DEF EndTransmission, channelvars
<1>2. Sent' = Sent /\ Inserted' = Inserted /\ Uses' = Uses
  BY <1>1 DEF Sent, Inserted, Uses
<1>3. EventsInv'
  <2>1. ReceivedSymbols' = ReceivedSymbols
    BY <1>1 DEF ReceivedSymbols
  <2>2. output' # <<>> => (channel.kind = "qids" => Sent = tau /\ output' = ReceivedSymbols)
    BY DEF EndTransmission, channelvars, ChannelInv, EventsInv
  <2> QED BY <1>1, <1>2, <2>1, <2>2 DEF ChannelInv, EventsInv
<1>4. CapInv'
  BY <1>1, <1>2 DEF ChannelInv, CapInv, Capped
<1>5. channel.kind # "qids" => DriftWithinLimits'
  BY <1>1, <1>2 DEF ChannelInv, DriftWithinLimits
<1> QED BY <1>1, <1>3, <1>4, <1>5 DEF ChannelInv

LEMMA ChannelInvHolds == ChannelSpec => []ChannelInv
<1>1. ASSUME ChannelInv, [ChannelNext]_channelvars
      PROVE  ChannelInv'
  <2>1. CASE InsertSymbol
    BY <1>1, <2>1, InsertStep
  <2>2. CASE TransmitSymbol
    BY <1>1, <2>2, PassStep DEF TransmitSymbol
  <2>3. CASE DeleteSymbol
    BY <1>1, <2>3, PassStep DEF DeleteSymbol
  <2>4. CASE UseChannel
    BY <1>1, <2>4, UseStep
  <2>5. CASE EndTransmission \/ UNCHANGED channelvars
    BY <1>1, <2>5, EndStep
  <2> QED BY <1>1, <2>1, <2>2, <2>3, <2>4, <2>5 DEF ChannelNext
<1> QED BY <1>1, ChannelInitInv, PTL DEF ChannelSpec

(***************************************************************************)
(* The theorems                                                            *)
(***************************************************************************)

(* The drift keeps to the limits of the Markov chain, and to the caps that *)
(* qids applies in transmission when both are given and one insertion is   *)
(* allowed at a time; dids never inserts twice in a row.                   *)
THEOREM DriftKeepsToLimits == ChannelSpec => []DriftWithinLimits
<1>1. ASSUME ChannelInv
      PROVE  DriftWithinLimits
  <2>1. CASE channel.kind = "qids"
    <3>1. ASSUME channel.tx_Scap, channel.tx_Icap, channel.Icap = 1, NEW t \in 0..Sent
          PROVE  Drift(t) \in - channel.Scap..channel.Scap
      BY <1>1, <2>1, <3>1, DriftIsOfState DEF ChannelInv, CapInv, Capped
    <3> QED BY <2>1, <3>1 DEF DriftWithinLimits
  <2>2. CASE channel.kind # "qids"
    BY <1>1, <2>2 DEF ChannelInv
  <2> QED BY <2>1, <2>2
<1> QED BY <1>1, ChannelInvHolds, PTL

(* In every sequence that qids receives, get_drift tells the length and    *)
(* where each transmitted symbol is.                                       *)
THEOREM SymbolsAreLocated == ChannelSpec => []SymbolsLocated
<1>1. ASSUME ChannelInv
      PROVE  SymbolsLocated
  <2> SUFFICES ASSUME channel.kind = "qids", output # <<>>
               PROVE  /\ Len(output) = tau + Drift(tau)
                      /\ \A t \in 1..tau :
                           state_tx[t] => output[t + Drift(t - 1) + state_ins[t]] = t
    BY DEF SymbolsLocated
  <2>1. /\ Sent = tau /\ tau \in Nat /\ output = ReceivedOf(state_ins, state_tx, tau)
        /\ \A i \in 1..tau : state_ins[i] \in Nat /\ state_tx[i] \in BOOLEAN
    BY <1>1, EventTypes, ReceivedIsOfState DEF ChannelInv, EventsInv
  <2>2. /\ Len(output) = tau + DriftOf(state_ins, state_tx, tau)
        /\ \A t \in 1..tau :
             state_tx[t] => output[t + DriftOf(state_ins, state_tx, t - 1) + state_ins[t]] = t
    BY <2>1, ReceivedLocated
  <2> QED BY <2>2, DriftIsOfState
<1> QED BY <1>1, ChannelInvHolds, PTL

(* Whatever the channel did, the lattice gives every change of length the  *)
(* weight of all ways that it comes about, the trellis of those whose      *)
(* drifts keep to the limits, and the corridor too where its lower edge is *)
(* not reached before the last symbol.                                     *)
THEOREM ReceiversAreExact == ChannelSpec => []ReceiversExact
<1>1. ASSUME ChannelInv
      PROVE  ReceiversExact
  <2> SUFFICES ASSUME NEW f \in FramesReceived, NEW lim \in DriftLimits
               PROVE  /\ LatticeExact(f.tx, f.rx, lim)
                      /\ TrellisExact(f.tx, f.rx, lim)
                      /\ lim.min <= 1 - tau => CorridorExact(f.tx, f.rx, lim)
    BY DEF ReceiversExact
  <2>1. /\ channel.kind = "qids" /\ output # <<>>
        /\ \E tx \in [1..tau -> {0, 1}] :
             f = [tx |-> tx,
                  rx |-> [j \in DOMAIN output |->
                           IF output[j] = 0 THEN 0 ELSE tx[output[j]]]]
    BY DEF FramesReceived
  <2>2. tau \in Nat \ {0} /\ output \in Seq(Nat)
    <3>1. /\ Sent = tau /\ tau \in Nat \ {0}
          /\ output = ReceivedOf(state_ins, state_tx, tau)
          /\ \A i \in 1..tau : state_ins[i] \in Nat /\ state_tx[i] \in BOOLEAN
      BY <1>1, <2>1, EventTypes, ReceivedIsOfState DEF ChannelInv, EventsInv
    <3> QED BY <3>1, ReceivedLocated
  <2> DEFINE rho == Len(output)
  <2>3. rho \in Nat /\ HasLength(f.tx, tau) /\ HasLength(f.rx, rho)
    <3>1. rho \in Nat /\ DOMAIN output = 1..rho
      BY <2>2
    <3>2. \A n \in Nat : \A g : DOMAIN g = 1..n /\ g = [j \in 1..n |-> g[j]] => Len(g) = n
      OBVIOUS
    <3> HIDE DEF rho
    <3>3. /\ DOMAIN f.tx = 1..tau /\ f.tx = [j \in 1..tau |-> f.tx[j]]
          /\ DOMAIN f.rx = 1..rho /\ f.rx = [j \in 1..rho |-> f.rx[j]]
      BY <2>1, <3>1
    <3> QED BY <2>2, <3>1, <3>2, <3>3 DEF HasLength
  <2>4. /\ DriftLimitsAllow(lim)
        /\ lim.min \in Int /\ lim.max \in Int /\ lim.max \in Nat
    BY ChannelAssumption DEF DriftLimitsAllow
  <2> HIDE DEF rho
  <2>5. LatticeExact(f.tx, f.rx, lim)
    BY <2>2, <2>3, <2>4, LatticeIsExact DEF HasLength
  <2>6. TrellisExact(f.tx, f.rx, lim)
    BY <2>2, <2>3, <2>4, TrellisIsExact
  <2>7. ASSUME lim.min <= 1 - tau
        PROVE  CorridorExact(f.tx, f.rx, lim)
    BY <2>2, <2>3, <2>4, <2>7, CorridorIsExact DEF HasLength
  <2> QED BY <2>5, <2>6, <2>7
<1> QED BY <1>1, ChannelInvHolds, PTL
===============================================================================
