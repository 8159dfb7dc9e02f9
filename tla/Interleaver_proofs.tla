-------------------------- MODULE Interleaver_proofs --------------------------
(***************************************************************************)
(* That transforms of symbols and of likelihoods agree and can be undone,  *)
(* for interleavers of any size and kind and however often they are seeded *)
(* and advanced: every table is a permutation followed by forced tails.    *)
(***************************************************************************)
EXTENDS Interleaver, FiniteSetTheorems, TLAPS

(***************************************************************************)
(* Rows and columns                                                        *)
(***************************************************************************)
LEMMA Product ==
  ASSUME NEW a \in Nat, NEW b \in Nat, NEW c \in Nat, a < b
  PROVE  a * c + c <= b * c
<1>1. PICK d \in Nat : b = a + 1 + d
  <2>1. b - a - 1 \in Nat /\ b = a + 1 + (b - a - 1)
    OBVIOUS
  <2> QED BY <2>1
<1>2. b * c = a * c + c + d * c
  BY <1>1
<1>3. d * c >= 0
  OBVIOUS
<1> QED BY <1>2, <1>3

LEMMA SameDigits ==
  ASSUME NEW c \in Positive, NEW a1 \in Nat, NEW a2 \in Nat,
         NEW b1 \in 0..c - 1, NEW b2 \in 0..c - 1,
         a1 * c + b1 = a2 * c + b2
  PROVE  a1 = a2 /\ b1 = b2
<1>1. a1 * c \in Nat /\ a2 * c \in Nat /\ c \in Nat
  BY DEF Positive
<1>2. ~ a1 < a2
  <2> SUFFICES ASSUME a1 < a2 PROVE FALSE
    OBVIOUS
  <2>1. a1 * c + c <= a2 * c
    BY <1>1, Product
  <2> QED BY <1>1, <2>1
<1>3. ~ a2 < a1
  <2> SUFFICES ASSUME a2 < a1 PROVE FALSE
    OBVIOUS
  <2>1. a2 * c + c <= a1 * c
    BY <1>1, Product
  <2> QED BY <1>1, <2>1
<1>4. a1 = a2
  BY <1>2, <1>3
<1> QED BY <1>1, <1>4

LEMMA InBlock ==
  ASSUME NEW r \in Positive, NEW c \in Positive,
         NEW a \in 0..r - 1, NEW b \in 0..c - 1
  PROVE  a * c + b \in 0..r * c - 1
<1>1. a * c \in Nat /\ r * c \in Nat /\ c \in Nat /\ r \in Nat /\ a \in Nat
  BY DEF Positive
<1>2. a * c + c <= r * c
  BY <1>1, Product
<1> QED BY <1>1, <1>2

LEMMA Division ==
  ASSUME NEW t \in Int, NEW r \in Positive
  PROVE  /\ t = (t \div r) * r + (t % r)
         /\ t % r \in 0..r - 1
         /\ t \div r \in Int
         /\ t >= 0 => t \div r \in Nat
<1>1. r \in Nat /\ r > 0
  BY DEF Positive
<1>2. t = r * (t \div r) + (t % r) /\ t % r \in 0..r - 1 /\ t \div r \in Int
  BY <1>1
<1>3. r * (t \div r) = (t \div r) * r
  BY <1>1, <1>2
<1>4. t >= 0 => t \div r >= 0
  BY <1>1
<1> QED BY <1>1, <1>2, <1>3, <1>4

LEMMA Quotient ==
  ASSUME NEW r \in Positive, NEW c \in Positive, NEW t \in 0..r * c - 1
  PROVE  t \div r \in 0..c - 1
<1>1. /\ t = (t \div r) * r + (t % r)
      /\ t % r \in 0..r - 1
      /\ t \div r \in Nat
  <2> t \in Int /\ t >= 0
    BY DEF Positive
  <2> QED BY Division
<1>2. ~ c <= t \div r
  <2> SUFFICES ASSUME c <= t \div r PROVE FALSE
    OBVIOUS
  <2>1. c * r <= (t \div r) * r
    <3>1. CASE c = t \div r
      BY <3>1 DEF Positive
    <3>2. CASE c < t \div r
      <4>1. c * r + r <= (t \div r) * r
        BY <3>2, <1>1, Product DEF Positive
      <4>2. c * r \in Nat /\ r \in Nat
        BY DEF Positive
      <4> QED BY <4>1, <4>2, <1>1
    <3> QED BY <1>1, <3>1, <3>2 DEF Positive
  <2>2. r * c = c * r /\ c * r \in Nat
    BY DEF Positive
  <2>3. (t \div r) * r <= t /\ t <= r * c - 1 /\ (t \div r) * r \in Int
    BY <1>1, <2>2 DEF Positive
  <2> QED BY <2>1, <2>2, <2>3
<1> QED BY <1>1, <1>2 DEF Positive

(* Two numbers with one remainder are apart by a multiple of the divisor.  *)
LEMMA SameRemainder ==
  ASSUME NEW s \in Int, NEW t \in Int, NEW r \in Positive, s % r = t % r
  PROVE  (s - t) % r = 0
<1>1. s = (s \div r) * r + (s % r) /\ t = (t \div r) * r + (t % r)
  BY Division
<1> DEFINE q == (s \div r) - (t \div r)
<1>2. s \div r \in Int /\ t \div r \in Int /\ q \in Int
  BY Division
<1>3. s - t = q * r
  BY <1>1, <1>2 DEF Positive
<1> HIDE DEF q
<1>4. (q * r) % r = 0
  <2>1. /\ q * r = ((q * r) \div r) * r + ((q * r) % r)
        /\ (q * r) % r \in 0..r - 1
        /\ (q * r) \div r \in Int
    <3> q * r \in Int
      BY <1>2 DEF Positive
    <3> QED BY Division
  <2> DEFINE e == (q * r) \div r
             m == (q * r) % r
  <2>2. (q - e) * r = m /\ m \in 0..r - 1 /\ e \in Int
    BY <1>2, <2>1 DEF Positive
  <2> HIDE DEF e, m
  <2>3. m = 0
    <3>1. CASE q - e = 0
      BY <3>1, <2>2 DEF Positive
    <3>2. CASE q - e > 0
      <4>1. 0 * r + r <= (q - e) * r
        BY <1>2, <2>2, <3>2, Product DEF Positive
      <4> QED BY <2>2, <4>1 DEF Positive
    <3>3. CASE q - e < 0
      <4>1. 0 * r + r <= (e - q) * r
        BY <1>2, <2>2, <3>3, Product DEF Positive
      <4>2. (e - q) * r = - ((q - e) * r)
        BY <1>2, <2>2 DEF Positive
      <4>3. 0 * r = 0
        BY DEF Positive
      <4> QED BY <2>2, <4>1, <4>2, <4>3 DEF Positive
    <3> QED BY <1>2, <2>2, <3>1, <3>2, <3>3
  <2> QED BY <2>3 DEF m
<1> QED BY <1>3, <1>4

(***************************************************************************)
(* Tables: a permutation of the first k positions, then tails              *)
(***************************************************************************)
Permutes(l, k, n) ==
  /\ n \in Positive /\ k \in 0..n
  /\ DOMAIN l = 0..n - 1
  /\ \A t \in 0..k - 1 : l[t] \in 0..k - 1
  /\ \A s, t \in 0..k - 1 : l[s] = l[t] => s = t
  /\ \A t \in k..n - 1 : l[t] = TailSymbol

(* Every position before the tails is read exactly once.                   *)
LEMMA Onto ==
  ASSUME NEW l, NEW k, NEW n, Permutes(l, k, n), NEW p \in 0..k - 1
  PROVE  \E t \in 0..k - 1 : l[t] = p
<1> DEFINE B == 0..k - 1
           f == [t \in B |-> l[t]]
<1>1. f \in Injection(B, B)
  BY DEF Permutes, Injection, IsInjective
<1>2. IsFiniteSet(B)
  BY FS_Interval DEF Permutes, Positive
<1>3. f \in Surjection(B, B)
  BY <1>1, <1>2, FS_Injection
<1> QED BY <1>3 DEF Surjection

LEMMA TableSize ==
  ASSUME NEW l, NEW k, NEW n, Permutes(l, k, n)
  PROVE  Cardinality(DOMAIN l) = n /\ l # Unset
<1>1. Cardinality(0..n - 1) = n
  BY FS_Interval DEF Permutes, Positive
<1>2. 0 \in DOMAIN l
  BY DEF Permutes, Positive
<1>3. 0 \notin DOMAIN Unset
  BY DEF Unset
<1> QED BY <1>1, <1>2, <1>3 DEF Permutes

Vectors(n, S) == [0..n - 1 -> 0..S - 1]

(* What the inverse makes of a word's likelihoods.                         *)
Recovered(l, w, S) == LutInverse(l, Certain(LutTransform(l, w), S), S)

(* Likelihoods follow symbols through a table, and back.                   *)
LEMMA TableFollows ==
  ASSUME NEW l, NEW k, NEW n, Permutes(l, k, n),
         NEW S \in Positive, NEW w \in Vectors(n, S)
  PROVE  /\ LutSoft(l, Certain(w, S), S) = Certain(LutTransform(l, w), S)
         /\ DOMAIN Recovered(l, w, S) = 0..n - 1
         /\ \A p \in 0..k - 1 : Recovered(l, w, S)[p] = {w[p]}
         /\ \A p \in k..n - 1 : Recovered(l, w, S)[p] = AllSymbols(S)
<1> DEFINE sent == Certain(LutTransform(l, w), S)
           back == LutInverse(l, sent, S)
<1>1. /\ DOMAIN w = 0..n - 1
      /\ \A t \in 0..n - 1 : w[t] # TailSymbol /\ w[t] \in 0..S - 1
  BY DEF TailSymbol, Positive, Vectors
<1>2. \A t \in 0..k - 1 : t \in 0..n - 1 /\ l[t] \in 0..n - 1 /\ l[t] # TailSymbol
  BY DEF Permutes, Positive, TailSymbol
<1>3. DOMAIN sent = 0..n - 1
  BY DEF Permutes, Certain, LutTransform
<1>4. \A t \in 0..k - 1 : sent[t] = {w[l[t]]}
  BY <1>1, <1>2 DEF Permutes, Certain, LutTransform
<1>5. \A t \in k..n - 1 : sent[t] = AllSymbols(S)
  BY DEF Permutes, Certain, LutTransform, Positive
<1>6. \A t \in 0..n - 1 : t \in 0..k - 1 \/ t \in k..n - 1
  BY DEF Permutes, Positive
<1>7. LutSoft(l, Certain(w, S), S) = sent
  <2> DEFINE soft == LutSoft(l, Certain(w, S), S)
  <2>1. DOMAIN soft = 0..n - 1 /\ soft = [t \in 0..n - 1 |-> soft[t]]
    BY DEF LutSoft, Permutes
  <2>2. sent = [t \in 0..n - 1 |-> sent[t]]
    BY <1>3 DEF Certain
  <2>3. \A t \in 0..k - 1 : soft[t] = sent[t]
    BY <1>1, <1>2, <1>4 DEF LutSoft, Certain, Permutes
  <2>4. \A t \in k..n - 1 : soft[t] = sent[t]
    BY <1>5 DEF LutSoft, Permutes, Positive
  <2>5. \A t \in 0..n - 1 : soft[t] = sent[t]
    BY <1>6, <2>3, <2>4
  <2>6. soft = sent
    <3> HIDE DEF soft, sent
    <3> QED BY <2>1, <2>2, <2>5
  <2> QED BY <2>6 DEF soft
<1>8. DOMAIN back = 0..n - 1
  BY DEF LutInverse, Permutes
<1> HIDE DEF sent
<1> DEFINE from(p) == {t \in DOMAIN l : l[t] = p \/ (l[t] = TailSymbol /\ t = p)}
           last(p) == CHOOSE t \in from(p) : \A s \in from(p) : s <= t
<1>9. ASSUME NEW p \in 0..n - 1
      PROVE  back[p] = IF from(p) = {} THEN {}
                       ELSE IF l[last(p)] = TailSymbol THEN AllSymbols(S)
                       ELSE sent[last(p)]
  BY DEF LutInverse, Permutes
<1> HIDE DEF back
<1>10. ASSUME NEW p \in 0..k - 1 PROVE back[p] = {w[p]}
  <2>1. PICK t \in 0..k - 1 : l[t] = p
    BY Onto
  <2>2. from(p) = {t}
    BY <1>2, <1>6, <2>1 DEF Permutes, TailSymbol
  <2>3. last(p) = t
    <3>1. \E x \in from(p) : \A s \in from(p) : s <= x
      BY <2>2
    <3>2. last(p) \in from(p)
      BY <3>1
    <3> QED BY <2>2, <3>2
  <2>4. back[p] = sent[t]
    BY <1>2, <1>9, <2>2, <2>3
  <2> QED BY <1>4, <2>1, <2>4
<1>11. ASSUME NEW p \in k..n - 1 PROVE back[p] = AllSymbols(S)
  <2>1. p \in 0..n - 1 /\ l[p] = TailSymbol
    BY DEF Permutes, Positive
  <2>2. from(p) = {p}
    BY <1>6, <2>1 DEF Permutes, TailSymbol, Positive
  <2>3. last(p) = p
    <3>1. \E x \in from(p) : \A s \in from(p) : s <= x
      BY <2>2, <2>1
    <3>2. last(p) \in from(p)
      BY <3>1
    <3> QED BY <2>2, <3>2
  <2> QED BY <1>9, <2>1, <2>2, <2>3
<1>12. Recovered(l, w, S) = back
  BY DEF Recovered, back, sent
<1> QED BY <1>7, <1>8, <1>10, <1>11, <1>12 DEF sent

(* Without tails the inverse gives back the whole word.                    *)
LEMMA TailFree ==
  ASSUME NEW l, NEW n, Permutes(l, n, n),
         NEW S \in Positive, NEW w \in Vectors(n, S)
  PROVE  /\ LutSoft(l, Certain(w, S), S) = Certain(LutTransform(l, w), S)
         /\ Recovered(l, w, S) = Certain(w, S)
<1>1. /\ LutSoft(l, Certain(w, S), S) = Certain(LutTransform(l, w), S)
      /\ DOMAIN Recovered(l, w, S) = 0..n - 1
      /\ \A p \in 0..n - 1 : Recovered(l, w, S)[p] = {w[p]}
  BY TableFollows
<1>2. Recovered(l, w, S) = [p \in 0..n - 1 |-> Recovered(l, w, S)[p]]
  BY DEF Recovered, LutInverse, Permutes
<1>3. Certain(w, S) = [p \in 0..n - 1 |-> {w[p]}]
  BY DEF Certain, TailSymbol, Vectors
<1> QED BY <1>1, <1>2, <1>3

(***************************************************************************)
(* Pads                                                                    *)
(***************************************************************************)
(* Adding a bit twice changes nothing.                                     *)
LEMMA BitAddition ==
  ASSUME NEW S \in 1..2, NEW a \in 0..S - 1, NEW b \in 0..S - 1
  PROVE  /\ CMod(a + b, S) \in 0..S - 1
         /\ CMod(CMod(a + b, S) + b, S) = a
         /\ \A j \in 0..S - 1 : CMod(j + b, S) = a <=> j = CMod(a + b, S)
<1>1. CASE S = 1
  BY <1>1 DEF CMod
<1>2. CASE S = 2
  <2>1. a \in {0, 1} /\ b \in {0, 1}
    BY <1>2
  <2>2. \A j \in 0..S - 1 : j \in {0, 1}
    BY <1>2
  <2>3. 0 % 2 = 0 /\ 1 % 2 = 1 /\ 2 % 2 = 0
    OBVIOUS
  <2> QED BY <1>2, <2>1, <2>2, <2>3 DEF CMod
<1> QED BY <1>1, <1>2

LEMMA PadFollows ==
  ASSUME NEW S \in 1..2, NEW n \in Positive,
         NEW l \in [0..n - 1 -> 0..S - 1], NEW w \in [0..n - 1 -> 0..S - 1]
  PROVE  LET sent == Certain(PadTransform(l, w, S), S)
         IN  /\ PadSoft(l, Certain(w, S), S) = sent
             /\ PadInverse(l, sent, S) = Certain(w, S)
             /\ PadTransform(l, w, S) \in [0..n - 1 -> 0..S - 1]
<1> DEFINE v == PadTransform(l, w, S)
           sent == Certain(v, S)
<1>1. \A t \in 0..n - 1 : w[t] \in 0..S - 1 /\ l[t] \in 0..S - 1
  OBVIOUS
<1>2. v = [t \in 0..n - 1 |-> CMod(w[t] + l[t], S)]
  BY DEF PadTransform
<1>3. v \in [0..n - 1 -> 0..S - 1]
  <2>1. \A t \in 0..n - 1 : CMod(w[t] + l[t], S) \in 0..S - 1
    BY <1>1, BitAddition
  <2> QED BY <1>2, <2>1
<1> HIDE DEF v
<1>4. \A u \in [0..n - 1 -> 0..S - 1] : Certain(u, S) = [t \in 0..n - 1 |-> {u[t]}]
  BY DEF Certain, TailSymbol
<1>5. sent = [t \in 0..n - 1 |-> {v[t]}] /\ Certain(w, S) = [t \in 0..n - 1 |-> {w[t]}]
  BY <1>3, <1>4
<1>6. PadSoft(l, Certain(w, S), S) = sent
  <2>1. PadSoft(l, Certain(w, S), S) =
          [t \in 0..n - 1 |-> {j \in 0..S - 1 : CMod(j + l[t], S) \in {w[t]}}]
    BY <1>5 DEF PadSoft, AllSymbols
  <2>2. ASSUME NEW t \in 0..n - 1
        PROVE  {j \in 0..S - 1 : CMod(j + l[t], S) \in {w[t]}} = {v[t]}
    <3>1. /\ CMod(w[t] + l[t], S) \in 0..S - 1
          /\ \A j \in 0..S - 1 :
               CMod(j + l[t], S) = w[t] <=> j = CMod(w[t] + l[t], S)
      BY <1>1, BitAddition
    <3> QED BY <1>2, <3>1
  <2> QED BY <1>5, <2>1, <2>2
<1>7. PadInverse(l, sent, S) = Certain(w, S)
  <2>1. PadInverse(l, sent, S) =
          [t \in 0..n - 1 |-> {CMod(j + l[t], S) : j \in {v[t]}}]
    BY <1>5 DEF PadInverse
  <2>2. ASSUME NEW t \in 0..n - 1
        PROVE  {CMod(j + l[t], S) : j \in {v[t]}} = {w[t]}
    <3>1. CMod(CMod(w[t] + l[t], S) + l[t], S) = w[t]
      BY <1>1, BitAddition
    <3>2. v[t] = CMod(w[t] + l[t], S)
      BY <1>2
    <3> QED BY <3>1, <3>2
  <2> QED BY <1>5, <2>1, <2>2
<1> QED BY <1>3, <1>6, <1>7 DEF v

(***************************************************************************)
(* The fixed tables                                                        *)
(***************************************************************************)
LEMMA FlatPermutes ==
  ASSUME NEW tau \in Positive
  PROVE  Permutes(FlatLut(tau), tau, tau)
BY DEF Permutes, FlatLut, Positive

LEMMA ShiftPermutes ==
  ASSUME NEW tau \in Positive, NEW amount \in Nat
  PROVE  Permutes(ShiftLut(amount, tau), tau, tau)
<1> DEFINE l == ShiftLut(amount, tau)
<1>1. tau \in Nat /\ tau > 0
  BY DEF Positive
<1>2. \A t \in 0..tau - 1 : l[t] = (t + amount) % tau
  BY DEF ShiftLut
<1>3. \A t \in 0..tau - 1 : l[t] \in 0..tau - 1
  BY <1>1, <1>2
<1>4. ASSUME NEW s \in 0..tau - 1, NEW t \in 0..tau - 1, l[s] = l[t]
      PROVE  s = t
  <2>0. /\ (s + amount) % tau = (t + amount) % tau
        /\ s + amount \in Int /\ t + amount \in Int
    BY <1>1, <1>2, <1>4
  <2>1. ((s + amount) - (t + amount)) % tau = 0
    BY <2>0, SameRemainder
  <2>2. ((t + amount) - (s + amount)) % tau = 0
    BY <2>0, SameRemainder
  <2>3. (s + amount) - (t + amount) = s - t /\ (t + amount) - (s + amount) = t - s
    BY <1>1
  <2>4. (s - t) % tau = 0 /\ (t - s) % tau = 0
    BY <2>1, <2>2, <2>3
  <2>5. \A x \in 0..tau - 1 : x % tau = x
    BY <1>1
  <2>6. CASE s >= t
    BY <1>1, <2>4, <2>5, <2>6
  <2>7. CASE t >= s
    BY <1>1, <2>4, <2>5, <2>7
  <2> QED BY <2>6, <2>7
<1>5. DOMAIN l = 0..tau - 1
  BY DEF ShiftLut
<1> HIDE DEF l
<1>6. Permutes(l, tau, tau)
  BY <1>1, <1>3, <1>4, <1>5 DEF Permutes, Positive
<1> QED BY <1>6 DEF l

(* A table that rearranges a block and leaves what exceeds it.             *)
LEMMA BlockPermutes ==
  ASSUME NEW tau \in Positive, NEW b \in 0..tau, NEW l,
         DOMAIN l = 0..tau - 1,
         \A t \in 0..b - 1 : l[t] \in 0..b - 1,
         \A s, t \in 0..b - 1 : l[s] = l[t] => s = t,
         \A t \in b..tau - 1 : l[t] = t
  PROVE  Permutes(l, tau, tau)
<1>1. \A t \in 0..tau - 1 : t \in 0..b - 1 \/ t \in b..tau - 1
  BY DEF Positive
<1>2. \A t \in 0..tau - 1 : l[t] \in 0..tau - 1
  BY <1>1 DEF Positive
<1>3. ASSUME NEW s \in 0..tau - 1, NEW t \in 0..tau - 1, l[s] = l[t]
      PROVE  s = t
  <2>1. CASE s \in 0..b - 1 /\ t \in 0..b - 1
    BY <1>3, <2>1
  <2>2. CASE s \in b..tau - 1 /\ t \in b..tau - 1
    BY <1>3, <2>2
  <2>3. CASE s \in 0..b - 1 /\ t \in b..tau - 1
    <3>1. l[s] \in 0..b - 1 /\ l[t] = t
      BY <2>3
    <3> QED BY <1>3, <2>3, <3>1 DEF Positive
  <2>4. CASE s \in b..tau - 1 /\ t \in 0..b - 1
    <3>1. l[t] \in 0..b - 1 /\ l[s] = s
      BY <2>4
    <3> QED BY <1>3, <2>4, <3>1 DEF Positive
  <2> QED BY <1>1, <2>1, <2>2, <2>3, <2>4
<1> QED BY <1>2, <1>3 DEF Permutes, Positive

LEMMA RectangularPermutes ==
  ASSUME NEW tau \in Positive, NEW rows \in Positive, NEW cols \in Positive,
         rows * cols <= tau
  PROVE  Permutes(RectangularLut(tau, rows, cols), tau, tau)
<1> DEFINE l == RectangularLut(tau, rows, cols)
           b == rows * cols
<1>1. b \in 0..tau
  BY DEF Positive
<1>2. DOMAIN l = 0..tau - 1
  BY DEF RectangularLut
<1>3. ASSUME NEW t \in 0..b - 1
      PROVE  /\ l[t] = (t % rows) * cols + (t \div rows)
             /\ t % rows \in 0..rows - 1
             /\ t \div rows \in 0..cols - 1
             /\ t = (t \div rows) * rows + (t % rows)
  <2>1. t \in Int /\ t \in 0..tau - 1 /\ t < b
    BY <1>1 DEF Positive
  <2>2. l[t] = (t % rows) * cols + (t \div rows)
    BY <2>1 DEF RectangularLut
  <2> HIDE DEF l
  <2>3. t = (t \div rows) * rows + (t % rows) /\ t % rows \in 0..rows - 1
    BY <2>1, Division
  <2>4. t \div rows \in 0..cols - 1
    BY Quotient
  <2> QED BY <2>2, <2>3, <2>4
<1>4. \A t \in b..tau - 1 : l[t] = t
  <2> SUFFICES ASSUME NEW t \in b..tau - 1 PROVE l[t] = t
    OBVIOUS
  <2>1. t \in 0..tau - 1 /\ ~ t < b
    BY <1>1 DEF Positive
  <2> HIDE DEF b
  <2> QED BY <2>1 DEF RectangularLut, b
<1> HIDE DEF l
<1>5. \A t \in 0..b - 1 : l[t] \in 0..b - 1
  BY <1>3, InBlock
<1>6. ASSUME NEW s \in 0..b - 1, NEW t \in 0..b - 1, l[s] = l[t]
      PROVE  s = t
  <2>0. /\ t % rows \in 0..rows - 1 /\ s % rows \in 0..rows - 1
        /\ s \div rows \in 0..cols - 1 /\ t \div rows \in 0..cols - 1
        /\ l[s] = (s % rows) * cols + (s \div rows)
        /\ l[t] = (t % rows) * cols + (t \div rows)
    BY <1>3
  <2> DEFINE a1 == s % rows
             a2 == t % rows
             b1 == s \div rows
             b2 == t \div rows
  <2>1. a1 * cols + b1 = a2 * cols + b2
    <3> HIDE DEF b
    <3> QED BY <1>6, <2>0
  <2>a. a1 \in Nat /\ a2 \in Nat
    <3> HIDE DEF b
    <3> QED BY <2>0
  <2>2. a1 = a2 /\ b1 = b2
    <3> HIDE DEF a1, a2, b1, b2
    <3>1. b1 \in 0..cols - 1 /\ b2 \in 0..cols - 1
      BY <2>0 DEF b1, b2
    <3> QED BY <2>1, <2>a, <3>1, SameDigits
  <2>3. /\ s = (s \div rows) * rows + (s % rows)
        /\ t = (t \div rows) * rows + (t % rows)
    BY <1>3
  <2> QED BY <2>2, <2>3
<1> HIDE DEF b
<1>7. Permutes(l, tau, tau)
  BY <1>1, <1>2, <1>4, <1>5, <1>6, BlockPermutes
<1> QED BY <1>7 DEF l

LEMMA HelicalPermutes ==
  ASSUME NEW tau \in Positive, NEW rows \in Positive, NEW cols \in Positive,
         rows * cols <= tau,
         \A x \in 1..rows * cols - 1 : x % rows # 0 \/ x % cols # 0
  PROVE  Permutes(HelicalLut(tau, rows, cols), tau, tau)
<1> DEFINE l == HelicalLut(tau, rows, cols)
           b == rows * cols
<1>1. b \in 0..tau /\ rows \in Nat /\ cols \in Nat
  BY DEF Positive
<1>2. DOMAIN l = 0..tau - 1
  BY DEF HelicalLut
<1>3. ASSUME NEW t \in 0..b - 1
      PROVE  /\ l[t] = ((rows - 1 - t) % rows) * cols + (t % cols)
             /\ (rows - 1 - t) % rows \in 0..rows - 1
             /\ t % cols \in 0..cols - 1
             /\ t \in Int /\ rows - 1 - t \in Int
  <2>1. t \in Int /\ rows - 1 - t \in Int /\ t \in 0..tau - 1 /\ t < b
    BY <1>1 DEF Positive
  <2>2. l[t] = ((rows - 1 - t) % rows) * cols + (t % cols)
    BY <2>1 DEF HelicalLut
  <2> HIDE DEF l
  <2>3. (rows - 1 - t) % rows \in 0..rows - 1 /\ t % cols \in 0..cols - 1
    BY <2>1, Division
  <2> QED BY <2>1, <2>2, <2>3
<1>4. \A t \in b..tau - 1 : l[t] = t
  <2> SUFFICES ASSUME NEW t \in b..tau - 1 PROVE l[t] = t
    OBVIOUS
  <2>1. t \in 0..tau - 1 /\ ~ t < b
    BY <1>1 DEF Positive
  <2> HIDE DEF b
  <2> QED BY <2>1 DEF HelicalLut, b
<1> HIDE DEF l
<1>5. \A t \in 0..b - 1 : l[t] \in 0..b - 1
  BY <1>3, InBlock
(* Two positions of one image are apart by a multiple of rows and cols.    *)
<1>6. ASSUME NEW s \in 0..b - 1, NEW t \in 0..b - 1, l[s] = l[t], s < t
      PROVE  FALSE
  <2> DEFINE u == rows - 1 - s
             v == rows - 1 - t
  <2>1. u % rows \in Nat /\ v % rows \in Nat
    BY <1>1, <1>3
  <2>2. (u % rows) * cols + (s % cols) = (v % rows) * cols + (t % cols)
    BY <1>3, <1>6
  <2>3. u % rows = v % rows /\ s % cols = t % cols
    BY <1>3, <2>1, <2>2, SameDigits
  <2>4. (u - v) % rows = 0 /\ (t - s) % cols = 0
    BY <1>3, <2>3, SameRemainder
  <2>5. u - v = t - s
    BY <1>1, <1>3
  <2>6. t - s \in 1..b - 1
    BY <1>1, <1>6
  <2> QED BY <2>4, <2>5, <2>6
<1>7. \A s, t \in 0..b - 1 : l[s] = l[t] => s = t
  <2> SUFFICES ASSUME NEW s \in 0..b - 1, NEW t \in 0..b - 1, l[s] = l[t]
               PROVE  s = t
    OBVIOUS
  <2>1. ~ s < t /\ ~ t < s
    BY <1>6
  <2> QED BY <1>3, <2>1
<1> HIDE DEF b
<1>8. Permutes(l, tau, tau)
  BY <1>1, <1>2, <1>4, <1>5, <1>7, BlockPermutes
<1> QED BY <1>8 DEF l

LEMMA BerrouPermutes ==
  ASSUME NEW M \in Positive, Injective(BerrouLut(M))
  PROVE  Permutes(BerrouLut(M), M * M, M * M)
<1> DEFINE l == BerrouLut(M)
<1>1. M * M \in Positive
  <2>1. 0 * M + M <= M * M
    BY Product DEF Positive
  <2> QED BY <2>1 DEF Positive
<1>2. DOMAIN l = 0..M * M - 1
  BY DEF BerrouLut
<1>3. ASSUME NEW t \in 0..M * M - 1
      PROVE  l[t] \in 0..M * M - 1
  <2> DEFINE i == t \div M
             j == t % M
             k == ((i + j) % 8) + 1
             P == BerrouPrimes[k]
             a == ((M \div 2 + 1) * (i + j)) % M
             c == (P * (j + 1) - 1) % M
  <2>1. t \in Int /\ i \in Int /\ j \in Int
    <3>1. t \in Int
      BY <1>1 DEF Positive
    <3> QED BY <3>1, Division DEF Positive
  <2>2. k \in 1..8
    BY <2>1
  <2>3. P \in Int
    <3> HIDE DEF k
    <3>1. \A n \in 1..8 : BerrouPrimes[n] \in Int
      BY DEF BerrouPrimes
    <3> QED BY <2>2, <3>1
  <2>4. a \in 0..M - 1
    <3>1. (M \div 2 + 1) * (i + j) \in Int
      BY <2>1 DEF Positive
    <3> QED BY <3>1, Division
  <2>5. c \in 0..M - 1
    <3>1. P * (j + 1) - 1 \in Int
      BY <2>1, <2>3
    <3> QED BY <3>1, Division
  <2>6. l[t] = a * M + c
    BY DEF BerrouLut
  <2> HIDE DEF l, a, c
  <2> QED BY <2>4, <2>5, <2>6, InBlock
<1>4. \A s, t \in 0..M * M - 1 : l[s] = l[t] => s = t
  BY <1>2 DEF Injective
<1> DEFINE n == M * M
<1> HIDE DEF l, n
<1>5. Permutes(l, n, n)
  <2>1. n \in Positive /\ DOMAIN l = 0..n - 1
    BY <1>1, <1>2 DEF n
  <2>2. \A t \in 0..n - 1 : l[t] \in 0..n - 1
    BY <1>3 DEF n
  <2>3. \A s, t \in 0..n - 1 : l[s] = l[t] => s = t
    BY <1>4 DEF n
  <2> QED BY <2>1, <2>2, <2>3 DEF Permutes, Positive
<1> QED BY <1>5 DEF l, n

(* The published table holds every position once.                          *)
LEMMA ValePermutes == Permutes(ValeLut, 34, 34)
<1> DEFINE T == ValeTable
           at(n) == CHOOSE i \in 1..34 : T[i] = n + 1
<1>1. \A n \in 0..33 : \E i \in 1..34 : T[i] = n + 1
  BY DEF ValeTable
<1>2. \A n \in 0..33 : at(n) \in 1..34 /\ T[at(n)] = n + 1
  BY <1>1
<1>3. \A n \in 0..33 : ValeLut[n] = at(n) - 1
  BY DEF ValeLut
<1>4. DOMAIN ValeLut = 0..33
  BY DEF ValeLut
<1> HIDE DEF at, T
<1>5. \A n \in 0..33 : ValeLut[n] \in 0..33
  BY <1>2, <1>3
<1>6. ASSUME NEW m \in 0..33, NEW n \in 0..33, ValeLut[m] = ValeLut[n]
      PROVE  m = n
  <2>0. at(m) - 1 = at(n) - 1
    BY <1>3, <1>6
  <2>1. at(m) = at(n)
    <3>1. at(m) \in 1..34 /\ at(n) \in 1..34
      BY <1>2
    <3> QED BY <2>0, <3>1
  <2>2. T[at(m)] = m + 1 /\ T[at(n)] = n + 1
    BY <1>2
  <2> QED BY <2>1, <2>2
<1>7. \A t \in 34..33 : FALSE
  OBVIOUS
<1> QED BY <1>4, <1>5, <1>6, <1>7 DEF Permutes, Positive

LEMMA NamedPermutes ==
  ASSUME NEW lines, NEW m \in Nat, lines \in Seq(0..Len(lines) - 1),
         Injective(lines), Len(lines) + m > 0
  PROVE  Permutes(NamedLut(lines, m), Len(lines), Len(lines) + m)
<1> DEFINE k == Len(lines)
           l == NamedLut(lines, m)
<1>1. k \in Nat /\ DOMAIN lines = 1..k /\ \A i \in 1..k : lines[i] \in 0..k - 1
  <2>1. \A S : lines \in Seq(S) =>
          Len(lines) \in Nat /\ DOMAIN lines = 1..Len(lines)
          /\ \A i \in 1..Len(lines) : lines[i] \in S
    OBVIOUS
  <2> QED BY <2>1
<1>2. DOMAIN l = 0..k + m - 1
  BY DEF NamedLut
<1> HIDE DEF k
<1>3. \A t \in 0..k - 1 : l[t] = lines[t + 1]
  BY <1>1 DEF NamedLut, k
<1>4. \A t \in k..k + m - 1 : l[t] = TailSymbol
  BY <1>1 DEF NamedLut, k
<1> HIDE DEF l
<1>5. \A t \in 0..k - 1 : t + 1 \in 1..k
  BY <1>1
<1>6. \A s, t \in 0..k - 1 : l[s] = l[t] => s = t
  <2> SUFFICES ASSUME NEW s \in 0..k - 1, NEW t \in 0..k - 1, l[s] = l[t]
               PROVE  s = t
    OBVIOUS
  <2>1. s + 1 = t + 1
    BY <1>1, <1>3, <1>5 DEF Injective
  <2> QED BY <1>1, <2>1
<1>7. k + m > 0
  BY DEF k
<1>8. Permutes(l, k, k + m)
  <2>1. k + m \in Positive /\ k \in 0..k + m
    BY <1>1, <1>7 DEF Positive
  <2>2. \A t \in 0..k - 1 : l[t] \in 0..k - 1
    BY <1>1, <1>3, <1>5
  <2> QED BY <1>2, <1>4, <1>6, <2>1, <2>2 DEF Permutes
<1> QED BY <1>8 DEF l, k

(***************************************************************************)
(* The random tables                                                       *)
(***************************************************************************)
LEMMA UniformPermutes ==
  ASSUME NEW tau \in Positive, NEW m \in 0..tau, NEW l \in UniformLuts(tau, m)
  PROVE  Permutes(l, tau - m, tau)
<1> DEFINE k == tau - m
<1>1. PICK f \in [0..k - 1 -> 0..k - 1] :
        /\ Injective(f)
        /\ l = [t \in 0..tau - 1 |-> IF t < k THEN f[t] ELSE TailSymbol]
  BY DEF UniformLuts
<1>2. k \in 0..tau /\ tau \in Nat
  BY DEF Positive
<1> HIDE DEF k
<1>3. \A t \in 0..k - 1 : t \in 0..tau - 1 /\ t < k /\ l[t] = f[t]
  BY <1>1, <1>2
<1>4. \A t \in k..tau - 1 : l[t] = TailSymbol
  BY <1>1, <1>2
<1>5. \A s, t \in 0..k - 1 : l[s] = l[t] => s = t
  BY <1>1, <1>3 DEF Injective
<1>6. DOMAIN l = 0..tau - 1
  BY <1>1
<1>7. Permutes(l, k, tau)
  BY <1>1, <1>2, <1>3, <1>4, <1>5, <1>6 DEF Permutes
<1> QED BY <1>7 DEF k

LEMMA RandomPermutes ==
  ASSUME NEW tau \in Positive, NEW m, 2 ^ m - 1 \in 1..tau,
         NEW l \in RandomLuts(tau, m)
  PROVE  Permutes(l, tau, tau)
<1> DEFINE p == 2 ^ m - 1
<1>1. p \in 1..tau /\ p \in Positive /\ tau \in Nat
  BY DEF Positive
<1>2. /\ l \in {[t \in 0..tau - 1 |-> g[t] * p + (t % p)] :
                  g \in [0..tau - 1 -> 0..tau \div p - 1]}
      /\ Injective(l)
  BY DEF RandomLuts
<1> HIDE DEF p
<1>3. PICK g \in [0..tau - 1 -> 0..tau \div p - 1] :
        l = [t \in 0..tau - 1 |-> g[t] * p + (t % p)]
  BY <1>2
<1>4. DOMAIN l = 0..tau - 1
  BY <1>3
<1>5. ASSUME NEW t \in 0..tau - 1
      PROVE  l[t] \in 0..tau - 1
  <2> DEFINE q == tau \div p
             a == g[t]
             b == t % p
  <2>1. q \in Nat /\ tau = q * p + (tau % p) /\ tau % p \in 0..p - 1
    BY <1>1, Division
  <2>2. b \in 0..p - 1
    <3>1. t \in Int
      BY <1>1
    <3> QED BY <1>1, <3>1, Division
  <2>3. a \in 0..q - 1
    BY <1>3
  <2>4. l[t] = a * p + b
    BY <1>3
  <2> HIDE DEF q, a, b
  <2>5. q \in Positive
    BY <2>1, <2>3 DEF Positive
  <2>6. a * p + b \in 0..q * p - 1
    BY <1>1, <2>2, <2>3, <2>5, InBlock
  <2>7. q * p <= tau /\ q * p \in Nat
    BY <1>1, <2>1
  <2> QED BY <1>1, <2>4, <2>6, <2>7
<1>6. \A s, t \in 0..tau - 1 : l[s] = l[t] => s = t
  BY <1>2, <1>4 DEF Injective
<1>7. \A t \in tau..tau - 1 : FALSE
  BY <1>1
<1> QED BY <1>1, <1>4, <1>5, <1>6, <1>7 DEF Permutes

(***************************************************************************)
(* A machine's tables once they are filled                                 *)
(***************************************************************************)
Filled(d, l) ==
  CASE d.kind = "uniform" -> l \in UniformLuts(d.tau, d.m)
    [] d.kind = "rand" -> l \in RandomLuts(d.tau, d.m)
    [] IsPad(d) -> l \in Pads(d)
    [] OTHER -> l = Fixed(d)

LEMMA FixedPermutes ==
  ASSUME NEW d, SoundFixed(d)
  PROVE  /\ \E k, n : Permutes(Fixed(d), k, n)
         /\ (d.kind = "named" => d.m = 0) => \E n : Permutes(Fixed(d), n, n)
         /\ ~IsRandom(d)
<1>1. CASE d.kind = "flat"
  BY <1>1, FlatPermutes DEF SoundFixed, Fixed, IsRandom, IsPad
<1>2. CASE d.kind = "shift"
  BY <1>2, ShiftPermutes DEF SoundFixed, Fixed, IsRandom, IsPad
<1>3. CASE d.kind = "rectangular"
  BY <1>3, RectangularPermutes DEF SoundFixed, Fixed, Fits, IsRandom, IsPad
<1>4. CASE d.kind = "helical"
  BY <1>4, HelicalPermutes DEF SoundFixed, Fixed, Fits, IsRandom, IsPad
<1>5. CASE d.kind = "berrou"
  BY <1>5, BerrouPermutes DEF SoundFixed, Fixed, IsRandom, IsPad
<1>6. CASE d.kind = "vale96int"
  BY <1>6, ValePermutes DEF SoundFixed, Fixed, IsRandom, IsPad
<1>7. CASE d.kind = "named"
  <2>1. Permutes(Fixed(d), Len(d.lines), Len(d.lines) + d.m)
    BY <1>7, NamedPermutes DEF SoundFixed, Fixed
  <2>2. d.m = 0 => Len(d.lines) + d.m = Len(d.lines)
    BY <2>1 DEF Permutes, Positive
  <2> QED BY <1>7, <2>1, <2>2 DEF IsRandom, IsPad
<1> QED BY <1>1, <1>2, <1>3, <1>4, <1>5, <1>6, <1>7 DEF SoundFixed

LEMMA WordType ==
  ASSUME NEW n \in Positive, NEW S \in Positive, NEW w \in Words(n, S)
  PROVE  w \in [0..n - 1 -> 0..S - 1]
BY DEF Words, AllSymbols

(* What LikelihoodsFollow asks of one interleaver.                         *)
Follows(d, l) ==
  /\ l # Unset
  /\ \A w \in Words(Cardinality(DOMAIN l), d.S) :
       LET sent == Certain(Transformed(d, l, w), d.S)
           back == Inverted(d, l, sent)
       IN  /\ SoftTransformed(d, l, Certain(w, d.S)) = sent
           /\ \A p \in DOMAIN l :
                \/ back[p] = {w[p]}
                \/ l[p] = TailSymbol /\ back[p] = AllSymbols(d.S)

LEMMA TableFollowsWords ==
  ASSUME NEW d, NEW l, NEW k, NEW n, Permutes(l, k, n), d.S \in Positive, ~IsPad(d)
  PROVE  Follows(d, l)
<1>1. Cardinality(DOMAIN l) = n /\ l # Unset
  BY TableSize
<1>2. n \in Positive /\ DOMAIN l = 0..n - 1
  BY DEF Permutes
<1> SUFFICES ASSUME NEW w \in Words(n, d.S)
             PROVE  LET sent == Certain(Transformed(d, l, w), d.S)
                        back == Inverted(d, l, sent)
                    IN  /\ SoftTransformed(d, l, Certain(w, d.S)) = sent
                        /\ \A p \in DOMAIN l :
                             \/ back[p] = {w[p]}
                             \/ l[p] = TailSymbol /\ back[p] = AllSymbols(d.S)
  BY <1>1 DEF Follows
<1> DEFINE sent == Certain(LutTransform(l, w), d.S)
           back == LutInverse(l, sent, d.S)
<1>3. /\ Transformed(d, l, w) = LutTransform(l, w)
      /\ SoftTransformed(d, l, Certain(w, d.S)) = LutSoft(l, Certain(w, d.S), d.S)
      /\ Inverted(d, l, sent) = back
  BY DEF Transformed, SoftTransformed, Inverted, IsPad
<1>4. /\ LutSoft(l, Certain(w, d.S), d.S) = sent
      /\ \A p \in 0..k - 1 : back[p] = {w[p]}
      /\ \A p \in k..n - 1 : back[p] = AllSymbols(d.S)
  <2>1. back = Recovered(l, w, d.S)
    BY DEF Recovered
  <2> HIDE DEF back
  <2>2. w \in Vectors(n, d.S)
    BY <1>2, WordType DEF Vectors
  <2> QED BY <1>2, <2>1, <2>2, TableFollows
<1>5. \A p \in DOMAIN l : p \in 0..k - 1 \/ (p \in k..n - 1 /\ l[p] = TailSymbol)
  BY DEF Permutes, Positive
<1> HIDE DEF sent, back
<1>6. \A p \in DOMAIN l :
        back[p] = {w[p]} \/ (l[p] = TailSymbol /\ back[p] = AllSymbols(d.S))
  BY <1>4, <1>5
<1>7. SoftTransformed(d, l, Certain(w, d.S)) = sent
  BY <1>3, <1>4
<1> QED BY <1>3, <1>6, <1>7 DEF sent, back

LEMMA PadType ==
  ASSUME NEW d, SoundPad(d), NEW l \in Pads(d), d.S \in Positive
  PROVE  /\ d.S \in 1..2 /\ d.tau \in Positive
         /\ l \in [0..d.tau - 1 -> 0..d.S - 1]
         /\ Cardinality(DOMAIN l) = d.tau /\ l # Unset
<1>1. d.S \in 1..2 /\ d.tau \in Positive /\ d.tau \in Nat
  BY DEF SoundPad, Positive
<1>2. l \in [0..d.tau - 1 -> 0..d.S - 1]
  <2>1. PICK f \in [0..d.tau - 1 -> 0..d.S - 1] :
          l = [t \in 0..d.tau - 1 |->
                IF d.terminated /\ t >= d.tau - d.m THEN TailSymbol ELSE f[t]]
    BY DEF Pads
  <2>2. l = [t \in 0..d.tau - 1 |-> f[t]]
    BY <2>1 DEF SoundPad
  <2> QED BY <2>2
<1>3. Cardinality(0..d.tau - 1) = d.tau
  BY <1>1, FS_Interval DEF Positive
<1>4. 0 \in DOMAIN l /\ 0 \notin DOMAIN Unset
  BY <1>1, <1>2 DEF Unset, Positive
<1>5. l # Unset
  BY <1>4
<1> QED BY <1>1, <1>2, <1>3, <1>5

LEMMA PadFollowsWords ==
  ASSUME NEW d, d.kind = "onetimepad", SoundPad(d), d.S \in Positive,
         NEW l \in Pads(d)
  PROVE  Follows(d, l)
<1>1. /\ d.S \in 1..2 /\ d.tau \in Positive
      /\ l \in [0..d.tau - 1 -> 0..d.S - 1]
      /\ Cardinality(DOMAIN l) = d.tau /\ l # Unset
  BY PadType
<1> SUFFICES ASSUME NEW w \in Words(d.tau, d.S)
             PROVE  LET sent == Certain(Transformed(d, l, w), d.S)
                        back == Inverted(d, l, sent)
                    IN  /\ SoftTransformed(d, l, Certain(w, d.S)) = sent
                        /\ \A p \in DOMAIN l :
                             \/ back[p] = {w[p]}
                             \/ l[p] = TailSymbol /\ back[p] = AllSymbols(d.S)
  BY <1>1 DEF Follows
<1>2. w \in [0..d.tau - 1 -> 0..d.S - 1]
  BY <1>1, WordType
<1> DEFINE sent == Certain(PadTransform(l, w, d.S), d.S)
           back == PadInverse(l, sent, d.S)
<1>3. /\ Transformed(d, l, w) = PadTransform(l, w, d.S)
      /\ SoftTransformed(d, l, Certain(w, d.S)) = PadSoft(l, Certain(w, d.S), d.S)
      /\ Inverted(d, l, sent) = back
  BY DEF Transformed, SoftTransformed, Inverted
<1>4. PadSoft(l, Certain(w, d.S), d.S) = sent /\ back = Certain(w, d.S)
  BY <1>1, <1>2, PadFollows
<1> HIDE DEF sent, back
<1>5. \A p \in DOMAIN l : back[p] = {w[p]}
  BY <1>1, <1>2, <1>4 DEF Certain, TailSymbol
<1>6. SoftTransformed(d, l, Certain(w, d.S)) = sent
  BY <1>3, <1>4
<1> QED BY <1>3, <1>5, <1>6 DEF sent, back

LEMMA PaddedFollowsWords ==
  ASSUME NEW d, d.kind = "padded", Sound(d), NEW l \in Pads(d)
  PROVE  Follows(d, l)
<1>0. /\ SoundPad(d) /\ SoundFixed(d.inner) /\ d.S \in Positive
      /\ DOMAIN Fixed(d.inner) = 0..d.tau - 1
      /\ d.inner.kind = "named" => d.inner.m = 0
  BY DEF Sound
<1>1. /\ d.S \in 1..2 /\ d.tau \in Positive
      /\ l \in [0..d.tau - 1 -> 0..d.S - 1]
      /\ Cardinality(DOMAIN l) = d.tau /\ l # Unset
  BY <1>0, PadType
<1> DEFINE lut == Fixed(d.inner)
<1>2. PICK n : Permutes(lut, n, n)
  BY <1>0, FixedPermutes
<1>3. n = d.tau
  <2>1. Cardinality(DOMAIN lut) = n
    BY <1>2, TableSize
  <2>2. Cardinality(0..d.tau - 1) = d.tau
    BY <1>1, FS_Interval DEF Positive
  <2> QED BY <1>0, <2>1, <2>2
<1>4. Permutes(lut, d.tau, d.tau)
  BY <1>2, <1>3
<1> SUFFICES ASSUME NEW w \in Words(d.tau, d.S)
             PROVE  LET sent == Certain(Transformed(d, l, w), d.S)
                        back == Inverted(d, l, sent)
                    IN  /\ SoftTransformed(d, l, Certain(w, d.S)) = sent
                        /\ \A p \in DOMAIN l :
                             \/ back[p] = {w[p]}
                             \/ l[p] = TailSymbol /\ back[p] = AllSymbols(d.S)
  BY <1>1 DEF Follows
<1>5. w \in [0..d.tau - 1 -> 0..d.S - 1]
  BY <1>0, <1>1, WordType
<1> DEFINE u == LutTransform(lut, w)
           sent == Certain(PadTransform(l, u, d.S), d.S)
           unpadded == PadInverse(l, sent, d.S)
           back == LutInverse(lut, unpadded, d.S)
<1>6. /\ Transformed(d, l, w) = PadTransform(l, u, d.S)
      /\ SoftTransformed(d, l, Certain(w, d.S)) =
           PadSoft(l, LutSoft(lut, Certain(w, d.S), d.S), d.S)
      /\ Inverted(d, l, sent) = back
  BY DEF Transformed, SoftTransformed, Inverted
<1>7. u \in [0..d.tau - 1 -> 0..d.S - 1]
  <2>1. \A t \in 0..d.tau - 1 : lut[t] \in 0..d.tau - 1 /\ lut[t] # TailSymbol
    BY <1>1, <1>4 DEF Permutes, TailSymbol, Positive
  <2>2. u = [t \in 0..d.tau - 1 |-> w[lut[t]]]
    BY <1>0, <2>1 DEF LutTransform
  <2> QED BY <1>5, <2>1, <2>2
<1>8. /\ LutSoft(lut, Certain(w, d.S), d.S) = Certain(u, d.S)
      /\ \A p \in 0..d.tau - 1 : LutInverse(lut, Certain(u, d.S), d.S)[p] = {w[p]}
  <2> HIDE DEF lut
  <2>1. /\ LutSoft(lut, Certain(w, d.S), d.S) = Certain(u, d.S)
        /\ Recovered(lut, w, d.S) = Certain(w, d.S)
    <3>1. w \in Vectors(d.tau, d.S)
      BY <1>5 DEF Vectors
    <3> QED BY <1>0, <1>4, <3>1, TailFree
  <2>2. \A p \in 0..d.tau - 1 : Certain(w, d.S)[p] = {w[p]}
    BY <1>5 DEF Certain, TailSymbol
  <2> QED BY <2>1, <2>2 DEF Recovered
<1> HIDE DEF u, lut
<1>9. PadSoft(l, Certain(u, d.S), d.S) = sent /\ unpadded = Certain(u, d.S)
  BY <1>1, <1>7, PadFollows
<1>10. \A p \in DOMAIN l : back[p] = {w[p]}
  BY <1>1, <1>8, <1>9
<1>11. SoftTransformed(d, l, Certain(w, d.S)) = sent
  BY <1>6, <1>8, <1>9
<1> QED BY <1>6, <1>10, <1>11

LEMMA FilledFollows ==
  ASSUME NEW d, Sound(d), NEW l, Filled(d, l)
  PROVE  Follows(d, l)
<1>0. d.S \in Positive
  BY DEF Sound
<1>1. CASE d.kind = "uniform"
  <2>1. Permutes(l, d.tau - d.m, d.tau)
    BY <1>1, UniformPermutes DEF Sound, Filled, IsPad
  <2> QED BY <1>0, <1>1, <2>1, TableFollowsWords DEF IsPad
<1>2. CASE d.kind = "rand"
  <2>1. Permutes(l, d.tau, d.tau)
    BY <1>2, RandomPermutes DEF Sound, Filled, IsPad
  <2> QED BY <1>0, <1>2, <2>1, TableFollowsWords DEF IsPad
<1>3. CASE d.kind = "onetimepad"
  BY <1>0, <1>3, PadFollowsWords DEF Sound, Filled, IsPad
<1>4. CASE d.kind = "padded"
  BY <1>4, PaddedFollowsWords DEF Filled, IsPad
<1>5. CASE d.kind \notin {"uniform", "rand", "onetimepad", "padded"}
  <2>1. SoundFixed(d) /\ l = Fixed(d)
    BY <1>5 DEF Sound, Filled, IsPad
  <2>2. PICK k, n : Permutes(l, k, n)
    BY <2>1, FixedPermutes
  <2> QED BY <1>0, <1>5, <2>2, TableFollowsWords DEF IsPad
<1> QED BY <1>1, <1>2, <1>3, <1>4, <1>5

(***************************************************************************)
(* The machine                                                             *)
(***************************************************************************)
(* A pad keeps its first key only if another has been drawn before; since  *)
(* of the pads of one machine only the first may keep its key, each has    *)
(* one after any call.                                                     *)
InterInv ==
  /\ inter \in Designs
  /\ DOMAIN tables = DOMAIN inter
  /\ \A i \in DOMAIN inter : ~IsRandom(inter[i]) => tables[i] = Fixed(inter[i])
  /\ initialised =>
       \A i \in DOMAIN inter : IsPad(inter[i]) => tables[i] \in Pads(inter[i])
  /\ advanced => \A i \in DOMAIN inter : Filled(inter[i], tables[i])

LEMMA PadDrawn ==
  ASSUME InterInv, NEW i \in DOMAIN inter, IsPad(inter[i]),
         NEW l \in AdvancedLut(inter[i], tables[i], Drawn(i))
  PROVE  l \in Pads(inter[i])
<1>1. CASE initialised
  <2>1. tables[i] \in Pads(inter[i])
    BY <1>1 DEF InterInv
  <2> QED BY <2>1 DEF AdvancedLut, IsPad
<1>2. CASE ~Drawn(i) \/ inter[i].renewable
  BY <1>2 DEF AdvancedLut, IsPad
<1>3. CASE ~initialised /\ Drawn(i)
  <2>1. PICK j \in 1..i - 1 : IsPad(inter[j])
    BY <1>3 DEF Drawn
  <2>2. SoundMachine(inter)
    BY InterleaverAssumption DEF InterInv
  <2>3. DOMAIN inter = 1..Len(inter) /\ Len(inter) \in Nat
    <3>1. \A S : inter \in Seq(S) => DOMAIN inter = 1..Len(inter) /\ Len(inter) \in Nat
      OBVIOUS
    <3> QED BY <2>2, <3>1 DEF SoundMachine
  <2>4. j \in DOMAIN inter /\ j < i
    BY <2>1, <2>3
  <2>5. inter[i].renewable
    BY <2>1, <2>2, <2>4 DEF SoundMachine
  <2> QED BY <1>2, <2>5
<1> QED BY <1>1, <1>2, <1>3

LEMMA AdvancedFills ==
  ASSUME InterInv, NEW i \in DOMAIN inter,
         NEW l \in AdvancedLut(inter[i], tables[i], Drawn(i))
  PROVE  Filled(inter[i], l)
<1>1. CASE IsPad(inter[i])
  BY <1>1, PadDrawn DEF Filled, IsPad
<1>2. CASE inter[i].kind \in {"uniform", "rand"}
  BY <1>2 DEF AdvancedLut, Filled, IsPad
<1>3. CASE ~IsRandom(inter[i])
  <2>1. l = tables[i] /\ tables[i] = Fixed(inter[i])
    BY <1>3 DEF AdvancedLut, IsRandom, IsPad, InterInv
  <2> QED BY <1>3, <2>1 DEF Filled, IsRandom, IsPad
<1> QED BY <1>1, <1>2, <1>3 DEF IsRandom

LEMMA InterStep ==
  ASSUME InterInv, [InterNext]_intervars
  PROVE  InterInv'
<1>1. CASE SeedInterleavers
  <2>1. /\ inter' = inter /\ advanced' = FALSE
        /\ DOMAIN tables' = DOMAIN inter
        /\ \A i \in DOMAIN inter :
             tables'[i] \in SeededLut(inter[i], tables[i], Drawn(i))
    BY <1>1 DEF SeedInterleavers
  <2>2. ASSUME NEW i \in DOMAIN inter, ~IsRandom(inter[i])
        PROVE  tables'[i] = Fixed(inter[i])
    BY <2>1, <2>2 DEF InterInv, SeededLut, AdvancedLut, IsRandom, IsPad
  <2>3. ASSUME NEW i \in DOMAIN inter, IsPad(inter[i])
        PROVE  tables'[i] \in Pads(inter[i])
    <3>1. tables'[i] \in AdvancedLut(inter[i], tables[i], Drawn(i))
      BY <2>1, <2>3 DEF SeededLut, IsPad
    <3> QED BY <2>3, <3>1, PadDrawn
  <2> QED BY <2>1, <2>2, <2>3 DEF InterInv
<1>2. CASE AdvanceInterleavers
  <2>1. /\ inter' = inter
        /\ DOMAIN tables' = DOMAIN inter
        /\ \A i \in DOMAIN inter :
             tables'[i] \in AdvancedLut(inter[i], tables[i], Drawn(i))
    BY <1>2 DEF AdvanceInterleavers
  <2>2. \A i \in DOMAIN inter : Filled(inter[i], tables'[i])
    BY <2>1, AdvancedFills
  <2>3. ASSUME NEW i \in DOMAIN inter, ~IsRandom(inter[i])
        PROVE  tables'[i] = Fixed(inter[i])
    BY <2>2, <2>3 DEF Filled, IsRandom, IsPad
  <2>4. ASSUME NEW i \in DOMAIN inter, IsPad(inter[i])
        PROVE  tables'[i] \in Pads(inter[i])
    BY <2>2, <2>4 DEF Filled, IsPad
  <2> QED BY <2>1, <2>2, <2>3, <2>4 DEF InterInv
<1>3. CASE UNCHANGED intervars
  BY <1>3 DEF InterInv, intervars
<1> QED BY <1>1, <1>2, <1>3 DEF InterNext

(* Whatever interleavers a codec owns, however often they are seeded and   *)
(* advanced, the likelihoods of a transformed sequence are those of the    *)
(* sequence transformed, and the inverse gives back those of the straight  *)
(* one; every interleaver has its table or key.                            *)
THEOREM LikelihoodsFollowSymbols == InterSpec => []LikelihoodsFollow
<1>1. InterInit => InterInv
  BY DEF InterInit, InterInv, New
<1>2. InterInv /\ [InterNext]_intervars => InterInv'
  BY InterStep
<1>3. InterInv => LikelihoodsFollow
  <2> SUFFICES ASSUME InterInv, advanced, NEW i \in DOMAIN inter
               PROVE  Follows(inter[i], tables[i])
    BY DEF LikelihoodsFollow, Follows
  <2>1. Sound(inter[i])
    BY InterleaverAssumption DEF InterInv, SoundMachine
  <2>2. Filled(inter[i], tables[i])
    BY DEF InterInv
  <2> QED BY <2>1, <2>2, FilledFollows
<1> QED BY <1>1, <1>2, <1>3, PTL DEF InterSpec
=============================================================================
