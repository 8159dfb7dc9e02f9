------------------------------ MODULE FSM_proofs ------------------------------
(***************************************************************************)
(* The encoders agree, for every code with well-formed generators: the     *)
(* machine of elements, that of bits and the cached table are in one state *)
(* whatever they are fed.                                                  *)
(***************************************************************************)
EXTENDS FSM, Induction, SequenceTheorems

(***************************************************************************)
(* Sums                                                                    *)
(***************************************************************************)

(* Plus as a function of pairs of sets of exponents, and what it folds.    *)
Joiner(D) == [p \in (SUBSET D) \X (SUBSET D) |-> Plus(p[1], p[2])]
Terms(D, f) == IsFiniteSet(DOMAIN f) /\ \A x \in DOMAIN f : f[x] \in SUBSET D
JoinSum(D, f, S) == Fold(Joiner(D), Zero, f, S)

LEMMA JoinerFolds ==
  ASSUME NEW D, NEW f, Terms(D, f)
  PROVE  /\ Foldable(SUBSET D, Joiner(D), Zero, f, DOMAIN f)
         /\ \A a, b \in SUBSET D : Joiner(D)[<<a, b>>] = Plus(a, b) /\ Plus(a, b) \in SUBSET D
<1>1. \A a, b \in SUBSET D : Plus(a, b) \in SUBSET D
  BY DEF Plus
<1>2. \A a, b \in SUBSET D : Joiner(D)[<<a, b>>] = Plus(a, b)
  BY DEF Joiner
<1>3. Joiner(D) \in [(SUBSET D) \X (SUBSET D) -> SUBSET D]
  BY <1>1 DEF Joiner
<1>4. \A a, b, d : Plus(a, Plus(b, d)) = Plus(b, Plus(a, d))
  BY DEF Plus
<1>5. Swaps(SUBSET D, Joiner(D))
  <2> SUFFICES ASSUME NEW a \in SUBSET D, NEW b \in SUBSET D, NEW d \in SUBSET D
               PROVE  Joiner(D)[<<a, Joiner(D)[<<b, d>>]>>] = Joiner(D)[<<b, Joiner(D)[<<a, d>>]>>]
    BY DEF Swaps
  <2> QED BY <1>1, <1>2, <1>4
<1>6. Zero \in SUBSET D
  BY DEF Zero
<1> QED BY <1>1, <1>2, <1>3, <1>5, <1>6 DEF Foldable, Terms

(* SumOver adds the terms, in whatever order.                              *)
LEMMA SumOverJoins ==
  ASSUME NEW D, NEW f, Terms(D, f)
  PROVE  /\ SumOver(f) = JoinSum(D, f, DOMAIN f)
         /\ \A s \in SUBSET DOMAIN f :
              /\ JoinSum(D, f, s) \in SUBSET D
              /\ s = {} => JoinSum(D, f, s) = Zero
              /\ \A x \in s : JoinSum(D, f, s) = Plus(f[x], JoinSum(D, f, s \ {x}))
<1> DEFINE S == DOMAIN f
           x(s) == CHOOSE z \in s : TRUE
           Def(it) == [s \in SUBSET S |-> IF s = {} THEN Zero ELSE Plus(f[x(s)], it[s \ {x(s)}])]
           iter == CHOOSE it : it = Def(it)
<1>1. SumOver(f) = iter[S]
  BY DEF SumOver, FoldFunction, FoldFunctionOnSet, MapThenFoldSet
<1>2. Foldable(SUBSET D, Joiner(D), Zero, f, S)
  BY JoinerFolds
<1>3. \A s \in SUBSET S : Foldable(SUBSET D, Joiner(D), Zero, f, s)
  BY <1>2, FoldableSubset
<1>4. \A a, b \in SUBSET D : Joiner(D)[<<a, b>>] = Plus(a, b)
  BY JoinerFolds
<1>5. ASSUME NEW s \in SUBSET S
      PROVE  /\ JoinSum(D, f, s) \in SUBSET D
             /\ s = {} => JoinSum(D, f, s) = Zero
             /\ \A y \in s : JoinSum(D, f, s) = Plus(f[y], JoinSum(D, f, s \ {y}))
  <2>1. /\ Fold(Joiner(D), Zero, f, s) \in SUBSET D
        /\ s = {} => Fold(Joiner(D), Zero, f, s) = Zero
        /\ \A y \in s : Fold(Joiner(D), Zero, f, s)
                          = Joiner(D)[<<f[y], Fold(Joiner(D), Zero, f, s \ {y})>>]
    <3>1. Foldable(SUBSET D, Joiner(D), Zero, f, s)
      BY <1>3
    <3> HIDE DEF S
    <3> QED BY <3>1, FoldProperties
  <2>2. ASSUME NEW y \in s
        PROVE  f[y] \in SUBSET D /\ Fold(Joiner(D), Zero, f, s \ {y}) \in SUBSET D
    <3>1. s \ {y} \in SUBSET S
      OBVIOUS
    <3>2. Foldable(SUBSET D, Joiner(D), Zero, f, s \ {y})
      BY <1>3, <3>1
    <3>3. Fold(Joiner(D), Zero, f, s \ {y}) \in SUBSET D
      BY <3>2, FoldProperties
    <3> QED BY <3>3 DEF Terms
  <2> QED BY <1>4, <2>1, <2>2 DEF JoinSum
<1>6. \E it : it = Def(it)
  <2>1. PICK it : /\ \A s \in SUBSET S : it[s] \in SUBSET D
                  /\ FoldRule(Joiner(D), Zero, f, S, it)
    BY <1>2, FoldOfChoices
  <2>2. ASSUME NEW s \in SUBSET S
        PROVE  it[s] = IF s = {} THEN Zero ELSE Plus(f[x(s)], it[s \ {x(s)}])
    <3>1. CASE s = {}
      BY <2>1, <3>1 DEF FoldRule
    <3>2. CASE s # {}
      <4>1. x(s) \in s /\ x(s) = AnyOf(s)
        BY <3>2 DEF AnyOf
      <4> HIDE DEF x
      <4>2. it[s] = Joiner(D)[<<f[x(s)], it[s \ {x(s)}]>>]
        BY <2>1, <3>2, <4>1 DEF FoldRule
      <4>3. f[x(s)] \in SUBSET D /\ it[s \ {x(s)}] \in SUBSET D
        BY <2>1, <4>1 DEF Terms
      <4> QED BY <1>4, <3>2, <4>2, <4>3
    <3> QED BY <3>1, <3>2
  <2>3. it = [s \in SUBSET S |-> it[s]]
    BY <2>1 DEF FoldRule
  <2>4. it = Def(it)
    BY <2>2, <2>3
  <2> HIDE DEF Def
  <2> QED BY <2>4
<1>7. iter = Def(iter)
  <2> HIDE DEF Def
  <2> QED BY <1>6
<1>8. ASSUME NEW r \in SUBSET S PROVE iter[r] = JoinSum(D, f, r)
  <2> DEFINE jt == [s \in SUBSET S |-> JoinSum(D, f, s)]
  <2>1. iter[{}] = jt[{}]
    BY <1>5, <1>7
  <2>2. ASSUME NEW s \in SUBSET r, s # {}
        PROVE  \E y \in s : iter[s \ {y}] = jt[s \ {y}] => iter[s] = jt[s]
    <3>1. x(s) \in s
      BY <2>2
    <3>2. iter[s] = Plus(f[x(s)], iter[s \ {x(s)}])
      BY <1>7, <2>2
    <3> HIDE DEF x, iter
    <3>3. jt[s] = Plus(f[x(s)], JoinSum(D, f, s \ {x(s)}))
      BY <1>5, <3>1
    <3>4. jt[s \ {x(s)}] = JoinSum(D, f, s \ {x(s)})
      BY <3>1
    <3> QED BY <3>1, <3>2, <3>3, <3>4
  <2>3. IsFiniteSet(r)
    BY FS_Subset DEF Terms
  <2> HIDE DEF iter, jt
  <2>4. iter[r] = jt[r]
    BY <2>1, <2>2, <2>3, SameRule
  <2> QED BY <2>4 DEF jt
<1>9. S \in SUBSET S
  OBVIOUS
<1> QED
  <2> HIDE DEF iter
  <2> QED BY <1>1, <1>5, <1>8, <1>9

(* The sum of ones and zeros is their parity.                              *)
Ones(f) == {x \in DOMAIN f : f[x] = One}
Parity(n) == IF n % 2 = 1 THEN One ELSE Zero

LEMMA SumOverIsParity ==
  ASSUME NEW f, IsFiniteSet(DOMAIN f), \A x \in DOMAIN f : f[x] \in {Zero, One}
  PROVE  SumOver(f) = Parity(Cardinality(Ones(f)))
<1> DEFINE D == {0}
           S == DOMAIN f
           Q(s) == {x \in s : f[x] = One}
           G == {s \in SUBSET S : JoinSum(D, f, s) = Parity(Cardinality(Q(s)))}
<1>1. Terms(D, f)
  BY DEF Terms, Zero, One
<1> HIDE DEF D
<1>2. {} \in G
  <2>1. Q({}) = {} /\ {} \in SUBSET S
    OBVIOUS
  <2>2. JoinSum(D, f, {}) = Zero
    BY <1>1, SumOverJoins
  <2>3. Parity(Cardinality({})) = Zero
    BY FS_EmptySet DEF Parity
  <2> QED BY <2>1, <2>2, <2>3
<1>3. ASSUME NEW s \in SUBSET S, NEW x \in s, s \ {x} \in G PROVE s \in G
  <2>1. JoinSum(D, f, s) = Plus(f[x], JoinSum(D, f, s \ {x}))
    BY <1>1, SumOverJoins
  <2>2. IsFiniteSet(Q(s)) /\ IsFiniteSet(Q(s \ {x}))
    BY FS_Subset
  <2>3. Cardinality(Q(s \ {x})) \in Nat
    BY <2>2, FS_CardinalityType
  <2>4. CASE f[x] = Zero
    <3>1. Q(s \ {x}) = Q(s)
      BY <2>4 DEF Zero, One
    <3>2. \A e : Plus(Zero, e) = e
      BY DEF Plus, Zero
    <3> HIDE DEF Q
    <3> QED BY <1>3, <2>1, <2>4, <3>1, <3>2
  <2>5. CASE f[x] = One
    <3>1. Q(s \ {x}) = Q(s) \ {x} /\ x \in Q(s)
      BY <2>5
    <3>2. Cardinality(Q(s)) = Cardinality(Q(s \ {x})) + 1
      <4> HIDE DEF Q
      <4>1. Cardinality(Q(s)) \in Nat
        BY <2>2, FS_CardinalityType
      <4>2. x \in Q(s) => Cardinality(Q(s) \ {x}) = Cardinality(Q(s)) - 1
        BY <2>2, FS_RemoveElement
      <4>3. Cardinality(Q(s \ {x})) = Cardinality(Q(s)) - 1
        BY <3>1, <4>2
      <4> QED BY <4>1, <4>3
    <3>3. Plus(One, One) = Zero /\ Plus(One, Zero) = One
      BY DEF Plus, Zero, One
    <3>4. \A n \in Nat : Plus(One, Parity(n)) = Parity(n + 1)
      <4> SUFFICES ASSUME NEW n \in Nat PROVE Plus(One, Parity(n)) = Parity(n + 1)
        OBVIOUS
      <4>1. n % 2 = 1 <=> (n + 1) % 2 # 1
        OBVIOUS
      <4> QED BY <3>3, <4>1 DEF Parity
    <3> HIDE DEF Q
    <3> QED BY <1>3, <2>1, <2>3, <2>5, <3>2, <3>4
  <2> QED BY <2>4, <2>5
<1>4. S \in G
  <2> HIDE DEF G
  <2> QED BY <1>2, <1>3, SubsetInduction
<1>5. SumOver(f) = JoinSum(D, f, S)
  BY <1>1, SumOverJoins
<1> QED BY <1>4, <1>5 DEF Ones

(***************************************************************************)
(* Numbers of elements and vectors                                         *)
(***************************************************************************)
LEMMA TwoToGrows ==
  /\ TwoTo(0) = 1
  /\ \A n \in Nat : TwoTo(n) \in Nat \ {0} /\ TwoTo(n + 1) = 2 * TwoTo(n)
<1> DEFINE Def(n, p) == [k \in 0..n |-> IF k = 0 THEN 1 ELSE 2 * p[k - 1]]
           P(n) == CHOOSE p : p = Def(n, p)
           h == [x \in Nat \X Nat |-> 2 * x[2]]
<1>1. h \in [Nat \X Nat -> Nat]
  OBVIOUS
<1>2. ASSUME NEW n \in Nat PROVE P(n) = Def(n, P(n))
  <2>1. Recursion(Nat, 1, h, n) # {}
    <3>1. 1 \in Nat
      OBVIOUS
    <3> HIDE DEF h
    <3> QED BY <1>1, <3>1, RecursionExists
  <2>2. PICK g \in [0..n -> Nat] : g[0] = 1 /\ \A i \in 1..n : g[i] = h[<<i, g[i - 1]>>]
    BY <2>1 DEF Recursion
  <2>3. \A i \in 1..n : g[i] = 2 * g[i - 1]
    <3>1. \A i \in 1..n : i \in Nat /\ i - 1 \in 0..n
      OBVIOUS
    <3>2. \A i \in 1..n : <<i, g[i - 1]>> \in Nat \X Nat
      BY <3>1
    <3> QED BY <2>2, <3>2
  <2>4. g = Def(n, g)
    <3>1. \A i \in 0..n : i # 0 => i \in 1..n
      OBVIOUS
    <3> QED BY <2>2, <2>3, <3>1
  <2> HIDE DEF Def
  <2> QED BY <2>4
<1>3. \A n : TwoTo(n) = P(n)[n]
  BY DEF TwoTo
<1> HIDE DEF P
<1> DEFINE Ns == {m \in Nat : \A n \in Nat, k \in Nat : m <= n /\ m <= k =>
                                P(n)[m] \in Nat \ {0} /\ P(n)[m] = P(k)[m]}
<1>4. 0 \in Ns
  <2>1. \A n \in Nat : P(n)[0] = 1
    BY <1>2
  <2> QED BY <2>1
<1>5. ASSUME NEW m \in Nat, m \in Ns PROVE m + 1 \in Ns
  <2>1. ASSUME NEW n \in Nat, m + 1 <= n PROVE P(n)[m + 1] = 2 * P(n)[m]
    <3>1. m + 1 \in 0..n /\ m + 1 # 0 /\ (m + 1) - 1 = m
      BY <2>1
    <3>2. P(n) = Def(n, P(n))
      BY <1>2
    <3> QED BY <3>1, <3>2
  <2>2. \A n \in Nat : m + 1 <= n => m <= n
    OBVIOUS
  <2> QED BY <1>5, <2>1, <2>2
<1>6. \A m \in Nat : m \in Ns
  <2> HIDE DEF Ns
  <2> QED BY <1>4, <1>5, SetInduction
<1>7. P(0)[0] = 1
  BY <1>2
<1>8. ASSUME NEW n \in Nat
      PROVE  P(n)[n] \in Nat \ {0} /\ P(n + 1)[n + 1] = 2 * P(n)[n]
  <2>1. P(n)[n] \in Nat \ {0} /\ P(n + 1)[n] = P(n)[n]
    BY <1>6
  <2>2. n + 1 \in Nat /\ n + 1 \in 0..n + 1 /\ n + 1 # 0 /\ (n + 1) - 1 = n
    OBVIOUS
  <2>3. P(n + 1) = Def(n + 1, P(n + 1))
    BY <1>2, <2>2
  <2>4. P(n + 1)[n + 1] = 2 * P(n + 1)[n]
    BY <2>2, <2>3
  <2> QED BY <2>1, <2>4
<1> QED BY <1>3, <1>7, <1>8

(* An element is the number of which its exponents are the bits.           *)
Weight == [k \in Nat |-> TwoTo(k)]

LEMMA ToIntIsSum ==
  ASSUME NEW e \in SUBSET Nat, IsFiniteSet(e)
  PROVE  /\ Numbers(Weight, e)
         /\ ToInt(e) = Sum(Weight, e) /\ ToInt(e) \in Nat
<1> DEFINE w == [k \in e |-> TwoTo(k)]
<1>1. \A k \in e : w[k] \in Nat /\ w[k] = Weight[k]
  BY TwoToGrows DEF Weight
<1>2. Numbers(w, e) /\ DOMAIN w = e /\ Numbers(Weight, e)
  BY <1>1 DEF Numbers
<1>3. ToInt(e) = SumFunction(w)
  BY DEF ToInt
<1> HIDE DEF w
<1>4. SumFunction(w) = Sum(w, e) /\ SumFunction(w) \in Nat
  BY <1>2, SumFunctionIsSum
<1>5. Sum(w, e) = Sum(Weight, e)
  BY <1>1, <1>2, SumCongruent
<1> QED BY <1>2, <1>3, <1>4, <1>5

LEMMA TopBit ==
  ASSUME NEW m \in Nat, NEW e \in SUBSET (0..m)
  PROVE  /\ ToInt(e) = ToInt(e \ {m}) + (IF m \in e THEN TwoTo(m) ELSE 0)
         /\ ToInt(e \ {m}) \in Nat
<1> DEFINE r == e \ {m}
<1>1. e \in SUBSET Nat /\ r \in SUBSET Nat /\ IsFiniteSet(e) /\ IsFiniteSet(r)
  <2>1. IsFiniteSet(0..m)
    BY FS_Interval
  <2>2. r \in SUBSET e /\ 0..m \subseteq Nat
    OBVIOUS
  <2>3. IsFiniteSet(e)
    BY <2>1, FS_Subset
  <2>4. IsFiniteSet(r)
    BY <2>2, <2>3, FS_Subset
  <2> QED BY <2>2, <2>3, <2>4
<1>2. Numbers(Weight, e) /\ ToInt(e) = Sum(Weight, e)
  BY <1>1, ToIntIsSum
<1>3. ToInt(r) = Sum(Weight, r) /\ ToInt(r) \in Nat
  <2> HIDE DEF r
  <2> QED BY <1>1, ToIntIsSum
<1>4. CASE m \in e
  <2>1. Sum(Weight, e) = Weight[m] + Sum(Weight, r)
    BY <1>2, <1>4, SumProperties
  <2>2. Weight[m] = TwoTo(m) /\ TwoTo(m) \in Nat
    BY TwoToGrows DEF Weight
  <2> QED BY <1>2, <1>3, <1>4, <2>1, <2>2
<1>5. CASE m \notin e
  <2>1. r = e
    BY <1>5
  <2> QED BY <1>3, <1>5, <2>1
<1> QED BY <1>4, <1>5

(* The numbers of the subsets of 0..m-1 are those below 2^m, once each.    *)
LEMMA ToIntBijective ==
  \A m \in Nat :
    /\ \A e \in SUBSET (0..m - 1) : ToInt(e) \in 0..TwoTo(m) - 1
    /\ \A d, e \in SUBSET (0..m - 1) : ToInt(d) = ToInt(e) => d = e
    /\ \A v \in 0..TwoTo(m) - 1 : \E e \in SUBSET (0..m - 1) : ToInt(e) = v
<1> DEFINE Below(m) == \A e \in SUBSET (0..m - 1) : ToInt(e) \in 0..TwoTo(m) - 1
           Once(m) == \A d, e \in SUBSET (0..m - 1) : ToInt(d) = ToInt(e) => d = e
           All(m) == \A v \in 0..TwoTo(m) - 1 : \E e \in SUBSET (0..m - 1) : ToInt(e) = v
           Ms == {m \in Nat : Below(m) /\ Once(m) /\ All(m)}
<1>1. 0 \in Ms
  <2>1. \A e \in SUBSET (0..0 - 1) : e = {}
    OBVIOUS
  <2>2. ToInt({}) = 0
    <3>1. {} \in SUBSET Nat /\ IsFiniteSet({})
      BY FS_EmptySet
    <3>2. Numbers(Weight, {}) /\ ToInt({}) = Sum(Weight, {})
      BY <3>1, ToIntIsSum
    <3> QED BY <3>2, SumProperties
  <2>3. TwoTo(0) = 1
    BY TwoToGrows
  <2>4. Below(0)
    <3> SUFFICES ASSUME NEW e \in SUBSET (0..0 - 1) PROVE ToInt(e) \in 0..TwoTo(0) - 1
      OBVIOUS
    <3>1. ToInt(e) = 0
      BY <2>1, <2>2
    <3> QED BY <2>3, <3>1
  <2>5. Once(0)
    BY <2>1
  <2>6. All(0)
    <3>1. \A v \in 0..TwoTo(0) - 1 : v = 0
      BY <2>3
    <3>2. {} \in SUBSET (0..0 - 1)
      OBVIOUS
    <3> QED BY <2>2, <3>1, <3>2
  <2> QED BY <2>4, <2>5, <2>6
<1>2. ASSUME NEW m \in Nat, m \in Ms PROVE m + 1 \in Ms
  <2>1. TwoTo(m) \in Nat \ {0} /\ TwoTo(m + 1) = 2 * TwoTo(m)
    BY TwoToGrows
  <2>2. 0..(m + 1) - 1 = 0..m /\ m \in 0..m
    OBVIOUS
  <2>3. \A e \in SUBSET (0..m) : e \ {m} \in SUBSET (0..m - 1)
    OBVIOUS
  <2>4. \A e \in SUBSET (0..m) :
          /\ ToInt(e) = ToInt(e \ {m}) + (IF m \in e THEN TwoTo(m) ELSE 0)
          /\ ToInt(e \ {m}) \in 0..TwoTo(m) - 1
    BY <1>2, <2>3, TopBit
  <2>5. Below(m + 1)
    <3> SUFFICES ASSUME NEW e \in SUBSET (0..m) PROVE ToInt(e) \in 0..TwoTo(m + 1) - 1
      BY <2>2
    <3>1. /\ ToInt(e) = ToInt(e \ {m}) + (IF m \in e THEN TwoTo(m) ELSE 0)
          /\ ToInt(e \ {m}) \in 0..TwoTo(m) - 1
      BY <2>4
    <3> QED BY <2>1, <3>1
  <2>6. Once(m + 1)
    <3> SUFFICES ASSUME NEW d \in SUBSET (0..m), NEW e \in SUBSET (0..m), ToInt(d) = ToInt(e)
                 PROVE  d = e
      BY <2>2
    <3>0. /\ ToInt(d) = ToInt(d \ {m}) + (IF m \in d THEN TwoTo(m) ELSE 0)
          /\ ToInt(d \ {m}) \in 0..TwoTo(m) - 1
          /\ ToInt(e) = ToInt(e \ {m}) + (IF m \in e THEN TwoTo(m) ELSE 0)
          /\ ToInt(e \ {m}) \in 0..TwoTo(m) - 1
      BY <2>4
    <3> DEFINE a == ToInt(d \ {m})
               b == ToInt(e \ {m})
    <3>1. m \in d <=> m \in e
      <4>1. ~ (m \in d /\ m \notin e)
        <5> SUFFICES ASSUME m \in d, m \notin e PROVE FALSE
          OBVIOUS
        <5>1. a + TwoTo(m) = ToInt(d) /\ b + 0 = ToInt(e)
          BY <3>0
        <5> HIDE DEF a, b
        <5> QED BY <2>1, <3>0, <5>1 DEF a, b
      <4>2. ~ (m \in e /\ m \notin d)
        <5> SUFFICES ASSUME m \in e, m \notin d PROVE FALSE
          OBVIOUS
        <5>1. b + TwoTo(m) = ToInt(e) /\ a + 0 = ToInt(d)
          BY <3>0
        <5> HIDE DEF a, b
        <5> QED BY <2>1, <3>0, <5>1 DEF a, b
      <4> QED BY <4>1, <4>2
    <3>2. a = b
      <4>1. a \in Int /\ b \in Int /\ TwoTo(m) \in Int
        BY <2>1, <3>0
      <4> HIDE DEF a, b
      <4>2. CASE m \in d
        <5>1. a + TwoTo(m) = ToInt(d) /\ b + TwoTo(m) = ToInt(e)
          BY <3>0, <3>1, <4>2 DEF a, b
        <5> QED BY <4>1, <5>1
      <4>3. CASE m \notin d
        <5>1. a + 0 = ToInt(d) /\ b + 0 = ToInt(e)
          BY <3>0, <3>1, <4>3 DEF a, b
        <5> QED BY <4>1, <5>1
      <4> QED BY <4>2, <4>3
    <3>3. d \ {m} = e \ {m}
      BY <1>2, <2>3, <3>2
    <3> QED BY <3>1, <3>3
  <2>7. All(m + 1)
    <3> SUFFICES ASSUME NEW v \in 0..TwoTo(m + 1) - 1
                 PROVE  \E e \in SUBSET (0..m) : ToInt(e) = v
      BY <2>2
    <3>1. CASE v < TwoTo(m)
      <4>1. v \in 0..TwoTo(m) - 1
        BY <2>1, <3>1
      <4>2. PICK e \in SUBSET (0..m - 1) : ToInt(e) = v
        BY <1>2, <4>1
      <4> QED BY <4>2
    <3>2. CASE ~ v < TwoTo(m)
      <4>1. v - TwoTo(m) \in 0..TwoTo(m) - 1
        BY <2>1, <3>2
      <4>2. PICK e \in SUBSET (0..m - 1) : ToInt(e) = v - TwoTo(m)
        BY <1>2, <4>1
      <4>3. (e \union {m}) \ {m} = e /\ e \union {m} \in SUBSET (0..m)
        OBVIOUS
      <4>4. ToInt(e \union {m}) = ToInt(e) + TwoTo(m)
        BY <2>4, <4>3
      <4> QED BY <2>1, <4>2, <4>3, <4>4
    <3> QED BY <3>1, <3>2
  <2> HIDE DEF Below, Once, All
  <2> QED BY <2>5, <2>6, <2>7
<1>3. \A m \in Nat : m \in Ms
  <2> HIDE DEF Ms
  <2> QED BY <1>1, <1>2, SetInduction
<1> QED BY <1>3

LEMMA ElementOfNumber ==
  ASSUME NEW F, F.m \in Nat
  PROVE  /\ \A e \in Elements(F) : ToInt(e) \in 0..TwoTo(F.m) - 1 /\ Element(F, ToInt(e)) = e
         /\ \A v \in 0..TwoTo(F.m) - 1 : Element(F, v) \in Elements(F)
<1>1. ASSUME NEW e \in Elements(F)
      PROVE  ToInt(e) \in 0..TwoTo(F.m) - 1 /\ Element(F, ToInt(e)) = e
  <2>1. \A d \in Elements(F) : ToInt(d) = ToInt(e) => d = e
    BY ToIntBijective DEF Elements
  <2>2. Element(F, ToInt(e)) = e
    BY <2>1 DEF Element
  <2> QED BY <2>2, ToIntBijective DEF Elements
<1>2. ASSUME NEW v \in 0..TwoTo(F.m) - 1 PROVE Element(F, v) \in Elements(F)
  <2>1. \E e \in Elements(F) : ToInt(e) = v
    BY ToIntBijective DEF Elements
  <2> QED BY <2>1 DEF Element
<1> QED BY <1>1, <1>2

(* The remainders that ConvertBack takes.                                  *)
Rest(q, v, nu, f) == f = [i \in 0..nu |-> IF i = 0 THEN v ELSE f[i - 1] \div q]

LEMMA RestExists ==
  ASSUME NEW q \in Nat \ {0}, NEW v \in Nat, NEW nu \in Nat
  PROVE  /\ \E f : Rest(q, v, nu, f)
         /\ \A f : Rest(q, v, nu, f) => \A i \in 0..nu : f[i] \in Nat
<1> DEFINE h == [x \in Nat \X Nat |-> x[2] \div q]
<1>1. \A a \in Nat : a \div q \in Nat
  OBVIOUS
<1>2. h \in [Nat \X Nat -> Nat] /\ \A i, a \in Nat : h[<<i, a>>] = a \div q
  BY <1>1
<1> HIDE DEF h
<1>3. Recursion(Nat, v, h, nu) # {}
  BY <1>2, RecursionExists
<1>4. PICK g \in [0..nu -> Nat] : g[0] = v /\ \A i \in 1..nu : g[i] = h[<<i, g[i - 1]>>]
  BY <1>3 DEF Recursion
<1>5. \A i \in 0..nu : g[i] = IF i = 0 THEN v ELSE g[i - 1] \div q
  <2> SUFFICES ASSUME NEW i \in 1..nu PROVE g[i] = g[i - 1] \div q
    BY <1>4
  <2>1. i \in Nat /\ i - 1 \in 0..nu
    OBVIOUS
  <2> QED BY <1>2, <1>4, <2>1
<1>6. Rest(q, v, nu, g)
  BY <1>5 DEF Rest
<1>7. ASSUME NEW f, Rest(q, v, nu, f) PROVE \A i \in 0..nu : f[i] \in Nat
  <2> DEFINE S == {i \in 0..nu : f[i] \in Nat}
  <2>1. 0 \in S
    BY <1>7 DEF Rest
  <2>2. ASSUME NEW i \in 1..nu, i - 1 \in S PROVE i \in S
    <3>1. f[i] = f[i - 1] \div q
      BY <1>7 DEF Rest
    <3>2. f[i - 1] \div q \in Nat
      BY <1>1, <2>2
    <3> QED BY <3>1, <3>2
  <2> HIDE DEF S
  <2>3. \A i \in 0..nu : i \in S
    BY <2>1, <2>2, IntervalInduction
  <2> QED BY <2>3 DEF S
<1> QED BY <1>6, <1>7

FromRest(F, nu, f) == [i \in 1..nu |-> Element(F, f[i - 1] % TwoTo(F.m))]

(* Whatever the number, its digits are a vector of elements.               *)
LEMMA ConvertBackDigits ==
  ASSUME NEW F, F.m \in Nat, NEW v \in Nat, NEW nu \in Nat
  PROVE  \E f : /\ Rest(TwoTo(F.m), v, nu, f)
                /\ ConvertBack(F, v, nu) = FromRest(F, nu, f)
                /\ ConvertBack(F, v, nu) \in [1..nu -> Elements(F)]
<1> DEFINE q == TwoTo(F.m)
           Def(f) == [i \in 0..nu |-> IF i = 0 THEN v ELSE f[i - 1] \div q]
           rest == CHOOSE f : f = Def(f)
<1>0. q \in Nat \ {0}
  BY TwoToGrows
<1>1. ConvertBack(F, v, nu) = [i \in 1..nu |-> Element(F, rest[i - 1] % q)]
  BY DEF ConvertBack
<1> HIDE DEF q
<1>2. \A f : f = Def(f) <=> Rest(q, v, nu, f)
  BY DEF Rest
<1>3. \E f : f = Def(f)
  BY <1>0, <1>2, RestExists
<1>4. Rest(q, v, nu, rest)
  <2> HIDE DEF Def
  <2> QED BY <1>2, <1>3
<1> HIDE DEF rest
<1>5. ASSUME NEW i \in 1..nu PROVE Element(F, rest[i - 1] % q) \in Elements(F)
  <2>1. i - 1 \in 0..nu
    OBVIOUS
  <2>2. rest[i - 1] \in Nat
    BY <1>0, <1>4, <2>1, RestExists
  <2>3. rest[i - 1] % q \in 0..q - 1
    BY <1>0, <2>2
  <2> QED BY <2>3, ElementOfNumber DEF q
<1> QED BY <1>1, <1>4, <1>5 DEF q, FromRest

(* The values that Convert runs through, from the last digit on.           *)
Value(q, d, n, f) ==
  f = [i \in 0..n |-> IF i = 0 THEN 0 ELSE f[i - 1] * q + d[n + 1 - i]]

LEMMA ValueExists ==
  ASSUME NEW q \in Nat, NEW n \in Nat, NEW d \in [1..n -> Nat]
  PROVE  /\ \E f : Value(q, d, n, f)
         /\ \A f : Value(q, d, n, f) => \A i \in 0..n : f[i] \in Nat
<1> DEFINE D(i) == IF i \in 1..n THEN d[n + 1 - i] ELSE 0
           h == [x \in Nat \X Nat |-> x[2] * q + D(x[1])]
<1>1. \A i : D(i) \in Nat
  OBVIOUS
<1>2. \A a \in Nat : a * q \in Nat
  OBVIOUS
<1>3. h \in [Nat \X Nat -> Nat] /\ \A i, a \in Nat : h[<<i, a>>] = a * q + D(i)
  <2> HIDE DEF D
  <2>1. \A a \in Nat : \A i : a * q + D(i) \in Nat
    BY <1>1, <1>2
  <2> QED BY <2>1
<1> HIDE DEF h
<1>4. Recursion(Nat, 0, h, n) # {}
  <2>1. 0 \in Nat
    OBVIOUS
  <2> QED BY <1>3, <2>1, RecursionExists
<1>5. PICK g \in [0..n -> Nat] : g[0] = 0 /\ \A i \in 1..n : g[i] = h[<<i, g[i - 1]>>]
  BY <1>4 DEF Recursion
<1>6. ASSUME NEW i \in 1..n PROVE g[i] = g[i - 1] * q + d[n + 1 - i]
  <2>1. i \in Nat /\ i - 1 \in 0..n
    OBVIOUS
  <2>2. g[i] = g[i - 1] * q + D(i)
    <3> HIDE DEF D
    <3>1. g[i - 1] \in Nat
      BY <2>1
    <3>2. h[<<i, g[i - 1]>>] = g[i - 1] * q + D(i)
      BY <1>3, <2>1, <3>1
    <3> QED BY <1>5, <3>2
  <2> QED BY <2>2
<1>7. Value(q, d, n, g)
  <2>1. \A i \in 0..n : g[i] = IF i = 0 THEN 0 ELSE g[i - 1] * q + d[n + 1 - i]
    <3>1. \A i \in 0..n : i # 0 => i \in 1..n
      OBVIOUS
    <3> QED BY <1>5, <1>6, <3>1
  <2>2. g = [i \in 0..n |-> g[i]]
    OBVIOUS
  <2> QED BY <2>1, <2>2 DEF Value
<1>8. ASSUME NEW f, Value(q, d, n, f) PROVE \A i \in 0..n : f[i] \in Nat
  <2> DEFINE S == {i \in 0..n : f[i] \in Nat}
  <2>1. 0 \in S
    BY <1>8 DEF Value
  <2>2. ASSUME NEW i \in 1..n, i - 1 \in S PROVE i \in S
    <3>1. f[i] = f[i - 1] * q + d[n + 1 - i]
      BY SMTT(40), <1>8 DEF Value
    <3>2. d[n + 1 - i] \in Nat /\ f[i - 1] * q \in Nat
      BY <1>2, <2>2
    <3> QED BY SMTT(40), <3>1, <3>2
  <2> HIDE DEF S
  <2>3. \A i \in 0..n : i \in S
    BY <2>1, <2>2, IntervalInduction
  <2> QED BY <2>3 DEF S
<1> QED BY <1>7, <1>8

(* The numbers of the elements of a vector.                                *)
Digit(vec) == [i \in 1..Len(vec) |-> ToInt(vec[i])]

LEMMA ConvertValue ==
  ASSUME NEW F, F.m \in Nat, NEW vec \in Seq(Elements(F))
  PROVE  /\ Digit(vec) \in [1..Len(vec) -> 0..TwoTo(F.m) - 1]
         /\ \E f : Value(TwoTo(F.m), Digit(vec), Len(vec), f) /\ Convert(F, vec) = f[Len(vec)]
<1> DEFINE q == TwoTo(F.m)
           n == Len(vec)
           d == Digit(vec)
           Def(f) == [i \in 0..n |-> IF i = 0 THEN 0 ELSE f[i - 1] * q + ToInt(vec[n + 1 - i])]
           val == CHOOSE f : f = Def(f)
<1>0. q \in Nat /\ n \in Nat
  BY TwoToGrows, LenProperties
<1>1. d \in [1..n -> 0..q - 1]
  <2>1. \A i \in 1..n : vec[i] \in Elements(F)
    BY ElementOfSeq
  <2>2. \A i \in 1..n : ToInt(vec[i]) \in 0..q - 1
    BY <2>1, ElementOfNumber
  <2> HIDE DEF q, n
  <2> QED BY <2>2 DEF Digit, n
<1>2. Convert(F, vec) = val[n]
  BY DEF Convert
<1> HIDE DEF q
<1>3. ASSUME NEW f PROVE f = Def(f) <=> Value(q, d, n, f)
  <2>1. \A i \in 0..n : i # 0 => n + 1 - i \in 1..n
    BY <1>0
  <2>2. \A i \in 1..n : d[i] = ToInt(vec[i])
    BY DEF Digit
  <2> HIDE DEF n, d
  <2>3. \A i \in 0..n : (IF i = 0 THEN 0 ELSE f[i - 1] * q + ToInt(vec[n + 1 - i]))
                       = (IF i = 0 THEN 0 ELSE f[i - 1] * q + d[n + 1 - i])
    BY <2>1, <2>2
  <2>4. Def(f) = [i \in 0..n |-> IF i = 0 THEN 0 ELSE f[i - 1] * q + d[n + 1 - i]]
    BY <2>3
  <2> QED BY <2>4 DEF Value
<1>4. \E f : Value(q, d, n, f)
  <2>1. d \in [1..n -> Nat]
    BY <1>0, <1>1
  <2> HIDE DEF d, n
  <2> QED BY <1>0, <2>1, ValueExists
<1>5. Value(q, d, n, val)
  <2> HIDE DEF Def, n, d
  <2> QED BY <1>3, <1>4
<1> HIDE DEF val, n, d
<1> QED BY <1>1, <1>2, <1>5 DEF q, n, d

(* A vector is what its number is converted back to.                       *)
LEMMA ConvertedBack ==
  ASSUME NEW F, F.m \in Nat, NEW vec \in Seq(Elements(F))
  PROVE  /\ Convert(F, vec) \in Nat
         /\ ConvertBack(F, Convert(F, vec), Len(vec)) = vec
<1> DEFINE q == TwoTo(F.m)
           n == Len(vec)
           d == Digit(vec)
<1>0. q \in Nat \ {0} /\ n \in Nat
  BY TwoToGrows, LenProperties
<1>1. PICK val : Value(q, d, n, val) /\ Convert(F, vec) = val[n]
  BY ConvertValue
<1>2. d \in [1..n -> 0..q - 1] /\ d \in [1..n -> Nat]
  <2>1. d \in [1..n -> 0..q - 1]
    BY ConvertValue
  <2> HIDE DEF d, q, n
  <2> QED BY <1>0, <2>1
<1>3. \A i \in 1..n : ToInt(vec[i]) = d[i] /\ vec[i] \in Elements(F)
  BY ElementOfSeq DEF Digit
<1> HIDE DEF d, q, n
<1>4. \A i \in 0..n : val[i] \in Nat
  BY <1>0, <1>1, <1>2, ValueExists
<1>5. val[n] \in Nat
  BY <1>0, <1>4
<1>6. PICK rest : /\ Rest(q, val[n], n, rest)
                  /\ ConvertBack(F, val[n], n) = [i \in 1..n |-> Element(F, rest[i - 1] % q)]
  <2>1. \E f : /\ Rest(TwoTo(F.m), val[n], n, f)
               /\ ConvertBack(F, val[n], n) = FromRest(F, n, f)
    BY <1>0, <1>5, ConvertBackDigits
  <2> QED BY <2>1 DEF q, FromRest
<1>7. ASSUME NEW i \in 1..n
      PROVE  val[n - (i - 1)] \div q = val[n - i] /\ val[n - (i - 1)] % q = d[i]
  <2>1. n - (i - 1) \in 0..n /\ n - (i - 1) # 0 /\ (n - (i - 1)) - 1 = n - i
        /\ n + 1 - (n - (i - 1)) = i /\ n - i \in 0..n
    BY <1>0
  <2>2. val[n - (i - 1)] = val[n - i] * q + d[i]
    BY <1>1, <2>1 DEF Value
  <2>3. val[n - i] \in Nat /\ d[i] \in 0..q - 1
    BY <1>2, <1>4, <2>1
  <2>4. (val[n - i] * q + d[i]) \div q = val[n - i] /\ (val[n - i] * q + d[i]) % q = d[i]
    BY <1>0, <2>3, Digits
  <2> QED BY <2>2, <2>4
<1> DEFINE S == {i \in 0..n : rest[i] = val[n - i]}
<1>8. 0 \in S
  <2>1. n - 0 = n /\ 0 \in 0..n
    BY <1>0
  <2>2. rest[0] = val[n]
    BY <1>6, <2>1 DEF Rest
  <2> QED BY <2>1, <2>2
<1>9. ASSUME NEW i \in 1..n, i - 1 \in S PROVE i \in S
  <2>1. i \in 0..n /\ i # 0
    OBVIOUS
  <2>2. rest[i] = rest[i - 1] \div q
    BY <1>6, <2>1 DEF Rest
  <2> QED BY <1>7, <1>9, <2>1, <2>2
<1>10. \A i \in 0..n : i \in S
  <2> HIDE DEF S
  <2> QED BY <1>0, <1>8, <1>9, IntervalInduction
<1>11. ASSUME NEW i \in 1..n PROVE Element(F, rest[i - 1] % q) = vec[i]
  <2>1. rest[i - 1] = val[n - (i - 1)]
    <3>1. i - 1 \in 0..n
      BY <1>0
    <3> QED BY <1>10, <3>1
  <2>2. rest[i - 1] % q = ToInt(vec[i])
    BY <1>3, <1>7, <2>1
  <2>3. Element(F, ToInt(vec[i])) = vec[i]
    BY <1>3, ElementOfNumber
  <2> QED BY <2>2, <2>3
<1>12. ConvertBack(F, val[n], n) = [i \in 1..n |-> vec[i]]
  BY <1>6, <1>11
<1>13. vec = [i \in 1..n |-> vec[i]]
  BY DEF n
<1> QED BY <1>1, <1>5, <1>12, <1>13 DEF n

(***************************************************************************)
(* The order of the memory elements                                        *)
(***************************************************************************)

(* A sequence of those of the first places that are kept.                  *)
Filter(P, K, n, f) ==
  f = [p \in 0..n |-> IF p = 0 THEN <<>> ELSE IF p \in K THEN Append(f[p - 1], P[p]) ELSE f[p - 1]]

Lists(s, X) ==
  /\ s \in Seq(X)
  /\ \A a, b \in 1..Len(s) : s[a] = s[b] => a = b
  /\ \A x \in X : \E a \in 1..Len(s) : s[a] = x

Image(P, K) == {P[p] : p \in K}

LEMMA Filtered ==
  ASSUME NEW T, NEW n \in Nat, NEW P \in [1..n -> T], NEW K,
         \A a, b \in 1..n : P[a] = P[b] => a = b
  PROVE  /\ \E f : Filter(P, K, n, f)
         /\ \A f : Filter(P, K, n, f) => Lists(f[n], Image(P, K \cap 1..n))
<1> DEFINE h == [x \in Nat \X Seq(T) |-> IF x[1] \in K \cap 1..n THEN Append(x[2], P[x[1]]) ELSE x[2]]
           X(p) == {P[a] : a \in K \cap 1..p}
<1>1. /\ h \in [Nat \X Seq(T) -> Seq(T)]
      /\ \A i \in Nat, s \in Seq(T) : h[<<i, s>>] = IF i \in K \cap 1..n THEN Append(s, P[i]) ELSE s
  <2>1. \A i \in K \cap 1..n, s \in Seq(T) : Append(s, P[i]) \in Seq(T)
    BY AppendProperties
  <2> QED BY <2>1
<1> HIDE DEF h
<1>2. Recursion(Seq(T), <<>>, h, n) # {}
  <2>1. <<>> \in Seq(T)
    BY EmptySeq
  <2> QED BY <1>1, <2>1, RecursionExists
<1>3. PICK g \in [0..n -> Seq(T)] : g[0] = <<>> /\ \A i \in 1..n : g[i] = h[<<i, g[i - 1]>>]
  BY <1>2 DEF Recursion
<1>4. Filter(P, K, n, g)
  <2>1. ASSUME NEW i \in 1..n PROVE g[i] = IF i \in K THEN Append(g[i - 1], P[i]) ELSE g[i - 1]
    <3>1. i \in Nat /\ i - 1 \in 0..n
      OBVIOUS
    <3>2. g[i - 1] \in Seq(T)
      BY <3>1
    <3>3. h[<<i, g[i - 1]>>] = IF i \in K \cap 1..n THEN Append(g[i - 1], P[i]) ELSE g[i - 1]
      BY <1>1, <3>1, <3>2
    <3> QED BY <1>3, <3>3
  <2>2. \A i \in 0..n : g[i] = IF i = 0 THEN <<>> ELSE IF i \in K THEN Append(g[i - 1], P[i]) ELSE g[i - 1]
    <3>1. \A i \in 0..n : i # 0 => i \in 1..n
      OBVIOUS
    <3> QED BY <1>3, <2>1, <3>1
  <2>3. g = [i \in 0..n |-> g[i]]
    OBVIOUS
  <2> QED BY <2>2, <2>3 DEF Filter
<1>5. ASSUME NEW f, Filter(P, K, n, f) PROVE Lists(f[n], X(n))
  <2> DEFINE S == {i \in 0..n : Lists(f[i], X(i))}
  <2>1. 0 \in S
    <3>1. f[0] = <<>> /\ X(0) = {}
      BY <1>5 DEF Filter
    <3>2. <<>> \in Seq({}) /\ Len(<<>>) = 0
      BY EmptySeq
    <3>3. Lists(<<>>, {})
      BY <3>2 DEF Lists
    <3> HIDE DEF X
    <3>4. Lists(f[0], X(0))
      BY <3>1, <3>3
    <3> QED BY <3>4
  <2>2. ASSUME NEW i \in 1..n, i - 1 \in S PROVE i \in S
    <3>0. i - 1 \in 0..n /\ i \in 0..n /\ i # 0 /\ 1..i = (1..i - 1) \union {i}
      OBVIOUS
    <3>1. Lists(f[i - 1], X(i - 1))
      BY <2>2
    <3>2. CASE i \notin K
      <4>1. X(i) = X(i - 1)
        BY <3>0, <3>2
      <4>2. f[i] = f[i - 1]
        BY <1>5, <3>0, <3>2 DEF Filter
      <4> HIDE DEF X
      <4> QED BY <3>0, <3>1, <4>1, <4>2
    <3>3. CASE i \in K
      <4>1. X(i) = X(i - 1) \union {P[i]}
        BY <3>0, <3>3
      <4>2. P[i] \notin X(i - 1)
        OBVIOUS
      <4>3. f[i] = Append(f[i - 1], P[i])
        BY <1>5, <3>0, <3>3 DEF Filter
      <4> HIDE DEF X
      <4> DEFINE s == f[i - 1]
                 l == Len(s)
      <4>4. s \in Seq(X(i)) /\ P[i] \in X(i) /\ l \in Nat
        BY <3>1, <4>1, SeqMonotonic, LenProperties DEF Lists
      <4>5. /\ f[i] \in Seq(X(i)) /\ Len(f[i]) = l + 1
            /\ \A a \in 1..l : f[i][a] = s[a]
            /\ f[i][l + 1] = P[i]
        BY <4>3, <4>4, AppendProperties
      <4>6. \A a \in 1..l : s[a] \in X(i - 1)
        BY <3>1, ElementOfSeq DEF Lists
      <4>7. \A a, b \in 1..l : s[a] = s[b] => a = b
        BY <3>1 DEF Lists
      <4>8. \A x \in X(i - 1) : \E a \in 1..l : s[a] = x
        BY <3>1 DEF Lists
      <4> HIDE DEF s, l
      <4>9. \A a \in 1..l + 1 : a \in 1..l \/ a = l + 1
        BY <4>4
      <4>10. ASSUME NEW a \in 1..l + 1, NEW b \in 1..l + 1, f[i][a] = f[i][b] PROVE a = b
        <5>1. CASE a \in 1..l /\ b \in 1..l
          BY <4>5, <4>7, <4>10, <5>1
        <5>2. CASE a = l + 1 /\ b \in 1..l
          BY <4>2, <4>5, <4>6, <4>10, <5>2
        <5>3. CASE b = l + 1 /\ a \in 1..l
          BY <4>2, <4>5, <4>6, <4>10, <5>3
        <5> QED BY <4>9, <5>1, <5>2, <5>3
      <4>11. ASSUME NEW x \in X(i) PROVE \E a \in 1..l + 1 : f[i][a] = x
        <5>1. CASE x = P[i]
          BY <4>4, <4>5, <5>1
        <5>2. CASE x \in X(i - 1)
          <6>1. PICK a \in 1..l : s[a] = x
            BY <4>8, <5>2
          <6>2. a \in 1..l + 1
            BY <4>4
          <6> QED BY <4>5, <6>1, <6>2
        <5> QED BY <4>1, <5>1, <5>2
      <4>12. Lists(f[i], X(i))
        BY <4>5, <4>10, <4>11 DEF Lists
      <4> QED BY <3>0, <4>12
    <3> QED BY <3>2, <3>3
  <2>3. n \in 0..n
    OBVIOUS
  <2> HIDE DEF S
  <2>4. n \in S
    BY <2>1, <2>2, <2>3, IntervalInduction
  <2> QED BY <2>4 DEF S
<1> QED BY <1>4, <1>5 DEF Image

(* Of finitely many numbers one is the largest.                            *)
LEMMA Largest ==
  ASSUME NEW n \in Nat \ {0}, NEW f \in [1..n -> Nat]
  PROVE  \E i \in 1..n : \A j \in 1..n : f[j] <= f[i]
<1> DEFINE S == {m \in 0..n : m = 0 \/ \E i \in 1..m : \A j \in 1..m : f[j] <= f[i]}
<1>1. 0 \in S
  OBVIOUS
<1>2. ASSUME NEW m \in 1..n, m - 1 \in S PROVE m \in S
  <2>0. \A j \in 1..m : j \in 1..m - 1 \/ j = m
    OBVIOUS
  <2>1. CASE m = 1
    <3>1. \A j \in 1..m : f[j] <= f[m]
      BY <2>1
    <3> QED BY <3>1
  <2>2. CASE m # 1
    <3>1. PICK i \in 1..m - 1 : \A j \in 1..m - 1 : f[j] <= f[i]
      BY <1>2, <2>2
    <3>2. CASE f[m] <= f[i]
      <4>1. \A j \in 1..m : f[j] <= f[i]
        BY <2>0, <3>1, <3>2
      <4> QED BY <4>1
    <3>3. CASE ~ f[m] <= f[i]
      <4>1. ASSUME NEW j \in 1..m PROVE f[j] <= f[m]
        <5>1. f[i] \in Nat /\ f[m] \in Nat /\ f[j] \in Nat
          OBVIOUS
        <5> QED BY <2>0, <3>1, <3>3, <5>1
      <4> QED BY <4>1
    <3> QED BY <3>2, <3>3
  <2> QED BY <2>1, <2>2
<1>3. n \in S
  <2> HIDE DEF S
  <2>1. n \in Nat /\ n \in 0..n
    OBVIOUS
  <2> QED BY <1>1, <1>2, <2>1, IntervalInduction
<1> QED BY <1>3

(* The generators of a code of ccfsm, and the places of its registers.     *)
IsCode(c) == IsField(c.F) /\ IsGenerator(c.F, c.gen)
Sizes(c) == [i \in 1..Inputs(c) |-> RegSize(c, i)]
Places(c) == {p \in (1..MemoryOrder(c)) \X (1..Inputs(c)) : p[1] <= RegSize(c, p[2])}

LEMMA CodeSizes ==
  ASSUME NEW c, IsCode(c)
  PROVE  /\ c.F.m \in Nat \ {0}
         /\ Inputs(c) \in Nat \ {0} /\ Outputs(c) \in Nat \ {0}
         /\ \A i \in 1..Inputs(c) :
              /\ RegSize(c, i) \in Nat
              /\ \A j \in 1..Outputs(c) :
                   /\ c.gen[i][j] \in Seq(Elements(c.F))
                   /\ Len(c.gen[i][j]) = RegSize(c, i) + 1
         /\ Sizes(c) \in [1..Inputs(c) -> Nat]
         /\ MemoryOrder(c) \in Nat
         /\ \A i \in 1..Inputs(c) : RegSize(c, i) <= MemoryOrder(c)
<1> DEFINE E == Elements(c.F)
           k == Inputs(c)
<1>1. c.gen \in Seq(Seq(Seq(E))) /\ c.gen # <<>>
  BY DEF IsCode, IsGenerator
<1>2. k \in Nat \ {0} /\ DOMAIN c.gen = 1..k
  BY <1>1, EmptySeq, LenProperties DEF Inputs
<1>3. ASSUME NEW i \in 1..k
      PROVE  /\ c.gen[i] \in Seq(Seq(E)) /\ Len(c.gen[i]) = Outputs(c)
             /\ \A j \in 1..Outputs(c) :
                  c.gen[i][j] # <<>> /\ Len(c.gen[i][j]) = Len(c.gen[i][1])
  <2>1. c.gen[i] \in Seq(Seq(E))
    BY <1>1, ElementOfSeq DEF Inputs
  <2>2. DOMAIN c.gen[i] = 1..Len(c.gen[i])
    BY <2>1, LenProperties
  <2>3. Len(c.gen[i]) = Outputs(c)
    BY <1>2 DEF IsCode, IsGenerator, Outputs
  <2> QED BY <1>2, <2>1, <2>2, <2>3 DEF IsCode, IsGenerator
<1>4. Outputs(c) \in Nat \ {0}
  <2>1. 1 \in 1..k
    BY <1>2
  <2>2. c.gen[1] \in Seq(Seq(E)) /\ c.gen[1] # <<>>
    BY <1>3, <2>1 DEF IsCode, IsGenerator
  <2> QED BY <2>2, EmptySeq, LenProperties DEF Outputs
<1>5. ASSUME NEW i \in 1..k
      PROVE  /\ RegSize(c, i) \in Nat
             /\ \A j \in 1..Outputs(c) :
                  c.gen[i][j] \in Seq(E) /\ Len(c.gen[i][j]) = RegSize(c, i) + 1
  <2>1. \A j \in 1..Outputs(c) : c.gen[i][j] \in Seq(E)
    BY <1>3, ElementOfSeq
  <2>2. 1 \in 1..Outputs(c)
    BY <1>4
  <2>3. c.gen[i][1] \in Seq(E) /\ c.gen[i][1] # <<>>
    BY <1>3, <2>1, <2>2
  <2>4. Len(c.gen[i][1]) \in Nat \ {0}
    BY <2>3, EmptySeq, LenProperties
  <2> QED BY <1>3, <2>1, <2>4 DEF RegSize
<1>6. Sizes(c) \in [1..k -> Nat]
  BY <1>5 DEF Sizes
<1>7. PICK i \in 1..k : \A j \in 1..k : Sizes(c)[j] <= Sizes(c)[i]
  <2> HIDE DEF k
  <2> QED BY <1>2, <1>6, Largest
<1>8. \A j \in 1..k : Sizes(c)[j] = RegSize(c, j)
  BY DEF Sizes
<1>9. LET S == {RegSize(c, j) : j \in 1..k} IN MemoryOrder(c) \in S /\ \A y \in S : MemoryOrder(c) >= y
  <2> DEFINE S == {RegSize(c, j) : j \in 1..k}
  <2>1. MemoryOrder(c) = CHOOSE x \in S : \A y \in S : x >= y
    BY DEF MemoryOrder, Max
  <2>2. RegSize(c, i) \in S /\ \A y \in S : RegSize(c, i) >= y
    BY <1>5, <1>7, <1>8
  <2> HIDE DEF S
  <2>3. \E x \in S : \A y \in S : x >= y
    BY <2>2
  <2>4. MemoryOrder(c) \in S /\ \A y \in S : MemoryOrder(c) >= y
    BY <2>1, <2>3
  <2> QED BY <2>4 DEF S
<1>10. MemoryOrder(c) \in Nat /\ \A j \in 1..k : RegSize(c, j) <= MemoryOrder(c)
  BY <1>5, <1>9
<1>11. c.F.m \in Nat \ {0}
  BY DEF IsCode, IsField
<1> QED BY <1>2, <1>4, <1>5, <1>6, <1>10, <1>11

LEMMA IntervalCounted ==
  \A n \in Nat : IsFiniteSet(1..n) /\ Cardinality(1..n) = n
<1> SUFFICES ASSUME NEW n \in Nat PROVE IsFiniteSet(1..n) /\ Cardinality(1..n) = n
  OBVIOUS
<1>1. 1 \in Int /\ n \in Int
  OBVIOUS
<1>2. IsFiniteSet(1..n) /\ Cardinality(1..n) = IF 1 > n THEN 0 ELSE n - 1 + 1
  BY <1>1, FS_Interval
<1> QED BY <1>2

(* There are as many places as memory elements.                            *)
LEMMA PlacesCounted ==
  ASSUME NEW c, IsCode(c)
  PROVE  IsFiniteSet(Places(c)) /\ Cardinality(Places(c)) = MemoryElements(c)
<1> DEFINE k == Inputs(c)
           f == Sizes(c)
           In(V) == {p \in Places(c) : p[2] \in V}
           G == {V \in SUBSET (1..k) : Cardinality(In(V)) = Sum(f, V)}
<1>1. /\ k \in Nat /\ MemoryOrder(c) \in Nat /\ f \in [1..k -> Nat]
      /\ \A i \in 1..k : f[i] = RegSize(c, i) /\ f[i] \in Nat /\ f[i] <= MemoryOrder(c)
  BY CodeSizes DEF Sizes
<1>2. IsFiniteSet(Places(c))
  <2>1. IsFiniteSet(1..MemoryOrder(c)) /\ IsFiniteSet(1..k)
    BY <1>1, FS_Interval
  <2>2. IsFiniteSet((1..MemoryOrder(c)) \X (1..k))
    BY <2>1, FS_Product
  <2> QED BY <2>2, FS_Subset DEF Places
<1>3. IsFiniteSet(1..k) /\ Numbers(f, 1..k)
  <2>1. IsFiniteSet(1..k)
    BY <1>1, FS_Interval
  <2> QED BY <1>1, <2>1 DEF Numbers
<1>4. {} \in G
  <2>1. In({}) = {}
    OBVIOUS
  <2>2. Numbers(f, {})
    BY <1>3, NumbersSubset
  <2>3. Sum(f, {}) = 0
    BY <2>2, SumProperties
  <2> QED BY <2>1, <2>3, FS_EmptySet
<1>5. ASSUME NEW i \in 1..k PROVE IsFiniteSet(In({i})) /\ Cardinality(In({i})) = f[i]
  <2> DEFINE b == [t \in 1..f[i] |-> <<t, i>>]
  <2>0. f[i] \in Nat /\ f[i] <= MemoryOrder(c) /\ MemoryOrder(c) \in Nat /\ RegSize(c, i) = f[i]
    BY <1>1
  <2>1. In({i}) = {<<t, i>> : t \in 1..f[i]}
    <3>1. ASSUME NEW p \in In({i}) PROVE \E t \in 1..f[i] : p = <<t, i>>
      <4>1. p \in (1..MemoryOrder(c)) \X (1..k) /\ p[1] <= RegSize(c, i) /\ p[2] = i
        BY DEF Places
      <4>2. p[1] \in 1..f[i] /\ p = <<p[1], i>>
        BY <2>0, <4>1
      <4> QED BY <4>2
    <3>2. ASSUME NEW t \in 1..f[i] PROVE <<t, i>> \in In({i})
      <4>1. t \in 1..MemoryOrder(c) /\ t <= RegSize(c, i)
        BY <2>0
      <4> QED BY <4>1 DEF Places
    <3> HIDE DEF In
    <3> QED BY <3>1, <3>2
  <2>2. b \in Bijection(1..f[i], In({i}))
    <3> DEFINE T == In({i})
    <3>1. b \in [1..f[i] -> T]
      BY <2>1
    <3>2. \A s, t \in 1..f[i] : b[s] = b[t] => s = t
      OBVIOUS
    <3>3. \A p \in T : \E t \in 1..f[i] : b[t] = p
      BY <2>1
    <3> HIDE DEF T, b
    <3>4. b \in Bijection(1..f[i], T)
      BY <3>1, <3>2, <3>3 DEF Bijection, Injection, Surjection, IsInjective
    <3> QED BY <3>4 DEF T
  <2> HIDE DEF b, In, f
  <2>3. IsFiniteSet(1..f[i]) /\ Cardinality(1..f[i]) = f[i]
    BY <2>0, IntervalCounted
  <2>4. ExistsBijection(1..f[i], In({i}))
    BY <2>2 DEF ExistsBijection
  <2> QED BY <2>3, <2>4, FS_Bijection
<1>6. ASSUME NEW V \in SUBSET (1..k), NEW i \in V, V \ {i} \in G PROVE V \in G
  <2>1. In(V) = In(V \ {i}) \union In({i}) /\ In(V \ {i}) \cap In({i}) = {}
    OBVIOUS
  <2>2. IsFiniteSet(In(V \ {i})) /\ i \in 1..k
    BY <1>2, FS_Subset
  <2>3. Cardinality(In(V \ {i})) = Sum(f, V \ {i})
    BY <1>6
  <2>4. Numbers(f, V) /\ Numbers(f, V \ {i})
    BY <1>3, NumbersSubset
  <2> HIDE DEF In, f
  <2>5. Cardinality(In({i})) = f[i] /\ IsFiniteSet(In({i})) /\ f[i] \in Nat
    BY <1>1, <1>5, <2>2
  <2>6. Cardinality(In(V)) = Cardinality(In(V \ {i})) + Cardinality(In({i})) - Cardinality({})
    <3>1. Cardinality(In(V \ {i}) \union In({i}))
            = Cardinality(In(V \ {i})) + Cardinality(In({i}))
                - Cardinality(In(V \ {i}) \cap In({i}))
      BY <2>2, <2>5, FS_Union
    <3> QED BY <2>1, <3>1
  <2>7. Cardinality({}) = 0
    BY FS_EmptySet
  <2>8. Sum(f, V) = f[i] + Sum(f, V \ {i}) /\ Sum(f, V \ {i}) \in Nat
    BY <2>4, SumProperties
  <2>9. Cardinality(In(V)) = Sum(f, V)
    BY <2>3, <2>5, <2>6, <2>7, <2>8
  <2> QED BY <2>9
<1>7. 1..k \in G
  <2> HIDE DEF G, k
  <2> QED BY <1>3, <1>4, <1>6, SubsetInduction
<1>8. In(1..k) = Places(c)
  BY DEF Places
<1>9. MemoryElements(c) = Sum(f, 1..k)
  <2>1. MemoryElements(c) = SumFunction(f) /\ DOMAIN f = 1..k
    BY DEF MemoryElements, Sizes
  <2> HIDE DEF f
  <2> QED BY <1>3, <2>1, SumFunctionIsSum
<1> QED BY <1>2, <1>7, <1>8, <1>9

(* The places that the loops of state and reset pass, and keep.            *)
PlaceOf(c, p) == <<((p - 1) \div Inputs(c)) + 1, ((p - 1) % Inputs(c)) + 1>>
Passes(c) == MemoryOrder(c) * Inputs(c)
Path(c) == [p \in 1..Passes(c) |-> PlaceOf(c, p)]
Kept(c) == {p \in 1..Passes(c) : PlaceOf(c, p)[1] <= RegSize(c, PlaceOf(c, p)[2])}

LEMMA PathPasses ==
  ASSUME NEW c, IsCode(c)
  PROVE  /\ Passes(c) \in Nat
         /\ Path(c) \in [1..Passes(c) -> (1..MemoryOrder(c)) \X (1..Inputs(c))]
         /\ \A a, b \in 1..Passes(c) : Path(c)[a] = Path(c)[b] => a = b
         /\ Image(Path(c), Kept(c) \cap 1..Passes(c)) = Places(c)
<1> DEFINE k == Inputs(c)
           m == MemoryOrder(c)
           n == Passes(c)
<1>1. k \in Nat \ {0} /\ m \in Nat
  BY CodeSizes
<1>2. n \in Nat /\ n = m * k
  BY <1>1 DEF Passes
<1> HIDE DEF n, m, k
<1>3. ASSUME NEW p \in 1..n
      PROVE  /\ (p - 1) \div k \in 0..m - 1 /\ (p - 1) % k \in 0..k - 1
             /\ p - 1 = ((p - 1) \div k) * k + ((p - 1) % k)
  <2>1. p - 1 \in Nat /\ p - 1 < m * k
    BY <1>2
  <2> QED BY <1>1, <2>1, Remainders
<1>4. \A p \in 1..n : Path(c)[p] = <<((p - 1) \div k) + 1, ((p - 1) % k) + 1>>
  BY DEF Path, PlaceOf, n, k
<1>5. Path(c) \in [1..n -> (1..m) \X (1..k)]
  <2>1. \A p \in 1..n : Path(c)[p] \in (1..m) \X (1..k)
    <3> SUFFICES ASSUME NEW p \in 1..n PROVE Path(c)[p] \in (1..m) \X (1..k)
      OBVIOUS
    <3> DEFINE a == (p - 1) \div k
               b == (p - 1) % k
    <3>1. a \in 0..m - 1 /\ b \in 0..k - 1
      BY <1>3
    <3>3. Path(c)[p] = <<a + 1, b + 1>>
      BY <1>4
    <3> HIDE DEF a, b
    <3>2. a + 1 \in 1..m /\ b + 1 \in 1..k
      BY <1>1, <3>1
    <3> QED BY <3>2, <3>3
  <2>2. Path(c) = [p \in 1..n |-> Path(c)[p]]
    BY DEF Path, n
  <2> QED BY <2>1, <2>2
<1>6. ASSUME NEW p \in 1..n, NEW r \in 1..n, Path(c)[p] = Path(c)[r] PROVE p = r
  <2> DEFINE a == (p - 1) \div k
             b == (p - 1) % k
             d == (r - 1) \div k
             e == (r - 1) % k
  <2>a. /\ a \in 0..m - 1 /\ b \in 0..k - 1
        /\ d \in 0..m - 1 /\ e \in 0..k - 1
        /\ p - 1 = a * k + b /\ r - 1 = d * k + e
    BY <1>3
  <2>b. Path(c)[p] = <<a + 1, b + 1>> /\ Path(c)[r] = <<d + 1, e + 1>>
    BY <1>4
  <2>1. /\ a \in 0..m - 1 /\ b \in 0..k - 1 /\ Path(c)[p] = <<a + 1, b + 1>>
        /\ d \in 0..m - 1 /\ e \in 0..k - 1 /\ Path(c)[r] = <<d + 1, e + 1>>
        /\ p - 1 = a * k + b /\ r - 1 = d * k + e
    BY <2>a, <2>b
  <2> HIDE DEF a, b, d, e
  <2>2. a + 1 = d + 1 /\ b + 1 = e + 1
    <3>1. <<a + 1, b + 1>> = <<d + 1, e + 1>>
      BY <1>6, <2>1
    <3> QED BY <3>1
  <2>3. a = d /\ b = e
    BY <1>1, <2>1, <2>2
  <2>4. p - 1 = r - 1
    BY <2>1, <2>3
  <2> QED BY <1>2, <2>4
<1>7. \A p \in 1..n : PlaceOf(c, p) = Path(c)[p]
  BY DEF Path, n
<1>8. ASSUME NEW x \in Places(c) PROVE \E p \in Kept(c) \cap 1..n : Path(c)[p] = x
  <2>1. x \in (1..m) \X (1..k) /\ x[1] <= RegSize(c, x[2])
    BY DEF Places, m, k
  <2> DEFINE a == x[1] - 1
             b == x[2] - 1
             p == (a * k + b) + 1
  <2>2. a \in 0..m - 1 /\ b \in 0..k - 1 /\ a \in Nat /\ x = <<a + 1, b + 1>>
    BY <1>1, <2>1
  <2> HIDE DEF a, b
  <2>3. a * k + b \in Nat /\ (a * k + b) \div k = a /\ (a * k + b) % k = b
    BY <1>1, <2>2, Digits
  <2>4. a * k + k <= m * k
    BY <1>1, <2>2, Multiple
  <2>5. p \in 1..n /\ p - 1 = a * k + b
    <3>1. a * k \in Nat /\ m * k \in Nat
      BY <1>1, <2>2
    <3>2. (a * k + b) + 1 \in 1..n
      BY <1>1, <1>2, <2>2, <2>4, <3>1
    <3>3. ((a * k + b) + 1) - 1 = a * k + b
      BY <2>2, <3>1
    <3> QED BY <3>2, <3>3
  <2> HIDE DEF p
  <2>6. Path(c)[p] = <<a + 1, b + 1>>
    BY <1>4, <2>3, <2>5
  <2>7. p \in Kept(c)
    BY <1>7, <2>1, <2>2, <2>5, <2>6 DEF Kept, n
  <2> QED BY <2>2, <2>5, <2>6, <2>7
<1>9. ASSUME NEW p \in Kept(c) \cap 1..n PROVE Path(c)[p] \in Places(c)
  <2>1. Path(c)[p] \in (1..m) \X (1..k) /\ PlaceOf(c, p) = Path(c)[p]
    BY <1>5, <1>7
  <2> QED BY <2>1 DEF Kept, Places, m, k
<1>10. Image(Path(c), Kept(c) \cap 1..n) = Places(c)
  BY <1>8, <1>9 DEF Image
<1> QED BY <1>2, <1>5, <1>6, <1>10 DEF n, m, k

(* State and reset go through every place once.                            *)
LEMMA SlotsListed ==
  ASSUME NEW c, IsCode(c)
  PROVE  Lists(Slots(c), Places(c)) /\ Len(Slots(c)) = MemoryElements(c)
<1> DEFINE n == Passes(c)
           Def(f) == [p \in 0..n |-> IF p = 0 THEN <<>>
                        ELSE IF PlaceOf(c, p)[1] <= RegSize(c, PlaceOf(c, p)[2])
                             THEN Append(f[p - 1], PlaceOf(c, p)) ELSE f[p - 1]]
           slots == CHOOSE f : f = Def(f)
           T == (1..MemoryOrder(c)) \X (1..Inputs(c))
<1>1. Slots(c) = slots[n]
  BY DEF Slots, PlaceOf, Passes
<1>2. /\ n \in Nat /\ Path(c) \in [1..n -> T]
      /\ \A a, b \in 1..n : Path(c)[a] = Path(c)[b] => a = b
      /\ Image(Path(c), Kept(c) \cap 1..n) = Places(c)
  BY PathPasses
<1>3. ASSUME NEW f PROVE f = Def(f) <=> Filter(Path(c), Kept(c), n, f)
  <2>1. \A p \in 0..n : p # 0 => p \in 1..n
    BY <1>2
  <2>2. \A p \in 1..n : /\ Path(c)[p] = PlaceOf(c, p)
                        /\ p \in Kept(c) <=> PlaceOf(c, p)[1] <= RegSize(c, PlaceOf(c, p)[2])
    BY DEF Path, Kept
  <2> HIDE DEF n
  <2>3. \A p \in 0..n :
          (IF p = 0 THEN <<>>
           ELSE IF PlaceOf(c, p)[1] <= RegSize(c, PlaceOf(c, p)[2])
                THEN Append(f[p - 1], PlaceOf(c, p)) ELSE f[p - 1])
          = (IF p = 0 THEN <<>>
             ELSE IF p \in Kept(c) THEN Append(f[p - 1], Path(c)[p]) ELSE f[p - 1])
    BY <2>1, <2>2
  <2>4. Def(f) = [p \in 0..n |-> IF p = 0 THEN <<>>
                    ELSE IF p \in Kept(c) THEN Append(f[p - 1], Path(c)[p]) ELSE f[p - 1]]
    BY <2>3
  <2> QED BY <2>4 DEF Filter
<1> HIDE DEF n, T
<1>4. /\ \E f : Filter(Path(c), Kept(c), n, f)
      /\ \A f : Filter(Path(c), Kept(c), n, f) => Lists(f[n], Image(Path(c), Kept(c) \cap 1..n))
  BY <1>2, Filtered
<1>5. Filter(Path(c), Kept(c), n, slots)
  <2> HIDE DEF Def
  <2> QED BY <1>3, <1>4
<1> HIDE DEF slots
<1>6. Lists(Slots(c), Places(c))
  BY <1>1, <1>2, <1>4, <1>5
<1>7. Len(Slots(c)) = MemoryElements(c)
  <2> DEFINE s == Slots(c)
             l == Len(s)
             X == Places(c)
  <2>1. s \in Seq(X) /\ l \in Nat /\ s \in [1..l -> X]
    BY <1>6, LenProperties DEF Lists
  <2>2. \A a, b \in 1..l : s[a] = s[b] => a = b
    BY <1>6 DEF Lists
  <2>3. \A x \in X : \E a \in 1..l : s[a] = x
    BY <1>6 DEF Lists
  <2>4. IsFiniteSet(X) /\ Cardinality(X) = MemoryElements(c)
    BY PlacesCounted
  <2> HIDE DEF s, X, l
  <2>5. s \in Bijection(1..l, X)
    BY <2>1, <2>2, <2>3 DEF Bijection, Injection, Surjection, IsInjective
  <2>6. ExistsBijection(1..l, X)
    BY <2>5 DEF ExistsBijection
  <2>7. IsFiniteSet(1..l) /\ Cardinality(1..l) = l
    BY <2>1, IntervalCounted
  <2>8. Cardinality(X) = l
    BY <2>6, <2>7, FS_Bijection
  <2> QED BY <2>4, <2>8 DEF s, l
<1> QED BY <1>6, <1>7

(***************************************************************************)
(* Fields                                                                  *)
(***************************************************************************)

(* Products, sums and quotients stay among the elements.                   *)
LEMMA PlusClosed ==
  ASSUME NEW D, NEW a \in SUBSET D, NEW b \in SUBSET D
  PROVE  Plus(a, b) \in SUBSET D
BY DEF Plus

LEMMA ShiftClosed ==
  ASSUME NEW F, IsField(F), NEW a \in Elements(F)
  PROVE  Shift(F, a) \in Elements(F)
<1> DEFINE up == {k + 1 : k \in a}
           m == F.m
<1>1. m \in Nat \ {0} /\ F.poly \subseteq 0..m /\ m \in F.poly /\ a \subseteq 0..m - 1
  BY DEF IsField, Elements
<1>2. up \subseteq 0..m
  BY <1>1
<1>3. Shift(F, a) = IF m \in up THEN Plus(up, F.poly) ELSE up
  BY DEF Shift
<1> HIDE DEF up, m
<1>4. \A x \in 0..m : x # m => x \in 0..m - 1
  BY <1>1
<1>5. CASE m \in up
  <2>1. \A x \in Plus(up, F.poly) : x \in 0..m /\ x # m
    BY <1>1, <1>2, <1>5 DEF Plus
  <2> QED BY <1>3, <1>4, <1>5, <2>1 DEF Elements, m
<1>6. CASE m \notin up
  BY <1>2, <1>3, <1>4, <1>6 DEF Elements, m
<1> QED BY <1>5, <1>6

(* The multiplicand, shifted, and the sums of those that the multiplier    *)
(* has.                                                                    *)
Shifted(F, a, m, f) == f = [i \in 0..m |-> IF i = 0 THEN a ELSE Shift(F, f[i - 1])]
Summed(A, b, m, f) ==
  f = [i \in 0..m |-> IF i = 0 THEN Zero
                      ELSE IF i - 1 \in b THEN Plus(f[i - 1], A[i - 1]) ELSE f[i - 1]]

LEMMA ShiftedExists ==
  ASSUME NEW F, IsField(F), NEW a \in Elements(F), NEW n \in Nat
  PROVE  /\ \E f : Shifted(F, a, n, f)
         /\ \A f : Shifted(F, a, n, f) => \A i \in 0..n : f[i] \in Elements(F)
<1> DEFINE E == Elements(F)
           h == [x \in Nat \X E |-> Shift(F, x[2])]
<1>1. h \in [Nat \X E -> E] /\ \A i \in Nat, e \in E : h[<<i, e>>] = Shift(F, e)
  <2>1. \A e \in E : Shift(F, e) \in E
    BY ShiftClosed
  <2> HIDE DEF E
  <2> QED BY <2>1
<1> HIDE DEF h, E
<1>2. Recursion(E, a, h, n) # {}
  BY <1>1, RecursionExists DEF E
<1>3. PICK g \in [0..n -> E] : g[0] = a /\ \A i \in 1..n : g[i] = h[<<i, g[i - 1]>>]
  BY <1>2 DEF Recursion
<1>4. Shifted(F, a, n, g)
  <2>1. ASSUME NEW i \in 1..n PROVE g[i] = Shift(F, g[i - 1])
    <3>1. i \in Nat /\ i - 1 \in 0..n
      OBVIOUS
    <3>2. g[i - 1] \in E
      BY <3>1
    <3> QED BY <1>1, <1>3, <3>1, <3>2
  <2>2. \A i \in 0..n : g[i] = IF i = 0 THEN a ELSE Shift(F, g[i - 1])
    <3>1. \A i \in 0..n : i # 0 => i \in 1..n
      OBVIOUS
    <3> QED BY <1>3, <2>1, <3>1
  <2>3. g = [i \in 0..n |-> g[i]]
    OBVIOUS
  <2> QED BY <2>2, <2>3 DEF Shifted
<1>5. ASSUME NEW f, Shifted(F, a, n, f) PROVE \A i \in 0..n : f[i] \in E
  <2> DEFINE S == {i \in 0..n : f[i] \in E}
  <2>1. 0 \in S
    BY <1>5 DEF Shifted, E
  <2>2. ASSUME NEW i \in 1..n, i - 1 \in S PROVE i \in S
    <3>1. i \in 0..n /\ i # 0
      OBVIOUS
    <3>2. f[i] = Shift(F, f[i - 1])
      BY <1>5, <3>1 DEF Shifted
    <3> QED BY <2>2, <3>1, <3>2, ShiftClosed DEF E
  <2> HIDE DEF S
  <2>3. \A i \in 0..n : i \in S
    BY <2>1, <2>2, IntervalInduction
  <2> QED BY <2>3 DEF S
<1> QED BY <1>4, <1>5 DEF E

LEMMA SummedExists ==
  ASSUME NEW D, NEW n \in Nat, NEW A, \A i \in 0..n : A[i] \in SUBSET D, NEW b
  PROVE  /\ \E f : Summed(A, b, n, f)
         /\ \A f : Summed(A, b, n, f) => \A i \in 0..n : f[i] \in SUBSET D
<1> DEFINE E == SUBSET D
           Next(i, e) == IF i \in 1..n /\ i - 1 \in b THEN Plus(e, A[i - 1]) ELSE e
           h == [x \in Nat \X E |-> Next(x[1], x[2])]
<1>0. \A i \in 1..n : i - 1 \in 0..n /\ i \in 0..n /\ i # 0 /\ i \in Nat
  OBVIOUS
<1>1. h \in [Nat \X E -> E] /\ \A i \in Nat, e \in E : h[<<i, e>>] = Next(i, e)
  <2>1. \A i \in Nat, e \in E : Next(i, e) \in E
    BY <1>0, PlusClosed
  <2> HIDE DEF E, Next
  <2> QED BY <2>1
<1> HIDE DEF h, E
<1>2. Recursion(E, Zero, h, n) # {}
  <2>1. Zero \in E
    BY DEF E, Zero
  <2> QED BY <1>1, <2>1, RecursionExists
<1>3. PICK g \in [0..n -> E] : g[0] = Zero /\ \A i \in 1..n : g[i] = h[<<i, g[i - 1]>>]
  BY <1>2 DEF Recursion
<1>4. Summed(A, b, n, g)
  <2>1. ASSUME NEW i \in 1..n
        PROVE  g[i] = IF i - 1 \in b THEN Plus(g[i - 1], A[i - 1]) ELSE g[i - 1]
    <3>1. i \in Nat /\ i - 1 \in 0..n
      OBVIOUS
    <3>2. g[i - 1] \in E
      BY <3>1
    <3> QED BY <1>1, <1>3, <3>1, <3>2
  <2>2. \A i \in 0..n : g[i] = IF i = 0 THEN Zero
                               ELSE IF i - 1 \in b THEN Plus(g[i - 1], A[i - 1]) ELSE g[i - 1]
    <3>1. \A i \in 0..n : i # 0 => i \in 1..n
      OBVIOUS
    <3> QED BY <1>3, <2>1, <3>1
  <2>3. g = [i \in 0..n |-> g[i]]
    OBVIOUS
  <2> QED BY <2>2, <2>3 DEF Summed
<1>5. ASSUME NEW f, Summed(A, b, n, f) PROVE \A i \in 0..n : f[i] \in E
  <2> DEFINE S == {i \in 0..n : f[i] \in E}
  <2>1. 0 \in S
    BY <1>5 DEF Summed, E, Zero
  <2>2. ASSUME NEW i \in 1..n, i - 1 \in S PROVE i \in S
    <3>1. i \in 0..n /\ i # 0 /\ i - 1 \in 0..n
      OBVIOUS
    <3>2. f[i] = IF i - 1 \in b THEN Plus(f[i - 1], A[i - 1]) ELSE f[i - 1]
      BY <1>5, <3>1 DEF Summed
    <3> QED BY <2>2, <3>1, <3>2, PlusClosed DEF E
  <2> HIDE DEF S
  <2>3. \A i \in 0..n : i \in S
    BY <2>1, <2>2, IntervalInduction
  <2> QED BY <2>3 DEF S
<1> QED BY <1>4, <1>5 DEF E

LEMMA TimesClosed ==
  ASSUME NEW F, IsField(F), NEW a \in Elements(F), NEW b
  PROVE  /\ Times(F, a, b) \in Elements(F)
         /\ \E A, s : /\ Shifted(F, a, F.m, A) /\ Summed(A, b, F.m, s)
                      /\ Times(F, a, b) = s[F.m]
<1> DEFINE m == F.m
           DefA(f) == [i \in 0..m |-> IF i = 0 THEN a ELSE Shift(F, f[i - 1])]
           A == CHOOSE f : f = DefA(f)
           DefS(f) == [i \in 0..m |-> IF i = 0 THEN Zero
                         ELSE IF i - 1 \in b THEN Plus(f[i - 1], A[i - 1]) ELSE f[i - 1]]
           s == CHOOSE f : f = DefS(f)
<1>1. m \in Nat
  BY DEF IsField
<1>2. Times(F, a, b) = s[m]
  BY DEF Times
<1>3. Shifted(F, a, m, A)
  <2>1. \A f : f = DefA(f) <=> Shifted(F, a, m, f)
    BY DEF Shifted
  <2> HIDE DEF DefA, m
  <2> QED BY <1>1, <2>1, ShiftedExists
<1> HIDE DEF A, m
<1> DEFINE D == 0..m - 1
<1>4. \A i \in 0..m : A[i] \in SUBSET D
  BY <1>1, <1>3, ShiftedExists DEF Elements, m
<1> HIDE DEF D
<1>5. Summed(A, b, m, s)
  <2>1. \A f : f = DefS(f) <=> Summed(A, b, m, f)
    BY DEF Summed
  <2>2. \E f : Summed(A, b, m, f)
    BY <1>1, <1>4, SummedExists
  <2> HIDE DEF DefS
  <2> QED BY <2>1, <2>2
<1> HIDE DEF s
<1>6. s[m] \in SUBSET D
  <2>1. m \in 0..m
    BY <1>1
  <2> QED BY <1>1, <1>4, <1>5, <2>1, SummedExists
<1> QED BY <1>2, <1>3, <1>5, <1>6 DEF Elements, m, D

(* In GF(2) the product is the intersection.                               *)
LEMMA TimesGF2 ==
  ASSUME NEW a \in Elements(GF2), NEW b \in Elements(GF2)
  PROVE  /\ Times(GF2, a, b) = IF a = One /\ b = One THEN One ELSE Zero
         /\ a \in {Zero, One} /\ b \in {Zero, One}
<1>1. GF2.m = 1 /\ 0..GF2.m - 1 = {0}
  BY DEF GF2
<1>2. a \in {Zero, One} /\ b \in {Zero, One} /\ (0 \in b <=> b = One)
  BY <1>1 DEF Elements, Zero, One
<1>3. IsField(GF2)
  BY DEF GF2, IsField
<1>4. PICK A, s : /\ Shifted(GF2, a, 1, A) /\ Summed(A, b, 1, s)
                  /\ Times(GF2, a, b) = s[1]
  BY <1>1, <1>3, TimesClosed
<1>5. A[0] = a
  BY <1>4 DEF Shifted
<1>6. s[0] = Zero /\ s[1] = IF 0 \in b THEN Plus(s[0], A[0]) ELSE s[0]
  <2>1. 1 \in 0..1 /\ 0 \in 0..1 /\ 1 # 0 /\ 1 - 1 = 0
    OBVIOUS
  <2> QED BY <1>4, <2>1 DEF Summed
<1>7. Plus(Zero, a) = a
  BY DEF Plus, Zero
<1> QED BY <1>2, <1>4, <1>5, <1>6, <1>7

(***************************************************************************)
(* The state and the registers                                             *)
(***************************************************************************)
LEMMA ExplicitSame ==
  ASSUME NEW n \in Nat, NEW T, NEW f \in [1..n -> T]
  PROVE  Explicit(f) = f /\ f \in Seq(T) /\ Len(f) = n
<1>1. f \in Seq(T) /\ Len(f) = n
  BY IsASeq, LenProperties
<1>2. f \o <<>> = f
  BY <1>1, ConcatEmptySeq
<1> QED BY <1>1, <1>2 DEF Explicit

IsReg(c, r) ==
  /\ r \in [1..Inputs(c) -> Seq(Elements(c.F))]
  /\ \A i \in 1..Inputs(c) : Len(r[i]) = RegSize(c, i)

States(c) == [1..MemoryElements(c) -> Elements(c.F)]
At(c, r, j) == r[Slots(c)[j][2]][Slots(c)[j][1]]
Slot(c, state, p) == CHOOSE j \in DOMAIN state : Slots(c)[j] = p

LEMMA StateOf ==
  ASSUME NEW c, IsCode(c), NEW r, IsReg(c, r)
  PROVE  /\ MemoryElements(c) \in Nat /\ Slots(c) \in [1..MemoryElements(c) -> Places(c)]
         /\ State(c, r) = [j \in 1..MemoryElements(c) |-> At(c, r, j)]
         /\ State(c, r) \in States(c)
<1> DEFINE nu == MemoryElements(c)
           f == [j \in 1..nu |-> At(c, r, j)]
<1>1. nu \in Nat /\ Slots(c) \in [1..nu -> Places(c)] /\ DOMAIN Slots(c) = 1..nu
  BY SlotsListed, LenProperties DEF Lists
<1>2. State(c, r) = Explicit(f)
  BY <1>1 DEF State, At
<1>3. ASSUME NEW j \in 1..nu PROVE At(c, r, j) \in Elements(c.F)
  <2> DEFINE p == Slots(c)[j]
  <2>1. p \in Places(c)
    BY <1>1
  <2>2. p[2] \in 1..Inputs(c) /\ p[1] \in Nat \ {0} /\ p[1] <= RegSize(c, p[2])
    BY <2>1, CodeSizes DEF Places
  <2>3. r[p[2]] \in Seq(Elements(c.F)) /\ Len(r[p[2]]) = RegSize(c, p[2]) /\ RegSize(c, p[2]) \in Nat
    BY <2>2, CodeSizes DEF IsReg
  <2> HIDE DEF p
  <2>4. p[1] \in 1..Len(r[p[2]])
    BY <2>2, <2>3
  <2>5. r[p[2]][p[1]] \in Elements(c.F)
    BY <2>3, <2>4, ElementOfSeq
  <2> QED BY <2>5 DEF At, p
<1>4. f \in [1..nu -> Elements(c.F)]
  BY <1>3
<1> HIDE DEF f, nu
<1>5. Explicit(f) = f
  BY <1>1, <1>4, ExplicitSame
<1> QED BY <1>1, <1>2, <1>4, <1>5 DEF States, f, nu

LEMMA ResetOf ==
  ASSUME NEW c, IsCode(c), NEW s \in States(c)
  PROVE  /\ IsReg(c, Reset(c, s))
         /\ \A i \in 1..Inputs(c) : \A t \in 1..RegSize(c, i) :
              /\ Reset(c, s)[i][t] = s[Slot(c, s, <<t, i>>)]
              /\ Slot(c, s, <<t, i>>) \in 1..MemoryElements(c)
              /\ Slots(c)[Slot(c, s, <<t, i>>)] = <<t, i>>
         /\ \A j \in 1..MemoryElements(c) : Slot(c, s, Slots(c)[j]) = j
<1> DEFINE nu == MemoryElements(c)
           k == Inputs(c)
           E == Elements(c.F)
           Row(i) == [t \in 1..RegSize(c, i) |-> s[Slot(c, s, <<t, i>>)]]
           f == [i \in 1..k |-> Explicit(Row(i))]
<1>1. nu \in Nat /\ Len(Slots(c)) = nu /\ DOMAIN s = 1..nu
  BY SlotsListed, LenProperties DEF Lists, States
<1>2. \A x \in Places(c) : \E j \in 1..nu : Slots(c)[j] = x
  BY <1>1, SlotsListed DEF Lists
<1>3. \A a, b \in 1..nu : Slots(c)[a] = Slots(c)[b] => a = b
  BY <1>1, SlotsListed DEF Lists
<1>4. \A x \in Places(c) : Slot(c, s, x) \in 1..nu /\ Slots(c)[Slot(c, s, x)] = x
  BY <1>1, <1>2 DEF Slot
<1>5. \A j \in 1..nu : Slot(c, s, Slots(c)[j]) = j
  BY <1>1, <1>3 DEF Slot
<1>6. k \in Nat /\ \A i \in 1..k : RegSize(c, i) \in Nat /\ RegSize(c, i) <= MemoryOrder(c)
  BY CodeSizes
<1>7. \A i \in 1..k : \A t \in 1..RegSize(c, i) : <<t, i>> \in Places(c)
  BY <1>6, CodeSizes DEF Places
<1>8. Reset(c, s) = Explicit(f)
  BY DEF Reset, Slot
<1>9. ASSUME NEW i \in 1..k
      PROVE  Explicit(Row(i)) = Row(i) /\ Row(i) \in Seq(E) /\ Len(Row(i)) = RegSize(c, i)
  <2>1. \A t \in 1..RegSize(c, i) : s[Slot(c, s, <<t, i>>)] \in E
    BY <1>4, <1>7 DEF States
  <2>2. Row(i) \in [1..RegSize(c, i) -> E]
    BY <2>1
  <2>3. RegSize(c, i) \in Nat
    BY <1>6
  <2> HIDE DEF Row, E
  <2> QED BY <2>2, <2>3, ExplicitSame
<1>10. f \in [1..k -> Seq(E)]
  BY <1>9
<1>11. Explicit(f) = f
  <2> HIDE DEF f, E, k
  <2> QED BY <1>6, <1>10, ExplicitSame
<1>12. \A i \in 1..k : Reset(c, s)[i] = Row(i)
  <2> HIDE DEF Row
  <2> QED BY <1>8, <1>9, <1>11
<1>13. IsReg(c, Reset(c, s))
  <2> HIDE DEF Row
  <2> QED BY <1>8, <1>9, <1>10, <1>11, <1>12 DEF IsReg
<1>14. \A i \in 1..k : \A t \in 1..RegSize(c, i) : Reset(c, s)[i][t] = s[Slot(c, s, <<t, i>>)]
  BY <1>12
<1> QED BY <1>4, <1>5, <1>7, <1>13, <1>14

(* A reset to the state of registers gives them back, and the other way    *)
(* round.                                                                  *)
LEMMA ResetToState ==
  ASSUME NEW c, IsCode(c), NEW r, IsReg(c, r)
  PROVE  Reset(c, State(c, r)) = r
<1> DEFINE s == State(c, r)
           k == Inputs(c)
           q == Reset(c, s)
<1>1. s \in States(c) /\ \A j \in 1..MemoryElements(c) : s[j] = At(c, r, j)
  BY StateOf
<1> HIDE DEF s
<1>2. /\ IsReg(c, q)
      /\ \A i \in 1..k : \A t \in 1..RegSize(c, i) :
           /\ q[i][t] = s[Slot(c, s, <<t, i>>)]
           /\ Slot(c, s, <<t, i>>) \in 1..MemoryElements(c)
           /\ Slots(c)[Slot(c, s, <<t, i>>)] = <<t, i>>
  BY <1>1, ResetOf
<1> HIDE DEF q
<1>3. ASSUME NEW i \in 1..k, NEW t \in 1..RegSize(c, i) PROVE q[i][t] = r[i][t]
  <2> DEFINE j == Slot(c, s, <<t, i>>)
  <2>1. q[i][t] = s[j] /\ j \in 1..MemoryElements(c) /\ Slots(c)[j] = <<t, i>>
    BY <1>2
  <2> HIDE DEF j
  <2>2. At(c, r, j) = r[i][t]
    BY <2>1 DEF At
  <2> QED BY <1>1, <2>1, <2>2
<1>4. ASSUME NEW i \in 1..k PROVE q[i] = r[i]
  <2>1. /\ q[i] \in Seq(Elements(c.F)) /\ Len(q[i]) = RegSize(c, i)
        /\ r[i] \in Seq(Elements(c.F)) /\ Len(r[i]) = RegSize(c, i)
    BY <1>2 DEF IsReg
  <2>2. Len(q[i]) = Len(r[i]) /\ \A t \in 1..Len(q[i]) : q[i][t] = r[i][t]
    BY <1>3, <2>1
  <2> QED BY <2>1, <2>2, SeqEqual
<1>5. q \in [1..k -> Seq(Elements(c.F))] /\ r \in [1..k -> Seq(Elements(c.F))]
  BY <1>2 DEF IsReg
<1>6. q = r
  <2>1. q = [i \in 1..k |-> q[i]] /\ r = [i \in 1..k |-> r[i]]
    BY <1>5
  <2> HIDE DEF k
  <2> QED BY <1>4, <2>1
<1> QED BY <1>6 DEF q, s

LEMMA StateOfReset ==
  ASSUME NEW c, IsCode(c), NEW s \in States(c)
  PROVE  State(c, Reset(c, s)) = s
<1> DEFINE nu == MemoryElements(c)
           q == Reset(c, s)
<1>1. /\ IsReg(c, q)
      /\ \A i \in 1..Inputs(c) : \A t \in 1..RegSize(c, i) : q[i][t] = s[Slot(c, s, <<t, i>>)]
      /\ \A j \in 1..nu : Slot(c, s, Slots(c)[j]) = j
  BY ResetOf
<1> HIDE DEF q
<1>2. /\ State(c, q) = [j \in 1..nu |-> At(c, q, j)]
      /\ Slots(c) \in [1..nu -> Places(c)]
  BY <1>1, StateOf
<1>3. ASSUME NEW j \in 1..nu PROVE At(c, q, j) = s[j]
  <2> DEFINE p == Slots(c)[j]
  <2>1. p \in Places(c)
    BY <1>2
  <2>2. p[2] \in 1..Inputs(c) /\ p[1] \in 1..RegSize(c, p[2]) /\ p = <<p[1], p[2]>>
    BY <2>1, CodeSizes DEF Places
  <2>3. Slot(c, s, p) = j
    BY <1>1
  <2> HIDE DEF p
  <2>4. q[p[2]][p[1]] = s[Slot(c, s, p)]
    BY <1>1, <2>2
  <2> QED BY <2>3, <2>4 DEF At, p
<1>4. s = [j \in 1..nu |-> s[j]]
  BY DEF States
<1> QED BY <1>2, <1>3, <1>4 DEF q

(***************************************************************************)
(* A step of the registers                                                 *)
(***************************************************************************)
Tapped(F, r, g) == [i \in DOMAIN r |-> Times(F, r[i], g[i + 1])]

LEMMA ConvolveClosed ==
  ASSUME NEW F, IsField(F), NEW a \in Elements(F), NEW r \in Seq(Elements(F)), NEW g
  PROVE  Convolve(F, a, r, g) \in Elements(F)
<1> DEFINE D == 0..F.m - 1
           f == Tapped(F, r, g)
<1>1. Convolve(F, a, r, g) = Plus(Times(F, a, g[1]), SumOver(f))
  BY DEF Convolve, Tapped
<1>2. Elements(F) = SUBSET D
  BY DEF Elements
<1>0. \A e \in Elements(F) : \A b : Times(F, e, b) \in Elements(F)
  BY TimesClosed
<1>3. Times(F, a, g[1]) \in SUBSET D
  <2> HIDE DEF D
  <2> QED BY <1>0, <1>2
<1>4. Terms(D, f)
  <2>1. DOMAIN f = 1..Len(r) /\ Len(r) \in Nat
    BY LenProperties DEF Tapped
  <2>2. IsFiniteSet(DOMAIN f)
    BY <2>1, IntervalCounted
  <2>3. ASSUME NEW i \in DOMAIN f PROVE f[i] \in SUBSET D
    <3>1. r[i] \in Elements(F) /\ f[i] = Times(F, r[i], g[i + 1])
      BY <2>1, ElementOfSeq DEF Tapped
    <3> HIDE DEF D, f
    <3> QED BY <1>0, <1>2, <3>1
  <2> HIDE DEF f, D
  <2> QED BY <2>2, <2>3 DEF Terms
<1> HIDE DEF f, D
<1>5. SumOver(f) \in SUBSET D
  BY <1>4, SumOverJoins
<1> QED BY <1>1, <1>2, <1>3, <1>5, PlusClosed

Vectors(c) == [1..Inputs(c) -> Elements(c.F)]
TailVector(c) == [i \in 1..Inputs(c) |-> TailInput]
IsEncoder(c) == IsCode(c) /\ c.kind \in {"nrc", "rsc"}

LEMMA TailIsNoElement ==
  ASSUME NEW F, IsField(F)
  PROVE  TailInput \notin Elements(F) /\ Zero \in Elements(F) /\ One \in Elements(F)
<1>1. -1 \notin 0..F.m - 1 /\ 0 \in 0..F.m - 1
  BY DEF IsField
<1> QED BY <1>1 DEF Elements, TailInput, Zero, One

LEMMA InputDetermined ==
  ASSUME NEW c, IsEncoder(c), NEW r, IsReg(c, r)
  PROVE  /\ \A input \in Vectors(c) : DetermineInput(c, r, input) = input
         /\ DetermineInput(c, r, TailVector(c)) \in Vectors(c)
         /\ \A i \in 1..Inputs(c) : DetermineInput(c, r, TailVector(c))[i]
              = IF c.kind = "nrc" THEN Zero ELSE Convolve(c.F, Zero, r[i], c.gen[i][i])
<1> DEFINE k == Inputs(c)
           E == Elements(c.F)
           f == [i \in 1..k |-> Convolve(c.F, Zero, r[i], c.gen[i][i])]
           tail == TailVector(c)
<1>1. k \in Nat \ {0} /\ IsField(c.F)
  BY CodeSizes DEF IsEncoder, IsCode
<1>2. TailInput \notin E /\ Zero \in E
  BY <1>1, TailIsNoElement
<1>3. \A input \in Vectors(c) : DetermineInput(c, r, input) = input
  BY <1>2 DEF DetermineInput, Vectors
<1>4. DOMAIN tail = 1..k /\ TailInput \in {tail[i] : i \in DOMAIN tail}
  <2>1. 1 \in 1..k
    BY <1>1
  <2> QED BY <2>1 DEF TailVector
<1>5. CASE c.kind = "nrc"
  <2>1. DetermineInput(c, r, tail) = [i \in 1..k |-> Zero]
    BY <1>4, <1>5 DEF DetermineInput, TailVector
  <2> QED BY <1>2, <1>3, <1>5, <2>1 DEF Vectors
<1>6. CASE c.kind # "nrc"
  <2>1. \A i \in 1..k : r[i] \in Seq(E)
    BY DEF IsReg
  <2>2. \A i \in 1..k : Convolve(c.F, Zero, r[i], c.gen[i][i]) \in E
    BY <1>1, <1>2, <2>1, ConvolveClosed
  <2>3. f \in [1..k -> E]
    BY <2>2
  <2>4. DetermineInput(c, r, tail) = Explicit(f)
    <3>1. \A i \in DOMAIN tail : TRUE
      OBVIOUS
    <3> QED BY <1>4, <1>6 DEF DetermineInput
  <2>5. Explicit(f) = f
    <3> HIDE DEF f, k, E
    <3> QED BY <1>1, <2>3, ExplicitSame
  <2> QED BY <1>3, <1>6, <2>3, <2>4, <2>5 DEF Vectors
<1> QED BY <1>5, <1>6

LEMMA FeedinDetermined ==
  ASSUME NEW c, IsEncoder(c), NEW r, IsReg(c, r), NEW input \in Vectors(c)
  PROVE  /\ DetermineFeedin(c, r, input) \in Vectors(c)
         /\ \A i \in 1..Inputs(c) : DetermineFeedin(c, r, input)[i]
              = IF c.kind = "nrc" THEN input[i] ELSE Convolve(c.F, input[i], r[i], c.gen[i][i])
<1> DEFINE k == Inputs(c)
           E == Elements(c.F)
           f == [i \in 1..k |-> Convolve(c.F, input[i], r[i], c.gen[i][i])]
<1>1. k \in Nat \ {0} /\ IsField(c.F) /\ DOMAIN input = 1..k
  BY CodeSizes DEF IsEncoder, IsCode, Vectors
<1>2. CASE c.kind = "nrc"
  BY <1>2 DEF DetermineFeedin
<1>3. CASE c.kind # "nrc"
  <2>1. \A i \in 1..k : r[i] \in Seq(E) /\ input[i] \in E
    BY DEF IsReg, Vectors
  <2>2. \A i \in 1..k : Convolve(c.F, input[i], r[i], c.gen[i][i]) \in E
    BY <1>1, <2>1, ConvolveClosed
  <2>3. f \in [1..k -> E]
    BY <2>2
  <2>4. DetermineFeedin(c, r, input) = Explicit(f)
    BY <1>1, <1>3 DEF DetermineFeedin
  <2>5. Explicit(f) = f
    <3> HIDE DEF f, k, E
    <3> QED BY <1>1, <2>3, ExplicitSame
  <2> QED BY <1>3, <2>3, <2>4, <2>5 DEF Vectors
<1> QED BY <1>2, <1>3

(* What is fed to the registers: the input, determined, after the feedback. *)
Sin(c, r, input) == DetermineFeedin(c, r, DetermineInput(c, r, input))
IsInput(c, input) == input \in Vectors(c) \/ input = TailVector(c)

LEMMA SinDetermined ==
  ASSUME NEW c, IsEncoder(c), NEW r, IsReg(c, r), NEW input, IsInput(c, input)
  PROVE  /\ DetermineInput(c, r, input) \in Vectors(c)
         /\ DetermineInput(c, r, DetermineInput(c, r, input)) = DetermineInput(c, r, input)
         /\ Sin(c, r, input) \in Vectors(c)
         /\ Sin(c, r, DetermineInput(c, r, input)) = Sin(c, r, input)
BY InputDetermined, FeedinDetermined DEF Sin, IsInput

LEMMA ShiftedIn ==
  ASSUME NEW E, NEW a \in E, NEW s \in Seq(E)
  PROVE  /\ SubSeq(<<a>> \o s, 1, Len(s)) \in Seq(E)
         /\ Len(SubSeq(<<a>> \o s, 1, Len(s))) = Len(s)
         /\ \A t \in 1..Len(s) :
              SubSeq(<<a>> \o s, 1, Len(s))[t] = IF t = 1 THEN a ELSE s[t - 1]
<1> DEFINE n == Len(s)
           q == <<a>> \o s
<1>1. n \in Nat
  BY LenProperties
<1>2. <<a>> \in Seq(E) /\ Len(<<a>>) = 1 /\ <<a>>[1] = a
  OBVIOUS
<1>3. q \in Seq(E) /\ Len(q) = 1 + n
      /\ \A i \in 1..1 + n : q[i] = IF i <= 1 THEN <<a>>[i] ELSE s[i - 1]
  BY <1>2, ConcatProperties
<1> HIDE DEF q, n
<1>4. \A i \in 1..n : q[i] \in E /\ q[i] = IF i = 1 THEN a ELSE s[i - 1]
  <2> SUFFICES ASSUME NEW i \in 1..n PROVE q[i] \in E /\ q[i] = IF i = 1 THEN a ELSE s[i - 1]
    OBVIOUS
  <2>1. i \in 1..1 + n /\ i \in 1..Len(q)
    BY <1>1, <1>3
  <2>2. q[i] \in E
    BY <1>3, <2>1, ElementOfSeq
  <2>3. q[i] = IF i = 1 THEN a ELSE s[i - 1]
    BY <1>2, <1>3, <2>1
  <2> QED BY <2>2, <2>3
<1>5. /\ SubSeq(q, 1, n) \in Seq(E)
      /\ Len(SubSeq(q, 1, n)) = IF 1 <= n THEN n - 1 + 1 ELSE 0
      /\ \A i \in 1..n - 1 + 1 : SubSeq(q, 1, n)[i] = q[1 + i - 1]
  BY <1>1, <1>4, SubSeqProperties
<1>6. n - 1 + 1 = n /\ \A i \in 1..n : 1 + i - 1 = i
  BY <1>1
<1>7. \A i \in 1..n : SubSeq(q, 1, n)[i] = q[i]
  BY <1>5, <1>6
<1> QED BY <1>1, <1>4, <1>5, <1>6, <1>7 DEF q, n

(* The registers after a step.                                             *)
LEMMA Advanced ==
  ASSUME NEW c, IsEncoder(c), NEW r, IsReg(c, r), NEW input, IsInput(c, input)
  PROVE  /\ IsReg(c, Advance(c, r, input))
         /\ \A i \in 1..Inputs(c) : \A t \in 1..RegSize(c, i) :
              Advance(c, r, input)[i][t] = IF t = 1 THEN Sin(c, r, input)[i] ELSE r[i][t - 1]
<1> DEFINE k == Inputs(c)
           E == Elements(c.F)
           sin == Sin(c, r, input)
           f == [i \in 1..k |-> SubSeq(<<sin[i]>> \o r[i], 1, Len(r[i]))]
<1>1. k \in Nat /\ DOMAIN r = 1..k /\ \A i \in 1..k : r[i] \in Seq(E) /\ Len(r[i]) = RegSize(c, i)
  BY CodeSizes DEF IsEncoder, IsReg
<1>2. sin \in [1..k -> E]
  BY SinDetermined DEF Vectors
<1>3. Advance(c, r, input) = Explicit(f)
  BY <1>1 DEF Advance, Sin
<1> HIDE DEF sin
<1>4. ASSUME NEW i \in 1..k
      PROVE  /\ f[i] \in Seq(E) /\ Len(f[i]) = RegSize(c, i)
             /\ \A t \in 1..RegSize(c, i) : f[i][t] = IF t = 1 THEN sin[i] ELSE r[i][t - 1]
  <2>1. f[i] = SubSeq(<<sin[i]>> \o r[i], 1, Len(r[i])) /\ sin[i] \in E
    BY <1>2
  <2> HIDE DEF f, E
  <2> QED BY <1>1, <2>1, ShiftedIn
<1>5. f \in [1..k -> Seq(E)]
  <2>1. f = [i \in 1..k |-> f[i]]
    OBVIOUS
  <2> HIDE DEF f
  <2> QED BY <1>4, <2>1
<1> HIDE DEF f
<1>6. Explicit(f) = f
  <2> HIDE DEF k, E
  <2> QED BY <1>1, <1>5, ExplicitSame
<1>7. IsReg(c, f)
  BY <1>4, <1>5 DEF IsReg
<1> QED BY <1>3, <1>4, <1>6, <1>7 DEF sin

(***************************************************************************)
(* Bits: those of a register are where it has a one                        *)
(***************************************************************************)
BitsOf(c, r) == [i \in 1..Inputs(c) |-> AsBits(r[i])]

LEMMA ElementsGF2 ==
  /\ Elements(GF2) = {Zero, One} /\ Zero # One /\ IsField(GF2)
  /\ \A a \in {Zero, One} : \A n : n \in a <=> (n = 0 /\ a = One)
<1>1. GF2.m = 1 /\ 0..GF2.m - 1 = {0}
  BY DEF GF2
<1>2. Elements(GF2) = {Zero, One}
  <2>1. \A a \in SUBSET {0} : a = {} \/ a = {0}
    OBVIOUS
  <2> QED BY <1>1, <2>1 DEF Elements, Zero, One
<1> QED BY <1>2 DEF Zero, One, GF2, IsField

LEMMA AsBitsIs ==
  ASSUME NEW g \in Seq(Elements(GF2))
  PROVE  /\ AsBits(g).bits = Len(g) /\ AsBits(g) = Bits(Len(g), AsBits(g).field)
         /\ AsBits(g).field \subseteq Nat
         /\ \A p : p \in AsBits(g).field <=> p \in 0..Len(g) - 1 /\ g[p + 1] = One
BY LenProperties DEF AsBits, Bits

LEMMA BitOfOne ==
  ASSUME NEW a \in {Zero, One}
  PROVE  AsBits(<<a>>) = Bits(1, a)
<1>1. Len(<<a>>) = 1 /\ <<a>>[1] = a /\ 0..1 - 1 = {0}
  OBVIOUS
<1>2. {p \in {0} : <<a>>[p + 1] = One} = a
  BY <1>1, ElementsGF2 DEF Zero, One
<1> QED BY <1>1, <1>2 DEF AsBits

LEMMA ParityNext ==
  ASSUME NEW n \in Nat
  PROVE  /\ Plus(One, Parity(n)) = Parity(n + 1)
         /\ Plus(Zero, Parity(n)) = Parity(n)
         /\ Bit(n % 2 = 1) = Bits(1, Parity(n))
<1>1. n % 2 \in {0, 1} /\ (n + 1) % 2 = 1 - (n % 2)
  OBVIOUS
<1>2. Plus(One, One) = Zero /\ Plus(One, Zero) = One /\ Plus(Zero, One) = One /\ Plus(Zero, Zero) = Zero
  BY DEF Plus, One, Zero
<1> QED BY <1>1, <1>2 DEF Parity, Bit, One, Zero

(* The parity of the bits that a register, with an input below it, and a   *)
(* generator both have is their convolution.                               *)
LEMMA ConvolutionIs ==
  ASSUME NEW a \in {Zero, One}, NEW r \in Seq(Elements(GF2)), NEW g \in Seq(Elements(GF2)),
         Len(g) = Len(r) + 1
  PROVE  Convolution(Concat(AsBits(r), Bits(1, a)), AsBits(g)) = Bits(1, Convolve(GF2, a, r, g))
<1> DEFINE n == Len(r)
           R == AsBits(r).field
           G == AsBits(g).field
           X == Concat(AsBits(r), Bits(1, a)).field
           f == Tapped(GF2, r, g)
           U == Ones(f)
           I == X \cap G
<1>1. n \in Nat /\ DOMAIN r = 1..n /\ \A i \in 1..n : r[i] \in {Zero, One}
  BY LenProperties, ElementOfSeq, ElementsGF2
<1>2. \A i \in 1..n + 1 : g[i] \in {Zero, One}
  BY LenProperties, ElementOfSeq, ElementsGF2
<1>3. R \subseteq Nat /\ \A p : p \in R <=> p \in 0..n - 1 /\ r[p + 1] = One
  BY AsBitsIs
<1>4. \A p : p \in G <=> p \in 0..n /\ g[p + 1] = One
  <2>1. (n + 1) - 1 = n
    BY <1>1
  <2> QED BY <2>1, AsBitsIs
<1>5. X = {p + 1 : p \in R} \union a
  BY DEF Concat, Bits, Raised
<1> HIDE DEF X, G, R
<1>6. \A i \in 1..n : i \in X <=> r[i] = One
  <2> SUFFICES ASSUME NEW i \in 1..n PROVE i \in X <=> r[i] = One
    OBVIOUS
  <2>1. i \notin a
    BY ElementsGF2
  <2>2. i - 1 \in 0..n - 1 /\ (i - 1) + 1 = i
    BY <1>1
  <2>3. ASSUME NEW p \in R, i = p + 1 PROVE r[i] = One
    BY <1>3, <2>3
  <2>4. r[i] = One => i - 1 \in R
    BY <1>3, <2>2
  <2> QED BY <1>5, <2>1, <2>2, <2>3, <2>4
<1>7. 0 \in X <=> a = One
  <2>1. \A p \in R : p + 1 # 0
    BY <1>3
  <2> QED BY <1>5, <2>1, ElementsGF2
<1>8. DOMAIN f = 1..n /\ \A i \in 1..n : f[i] = IF r[i] = One /\ g[i + 1] = One THEN One ELSE Zero
  <2>1. DOMAIN f = 1..n
    BY <1>1 DEF Tapped
  <2>2. ASSUME NEW i \in 1..n PROVE f[i] = IF r[i] = One /\ g[i + 1] = One THEN One ELSE Zero
    <3>1. f[i] = Times(GF2, r[i], g[i + 1])
      BY <1>1 DEF Tapped
    <3>2. i \in 1..n + 1 /\ i + 1 \in 1..n + 1
      BY <1>1
    <3> QED BY <1>1, <1>2, <3>1, <3>2, TimesGF2, ElementsGF2
  <2> HIDE DEF f, n
  <2> QED BY <2>1, <2>2
<1> HIDE DEF f
<1>9. \A i : i \in U <=> i \in 1..n /\ r[i] = One /\ g[i + 1] = One
  BY <1>8, ElementsGF2 DEF Ones
<1>10. IsFiniteSet(U) /\ SumOver(f) = Parity(Cardinality(U)) /\ Cardinality(U) \in Nat
  <2>1. IsFiniteSet(DOMAIN f) /\ \A i \in DOMAIN f : f[i] \in {Zero, One}
    BY <1>1, <1>8, IntervalCounted
  <2>2. U \subseteq DOMAIN f
    BY DEF Ones
  <2>3. IsFiniteSet(U)
    BY <2>1, <2>2, FS_Subset
  <2> QED BY <2>1, <2>3, SumOverIsParity, FS_CardinalityType
<1>11. Times(GF2, a, g[1]) = IF a = One /\ g[1] = One THEN One ELSE Zero
  <2>1. g[1] \in {Zero, One}
    BY <1>1, <1>2
  <2> QED BY <2>1, TimesGF2, ElementsGF2
<1>12. Convolve(GF2, a, r, g) = Plus(Times(GF2, a, g[1]), SumOver(f))
  BY DEF Convolve, f, Tapped
<1> HIDE DEF U, n
<1>13. \A i : i \in G <=> (i = 0 /\ g[1] = One) \/ (i \in 1..n /\ g[i + 1] = One)
  <2>1. \A i : i \in 0..n <=> i = 0 \/ i \in 1..n
    BY <1>1
  <2>2. 0 + 1 = 1 /\ 0 \notin 1..n
    OBVIOUS
  <2> QED BY <1>4, <2>1, <2>2
<1>14. 0 \notin U
  BY <1>9
<1>15. CASE a = One /\ g[1] = One
  <2>1. I = U \union {0}
    <3>1. \A i : i \in I <=> i \in U \/ i = 0
      BY <1>6, <1>7, <1>9, <1>13, <1>15
    <3> HIDE DEF I
    <3> QED BY <3>1
  <2>2. Cardinality(U \union {0}) = Cardinality(U) + 1
    BY <1>10, <1>14, FS_AddElement
  <2>3. Parity(Cardinality(I)) = Plus(One, SumOver(f)) /\ Cardinality(I) \in Nat
    <3> HIDE DEF I
    <3>1. Cardinality(I) = Cardinality(U) + 1
      BY <2>1, <2>2
    <3>2. Plus(One, Parity(Cardinality(U))) = Parity(Cardinality(U) + 1)
      BY <1>10, ParityNext
    <3> QED BY <1>10, <3>1, <3>2
  <2> QED BY <1>11, <1>12, <1>15, <2>3, ParityNext DEF Convolution, X, G
<1>16. CASE ~ (a = One /\ g[1] = One)
  <2>1. I = U
    <3>1. \A i : i \in I <=> i \in U
      BY <1>6, <1>7, <1>9, <1>13, <1>16
    <3> HIDE DEF I
    <3> QED BY <3>1
  <2>2. Parity(Cardinality(I)) = Plus(Zero, SumOver(f)) /\ Cardinality(I) \in Nat
    BY <1>10, <2>1, ParityNext
  <2> QED BY <1>11, <1>12, <1>16, <2>2, ParityNext DEF Convolution, X, G
<1> QED BY <1>15, <1>16

(***************************************************************************)
(* The machine of bits                                                     *)
(***************************************************************************)
IsBinaryCode(c) ==
  IsEncoder(c) /\ c.F = GF2 /\ (c.kind = "rsc" => Inputs(c) <= Outputs(c))

LEMMA JunctionIs ==
  ASSUME NEW c, IsBinaryCode(c), NEW r, IsReg(c, r), NEW a \in {Zero, One},
         NEW i \in 1..Inputs(c), NEW j \in 1..Outputs(c)
  PROVE  /\ Convolution(Concat(BitsOf(c, r)[i], Bits(1, a)), AsBits(c.gen[i][j]))
              = Bits(1, Convolve(c.F, a, r[i], c.gen[i][j]))
         /\ Convolve(c.F, a, r[i], c.gen[i][j]) \in {Zero, One}
<1>1. /\ c.gen[i][j] \in Seq(Elements(GF2)) /\ Len(c.gen[i][j]) = RegSize(c, i) + 1
  BY CodeSizes DEF IsBinaryCode, IsEncoder
<1>2. r[i] \in Seq(Elements(GF2)) /\ Len(r[i]) = RegSize(c, i)
  BY DEF IsReg, IsBinaryCode
<1>3. c.F = GF2 /\ BitsOf(c, r)[i] = AsBits(r[i])
  BY DEF IsBinaryCode, BitsOf
<1>4. Convolution(Concat(AsBits(r[i]), Bits(1, a)), AsBits(c.gen[i][j]))
        = Bits(1, Convolve(GF2, a, r[i], c.gen[i][j]))
  BY <1>1, <1>2, ConvolutionIs
<1>5. Convolve(GF2, a, r[i], c.gen[i][j]) \in Elements(GF2)
  BY <1>2, ElementsGF2, ConvolveClosed
<1> QED BY <1>3, <1>4, <1>5, ElementsGF2

LEMMA Diagonal ==
  ASSUME NEW c, IsBinaryCode(c)
  PROVE  /\ c.kind \in {"nrc", "rsc"}
         /\ c.kind # "nrc" => \A i \in 1..Inputs(c) : i \in 1..Outputs(c)
BY CodeSizes DEF IsBinaryCode, IsEncoder

LEMMA BitInputAgrees ==
  ASSUME NEW c, IsBinaryCode(c), NEW r, IsReg(c, r), NEW input, IsInput(c, input)
  PROVE  BitInput(c, BitsOf(c, r), input) = DetermineInput(c, r, input)
<1> DEFINE k == Inputs(c)
           Tailing(i) == IF c.kind = "nrc" THEN Zero
             ELSE Convolution(Concat(BitsOf(c, r)[i], Bits(1, {})), AsBits(c.gen[i][i])).field
           f == [i \in DOMAIN input |-> IF input[i] = TailInput THEN Tailing(i) ELSE input[i]]
<1>1. BitInput(c, BitsOf(c, r), input) = f
  BY DEF BitInput
<1>2. DOMAIN input = 1..k
  BY DEF IsInput, Vectors, TailVector
<1>3. IsEncoder(c) /\ IsField(c.F)
  BY DEF IsBinaryCode, IsEncoder, IsCode
<1>4. CASE input \in Vectors(c)
  <2>1. \A i \in 1..k : input[i] # TailInput
    BY <1>3, <1>4, TailIsNoElement DEF Vectors
  <2>2. f = [i \in 1..k |-> input[i]]
    BY <1>2, <2>1
  <2>3. input = [i \in 1..k |-> input[i]]
    BY <1>4 DEF Vectors
  <2>4. DetermineInput(c, r, input) = input
    BY <1>3, <1>4, InputDetermined
  <2> QED BY <1>1, <2>2, <2>3, <2>4
<1>5. CASE input = TailVector(c)
  <2> DEFINE d == DetermineInput(c, r, TailVector(c))
  <2>1. /\ d \in Vectors(c)
        /\ \A i \in 1..k : d[i] = IF c.kind = "nrc" THEN Zero
                                  ELSE Convolve(c.F, Zero, r[i], c.gen[i][i])
    BY <1>3, InputDetermined
  <2>2. ASSUME NEW i \in 1..k PROVE Tailing(i) = d[i]
    <3>1. CASE c.kind = "nrc"
      BY <2>1, <3>1
    <3>2. CASE c.kind # "nrc"
      <4>1. i \in 1..Outputs(c) /\ Zero \in {Zero, One}
        BY <3>2, Diagonal
      <4>2. Convolution(Concat(BitsOf(c, r)[i], Bits(1, Zero)), AsBits(c.gen[i][i]))
              = Bits(1, Convolve(c.F, Zero, r[i], c.gen[i][i]))
        BY <4>1, JunctionIs
      <4>3. Tailing(i) = Convolve(c.F, Zero, r[i], c.gen[i][i])
        BY <3>2, <4>2 DEF Bits, Zero
      <4> QED BY <2>1, <3>2, <4>3
    <3> QED BY <3>1, <3>2
  <2>3. \A i \in 1..k : input[i] = TailInput
    BY <1>5 DEF TailVector
  <2> HIDE DEF Tailing, d
  <2>4. f = [i \in 1..k |-> d[i]]
    BY <1>2, <2>2, <2>3
  <2>5. d = [i \in 1..k |-> d[i]]
    BY <2>1 DEF Vectors
  <2> QED BY <1>1, <1>5, <2>4, <2>5 DEF d
<1> QED BY <1>4, <1>5 DEF IsInput

LEMMA BitFeedinAgrees ==
  ASSUME NEW c, IsBinaryCode(c), NEW r, IsReg(c, r), NEW input \in Vectors(c)
  PROVE  BitFeedin(c, BitsOf(c, r), input)
           = [i \in 1..Inputs(c) |-> Bits(1, DetermineFeedin(c, r, input)[i])]
<1> DEFINE k == Inputs(c)
           d == DetermineFeedin(c, r, input)
           Junction(i) == IF c.kind = "nrc" THEN AsBits(<<input[i]>>)
             ELSE Convolution(Concat(BitsOf(c, r)[i], AsBits(<<input[i]>>)), AsBits(c.gen[i][i]))
<1>1. BitFeedin(c, BitsOf(c, r), input) = [i \in DOMAIN input |-> Junction(i)]
  BY DEF BitFeedin
<1>2. DOMAIN input = 1..k /\ \A i \in 1..k : input[i] \in {Zero, One}
  BY ElementsGF2 DEF Vectors, IsBinaryCode
<1>3. \A i \in 1..k : d[i] = IF c.kind = "nrc" THEN input[i]
                             ELSE Convolve(c.F, input[i], r[i], c.gen[i][i])
  BY FeedinDetermined DEF IsBinaryCode
<1> HIDE DEF d
<1>4. ASSUME NEW i \in 1..k PROVE Junction(i) = Bits(1, d[i])
  <2>1. AsBits(<<input[i]>>) = Bits(1, input[i]) /\ input[i] \in {Zero, One}
    BY <1>2, BitOfOne
  <2>2. CASE c.kind = "nrc"
    BY <1>3, <2>1, <2>2
  <2>3. CASE c.kind # "nrc"
    <3>1. i \in 1..Outputs(c)
      BY <2>3, Diagonal
    <3>2. Convolution(Concat(BitsOf(c, r)[i], Bits(1, input[i])), AsBits(c.gen[i][i]))
            = Bits(1, Convolve(c.F, input[i], r[i], c.gen[i][i]))
      BY <2>1, <3>1, JunctionIs
    <3> QED BY <1>3, <2>1, <2>3, <3>2
  <2> QED BY <2>2, <2>3
<1> HIDE DEF Junction
<1>5. [i \in 1..k |-> Junction(i)] = [i \in 1..k |-> Bits(1, d[i])]
  BY <1>4
<1> QED BY <1>1, <1>2, <1>5 DEF d

(* What is fed to the registers of bits.                                   *)
LEMMA BitSinAgrees ==
  ASSUME NEW c, IsBinaryCode(c), NEW r, IsReg(c, r), NEW input, IsInput(c, input)
  PROVE  /\ BitFeedin(c, BitsOf(c, r), BitInput(c, BitsOf(c, r), input))
              = [i \in 1..Inputs(c) |-> Bits(1, Sin(c, r, input)[i])]
         /\ \A i \in 1..Inputs(c) : Sin(c, r, input)[i] \in {Zero, One}
<1>1. IsEncoder(c) /\ c.F = GF2
  BY DEF IsBinaryCode
<1>2. DetermineInput(c, r, input) \in Vectors(c) /\ Sin(c, r, input) \in Vectors(c)
  BY <1>1, SinDetermined
<1>3. BitInput(c, BitsOf(c, r), input) = DetermineInput(c, r, input)
  BY BitInputAgrees
<1>4. BitFeedin(c, BitsOf(c, r), DetermineInput(c, r, input))
        = [i \in 1..Inputs(c) |-> Bits(1, DetermineFeedin(c, r, DetermineInput(c, r, input))[i])]
  BY <1>2, BitFeedinAgrees
<1> QED BY <1>1, <1>2, <1>3, <1>4, ElementsGF2 DEF Sin, Vectors

(* A register of bits takes the new one in at the bottom.                  *)
TakesIn(a, s, q) ==
  Len(q) = Len(s) /\ \A t \in 1..Len(s) : q[t] = IF t = 1 THEN a ELSE s[t - 1]

LEMMA BitsShifted ==
  ASSUME NEW a \in {Zero, One}, NEW s \in Seq(Elements(GF2)), NEW q \in Seq(Elements(GF2)),
         TakesIn(a, s, q)
  PROVE  ShiftInLow(AsBits(s), Bits(1, a)) = AsBits(q)
<1> DEFINE n == Len(s)
           R == AsBits(s).field
           Q == AsBits(q).field
           X == {p + 1 : p \in R} \union a
<1>1. n \in Nat /\ Len(q) = n /\ \A t \in 1..n : q[t] = IF t = 1 THEN a ELSE s[t - 1]
  BY LenProperties DEF TakesIn
<1>2. R \subseteq Nat /\ \A p : p \in R <=> p \in 0..n - 1 /\ s[p + 1] = One
  BY AsBitsIs
<1>3. \A p : p \in Q <=> p \in 0..n - 1 /\ q[p + 1] = One
  BY <1>1, AsBitsIs
<1>4. ShiftInLow(AsBits(s), Bits(1, a)) = Bits(n, {p \in X : p < n})
  <2>1. AsBits(s) = Bits(n, R)
    BY AsBitsIs
  <2> HIDE DEF R, n
  <2>2. ShiftInLow(Bits(n, R), Bits(1, a)) = Bits(n, {p \in X : p < n})
    BY DEF ShiftInLow, Bits, Masked, Raised
  <2> QED BY <2>1, <2>2
<1> HIDE DEF R, Q
<1>5. X \subseteq Nat
  BY <1>2, ElementsGF2
<1>6. ASSUME NEW p \in 0..n - 1 PROVE p \in X <=> q[p + 1] = One
  <2>0. p + 1 \in 1..n /\ p \in Nat /\ n \in Nat
    BY <1>1
  <2>1. CASE p = 0
    <3>1. \A u \in R : u + 1 # 0
      BY <1>2
    <3>2. q[p + 1] = a
      BY <1>1, <2>0, <2>1
    <3> QED BY <2>1, <3>1, <3>2, ElementsGF2
  <2>2. CASE p # 0
    <3>1. p + 1 \in 1..n /\ p + 1 # 1 /\ (p + 1) - 1 = p /\ p - 1 \in 0..n - 1 /\ (p - 1) + 1 = p
      BY <2>0, <2>2
    <3>2. q[p + 1] = s[p]
      BY <1>1, <3>1
    <3>3. p \notin a
      BY <2>2, ElementsGF2
    <3>4. \A u \in R : u + 1 = p => u = p - 1
      BY <1>2, <2>0
    <3>5. p \in X <=> p - 1 \in R
      BY <3>1, <3>3, <3>4
    <3>6. p - 1 \in R <=> s[p] = One
      BY <1>2, <3>1
    <3> QED BY <3>2, <3>5, <3>6
  <2> QED BY <2>1, <2>2
<1> HIDE DEF X
<1>7. {p \in X : p < n} = Q
  <2>1. \A p \in X : p < n => p \in 0..n - 1
    BY <1>1, <1>5
  <2>2. \A p \in 0..n - 1 : p < n
    BY <1>1
  <2> QED BY <1>3, <1>6, <2>1, <2>2
<1>8. AsBits(q) = Bits(n, Q)
  BY <1>1, AsBitsIs DEF Q
<1> QED BY <1>4, <1>7, <1>8

LEMMA BitAdvanceAgrees ==
  ASSUME NEW c, IsBinaryCode(c), NEW r, IsReg(c, r), NEW input, IsInput(c, input)
  PROVE  BitAdvance(c, BitsOf(c, r), input) = BitsOf(c, Advance(c, r, input))
<1> DEFINE k == Inputs(c)
           b == BitsOf(c, r)
           sin == BitFeedin(c, b, BitInput(c, b, input))
           q == Advance(c, r, input)
           a == Sin(c, r, input)
<1>1. sin = [i \in 1..k |-> Bits(1, a[i])] /\ \A i \in 1..k : a[i] \in {Zero, One}
  BY BitSinAgrees
<1>2. /\ IsReg(c, q)
      /\ \A i \in 1..k : \A t \in 1..RegSize(c, i) : q[i][t] = IF t = 1 THEN a[i] ELSE r[i][t - 1]
  BY Advanced DEF IsBinaryCode
<1>3. BitAdvance(c, b, input) = [i \in 1..k |-> ShiftInLow(b[i], sin[i])]
  BY DEF BitAdvance, BitsOf
<1>4. \A i \in 1..k : b[i] = AsBits(r[i])
  BY DEF BitsOf
<1> HIDE DEF sin, q, a, b
<1>5. ASSUME NEW i \in 1..k PROVE ShiftInLow(b[i], sin[i]) = AsBits(q[i])
  <2>1. /\ r[i] \in Seq(Elements(GF2)) /\ Len(r[i]) = RegSize(c, i)
        /\ q[i] \in Seq(Elements(GF2)) /\ Len(q[i]) = RegSize(c, i)
    BY <1>2 DEF IsReg, IsBinaryCode
  <2>2. b[i] = AsBits(r[i]) /\ sin[i] = Bits(1, a[i]) /\ a[i] \in {Zero, One}
    BY <1>1, <1>4
  <2>3. TakesIn(a[i], r[i], q[i])
    BY <1>2, <2>1 DEF TakesIn
  <2>4. ShiftInLow(AsBits(r[i]), Bits(1, a[i])) = AsBits(q[i])
    BY <2>1, <2>2, <2>3, BitsShifted
  <2> QED BY <2>2, <2>4
<1>6. [i \in 1..k |-> ShiftInLow(b[i], sin[i])] = [i \in 1..k |-> AsBits(q[i])]
  BY <1>5
<1> QED BY <1>3, <1>6 DEF b, q, BitsOf

LEMMA BitOutputAgrees ==
  ASSUME NEW c, IsBinaryCode(c), NEW r, IsReg(c, r), NEW input \in Vectors(c)
  PROVE  BitOutput(c, BitsOf(c, r), input) = Output(c, r, input)
<1> DEFINE k == Inputs(c)
           m == Outputs(c)
           b == BitsOf(c, r)
           sin == BitFeedin(c, b, BitInput(c, b, input))
           a == Sin(c, r, input)
           Term(i, j) == Convolution(Concat(b[i], sin[i]), AsBits(c.gen[i][j])).field
           Sums(j) == [i \in 1..k |-> Term(i, j)]
           Convs(j) == [i \in 1..k |-> Convolve(c.F, a[i], r[i], c.gen[i][j])]
           f == [j \in 1..m |-> SumOver(Convs(j))]
<1>1. sin = [i \in 1..k |-> Bits(1, a[i])] /\ \A i \in 1..k : a[i] \in {Zero, One}
  BY BitSinAgrees DEF IsInput
<1>2. DOMAIN b = 1..k /\ DOMAIN r = 1..k
  BY DEF BitsOf, IsReg
<1>3. BitOutput(c, b, input) = [j \in 1..m |-> SumOver([i \in DOMAIN b |-> Term(i, j)])]
  BY DEF BitOutput
<1>4. Output(c, r, input) = Explicit(f)
  BY <1>2 DEF Output, Sin
<1>5. m \in Nat
  BY CodeSizes DEF IsBinaryCode, IsEncoder
<1> HIDE DEF sin, a
<1>6. ASSUME NEW j \in 1..m PROVE Sums(j) = Convs(j)
  <2>1. ASSUME NEW i \in 1..k PROVE Term(i, j) = Convolve(c.F, a[i], r[i], c.gen[i][j])
    <3>1. Convolution(Concat(b[i], Bits(1, a[i])), AsBits(c.gen[i][j]))
            = Bits(1, Convolve(c.F, a[i], r[i], c.gen[i][j]))
      BY <1>1, JunctionIs
    <3>2. sin[i] = Bits(1, a[i])
      BY <1>1
    <3> QED BY <3>1, <3>2 DEF Bits
  <2> HIDE DEF Term
  <2> QED BY <2>1
<1> HIDE DEF Term, b
<1>7. BitOutput(c, b, input) = [j \in 1..m |-> SumOver(Sums(j))]
  BY <1>2, <1>3
<1> HIDE DEF Sums, Convs
<1>8. [j \in 1..m |-> SumOver(Sums(j))] = f
  BY <1>6
<1>9. Explicit(f) = f
  <2>1. f \in [1..m -> {SumOver(Convs(j)) : j \in 1..m}]
    OBVIOUS
  <2> DEFINE T == {SumOver(Convs(j)) : j \in 1..m}
  <2> HIDE DEF f, T, m
  <2> QED BY <1>5, <2>1, ExplicitSame DEF T
<1> QED BY <1>4, <1>7, <1>8, <1>9 DEF b

(* A bit that is taken out of a field.                                     *)
LEMMA BitExtracted ==
  ASSUME NEW x, x.field \subseteq Nat, NEW b \in Nat
  PROVE  ExtractBit(x, b).field = IF b \in x.field THEN One ELSE Zero
<1> DEFINE L == {p - b : p \in {q \in x.field : q >= b}}
<1>1. ExtractBit(x, b).field = {p \in L : p < b - b + 1}
  BY DEF ExtractBit, ExtractBits, Masked, Lowered, Bits
<1>2. \A p \in L : p < b - b + 1 <=> p = 0
  OBVIOUS
<1>3. \A p : p \in L /\ p < b - b + 1 => p = 0 /\ b \in x.field
  OBVIOUS
<1>4. b \in x.field => 0 \in L
  <2>1. b - b = 0 /\ b >= b
    OBVIOUS
  <2> QED BY <2>1
<1> HIDE DEF L
<1>5. {p \in L : p < b - b + 1} = IF b \in x.field THEN {0} ELSE {}
  BY <1>2, <1>3, <1>4
<1> QED BY <1>1, <1>5 DEF One, Zero

LEMMA BitOfRegister ==
  ASSUME NEW g \in Seq(Elements(GF2)), NEW t \in 1..Len(g)
  PROVE  ExtractBit(AsBits(g), t - 1).field = g[t]
<1>1. t - 1 \in Nat /\ t - 1 \in 0..Len(g) - 1 /\ (t - 1) + 1 = t
  BY LenProperties
<1>2. g[t] \in {Zero, One}
  BY ElementOfSeq, ElementsGF2
<1>3. AsBits(g).field \subseteq Nat /\ (t - 1 \in AsBits(g).field <=> g[t] = One)
  BY <1>1, AsBitsIs
<1> QED BY <1>1, <1>2, <1>3, BitExtracted

LEMMA BitStateAgrees ==
  ASSUME NEW c, IsBinaryCode(c), NEW r, IsReg(c, r)
  PROVE  BitState(c, BitsOf(c, r)) = State(c, r)
<1> DEFINE nu == MemoryElements(c)
           b == BitsOf(c, r)
           Taken(j) == ExtractBit(b[Slots(c)[j][2]], Slots(c)[j][1] - 1).field
<1>1. /\ nu \in Nat /\ Slots(c) \in [1..nu -> Places(c)]
      /\ State(c, r) = [j \in 1..nu |-> At(c, r, j)]
  BY StateOf DEF IsBinaryCode, IsEncoder
<1>2. BitState(c, b) = [j \in 1..nu |-> Taken(j)]
  BY <1>1 DEF BitState
<1>3. ASSUME NEW j \in 1..nu PROVE Taken(j) = At(c, r, j)
  <2> DEFINE p == Slots(c)[j]
  <2>1. p \in Places(c)
    BY <1>1
  <2>2. p[2] \in 1..Inputs(c) /\ p[1] \in 1..RegSize(c, p[2])
    BY <2>1, CodeSizes DEF Places, IsBinaryCode, IsEncoder
  <2>3. r[p[2]] \in Seq(Elements(GF2)) /\ Len(r[p[2]]) = RegSize(c, p[2]) /\ b[p[2]] = AsBits(r[p[2]])
    BY <2>2 DEF IsReg, IsBinaryCode, BitsOf
  <2> HIDE DEF p, b
  <2>4. ExtractBit(b[p[2]], p[1] - 1).field = r[p[2]][p[1]]
    BY <2>2, <2>3, BitOfRegister
  <2> QED BY <2>4 DEF At, p
<1> HIDE DEF Taken
<1>4. [j \in 1..nu |-> Taken(j)] = [j \in 1..nu |-> At(c, r, j)]
  BY <1>3
<1> QED BY <1>1, <1>2, <1>4

LEMMA BitResetAgrees ==
  ASSUME NEW c, IsBinaryCode(c), NEW s \in States(c)
  PROVE  BitReset(c, s) = BitsOf(c, Reset(c, s))
<1> DEFINE k == Inputs(c)
           q == Reset(c, s)
           On(i) == {t \in 0..RegSize(c, i) - 1 :
                       s[CHOOSE j \in DOMAIN s : Slots(c)[j] = <<t + 1, i>>] = One}
<1>1. /\ IsReg(c, q)
      /\ \A i \in 1..k : \A t \in 1..RegSize(c, i) : q[i][t] = s[Slot(c, s, <<t, i>>)]
  BY ResetOf DEF IsBinaryCode, IsEncoder
<1>2. BitReset(c, s) = [i \in 1..k |-> Bits(RegSize(c, i), On(i))]
  BY DEF BitReset
<1> HIDE DEF q
<1>3. ASSUME NEW i \in 1..k PROVE Bits(RegSize(c, i), On(i)) = AsBits(q[i])
  <2>1. q[i] \in Seq(Elements(GF2)) /\ Len(q[i]) = RegSize(c, i) /\ RegSize(c, i) \in Nat
    BY <1>1, CodeSizes DEF IsReg, IsBinaryCode, IsEncoder
  <2>2. ASSUME NEW t \in 0..RegSize(c, i) - 1
        PROVE  q[i][t + 1] = s[CHOOSE j \in DOMAIN s : Slots(c)[j] = <<t + 1, i>>]
    <3>1. t + 1 \in 1..RegSize(c, i)
      BY <2>1
    <3> QED BY <1>1, <3>1 DEF Slot
  <2>3. On(i) = {t \in 0..RegSize(c, i) - 1 : q[i][t + 1] = One}
    BY <2>2
  <2> HIDE DEF On
  <2> QED BY <2>1, <2>3 DEF AsBits
<1> HIDE DEF On
<1>4. [i \in 1..k |-> Bits(RegSize(c, i), On(i))] = [i \in 1..k |-> AsBits(q[i])]
  BY <1>3
<1> QED BY <1>2, <1>4 DEF q, BitsOf

(***************************************************************************)
(* The code of DVB                                                         *)
(***************************************************************************)
IsDvbReg(r) == \E S \in SUBSET (0..2) : r = Bits(3, S)
DvbStates == [1..3 -> Elements(GF2)]

LEMMA DvbStateOf ==
  ASSUME NEW r, IsDvbReg(r)
  PROVE  FromBits(r) \in DvbStates /\ AsBits(FromBits(r)) = r
<1>1. PICK S \in SUBSET (0..2) : r = Bits(3, S)
  BY DEF IsDvbReg
<1>2. r.bits = 3 /\ r.field = S /\ S \subseteq Nat
  BY <1>1 DEF Bits
<1> DEFINE f == [i \in 1..3 |-> ExtractBit(r, i - 1).field]
<1>3. \A i \in 1..3 : f[i] = IF i - 1 \in S THEN One ELSE Zero
  <2> SUFFICES ASSUME NEW i \in 1..3
               PROVE  ExtractBit(r, i - 1).field = IF i - 1 \in S THEN One ELSE Zero
    OBVIOUS
  <2>1. i - 1 \in Nat
    OBVIOUS
  <2> QED BY <1>2, <2>1, BitExtracted
<1>4. f \in [1..3 -> Elements(GF2)]
  <2>1. \A i \in 1..3 : f[i] \in Elements(GF2)
    BY <1>3, ElementsGF2
  <2>2. f = [i \in 1..3 |-> f[i]]
    OBVIOUS
  <2> HIDE DEF f
  <2> QED BY <2>1, <2>2
<1>5. FromBits(r) = Explicit(f)
  BY <1>2 DEF FromBits
<1> HIDE DEF f
<1>6. Explicit(f) = f /\ Len(f) = 3 /\ f \in Seq(Elements(GF2))
  BY <1>4, ExplicitSame
<1>7. AsBits(f) = Bits(3, S)
  <2>1. AsBits(f) = Bits(3, AsBits(f).field) /\ \A p : p \in AsBits(f).field <=> p \in 0..2 /\ f[p + 1] = One
    <3>1. 3 - 1 = 2
      OBVIOUS
    <3> QED BY <1>6, <3>1, AsBitsIs
  <2>2. \A p \in 0..2 : f[p + 1] = One <=> p \in S
    <3>1. \A p \in 0..2 : p + 1 \in 1..3 /\ (p + 1) - 1 = p
      OBVIOUS
    <3> QED BY <1>3, <3>1, ElementsGF2
  <2>3. AsBits(f).field = S
    BY <2>1, <2>2
  <2> QED BY <2>1, <2>3
<1> QED BY <1>1, <1>4, <1>5, <1>6, <1>7 DEF DvbStates

LEMMA DvbReset ==
  ASSUME NEW s \in DvbStates
  PROVE  IsDvbReg(AsBits(s)) /\ FromBits(AsBits(s)) = s
<1>1. s \in [1..3 -> Elements(GF2)]
  BY DEF DvbStates
<1>2. Len(s) = 3 /\ s \in Seq(Elements(GF2))
  BY <1>1, ExplicitSame
<1> DEFINE b == AsBits(s)
<1>3. b = Bits(3, b.field) /\ b.field \subseteq Nat
      /\ \A p : p \in b.field <=> p \in 0..2 /\ s[p + 1] = One
  <2>1. 3 - 1 = 2
    OBVIOUS
  <2> QED BY <1>2, <2>1, AsBitsIs
<1>4. IsDvbReg(b)
  <2>1. b.field \in SUBSET (0..2)
    BY <1>3
  <2> HIDE DEF b
  <2> QED BY <1>3, <2>1 DEF IsDvbReg
<1>5. b.bits = 3
  BY <1>2 DEF AsBits, Bits
<1> DEFINE f == [i \in 1..3 |-> ExtractBit(b, i - 1).field]
<1>6. \A i \in 1..3 : f[i] = s[i]
  BY <1>2, BitOfRegister
<1> HIDE DEF b
<1>7. f = s
  BY <1>1, <1>6
<1>8. FromBits(b) = Explicit(f)
  BY <1>5 DEF FromBits
<1> HIDE DEF f
<1>9. Explicit(f) = f
  BY <1>1, <1>7, ExplicitSame
<1> QED BY <1>4, <1>7, <1>8, <1>9 DEF b

LEMMA DvbAdvanced ==
  ASSUME NEW r, IsDvbReg(r), NEW input
  PROVE  IsDvbReg(DvbAdvance(r, input))
<1>1. PICK S \in SUBSET (0..2) : r = Bits(3, S)
  BY DEF IsDvbReg
<1> DEFINE ip == DvbIn(input)
           B == ExtractBit(ip, 1)
           x == DvbShiftIn(r, ip)
           y == ShiftInHigh(x, r)
           z == Concat(Concat(Bits(1, {}), B), B)
<1>2. ip.field \subseteq Nat
  BY DEF DvbIn, FromVector, Bits
<1>3. B.bits = 1 /\ B.field \subseteq {0}
  <2>1. B.field \in {One, Zero}
    <3> HIDE DEF ip
    <3> QED BY <1>2, BitExtracted
  <2>2. B.bits = 1
    BY DEF ExtractBit, ExtractBits, Masked, Bits
  <2> QED BY <2>1, <2>2 DEF One, Zero
<1>4. x.bits = 1 /\ x.field \subseteq {0}
  BY DEF DvbShiftIn, Convolution, Bit, Bits
<1> HIDE DEF ip, B, x
<1>5. y.bits = 3 /\ y.field \subseteq 0..2
  <2>1. r.bits = 3 /\ r.field = S
    BY <1>1 DEF Bits
  <2>2. y = Bits(3, {p \in {u + (3 - 1) : u \in x.field} \union {u - 1 : u \in {q \in S : q >= 1}} : p < 3})
    BY <1>4, <2>1 DEF ShiftInHigh, Masked, Raised, Lowered
  <2>3. \A u \in x.field : u + (3 - 1) \in Nat
    BY <1>4
  <2>4. \A u \in S : u >= 1 => u - 1 \in Nat
    OBVIOUS
  <2>5. \A p \in Nat : p < 3 => p \in 0..2
    OBVIOUS
  <2>6. {p \in {u + (3 - 1) : u \in x.field} \union {u - 1 : u \in {q \in S : q >= 1}} : p < 3} \subseteq 0..2
    BY <2>3, <2>4, <2>5
  <2> HIDE DEF y
  <2> QED BY <2>2, <2>6 DEF Bits
<1>6. z.field \subseteq 0..2
  BY <1>3 DEF Concat, Bits, Raised
<1>7. DvbAdvance(r, input) = Bits(y.bits, (y.field \ z.field) \union (z.field \ y.field))
  BY DEF DvbAdvance, Xor, ip, B, x
<1> HIDE DEF y, z
<1>8. (y.field \ z.field) \union (z.field \ y.field) \in SUBSET (0..2)
  BY <1>5, <1>6
<1> QED BY <1>5, <1>7, <1>8 DEF IsDvbReg

(***************************************************************************)
(* Matrices                                                                *)
(***************************************************************************)
Block(F, n, w) == [1..n -> [1..w -> Elements(F)]]
Products(F, n, a, b) == [k \in 1..n |-> Times(F, a[k], b[k])]

LEMMA ProductsAdded ==
  ASSUME NEW F, IsField(F), NEW n \in Nat, NEW a, \A k \in 1..n : a[k] \in Elements(F), NEW b
  PROVE  SumOver(Products(F, n, a, b)) \in Elements(F)
<1> DEFINE D == 0..F.m - 1
           f == Products(F, n, a, b)
<1>1. Elements(F) = SUBSET D
  BY DEF Elements
<1>2. DOMAIN f = 1..n /\ \A k \in 1..n : f[k] = Times(F, a[k], b[k])
  BY DEF Products
<1>3. \A k \in 1..n : Times(F, a[k], b[k]) \in Elements(F)
  BY TimesClosed
<1> HIDE DEF f, D
<1>4. Terms(D, f)
  BY <1>1, <1>2, <1>3, IntervalCounted DEF Terms
<1>5. SumOver(f) \in SUBSET D
  BY <1>4, SumOverJoins
<1> QED BY <1>1, <1>5 DEF f

LEMMA BlockSize ==
  ASSUME NEW n \in Nat, NEW w \in Nat, NEW T, NEW M \in [1..n -> [1..w -> T]]
  PROVE  /\ Len(M) = n /\ Rows(M) = n /\ (n # 0 => Cols(M) = w)
         /\ \A i \in 1..n : Len(M[i]) = w /\ M[i] \in Seq(T)
<1> DEFINE R == [1..w -> T]
<1>1. \A i \in 1..n : M[i] \in [1..w -> T]
  OBVIOUS
<1>2. \A i \in 1..n : Len(M[i]) = w /\ M[i] \in Seq(T)
  BY <1>1, ExplicitSame
<1> HIDE DEF R
<1>3. Len(M) = n
  BY ExplicitSame DEF R
<1>4. n # 0 => 1 \in 1..n
  OBVIOUS
<1> QED BY <1>2, <1>3, <1>4 DEF Rows, Cols

LEMMA EyeBlock ==
  ASSUME NEW F, IsField(F), NEW n \in Nat
  PROVE  Eye(n) \in Block(F, n, n)
<1>1. Zero \in Elements(F) /\ One \in Elements(F)
  BY TailIsNoElement
<1> QED BY <1>1 DEF Eye, Block

(* A matrix of expressions, its rows evaluated once.                       *)
LEMMA BlockExplicit ==
  ASSUME NEW F, NEW n \in Nat, NEW w \in Nat, NEW M \in Block(F, n, w)
  PROVE  Explicit([i \in 1..n |-> Explicit(M[i])]) = M
<1> DEFINE f == [i \in 1..n |-> Explicit(M[i])]
           R == [1..w -> Elements(F)]
<1>1. \A i \in 1..n : M[i] \in [1..w -> Elements(F)]
  BY DEF Block
<1>2. \A i \in 1..n : Explicit(M[i]) = M[i]
  BY <1>1, ExplicitSame
<1>3. f = [i \in 1..n |-> M[i]]
  BY <1>2
<1>4. M = [i \in 1..n |-> M[i]] /\ M \in [1..n -> R]
  BY DEF Block
<1> HIDE DEF R, f
<1>5. f = M
  BY <1>3, <1>4
<1>6. Explicit(M) = M
  BY <1>4, ExplicitSame
<1> QED BY <1>5, <1>6 DEF f

Entry(F, n, A, B, i, j) == SumOver(Products(F, n, A[i], [k \in 1..n |-> B[k][j]]))

LEMMA MatrixTimesBlock ==
  ASSUME NEW F, IsField(F), NEW n \in Nat, NEW A \in Block(F, n, n),
         NEW T, NEW B \in [1..n -> [1..n -> T]]
  PROVE  MatrixTimes(F, A, B) \in Block(F, n, n)
<1> DEFINE M == [i \in 1..n |-> [j \in 1..n |-> Entry(F, n, A, B, i, j)]]
<1>1. /\ Rows(A) = n /\ Rows(B) = n /\ (n # 0 => Cols(A) = n /\ Cols(B) = n)
      /\ \A i \in 1..n : A[i] \in [1..n -> Elements(F)]
  <2>1. A \in [1..n -> [1..n -> Elements(F)]]
    BY DEF Block
  <2> QED BY ZenonT(40), <2>1, BlockSize
<1>2. ASSUME NEW i \in 1..n, NEW j \in 1..n PROVE Entry(F, n, A, B, i, j) \in Elements(F)
  <2> DEFINE a == A[i]
             b == [k \in 1..n |-> B[k][j]]
  <2>1. \A k \in 1..n : a[k] \in Elements(F)
    BY <1>1
  <2> HIDE DEF a, b
  <2>2. SumOver(Products(F, n, a, b)) \in Elements(F)
    BY <2>1, ProductsAdded
  <2> QED BY <2>2 DEF Entry, a, b
<1>3. M \in Block(F, n, n)
  BY <1>2 DEF Block
<1>4. ASSUME NEW i \in 1..n, NEW j \in 1..n
      PROVE  SumOver([k \in 1..Cols(A) |-> Times(F, A[i][k], B[k][j])]) = Entry(F, n, A, B, i, j)
  <2>1. Cols(A) = n
    BY <1>1
  <2>2. [k \in 1..n |-> Times(F, A[i][k], B[k][j])] = Products(F, n, A[i], [k \in 1..n |-> B[k][j]])
    BY DEF Products
  <2> QED BY <2>1, <2>2 DEF Entry
<1>5. ASSUME NEW i \in 1..n
      PROVE  [j \in 1..Cols(B) |-> SumOver([k \in 1..Cols(A) |-> Times(F, A[i][k], B[k][j])])] = M[i]
  <2>1. Cols(B) = n
    BY <1>1
  <2>2. M[i] = [j \in 1..n |-> Entry(F, n, A, B, i, j)]
    OBVIOUS
  <2> QED BY <1>4, <2>1, <2>2
<1>6. MatrixTimes(F, A, B) = Explicit([i \in 1..n |-> Explicit(M[i])])
  <2>1. MatrixTimes(F, A, B) = Explicit([i \in 1..n |->
          Explicit([j \in 1..Cols(B) |-> SumOver([k \in 1..Cols(A) |-> Times(F, A[i][k], B[k][j])])])])
    BY <1>1 DEF MatrixTimes
  <2> HIDE DEF M
  <2> QED BY <1>5, <2>1
<1> HIDE DEF M
<1> QED BY <1>3, <1>6, BlockExplicit

LEMMA MatrixPlusBlock ==
  ASSUME NEW F, NEW n \in Nat, NEW A \in Block(F, n, n), NEW B \in Block(F, n, n)
  PROVE  MatrixPlus(A, B) \in Block(F, n, n)
<1>1. /\ Rows(A) = n /\ (n # 0 => Cols(A) = n)
      /\ \A i, j \in 1..n : A[i][j] \in Elements(F) /\ B[i][j] \in Elements(F)
  <2>1. A \in [1..n -> [1..n -> Elements(F)]] /\ B \in [1..n -> [1..n -> Elements(F)]]
    BY DEF Block
  <2> QED BY <2>1, BlockSize
<1>2. \A i, j \in 1..n : Plus(A[i][j], B[i][j]) \in Elements(F)
  <2>1. \A a, b \in Elements(F) : Plus(a, b) \in Elements(F)
    BY DEF Plus, Elements
  <2> QED BY <1>1, <2>1
<1>3. MatrixPlus(A, B) = [i \in 1..n |-> [j \in 1..n |-> Plus(A[i][j], B[i][j])]]
  <2>1. \A i \in 1..n : n # 0
    OBVIOUS
  <2> QED BY <1>1, <2>1 DEF MatrixPlus
<1> QED BY <1>2, <1>3 DEF Block

LEMMA VectorTimesBlock ==
  ASSUME NEW F, IsField(F), NEW n \in Nat \ {0}, NEW A \in Block(F, n, n), NEW x
  PROVE  MatrixTimesVector(F, A, x) \in [1..n -> Elements(F)]
<1>1. /\ Rows(A) = n /\ Cols(A) = n
      /\ \A i, j \in 1..n : A[i][j] \in Elements(F)
  <2>1. A \in [1..n -> [1..n -> Elements(F)]]
    BY DEF Block
  <2>2. Rows(A) = n /\ Cols(A) = n
    BY <2>1, BlockSize
  <2> QED BY <2>1, <2>2
<1>2. ASSUME NEW i \in 1..n
      PROVE  SumOver([k \in 1..n |-> Times(F, A[k][i], x[k])]) \in Elements(F)
  <2> DEFINE a == [k \in 1..n |-> A[k][i]]
  <2>1. \A k \in 1..n : a[k] \in Elements(F)
    BY <1>1
  <2>2. [k \in 1..n |-> Times(F, A[k][i], x[k])] = Products(F, n, a, x)
    BY DEF Products
  <2> HIDE DEF a
  <2> QED BY <2>1, <2>2, ProductsAdded
<1>3. MatrixTimesVector(F, A, x) = [i \in 1..n |-> SumOver([k \in 1..n |-> Times(F, A[k][i], x[k])])]
  BY <1>1 DEF MatrixTimesVector
<1> QED BY <1>2, <1>3

(***************************************************************************)
(* Inverses                                                                *)
(***************************************************************************)
LEMMA RowExplicit ==
  ASSUME NEW F, NEW w \in Nat, NEW f \in [1..w -> Elements(F)]
  PROVE  Explicit(f) = f /\ DOMAIN f = 1..w
BY ExplicitSame

LEMMA PivotedBlock ==
  ASSUME NEW F, IsField(F), NEW n \in Nat, NEW w \in Nat, NEW M \in Block(F, n, w),
         NEW i \in 1..n, NEW p \in 1..n, NEW c
  PROVE  Pivoted(F, M, i, p, c) \in Block(F, n, w)
<1> DEFINE E == Elements(F)
           R == [1..w -> E]
           swapped == [M EXCEPT ![i] = M[p], ![p] = M[i]]
           first == [k \in 1..w |-> Over(F, swapped[i][k], swapped[i][c])]
           Others(r) == [k \in 1..w |-> Plus(r[k], Times(F, first[k], r[c]))]
           result == [j \in 1..n |-> IF j = i THEN first ELSE Others(swapped[j])]
<1>1. M \in [1..n -> R] /\ DOMAIN M = 1..n
  BY DEF Block
<1>2. swapped \in [1..n -> R]
  <2> HIDE DEF R
  <2> QED BY <1>1
<1>3. \A j \in 1..n : DOMAIN swapped[j] = 1..w /\ \A k \in 1..w : swapped[j][k] \in E
  <2> SUFFICES ASSUME NEW j \in 1..n
               PROVE  DOMAIN swapped[j] = 1..w /\ \A k \in 1..w : swapped[j][k] \in E
    OBVIOUS
  <2>1. swapped[j] \in R
    <3> HIDE DEF swapped, R
    <3> QED BY <1>2
  <2> HIDE DEF swapped
  <2> QED BY <2>1
<1>4. \A a \in E : \A b : Over(F, a, b) \in E /\ Times(F, a, b) \in E
  BY TimesClosed DEF Over
<1>5. \A a, b \in E : Plus(a, b) \in E
  BY DEF Plus, Elements
<1> HIDE DEF swapped, E
<1>6. first \in R
  BY <1>3, <1>4
<1>7. \A k \in 1..w : first[k] \in E
  <2> HIDE DEF first
  <2> QED BY <1>6
<1>8. ASSUME NEW j \in 1..n PROVE Others(swapped[j]) \in R
  <2> HIDE DEF first
  <2>1. \A k \in 1..w : Plus(swapped[j][k], Times(F, first[k], swapped[j][c])) \in E
    BY <1>3, <1>4, <1>5, <1>7
  <2> QED BY <2>1
<1>9. Explicit([k \in DOMAIN swapped[i] |-> Over(F, swapped[i][k], swapped[i][c])]) = first
  <2>1. [k \in DOMAIN swapped[i] |-> Over(F, swapped[i][k], swapped[i][c])] = first
    BY <1>3
  <2>2. Explicit(first) = first
    <3> HIDE DEF first
    <3> QED BY <1>6, RowExplicit DEF E
  <2> QED BY <2>1, <2>2
<1>10. ASSUME NEW j \in 1..n
       PROVE  Explicit([k \in DOMAIN swapped[j] |->
                Plus(swapped[j][k], Times(F, first[k], swapped[j][c]))]) = Others(swapped[j])
  <2> HIDE DEF first
  <2>1. [k \in DOMAIN swapped[j] |-> Plus(swapped[j][k], Times(F, first[k], swapped[j][c]))]
          = Others(swapped[j])
    BY <1>3
  <2>2. Explicit(Others(swapped[j])) = Others(swapped[j])
    <3> HIDE DEF Others
    <3> QED BY <1>8, RowExplicit DEF E
  <2> QED BY <2>1, <2>2
<1>11. Pivoted(F, M, i, p, c) = Explicit([j \in 1..n |->
         IF j = i THEN Explicit([k \in DOMAIN swapped[i] |-> Over(F, swapped[i][k], swapped[i][c])])
         ELSE Explicit([k \in DOMAIN swapped[j] |->
           Plus(swapped[j][k],
                Times(F, Explicit([x \in DOMAIN swapped[i] |->
                           Over(F, swapped[i][x], swapped[i][c])])[k], swapped[j][c]))])])
  BY <1>1 DEF Pivoted, swapped
<1>12. Pivoted(F, M, i, p, c) = Explicit([j \in 1..n |-> IF j = i THEN first
         ELSE Explicit([k \in DOMAIN swapped[j] |->
           Plus(swapped[j][k], Times(F, first[k], swapped[j][c]))])])
  <2> HIDE DEF first
  <2> QED BY <1>9, <1>11
<1> HIDE DEF first
<1>13. Pivoted(F, M, i, p, c) = Explicit(result)
  <2>1. [j \in 1..n |-> IF j = i THEN first
           ELSE Explicit([k \in DOMAIN swapped[j] |->
             Plus(swapped[j][k], Times(F, first[k], swapped[j][c]))])] = result
    <3> HIDE DEF Others
    <3> QED BY <1>10
  <2> QED BY <1>12, <2>1
<1>14. result \in [1..n -> R]
  <2> HIDE DEF Others, R
  <2> QED BY <1>6, <1>8
<1> HIDE DEF result, R
<1>15. Explicit(result) = result
  BY <1>14, ExplicitSame
<1> QED BY <1>13, <1>14, <1>15 DEF Block, R, E

(* The elimination keeps n rows of 2n elements, or fails for good.         *)
Eliminates(F, A, n, f) ==
  f = [i \in 0..n |->
         IF i = 0 THEN [j \in 1..n |-> A[j] \o Eye(n)[j]]
         ELSE IF f[i - 1] = <<>> \/ PivotRows(f[i - 1], i, i) = {} THEN <<>>
         ELSE Pivoted(F, f[i - 1], i, Min(PivotRows(f[i - 1], i, i)), i)]

LEMMA LeastOf ==
  ASSUME NEW S \in SUBSET Nat, S # {}
  PROVE  Min(S) \in S /\ \A y \in S : Min(S) <= y
<1>1. \E x \in S : \A y \in S : x <= y
  BY LeastElement
<1> QED BY <1>1 DEF Min

LEMMA PivotRowIn ==
  ASSUME NEW F, NEW n \in Nat, NEW w \in Nat, NEW M \in Block(F, n, w), NEW i \in 1..n,
         PivotRows(M, i, i) # {}
  PROVE  Min(PivotRows(M, i, i)) \in 1..n
<1>1. Rows(M) = n
  <2> DEFINE T == [1..w -> Elements(F)]
  <2>1. M \in [1..n -> T]
    BY DEF Block
  <2> HIDE DEF T
  <2> QED BY <2>1, ExplicitSame DEF Rows
<1>2. PivotRows(M, i, i) \subseteq 1..n
  BY <1>1 DEF PivotRows
<1>3. PivotRows(M, i, i) \in SUBSET Nat
  BY <1>2
<1>4. Min(PivotRows(M, i, i)) \in PivotRows(M, i, i)
  BY <1>3, LeastOf
<1> QED BY <1>2, <1>4

LEMMA EliminationBlock ==
  ASSUME NEW F, IsField(F), NEW n \in Nat, NEW A \in Block(F, n, n)
  PROVE  /\ \E f : Eliminates(F, A, n, f)
         /\ \A f : Eliminates(F, A, n, f) =>
              \A i \in 0..n : f[i] = <<>> \/ f[i] \in Block(F, n, n + n)
<1> DEFINE W == Block(F, n, n + n) \union {<<>>}
           start == [j \in 1..n |-> A[j] \o Eye(n)[j]]
           Next(i, M) == IF M = <<>> \/ PivotRows(M, i, i) = {} THEN <<>>
                         ELSE Pivoted(F, M, i, Min(PivotRows(M, i, i)), i)
           h == [x \in Nat \X W |-> IF x[1] \in 1..n THEN Next(x[1], x[2]) ELSE <<>>]
<1>1. start \in W
  <2>1. Eye(n) \in Block(F, n, n)
    BY EyeBlock
  <2>2. ASSUME NEW j \in 1..n PROVE A[j] \o Eye(n)[j] \in [1..n + n -> Elements(F)]
    <3> DEFINE a == A[j]
               e == Eye(n)[j]
    <3>1. a \in [1..n -> Elements(F)] /\ e \in [1..n -> Elements(F)]
      BY <2>1 DEF Block
    <3> HIDE DEF a, e
    <3>2. a \in Seq(Elements(F)) /\ e \in Seq(Elements(F)) /\ Len(a) = n /\ Len(e) = n
      BY <3>1, ExplicitSame
    <3>3. a \o e \in Seq(Elements(F)) /\ Len(a \o e) = n + n
      BY <3>2, ConcatProperties
    <3>4. a \o e \in [1..n + n -> Elements(F)]
      BY <3>3, LenProperties
    <3> QED BY <3>4 DEF a, e
  <2>3. start \in [1..n -> [1..n + n -> Elements(F)]]
    BY <2>2
  <2> QED BY <2>3 DEF Block
<1>2. ASSUME NEW i \in 1..n, NEW M \in W PROVE Next(i, M) \in W
  <2>1. CASE M = <<>> \/ PivotRows(M, i, i) = {}
    BY <2>1
  <2>2. CASE ~ (M = <<>> \/ PivotRows(M, i, i) = {})
    <3>1. M \in Block(F, n, n + n) /\ n + n \in Nat
      BY <2>2
    <3>2. Min(PivotRows(M, i, i)) \in 1..n
      BY <2>2, <3>1, PivotRowIn
    <3> QED BY <2>2, <3>1, <3>2, PivotedBlock
  <2> QED BY <2>1, <2>2
<1>3. <<>> \in W
  OBVIOUS
<1> HIDE DEF start, Next, W
<1>4. h \in [Nat \X W -> W]
  BY <1>2, <1>3
<1>5. \A i \in 1..n : \A M \in W : h[<<i, M>>] = Next(i, M)
  <2>1. \A i \in 1..n : i \in Nat
    OBVIOUS
  <2> QED BY <2>1
<1> HIDE DEF h
<1>6. Recursion(W, start, h, n) # {}
  BY <1>1, <1>4, RecursionExists
<1>7. PICK g \in [0..n -> W] : g[0] = start /\ \A i \in 1..n : g[i] = h[<<i, g[i - 1]>>]
  BY <1>6 DEF Recursion
<1>8. Eliminates(F, A, n, g)
  <2>1. ASSUME NEW i \in 1..n PROVE g[i] = Next(i, g[i - 1])
    <3>1. i - 1 \in 0..n
      OBVIOUS
    <3> QED BY <1>5, <1>7, <3>1
  <2>2. \A i \in 0..n : g[i] = IF i = 0 THEN start ELSE Next(i, g[i - 1])
    <3>1. \A i \in 0..n : i # 0 => i \in 1..n
      OBVIOUS
    <3> QED BY <1>7, <2>1, <3>1
  <2>3. g = [i \in 0..n |-> g[i]]
    OBVIOUS
  <2>4. g = [i \in 0..n |-> IF i = 0 THEN start ELSE Next(i, g[i - 1])]
    BY <2>2, <2>3
  <2> QED BY <2>4 DEF Eliminates, start, Next
<1>9. ASSUME NEW f, Eliminates(F, A, n, f) PROVE \A i \in 0..n : f[i] \in W
  <2> DEFINE S == {i \in 0..n : f[i] \in W}
  <2>0. f = [i \in 0..n |-> IF i = 0 THEN start ELSE Next(i, f[i - 1])]
    BY <1>9 DEF Eliminates, start, Next
  <2>1. 0 \in S
    <3>1. 0 \in 0..n
      OBVIOUS
    <3>2. f[0] = start
      BY <2>0, <3>1
    <3> QED BY <1>1, <3>1, <3>2
  <2>2. ASSUME NEW i \in 1..n, i - 1 \in S PROVE i \in S
    <3>1. i \in 0..n /\ i # 0
      OBVIOUS
    <3>2. f[i] = Next(i, f[i - 1])
      BY <2>0, <3>1
    <3> QED BY <1>2, <2>2, <3>1, <3>2
  <2> HIDE DEF S
  <2>3. \A i \in 0..n : i \in S
    BY <2>1, <2>2, IntervalInduction
  <2> QED BY <2>3 DEF S
<1> QED BY <1>8, <1>9 DEF W

LEMMA EmptySequence ==
  ASSUME NEW T, NEW f \in [1..0 -> T]
  PROVE  f = <<>>
<1>1. f \in Seq(T) /\ Len(f) = 0
  BY ExplicitSame
<1> QED BY <1>1, EmptySeq

(* An inverse, where there is one, has the shape of the matrix.            *)
LEMMA InverseBlock ==
  ASSUME NEW F, IsField(F), NEW n \in Nat, NEW A \in Block(F, n, n), InverseMatrix(F, A) # <<>>
  PROVE  n # 0 /\ InverseMatrix(F, A) \in Block(F, n, n)
<1> DEFINE Def(m, f) == [i \in 0..m |->
             IF i = 0 THEN [j \in 1..m |-> A[j] \o Eye(m)[j]]
             ELSE IF f[i - 1] = <<>> \/ PivotRows(f[i - 1], i, i) = {} THEN <<>>
             ELSE Pivoted(F, f[i - 1], i, Min(PivotRows(f[i - 1], i, i)), i)]
           Stage(m) == CHOOSE f : f = Def(m, f)
           Result(m) == [j \in DOMAIN Stage(m)[m] |-> SubSeq(Stage(m)[m][j], m + 1, 2 * m)]
           step == Stage(n)
           last == step[n]
           result == [j \in DOMAIN last |-> SubSeq(last[j], n + 1, 2 * n)]
<1>1. Rows(A) = n
  <2>1. A \in [1..n -> [1..n -> Elements(F)]]
    BY DEF Block
  <2> QED BY <2>1, BlockSize
<1>2. InverseMatrix(F, A) = result
  <2>1. InverseMatrix(F, A) = Result(Rows(A))
    BY DEF InverseMatrix
  <2>2. Result(n) = result
    OBVIOUS
  <2> HIDE DEF Result, result
  <2> QED BY <1>1, <2>1, <2>2
<1> HIDE DEF Result
<1>3. Eliminates(F, A, n, step)
  <2>1. \A f : f = Def(n, f) <=> Eliminates(F, A, n, f)
    BY DEF Eliminates
  <2>2. \E f : Eliminates(F, A, n, f)
    BY EliminationBlock
  <2> HIDE DEF Def
  <2> QED BY <2>1, <2>2
<1> HIDE DEF step, Stage
<1>4. last = <<>> \/ last \in Block(F, n, n + n)
  <2>1. n \in 0..n
    OBVIOUS
  <2> QED BY <1>3, <2>1, EliminationBlock
<1> HIDE DEF last
<1>5. DOMAIN last # 1..0
  <2> SUFFICES ASSUME DOMAIN last = 1..0 PROVE FALSE
    OBVIOUS
  <2>1. result \in [1..0 -> {}]
    <3>1. \A j \in 1..0 : FALSE
      OBVIOUS
    <3> QED BY <3>1
  <2> HIDE DEF result
  <2>2. result = <<>>
    BY <2>1, EmptySequence
  <2> QED BY <1>2, <2>2
<1>6. last # <<>>
  <2>1. <<>> \in Seq({}) /\ Len(<<>>) = 0
    BY EmptySeq
  <2>2. DOMAIN <<>> = 1..0
    BY <2>1, LenProperties
  <2> QED BY <1>5, <2>2
<1>7. last \in [1..n -> [1..n + n -> Elements(F)]] /\ DOMAIN last = 1..n
  BY <1>4, <1>6 DEF Block
<1>8. n # 0
  BY <1>5, <1>7
<1>9. ASSUME NEW j \in 1..n PROVE SubSeq(last[j], n + 1, 2 * n) \in [1..n -> Elements(F)]
  <2> DEFINE s == last[j]
  <2>1. s \in [1..n + n -> Elements(F)]
    BY <1>7
  <2>2. \A i \in n + 1..2 * n : i \in 1..n + n
    OBVIOUS
  <2> HIDE DEF s
  <2>3. \A i \in n + 1..2 * n : s[i] \in Elements(F)
    BY <2>1, <2>2
  <2>4. n + 1 \in Int /\ 2 * n \in Int /\ n + 1 <= 2 * n /\ 2 * n - (n + 1) + 1 = n
    BY <1>8
  <2>5. SubSeq(s, n + 1, 2 * n) \in Seq(Elements(F)) /\ Len(SubSeq(s, n + 1, 2 * n)) = n
    BY <2>3, <2>4, SubSeqProperties
  <2>6. SubSeq(s, n + 1, 2 * n) \in [1..n -> Elements(F)]
    BY <2>5, LenProperties
  <2> QED BY <2>6 DEF s
<1>10. result \in [1..n -> [1..n -> Elements(F)]]
  BY <1>7, <1>9
<1> QED BY <1>2, <1>8, <1>10 DEF Block

(***************************************************************************)
(* The circulation state                                                   *)
(***************************************************************************)
PowersOf(F, n, G, m, f) ==
  f = [i \in 0..m |-> IF i = 0 THEN Eye(n) ELSE MatrixTimes(F, f[i - 1], G)]

LEMMA PowersBlock ==
  ASSUME NEW c, IsField(c.F), NEW n \in Nat, NEW T, NEW G \in [1..n -> [1..n -> T]]
  PROVE  /\ TwoTo(c.F.m * n) \in Nat
         /\ StatePowers(c, n, G) \in [0..TwoTo(c.F.m * n) -> Block(c.F, n, n)]
<1> DEFINE F == c.F
           m == TwoTo(F.m * n)
           B == Block(F, n, n)
           h == [x \in Nat \X B |-> MatrixTimes(F, x[2], G)]
           Def(f) == [i \in 0..m |-> IF i = 0 THEN Eye(n) ELSE MatrixTimes(F, f[i - 1], G)]
           power == CHOOSE f : f = Def(f)
<1>1. m \in Nat
  <2>1. F.m \in Nat
    BY DEF IsField
  <2>2. F.m * n \in Nat
    <3> DEFINE k == F.m
    <3> HIDE DEF k
    <3>1. k \in Nat => k * n \in Nat
      OBVIOUS
    <3> QED BY <2>1, <3>1 DEF k
  <2> QED BY <2>2, TwoToGrows
<1>2. Eye(n) \in B
  BY EyeBlock
<1>3. \A M \in B : MatrixTimes(F, M, G) \in B
  BY MatrixTimesBlock
<1> HIDE DEF B
<1>4. h \in [Nat \X B -> B] /\ \A i \in Nat, M \in B : h[<<i, M>>] = MatrixTimes(F, M, G)
  BY <1>3
<1> HIDE DEF h, m, F
<1>5. Recursion(B, Eye(n), h, m) # {}
  BY <1>1, <1>2, <1>4, RecursionExists
<1>6. PICK g \in [0..m -> B] : g[0] = Eye(n) /\ \A i \in 1..m : g[i] = h[<<i, g[i - 1]>>]
  BY <1>5 DEF Recursion
<1>7. PowersOf(F, n, G, m, g)
  <2>1. ASSUME NEW i \in 1..m PROVE g[i] = MatrixTimes(F, g[i - 1], G)
    <3>1. i \in Nat /\ i - 1 \in 0..m
      BY <1>1
    <3>2. g[i - 1] \in B
      BY <3>1
    <3> QED BY <1>4, <1>6, <3>1, <3>2
  <2>2. \A i \in 0..m : g[i] = IF i = 0 THEN Eye(n) ELSE MatrixTimes(F, g[i - 1], G)
    <3>1. \A i \in 0..m : i # 0 => i \in 1..m
      BY <1>1
    <3> QED BY <1>6, <2>1, <3>1
  <2>3. g = [i \in 0..m |-> g[i]]
    OBVIOUS
  <2> QED BY <2>2, <2>3 DEF PowersOf
<1>8. PowersOf(F, n, G, m, power)
  <2>1. \A f : f = Def(f) <=> PowersOf(F, n, G, m, f)
    BY DEF PowersOf
  <2> HIDE DEF Def
  <2> QED BY <1>7, <2>1
<1>9. StatePowers(c, n, G) = [i \in DOMAIN power |-> power[i]]
  BY DEF StatePowers, F, m
<1> HIDE DEF power
<1>10. \A i \in 0..m : power[i] \in B
  <2> DEFINE S == {i \in 0..m : power[i] \in B}
  <2>1. 0 \in S
    <3>1. 0 \in 0..m
      BY <1>1
    <3> QED BY <1>2, <1>8, <3>1 DEF PowersOf
  <2>2. ASSUME NEW i \in 1..m, i - 1 \in S PROVE i \in S
    <3>1. i \in 0..m /\ i # 0
      BY <1>1
    <3>2. power[i] = MatrixTimes(F, power[i - 1], G)
      BY <1>8, <3>1 DEF PowersOf
    <3> QED BY <1>3, <2>2, <3>1, <3>2
  <2> HIDE DEF S
  <2>3. \A i \in 0..m : i \in S
    BY <1>1, <2>1, <2>2, IntervalInduction
  <2> QED BY <2>3 DEF S
<1>11. DOMAIN power = 0..m
  BY <1>8 DEF PowersOf
<1> QED BY <1>1, <1>9, <1>10, <1>11 DEF m, F, B

LEMMA StateGenPowersBlock ==
  ASSUME NEW c, IsCode(c)
  PROVE  \E m \in Nat : StateGenPowers(c)
           \in [0..m -> Block(c.F, MemoryElements(c), MemoryElements(c))]
<1> DEFINE nu == MemoryElements(c)
           G == StateGen(c)
           T == {G[i][j] : i \in 1..nu, j \in 1..nu}
<1>1. nu \in Nat
  BY SlotsListed, LenProperties DEF Lists
<1>2. G = [i \in 1..nu |-> [j \in 1..nu |-> G[i][j]]]
  BY DEF StateGen
<1> HIDE DEF G, nu
<1>3. G \in [1..nu -> [1..nu -> T]]
  <2>1. \A i, j \in 1..nu : G[i][j] \in T
    OBVIOUS
  <2> HIDE DEF T
  <2> QED BY <1>2, <2>1
<1> HIDE DEF T
<1>4. IsField(c.F)
  BY DEF IsCode
<1>5. /\ TwoTo(c.F.m * nu) \in Nat
      /\ StatePowers(c, nu, G) \in [0..TwoTo(c.F.m * nu) -> Block(c.F, nu, nu)]
  BY <1>1, <1>3, <1>4, PowersBlock
<1> QED BY <1>5 DEF StateGenPowers, nu, G

Periods(power) == {L \in DOMAIN power \ {0} : power[L] = power[0]}
Inverses(c, power, period) ==
  [n \in 1..period - 1 |-> InverseMatrix(c.F, MatrixPlus(power[0], power[n]))]

LEMMA TableMade ==
  ASSUME NEW c, c \in Grscc, IsCode(c)
  PROVE  /\ TableOf(c) = PeriodicTable(c, StateGenPowers(c))
         /\ TableOf(c).period \in Periods(StateGenPowers(c)) /\ TableOf(c).period \in Nat \ {0}
         /\ TableOf(c).csct # <<>> =>
              /\ TableOf(c).csct = Inverses(c, StateGenPowers(c), TableOf(c).period)
              /\ \A n \in 1..TableOf(c).period - 1 : TableOf(c).csct[n] # <<>>
<1> DEFINE power == StateGenPowers(c)
           table == PeriodicTable(c, power)
           period == Min(Periods(power))
           f == Inverses(c, power, period)
<1>1. TableOf(c) = table
  <2>1. table \in CirculationTables
    BY DEF CirculationTables
  <2>2. \A d \in Grscc : PeriodicTable(d, StateGenPowers(d)).fsm = d
    BY DEF PeriodicTable, Table
  <2>3. \A t \in CirculationTables : t.fsm = c => t = table
    BY <2>2 DEF CirculationTables
  <2>4. table.fsm = c
    BY <2>2
  <2> HIDE DEF table
  <2> QED BY <2>1, <2>3, <2>4 DEF TableOf
<1>2. PICK m \in Nat : DOMAIN power = 0..m
  <2>1. PICK m \in Nat : power \in [0..m -> Block(c.F, MemoryElements(c), MemoryElements(c))]
    BY StateGenPowersBlock
  <2> QED BY <2>1
<1>3. Periods(power) # {}
  BY PeriodAssumption DEF Periods
<1> HIDE DEF power
<1>4. Periods(power) \subseteq Nat \ {0}
  BY <1>2 DEF Periods
<1>5. period \in Periods(power)
  <2>1. Periods(power) \in SUBSET Nat
    BY <1>4
  <2> QED BY <1>3, <2>1, LeastOf
<1>6. table = [fsm |-> c, period |-> period, csct |-> Cleared(Explicit(f))]
  BY DEF PeriodicTable, Table, Periods, Inverses
<1>7. period \in Nat \ {0}
  BY <1>4, <1>5
<1> HIDE DEF table, period
<1>8. Explicit(f) = f /\ DOMAIN f = 1..period - 1
  <2>1. f = [n \in 1..period - 1 |-> f[n]] /\ DOMAIN f = 1..period - 1
    BY DEF Inverses
  <2> DEFINE T == {f[n] : n \in 1..period - 1}
             k == period - 1
  <2>2. \A n \in 1..k : f[n] \in T
    OBVIOUS
  <2>3. k \in Nat
    BY <1>7
  <2> HIDE DEF f, T
  <2>4. f \in [1..k -> T]
    BY <2>1, <2>2
  <2> HIDE DEF k
  <2>5. Explicit(f) = f
    BY <2>3, <2>4, ExplicitSame
  <2> QED BY <2>1, <2>5
<1> HIDE DEF f
<1>9. /\ table.period = period /\ table.csct = Cleared(f)
  BY <1>6, <1>8
<1>10. ASSUME table.csct # <<>>
       PROVE  table.csct = f /\ \A n \in 1..period - 1 : f[n] # <<>>
  <2>1. Cleared(f) = f /\ <<>> \notin Range(f)
    BY <1>9, <1>10 DEF Cleared
  <2> QED BY <1>8, <1>9, <2>1 DEF Range
<1>11. /\ table.period \in Periods(power) /\ table.period \in Nat \ {0}
  BY <1>5, <1>7, <1>9
<1>12. table.csct # <<>> =>
         /\ table.csct = Inverses(c, power, table.period)
         /\ \A n \in 1..table.period - 1 : table.csct[n] # <<>>
  BY <1>9, <1>10 DEF f
<1> QED BY <1>1, <1>11, <1>12 DEF table, power

LEMMA CirculationTyped ==
  ASSUME NEW c, c \in Grscc, IsCode(c), NEW z, NEW n \in Nat,
         TableOf(c).csct # <<>>, n % TableOf(c).period # 0
  PROVE  Circulation(c, z, n) \in States(c)
<1> DEFINE power == StateGenPowers(c)
           period == TableOf(c).period
           nu == MemoryElements(c)
           k == n % period
           A == TableOf(c).csct[k]
           S == MatrixPlus(power[0], power[k])
<1>1. PICK m \in Nat : power \in [0..m -> Block(c.F, nu, nu)]
  BY StateGenPowersBlock
<1>2. /\ period \in Periods(power) /\ period \in Nat \ {0}
      /\ TableOf(c).csct = Inverses(c, power, period)
      /\ \A i \in 1..period - 1 : TableOf(c).csct[i] # <<>>
  BY TableMade
<1>3. nu \in Nat /\ IsField(c.F)
  BY SlotsListed, LenProperties DEF Lists, IsCode
<1> HIDE DEF power, period, nu
<1>4. k \in 1..period - 1
  <2>1. k \in 0..period - 1
    BY <1>2
  <2>2. k # 0
    BY DEF period
  <2> HIDE DEF k
  <2> QED BY <1>2, <2>1, <2>2
<1> HIDE DEF k
<1>5. A = InverseMatrix(c.F, S) /\ A # <<>>
  BY <1>2, <1>4 DEF Inverses
<1>6. k \in 0..m /\ 0 \in 0..m
  <2>1. period \in 0..m
    BY <1>1, <1>2 DEF Periods
  <2> QED BY <1>2, <1>4, <2>1
<1>7. S \in Block(c.F, nu, nu)
  <2>1. power[0] \in Block(c.F, nu, nu) /\ power[k] \in Block(c.F, nu, nu)
    BY <1>1, <1>6
  <2> QED BY <1>3, <2>1, MatrixPlusBlock
<1> HIDE DEF S
<1>8. nu # 0 /\ A \in Block(c.F, nu, nu)
  BY <1>3, <1>5, <1>7, InverseBlock
<1>9. Circulation(c, z, n) = MatrixTimesVector(c.F, A, z)
  BY DEF Circulation, LookedUp, k, period
<1> HIDE DEF A
<1>10. MatrixTimesVector(c.F, A, z) \in [1..nu -> Elements(c.F)]
  BY <1>3, <1>8, VectorTimesBlock
<1> QED BY <1>9, <1>10 DEF States, nu

(***************************************************************************)
(* Any code                                                                *)
(***************************************************************************)
LEMMA ConvertZero ==
  ASSUME NEW F, F.m \in Nat, NEW vec \in Seq(Elements(F)), \A i \in 1..Len(vec) : vec[i] = Zero
  PROVE  Convert(F, vec) = 0
<1> DEFINE q == TwoTo(F.m)
           n == Len(vec)
           d == Digit(vec)
<1>0. q \in Nat /\ n \in Nat
  BY TwoToGrows, LenProperties
<1>1. PICK val : Value(q, d, n, val) /\ Convert(F, vec) = val[n]
  BY ConvertValue
<1>2. \A i \in 1..n : d[i] = 0
  <2>1. ToInt(Zero) = 0
    BY ToIntIsSum, FS_EmptySet, SumProperties DEF Zero
  <2> QED BY <2>1 DEF Digit
<1> HIDE DEF d, q, n
<1> DEFINE S == {i \in 0..n : val[i] = 0}
<1>3. 0 \in S
  BY <1>0, <1>1 DEF Value
<1>4. ASSUME NEW i \in 1..n, i - 1 \in S PROVE i \in S
  <2>1. i \in 0..n /\ i # 0 /\ n + 1 - i \in 1..n
    BY <1>0
  <2>2. val[i] = val[i - 1] * q + d[n + 1 - i]
    BY <1>1, <2>1 DEF Value
  <2>3. val[i - 1] = 0 /\ d[n + 1 - i] = 0
    BY <1>2, <1>4, <2>1
  <2> QED BY <1>0, <2>1, <2>2, <2>3
<1>5. \A i \in 0..n : i \in S
  <2> HIDE DEF S
  <2> QED BY <1>0, <1>3, <1>4, IntervalInduction
<1>6. n \in 0..n
  BY <1>0
<1> QED BY <1>1, <1>5, <1>6

(* A state of three bits is a number up to 7.                              *)
LEMMA DvbNumber ==
  ASSUME NEW s \in DvbStates
  PROVE  Convert(GF2, s) \in 0..7
<1> DEFINE d == Digit(s)
<1>1. s \in Seq(Elements(GF2)) /\ Len(s) = 3
  BY ExplicitSame DEF DvbStates
<1>2. GF2.m = 1 /\ GF2.m \in Nat /\ TwoTo(GF2.m) = 2
  <2>1. GF2.m = 1
    BY DEF GF2
  <2>2. TwoTo(0) = 1 /\ TwoTo(0 + 1) = 2 * TwoTo(0)
    BY TwoToGrows
  <2> QED BY <2>1, <2>2
<1>3. PICK val : Value(2, d, 3, val) /\ Convert(GF2, s) = val[3]
  BY <1>1, <1>2, ConvertValue
<1>4. d[1] \in 0..1 /\ d[2] \in 0..1 /\ d[3] \in 0..1
  <2>1. d \in [1..3 -> 0..2 - 1]
    BY <1>1, <1>2, ConvertValue
  <2> HIDE DEF d
  <2> QED BY <2>1
<1> HIDE DEF d
<1>5. val[0] = 0 /\ val[1] = val[0] * 2 + d[3] /\ val[2] = val[1] * 2 + d[2] /\ val[3] = val[2] * 2 + d[1]
  <2>1. \A i \in 0..3 : val[i] = IF i = 0 THEN 0 ELSE val[i - 1] * 2 + d[3 + 1 - i]
    BY <1>3 DEF Value
  <2>2. val[0] = IF 0 = 0 THEN 0 ELSE val[0 - 1] * 2 + d[3 + 1 - 0]
    BY <2>1
  <2>3. val[1] = IF 1 = 0 THEN 0 ELSE val[1 - 1] * 2 + d[3 + 1 - 1]
    BY <2>1
  <2>4. val[2] = IF 2 = 0 THEN 0 ELSE val[2 - 1] * 2 + d[3 + 1 - 2]
    BY <2>1
  <2>5. val[3] = IF 3 = 0 THEN 0 ELSE val[3 - 1] * 2 + d[3 + 1 - 3]
    BY <2>1
  <2> QED BY <2>2, <2>3, <2>4, <2>5
<1> QED BY <1>3, <1>4, <1>5

LEMMA DvbCirculation ==
  ASSUME NEW s \in DvbStates, NEW n \in Nat, n % 7 # 0
  PROVE  ConvertBack(GF2, DvbTable[n % 7][Convert(GF2, s) + 1], 3) \in DvbStates
<1> DEFINE k == n % 7
           v == Convert(GF2, s) + 1
<1>1. k \in 1..6
  OBVIOUS
<1>2. v \in 1..8
  <2>1. Convert(GF2, s) \in 0..7
    BY DvbNumber
  <2> QED BY <2>1
<1> HIDE DEF k, v
<1>3. DvbTable[k][v] \in Nat
  <2>1. \A a \in 1..6 : \A b \in 1..8 : DvbTable[a][b] \in Nat
    <3>1. \A b \in 1..8 : DvbTable[1][b] \in Nat
      BY DEF DvbTable
    <3>2. \A b \in 1..8 : DvbTable[2][b] \in Nat
      BY DEF DvbTable
    <3>3. \A b \in 1..8 : DvbTable[3][b] \in Nat
      BY DEF DvbTable
    <3>4. \A b \in 1..8 : DvbTable[4][b] \in Nat
      BY DEF DvbTable
    <3>5. \A b \in 1..8 : DvbTable[5][b] \in Nat
      BY DEF DvbTable
    <3>6. \A b \in 1..8 : DvbTable[6][b] \in Nat
      BY DEF DvbTable
    <3>7. \A a \in 1..6 : a = 1 \/ a = 2 \/ a = 3 \/ a = 4 \/ a = 5 \/ a = 6
      OBVIOUS
    <3> QED BY <3>1, <3>2, <3>3, <3>4, <3>5, <3>6, <3>7
  <2> QED BY <1>1, <1>2, <2>1
<1>4. GF2.m \in Nat
  BY DEF GF2
<1> DEFINE w == DvbTable[k][v]
<1> HIDE DEF w
<1>5. ConvertBack(GF2, w, 3) \in [1..3 -> Elements(GF2)]
  <2>1. w \in Nat
    BY <1>3 DEF w
  <2> QED BY <1>4, <2>1, ConvertBackDigits
<1> QED BY <1>5 DEF w, k, v, DvbStates

StatesOf(c) == [1..StateSize(c) -> Elements(c.F)]
IsRegOf(c, r) == IF IsDvb(c) THEN IsDvbReg(r) ELSE IsReg(c, r)
VectorsOf(c) == [1..InputLines(c) -> Elements(c.F)]
IsInputOf(c, input) ==
  \/ input \in VectorsOf(c)
  \/ ~ IsDvb(c) /\ input = [i \in 1..InputLines(c) |-> TailInput]

LEMMA EncoderKinds ==
  ASSUME NEW c \in Encoders
  PROVE  /\ IsDvb(c) => c.F = GF2
         /\ ~ IsDvb(c) => IsEncoder(c)
         /\ IsBinary(c) => IsBinaryCode(c) /\ ~ IsDvb(c)
         /\ c \in Grscc => IsCode(c) /\ ~ IsDvb(c)
         /\ IsField(c.F) /\ c.F.m \in Nat
<1>1. \/ c.kind = "dvb" /\ c.F = GF2
      \/ /\ c.kind \in {"nrc", "rsc"} /\ IsField(c.F) /\ IsGenerator(c.F, c.gen)
         /\ c.kind = "rsc" => Inputs(c) <= Outputs(c)
  BY EncodersAssumption
<1>2. CASE c.kind = "dvb" /\ c.F = GF2
  BY <1>2, ElementsGF2 DEF IsDvb, IsBinary, Grscc, IsField
<1>3. CASE /\ c.kind \in {"nrc", "rsc"} /\ IsField(c.F) /\ IsGenerator(c.F, c.gen)
           /\ c.kind = "rsc" => Inputs(c) <= Outputs(c)
  BY <1>3 DEF IsDvb, IsBinary, IsBinaryCode, IsEncoder, IsCode, IsField
<1> QED BY <1>1, <1>2, <1>3

LEMMA StateVectorOf ==
  ASSUME NEW c \in Encoders, NEW r, IsRegOf(c, r)
  PROVE  StateVector(c, r) \in StatesOf(c) /\ ResetTo(c, StateVector(c, r)) = r
<1>1. CASE IsDvb(c)
  BY <1>1, EncoderKinds, DvbStateOf DEF IsRegOf, StateVector, ResetTo, StatesOf, StateSize, DvbStates
<1>2. CASE ~ IsDvb(c)
  <2>1. IsCode(c) /\ IsReg(c, r)
    BY <1>2, EncoderKinds DEF IsEncoder, IsRegOf
  <2>2. State(c, r) \in States(c) /\ Reset(c, State(c, r)) = r
    BY <2>1, StateOf, ResetToState
  <2> QED BY <1>2, <2>2 DEF StateVector, ResetTo, StatesOf, StateSize, States
<1> QED BY <1>1, <1>2

LEMMA StateAfterReset ==
  ASSUME NEW c \in Encoders, NEW s \in StatesOf(c)
  PROVE  IsRegOf(c, ResetTo(c, s)) /\ StateVector(c, ResetTo(c, s)) = s
<1>1. CASE IsDvb(c)
  <2>1. s \in DvbStates
    BY <1>1, EncoderKinds DEF StatesOf, StateSize, DvbStates
  <2> QED BY <1>1, <2>1, DvbReset DEF IsRegOf, StateVector, ResetTo
<1>2. CASE ~ IsDvb(c)
  <2>1. IsCode(c) /\ s \in States(c)
    BY <1>2, EncoderKinds DEF IsEncoder, StatesOf, States, StateSize
  <2>2. IsReg(c, Reset(c, s)) /\ State(c, Reset(c, s)) = s
    BY <2>1, ResetOf, StateOfReset
  <2> QED BY <1>2, <2>2 DEF StateVector, ResetTo, IsRegOf
<1> QED BY <1>1, <1>2

LEMMA StateSized ==
  ASSUME NEW c \in Encoders
  PROVE  StateSize(c) \in Nat
<1>1. CASE IsDvb(c)
  BY <1>1 DEF StateSize
<1>2. CASE ~ IsDvb(c)
  <2>1. IsCode(c)
    BY <1>2, EncoderKinds DEF IsEncoder
  <2>2. MemoryElements(c) \in Nat
    BY <2>1, SlotsListed, LenProperties DEF Lists
  <2> QED BY <1>2, <2>2 DEF StateSize
<1> QED BY <1>1, <1>2

LEMMA StateConverted ==
  ASSUME NEW c \in Encoders, NEW s \in StatesOf(c)
  PROVE  /\ Convert(c.F, s) \in Nat
         /\ ConvertBack(c.F, Convert(c.F, s), StateSize(c)) = s
<1>1. s \in Seq(Elements(c.F)) /\ Len(s) = StateSize(c)
  BY StateSized, ExplicitSame DEF StatesOf
<1>2. c.F.m \in Nat
  BY EncoderKinds
<1>3. Convert(c.F, s) \in Nat /\ ConvertBack(c.F, Convert(c.F, s), Len(s)) = s
  BY <1>1, <1>2, ConvertedBack
<1> QED BY <1>1, <1>3

(* A step leaves registers, and is that with the input determined.         *)
DeterminedOf(c, r, input) == IF IsDvb(c) THEN input ELSE DetermineInput(c, r, input)

LEMMA Stepped ==
  ASSUME NEW c \in Encoders, NEW r, IsRegOf(c, r), NEW input, IsInputOf(c, input)
  PROVE  /\ IsRegOf(c, NextReg(c, r, input))
         /\ NextReg(c, r, DeterminedOf(c, r, input)) = NextReg(c, r, input)
<1>1. CASE IsDvb(c)
  BY <1>1, DvbAdvanced DEF IsRegOf, NextReg, DeterminedOf
<1>2. CASE ~ IsDvb(c)
  <2>1. IsEncoder(c) /\ IsReg(c, r)
    BY <1>2, EncoderKinds DEF IsRegOf
  <2>2. IsInput(c, input)
    BY <1>2 DEF IsInput, IsInputOf, VectorsOf, InputLines, Vectors, TailVector
  <2>3. IsReg(c, Advance(c, r, input))
    BY <2>1, <2>2, Advanced
  <2>4. Sin(c, r, DetermineInput(c, r, input)) = Sin(c, r, input)
    BY <2>1, <2>2, SinDetermined
  <2>5. Advance(c, r, DetermineInput(c, r, input)) = Advance(c, r, input)
    BY <2>4 DEF Advance, Sin
  <2> QED BY <1>2, <2>3, <2>5 DEF IsRegOf, NextReg, DeterminedOf
<1> QED BY <1>1, <1>2

LEMMA CirculationOf ==
  ASSUME NEW c \in Encoders, NEW s \in StatesOf(c), NEW n \in Nat, HasCirculation(c, n)
  PROVE  CirculationState(c, s, n) \in StatesOf(c)
<1>1. CASE IsDvb(c)
  <2>1. n % 7 # 0 /\ s \in DvbStates /\ c.F = GF2
    BY <1>1, EncoderKinds DEF HasCirculation, StatesOf, StateSize, DvbStates
  <2> QED BY <1>1, <2>1, DvbCirculation DEF CirculationState, StatesOf, StateSize, DvbStates
<1>2. CASE ~ IsDvb(c)
  <2>1. c \in Grscc /\ TableOf(c).csct # <<>> /\ n % TableOf(c).period # 0
    BY <1>2 DEF HasCirculation
  <2>2. IsCode(c)
    BY <2>1, EncoderKinds
  <2>3. Circulation(c, s, n) \in States(c)
    BY <2>1, <2>2, CirculationTyped
  <2> QED BY <1>2, <2>3 DEF CirculationState, States, StatesOf, StateSize
<1> QED BY <1>1, <1>2

(***************************************************************************)
(* The invariant                                                           *)
(***************************************************************************)
MachinesAgree ==
  /\ encoder \in Encoders
  /\ IsRegOf(encoder, reg)
  /\ bitreg = IF IsBinary(encoder) THEN BitsOf(encoder, reg) ELSE <<>>
  /\ ps = Convert(encoder.F, StateVector(encoder, reg))

FsmInv == MachinesAgree /\ N \in Nat /\ source \in Seq(InputVectors)

(* A reset puts the three machines into the state.                         *)
LEMMA ResetAgrees ==
  ASSUME NEW c \in Encoders, NEW s \in StatesOf(c)
  PROVE  /\ IsRegOf(c, ResetTo(c, s))
         /\ IsBinary(c) => BitReset(c, s) = BitsOf(c, ResetTo(c, s))
         /\ Convert(c.F, s) = Convert(c.F, StateVector(c, ResetTo(c, s)))
<1>1. IsRegOf(c, ResetTo(c, s)) /\ StateVector(c, ResetTo(c, s)) = s
  BY StateAfterReset
<1>2. ASSUME IsBinary(c) PROVE BitReset(c, s) = BitsOf(c, ResetTo(c, s))
  <2>1. IsBinaryCode(c) /\ ~ IsDvb(c)
    BY <1>2, EncoderKinds
  <2>2. s \in States(c)
    BY <2>1 DEF StatesOf, States, StateSize
  <2> QED BY <2>1, <2>2, BitResetAgrees DEF ResetTo
<1> QED BY <1>1, <1>2

(* Of the table: the next state and the output are those of the code.      *)
LEMMA CacheAgrees ==
  ASSUME NEW c \in Encoders, NEW r, IsRegOf(c, r)
  PROVE  \A input :
           /\ CachedNext(c, Convert(c.F, StateVector(c, r)), input)
                = Convert(c.F, StateVector(c, NextReg(c, r, input)))
           /\ CachedOutput(c, Convert(c.F, StateVector(c, r)), input) = OutputOf(c, r, input)
<1>1. StateVector(c, r) \in StatesOf(c) /\ ResetTo(c, StateVector(c, r)) = r
  BY StateVectorOf
<1>2. ConvertBack(c.F, Convert(c.F, StateVector(c, r)), StateSize(c)) = StateVector(c, r)
  BY <1>1, StateConverted
<1> QED BY <1>1, <1>2 DEF CachedNext, CachedOutput

(* The three machines advance together.                                    *)
LEMMA AdvanceAgrees ==
  ASSUME MachinesAgree, NEW input, IsInputOf(encoder, input), AdvanceAll(input),
         UNCHANGED encoder, N \in Nat
  PROVE  MachinesAgree' /\ N' \in Nat
<1> DEFINE c == encoder
           ip == DeterminedOf(c, reg, input)
<1>1. c \in Encoders /\ IsRegOf(c, reg) /\ c' = c
  BY DEF MachinesAgree
<1>2. /\ reg' = NextReg(c, reg, input)
      /\ bitreg' = IF IsBinary(c) THEN BitAdvance(c, bitreg, input) ELSE bitreg
      /\ ps' = CachedNext(c, ps, ip)
      /\ N' = N + 1
  BY DEF AdvanceAll, DeterminedOf
<1>3. /\ IsRegOf(c, reg')
      /\ NextReg(c, reg, ip) = reg'
  BY <1>1, <1>2, Stepped
<1>4. ps' = Convert(c.F, StateVector(c, reg'))
  <2>1. ps = Convert(c.F, StateVector(c, reg))
    BY DEF MachinesAgree
  <2>2. CachedNext(c, Convert(c.F, StateVector(c, reg)), ip)
          = Convert(c.F, StateVector(c, NextReg(c, reg, ip)))
    BY <1>1, CacheAgrees
  <2> QED BY <1>2, <1>3, <2>1, <2>2
<1>5. bitreg' = IF IsBinary(c) THEN BitsOf(c, reg') ELSE <<>>
  <2>1. CASE IsBinary(c)
    <3>1. IsBinaryCode(c) /\ ~ IsDvb(c)
      BY <1>1, <2>1, EncoderKinds
    <3>2. IsReg(c, reg) /\ bitreg = BitsOf(c, reg)
      BY <1>1, <2>1, <3>1 DEF IsRegOf, MachinesAgree
    <3>3. IsInput(c, input)
      BY <3>1 DEF IsInput, IsInputOf, VectorsOf, InputLines, Vectors, TailVector
    <3>4. BitAdvance(c, BitsOf(c, reg), input) = BitsOf(c, Advance(c, reg, input))
      BY <3>1, <3>2, <3>3, BitAdvanceAgrees
    <3> QED BY <1>2, <2>1, <3>1, <3>2, <3>4 DEF NextReg
  <2>2. CASE ~ IsBinary(c)
    BY <1>2, <2>2 DEF MachinesAgree
  <2> QED BY <2>1, <2>2
<1> QED BY <1>1, <1>2, <1>3, <1>4, <1>5 DEF MachinesAgree

LEMMA InvInit ==
  FsmInit => FsmInv
<1> SUFFICES ASSUME FsmInit PROVE FsmInv
  OBVIOUS
<1> DEFINE c == encoder
           z == ZeroState(c)
<1>1. c \in Encoders
  BY DEF FsmInit
<1>2. z \in StatesOf(c)
  <2>1. Zero \in Elements(c.F)
    BY <1>1, EncoderKinds, TailIsNoElement
  <2> QED BY <2>1 DEF ZeroState, StatesOf
<1>3. Convert(c.F, z) = 0
  <2>1. z \in Seq(Elements(c.F)) /\ Len(z) = StateSize(c)
    BY <1>1, <1>2, StateSized, ExplicitSame DEF StatesOf
  <2>2. \A i \in 1..Len(z) : z[i] = Zero
    BY <2>1 DEF ZeroState
  <2>3. c.F.m \in Nat
    BY <1>1, EncoderKinds
  <2> HIDE DEF z
  <2> QED BY <2>1, <2>2, <2>3, ConvertZero
<1>4. MachinesAgree
  BY <1>1, <1>2, <1>3, ResetAgrees DEF FsmInit, MachinesAgree
<1>5. N \in Nat /\ source \in Seq(InputVectors)
  BY DEF FsmInit
<1> QED BY <1>4, <1>5 DEF FsmInv

LEMMA InvStep ==
  ASSUME FsmInv, Step
  PROVE  FsmInv'
<1>1. PICK input \in InputVectors : AdvanceAll(input) /\ source' = Append(source, input)
  BY DEF Step
<1>2. UNCHANGED encoder /\ MachinesAgree /\ N \in Nat /\ source \in Seq(InputVectors)
  BY DEF Step, FsmInv
<1>3. IsInputOf(encoder, input)
  BY DEF InputVectors, IsInputOf, VectorsOf
<1>4. MachinesAgree' /\ N' \in Nat
  BY <1>1, <1>2, <1>3, AdvanceAgrees
<1>5. InputVectors' = InputVectors /\ source' \in Seq(InputVectors)
  BY <1>1, <1>2, AppendProperties DEF InputVectors
<1> QED BY <1>4, <1>5 DEF FsmInv

LEMMA InvStepTail ==
  ASSUME FsmInv, StepTail
  PROVE  FsmInv'
<1> DEFINE input == [i \in 1..InputLines(encoder) |-> TailInput]
<1>1. AdvanceAll(input) /\ UNCHANGED encoder /\ UNCHANGED source /\ ~ IsDvb(encoder)
  BY DEF StepTail
<1>2. MachinesAgree /\ N \in Nat /\ source \in Seq(InputVectors)
  BY DEF FsmInv
<1>3. IsInputOf(encoder, input)
  BY <1>1 DEF IsInputOf
<1> HIDE DEF input
<1>4. MachinesAgree' /\ N' \in Nat
  BY <1>1, <1>2, <1>3, AdvanceAgrees
<1> QED BY <1>1, <1>2, <1>4 DEF FsmInv, InputVectors

LEMMA InvStepAgain ==
  ASSUME FsmInv, StepAgain
  PROVE  FsmInv'
<1>1. AdvanceAll(source[N + 1]) /\ UNCHANGED encoder /\ UNCHANGED source /\ N < Len(source)
  BY DEF StepAgain
<1>2. MachinesAgree /\ N \in Nat /\ source \in Seq(InputVectors)
  BY DEF FsmInv
<1>3. source[N + 1] \in InputVectors
  <2>1. N + 1 \in 1..Len(source)
    BY <1>1, <1>2, LenProperties
  <2> QED BY <1>2, <2>1, ElementOfSeq
<1>4. IsInputOf(encoder, source[N + 1])
  BY <1>3 DEF IsInputOf, InputVectors, VectorsOf
<1>5. MachinesAgree' /\ N' \in Nat
  BY <1>1, <1>2, <1>4, AdvanceAgrees
<1> QED BY <1>1, <1>2, <1>5 DEF FsmInv, InputVectors

LEMMA InvResetCircular ==
  ASSUME FsmInv, ResetCircular
  PROVE  FsmInv'
<1> DEFINE c == encoder
           s == CirculationState(c, StateVector(c, reg), N)
<1>1. /\ c \in Encoders /\ IsRegOf(c, reg) /\ N \in Nat /\ HasCirculation(c, N)
      /\ UNCHANGED <<encoder, source>>
  BY DEF FsmInv, MachinesAgree, ResetCircular
<1>2. s \in StatesOf(c)
  BY <1>1, StateVectorOf, CirculationOf
<1>3. ResetState(s)
  BY DEF ResetCircular
<1> HIDE DEF s
<1>4. MachinesAgree' /\ N' \in Nat
  BY <1>1, <1>2, <1>3, ResetAgrees DEF ResetState, MachinesAgree
<1> QED BY <1>1, <1>4 DEF FsmInv, InputVectors

LEMMA InvNext ==
  FsmInv /\ [FsmNext]_fsmvars => FsmInv'
<1> SUFFICES ASSUME FsmInv, [FsmNext]_fsmvars PROVE FsmInv'
  OBVIOUS
<1>1. CASE Step
  BY <1>1, InvStep
<1>2. CASE StepTail
  BY <1>2, InvStepTail
<1>3. CASE ResetCircular
  BY <1>3, InvResetCircular
<1>4. CASE StepAgain
  BY <1>4, InvStepAgain
<1>5. CASE UNCHANGED fsmvars
  BY <1>5 DEF fsmvars, FsmInv, MachinesAgree, InputVectors
<1> QED BY <1>1, <1>2, <1>3, <1>4, <1>5 DEF FsmNext

LEMMA InvAgrees ==
  FsmInv => EncodersAgree
<1> SUFFICES ASSUME FsmInv PROVE EncodersAgree
  OBVIOUS
<1> DEFINE c == encoder
           state == StateVector(c, reg)
<1>1. /\ c \in Encoders /\ IsRegOf(c, reg) /\ ps = Convert(c.F, state)
      /\ IsBinary(c) => bitreg = BitsOf(c, reg)
  BY DEF FsmInv, MachinesAgree
<1>2. ResetTo(c, state) = reg
  BY <1>1, StateVectorOf
<1>3. ASSUME IsBinary(c)
      PROVE  /\ BitState(c, bitreg) = state
             /\ \A input \in InputVectors : BitOutput(c, bitreg, input) = OutputOf(c, reg, input)
  <2>1. IsBinaryCode(c) /\ ~ IsDvb(c)
    BY <1>1, <1>3, EncoderKinds
  <2>2. IsReg(c, reg) /\ bitreg = BitsOf(c, reg)
    BY <1>1, <1>3, <2>1 DEF IsRegOf
  <2>3. BitState(c, BitsOf(c, reg)) = State(c, reg)
    BY <2>1, <2>2, BitStateAgrees
  <2>4. InputVectors = Vectors(c)
    BY <2>1 DEF InputVectors, Vectors, InputLines
  <2>5. \A input \in Vectors(c) : BitOutput(c, BitsOf(c, reg), input) = Output(c, reg, input)
    BY <2>1, <2>2, BitOutputAgrees
  <2> QED BY <2>1, <2>2, <2>3, <2>4, <2>5 DEF StateVector, OutputOf
<1>4. \A input \in InputVectors : CachedOutput(c, ps, input) = OutputOf(c, reg, input)
  BY <1>1, CacheAgrees
<1> QED BY <1>1, <1>2, <1>3, <1>4 DEF EncodersAgree

(* The machine of elements, that of bits and the cached table stay in one  *)
(* state and give one output, for all fields, generators and inputs, into  *)
(* the tail and from the circulation state.                                *)
THEOREM EncodersAlwaysAgree ==
  FsmSpec => []EncodersAgree
<1>1. FsmInit => FsmInv
  BY InvInit
<1>2. FsmInv /\ [FsmNext]_fsmvars => FsmInv'
  BY InvNext
<1>3. FsmInv => EncodersAgree
  BY InvAgrees
<1> QED BY <1>1, <1>2, <1>3, PTL DEF FsmSpec
=============================================================================
