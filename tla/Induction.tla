------------------------------- MODULE Induction -------------------------------
(***************************************************************************)
(* Induction on the natural numbers, for a set and not for a predicate, so *)
(* that a proof can cite it: the sets 0..n are well-founded by inclusion.  *)
(* Functions that recursion defines, and finite sums and products: what    *)
(* they are does not depend on the order in which a set is gone through.   *)
(* Division, and sums over the walks of a matrix, as two passes make them. *)
(***************************************************************************)
EXTENDS Integers, Functions, FiniteSetTheorems, WellFoundedInduction, TLAPS

(* A set of natural numbers that is not empty has a least element.         *)
LEMMA LeastElement ==
  ASSUME NEW S, S \subseteq Nat, S # {}
  PROVE  \E m \in S : \A n \in S : m <= n
<1> DEFINE T == {0..n : n \in S}
           R == StrictSubsetOrdering(Nat)
<1>1. IsWellFoundedOn(R, FiniteSubsetsOf(Nat))
  BY FS_StrictSubsetOrderingWellFounded
<1>2. T \subseteq FiniteSubsetsOf(Nat) /\ T # {}
  <2>1. \A n \in S : 0..n \in SUBSET Nat /\ IsFiniteSet(0..n)
    BY FS_Interval
  <2> QED BY <2>1 DEF FiniteSubsetsOf
<1>3. PICK x \in T : \A y \in T : ~ (<<y, x>> \in R)
  <2> HIDE DEF T, R
  <2> QED BY <1>1, <1>2, WFMin
<1>4. PICK m \in S : x = 0..m
  OBVIOUS
<1>5. ASSUME NEW n \in S, n < m PROVE FALSE
  <2>1. 0..n \subseteq 0..m /\ 0..n # 0..m
    <3>1. m \in 0..m /\ m \notin 0..n
      BY <1>5
    <3> QED BY <1>5, <3>1
  <2>2. 0..n \in SUBSET Nat /\ 0..m \in SUBSET Nat
    BY <1>5
  <2>3. <<0..n, 0..m>> \in R
    BY <2>1, <2>2 DEF StrictSubsetOrdering
  <2> QED BY <1>3, <1>4, <2>3
<1> QED BY <1>5

(* A set of positions that is not empty has a largest member.              *)
LEMMA LargestMember ==
  ASSUME NEW n \in Nat, NEW S \in SUBSET (1..n), S # {}
  PROVE  \E i \in S : \A j \in S : j <= i
<1> DEFINE up == {k \in Nat : k <= n /\ n - k \in S}
<1>1. PICK m \in S : TRUE
  OBVIOUS
<1>2. n - m \in up
  BY <1>1
<1> HIDE DEF up
<1>3. PICK k \in up : \A j \in up : k <= j
  BY <1>2, LeastElement DEF up
<1>4. ASSUME NEW j \in S
      PROVE  j <= n - k
  <2>1. n - j \in up
    BY DEF up
  <2> QED BY <1>3, <2>1 DEF up
<1> QED BY <1>3, <1>4 DEF up

(* A set that holds 0 and the successor of each of its members holds every *)
(* natural number.                                                         *)
LEMMA SetInduction ==
  ASSUME NEW S, 0 \in S, \A n \in Nat : n \in S => n + 1 \in S
  PROVE  \A n \in Nat : n \in S
<1> SUFFICES ASSUME Nat \ S # {} PROVE FALSE
  OBVIOUS
<1>1. PICK m \in Nat \ S : \A n \in Nat \ S : m <= n
  BY LeastElement
<1>2. m # 0 /\ m - 1 \in Nat
  OBVIOUS
<1>3. m - 1 \in S
  BY <1>1, <1>2
<1> QED BY <1>2, <1>3

(* A function defined by recursion on 0..k: its value at n is that of h at *)
(* n and at its value before.                                              *)
Recursion(A, a, h, k) ==
  {g \in [0..k -> A] : g[0] = a /\ \A n \in 1..k : g[n] = h[<<n, g[n - 1]>>]}

(* Recursion from a along h defines a function, as far as any k.           *)
LEMMA RecursionExists ==
  ASSUME NEW A, NEW a \in A, NEW h \in [Nat \X A -> A]
  PROVE  \A k \in Nat : Recursion(A, a, h, k) # {}
<1> DEFINE Recurs(g, k) == g[0] = a /\ \A n \in 1..k : g[n] = h[<<n, g[n - 1]>>]
           S == {k \in Nat : \E g \in [0..k -> A] : Recurs(g, k)}
<1>1. 0 \in S
  <2>1. [n \in 0..0 |-> a] \in [0..0 -> A] /\ Recurs([n \in 0..0 |-> a], 0)
    OBVIOUS
  <2> QED BY <2>1
<1>2. ASSUME NEW k \in Nat, k \in S PROVE k + 1 \in S
  <2>1. PICK g \in [0..k -> A] : Recurs(g, k)
    BY <1>2
  <2> DEFINE next == [n \in 0..k + 1 |-> IF n = k + 1 THEN h[<<n, g[k]>>] ELSE g[n]]
  <2>2. h[<<k + 1, g[k]>>] \in A
    OBVIOUS
  <2>3. next \in [0..k + 1 -> A]
    BY <2>2
  <2>4. next[0] = a
    BY <2>1
  <2>5. ASSUME NEW n \in 1..k + 1 PROVE next[n] = h[<<n, next[n - 1]>>]
    <3>1. CASE n = k + 1
      BY <3>1
    <3>2. CASE n \in 1..k
      BY <2>1, <3>2
    <3> QED BY <3>1, <3>2
  <2> HIDE DEF next
  <2> QED BY <2>3, <2>4, <2>5
<1>3. \A k \in Nat : k \in S
  <2> HIDE DEF S
  <2> QED BY <1>1, <1>2, SetInduction
<1> QED BY <1>3 DEF Recursion

(* Induction on an interval.                                               *)
LEMMA IntervalInduction ==
  ASSUME NEW n \in Nat, NEW S, 0 \in S, \A i \in 1..n : i - 1 \in S => i \in S
  PROVE  \A i \in 0..n : i \in S
<1> DEFINE T == {i \in Nat : i <= n => i \in S}
<1>1. 0 \in T
  OBVIOUS
<1>2. ASSUME NEW i \in Nat, i \in T PROVE i + 1 \in T
  <2>1. i + 1 <= n => i + 1 \in 1..n /\ (i + 1) - 1 = i /\ i <= n
    OBVIOUS
  <2> QED BY <1>2, <2>1
<1>3. \A i \in Nat : i \in T
  <2> HIDE DEF T
  <2> QED BY <1>1, <1>2, SetInduction
<1> QED BY <1>3

(***************************************************************************)
(* Folds of finite sets                                                    *)
(***************************************************************************)
(* An operation given as a function of pairs, whose operands may be taken  *)
(* in any order, and the functions that it can fold over a set.            *)
Swaps(A, op) == \A x, y, w \in A : op[<<x, op[<<y, w>>]>>] = op[<<y, op[<<x, w>>]>>]

Foldable(A, op, z, f, S) ==
  /\ op \in [A \X A -> A] /\ Swaps(A, op) /\ z \in A
  /\ IsFiniteSet(S) /\ \A x \in S : f[x] \in A

(* it gives every subset of S what folding f over it with op gives, in some *)
(* order of its elements, and in every order.                              *)
IsFold(op, z, f, S, it) ==
  /\ it[{}] = z
  /\ \A s \in SUBSET S : s # {} => \E x \in s : it[s] = op[<<f[x], it[s \ {x}]>>]

AnyOrder(A, op, z, f, S, it) ==
  /\ it[{}] = z
  /\ \A s \in SUBSET S :
       it[s] \in A /\ \A x \in s : it[s] = op[<<f[x], it[s \ {x}]>>]

(* A set without one of its elements is smaller.                           *)
LEMMA Removed ==
  ASSUME NEW S, IsFiniteSet(S), NEW n \in Nat, NEW s \in SUBSET S,
         Cardinality(s) <= n + 1, NEW x \in s
  PROVE  s \ {x} \in SUBSET S /\ Cardinality(s \ {x}) <= n
<1>1. IsFiniteSet(s)
  BY FS_Subset
<1>2. Cardinality(s \ {x}) = Cardinality(s) - 1 /\ Cardinality(s) \in Nat
  BY <1>1, FS_RemoveElement, FS_CardinalityType
<1> QED BY <1>2

(* A fold in some order is one in every order.                             *)
LEMMA FoldInAnyOrder ==
  ASSUME NEW A, NEW op, NEW z, NEW f, NEW S, Foldable(A, op, z, f, S),
         NEW it, IsFold(op, z, f, S, it)
  PROVE  AnyOrder(A, op, z, f, S, it)
<1> DEFINE Right(s) == it[s] \in A /\ \A x \in s : it[s] = op[<<f[x], it[s \ {x}]>>]
           Ns == {n \in Nat : \A s \in SUBSET S : Cardinality(s) <= n => Right(s)}
<1>0. \A u, v \in A : op[<<u, v>>] \in A
  BY DEF Foldable
<1>z. z \in A /\ IsFiniteSet(S) /\ Swaps(A, op) /\ \A x \in S : f[x] \in A
  BY DEF Foldable
<1>empty. Right({})
  BY <1>z DEF IsFold
<1>1. 0 \in Ns
  <2>1. ASSUME NEW s \in SUBSET S, Cardinality(s) <= 0 PROVE s = {}
    BY <1>z, <2>1, FS_Subset, FS_EmptySet, FS_CardinalityType
  <2> HIDE DEF Right
  <2> QED BY <1>empty, <2>1
<1>2. ASSUME NEW n \in Nat, n \in Ns, NEW s \in SUBSET S, Cardinality(s) <= n + 1, s # {}
      PROVE  Right(s)
  <2>1. \A x \in s : s \ {x} \in SUBSET S /\ Cardinality(s \ {x}) <= n
    BY <1>2, <1>z, Removed
  <2>2. \A x \in s : Right(s \ {x})
    BY <1>2, <2>1
  <2>3. PICK y \in s : it[s] = op[<<f[y], it[s \ {y}]>>]
    BY <1>2 DEF IsFold
  <2>4. it[s] \in A
    BY <1>0, <1>z, <2>2, <2>3
  <2>5. ASSUME NEW x \in s, x # y PROVE it[s] = op[<<f[x], it[s \ {x}]>>]
    <3> DEFINE both == s \ {x, y}
    <3>1. both = (s \ {x}) \ {y} /\ both = (s \ {y}) \ {x}
      OBVIOUS
    <3> HIDE DEF both
    <3>2. it[s \ {x}] = op[<<f[y], it[both]>>] /\ it[s \ {y}] = op[<<f[x], it[both]>>]
      BY <2>2, <2>5, <3>1
    <3>3. it[both] \in A
      <4>1. Cardinality(both) <= n /\ both \in SUBSET S
        <5>1. IsFiniteSet(s \ {x}) /\ y \in s \ {x}
          BY <1>z, <2>5, FS_Subset
        <5>2. Cardinality((s \ {x}) \ {y}) = Cardinality(s \ {x}) - 1
              /\ Cardinality(s \ {x}) \in Nat
          BY <5>1, FS_RemoveElement, FS_CardinalityType
        <5>3. Cardinality(s \ {x}) <= n /\ both \in SUBSET S
          BY <2>1, <3>1
        <5> QED BY <3>1, <5>2, <5>3
      <4> QED BY <1>2, <4>1
    <3>4. f[x] \in A /\ f[y] \in A
      BY <1>z
    <3> QED BY <1>z, <2>3, <3>2, <3>3, <3>4 DEF Swaps
  <2> QED BY <2>3, <2>4, <2>5
<1>3. \A n \in Nat : n \in Ns
  <2>1. ASSUME NEW n \in Nat, n \in Ns PROVE n + 1 \in Ns
    <3> HIDE DEF Right
    <3> QED BY <1>empty, <1>2, <2>1
  <2> HIDE DEF Ns
  <2> QED BY <1>1, <2>1, SetInduction
<1>4. ASSUME NEW s \in SUBSET S PROVE Right(s)
  <2>1. Cardinality(s) \in Nat
    BY <1>z, FS_Subset, FS_CardinalityType
  <2> QED BY <1>3, <2>1
<1> QED BY <1>4 DEF AnyOrder, IsFold

(* Functions that agree on a set fold to the same over it.                 *)
LEMMA FoldsAgree ==
  ASSUME NEW A, NEW op, NEW z, NEW f, NEW S, NEW it, AnyOrder(A, op, z, f, S, it),
         NEW g, NEW T, NEW jt, AnyOrder(A, op, z, g, T, jt),
         NEW U, U \subseteq S, U \subseteq T, IsFiniteSet(U),
         \A x \in U : f[x] = g[x]
  PROVE  it[U] = jt[U]
<1> DEFINE Ns == {n \in Nat : \A s \in SUBSET U : Cardinality(s) <= n => it[s] = jt[s]}
<1>1. 0 \in Ns
  <2>1. ASSUME NEW s \in SUBSET U, Cardinality(s) <= 0 PROVE s = {}
    BY <2>1, FS_Subset, FS_EmptySet, FS_CardinalityType
  <2> QED BY <2>1 DEF AnyOrder
<1>2. ASSUME NEW n \in Nat, n \in Ns PROVE n + 1 \in Ns
  <2> SUFFICES ASSUME NEW s \in SUBSET U, Cardinality(s) <= n + 1
               PROVE  it[s] = jt[s]
    OBVIOUS
  <2>0. CASE s = {}
    BY <2>0 DEF AnyOrder
  <2> SUFFICES ASSUME NEW x \in s PROVE it[s] = jt[s]
    BY <2>0
  <2>1. s \ {x} \in SUBSET U /\ Cardinality(s \ {x}) <= n
    BY Removed
  <2>2. it[s \ {x}] = jt[s \ {x}] /\ f[x] = g[x]
    BY <1>2, <2>1
  <2>3. s \in SUBSET S /\ s \in SUBSET T
    OBVIOUS
  <2> QED BY <2>2, <2>3 DEF AnyOrder
<1>3. \A n \in Nat : n \in Ns
  <2> HIDE DEF Ns
  <2> QED BY <1>1, <1>2, SetInduction
<1> QED BY <1>3, FS_CardinalityType

(* A choice of an element for every subset gives a fold.                   *)
ByChoice(op, z, f, c, S, it) ==
  it = [s \in SUBSET S |-> IF s = {} THEN z ELSE op[<<f[c[s]], it[s \ {c[s]}]>>]]

(* There is one for every choice of elements.                              *)
LEMMA FoldExists ==
  ASSUME NEW A, NEW op, NEW z, NEW f, NEW S, Foldable(A, op, z, f, S),
         NEW c, \A s \in SUBSET S : s # {} => c[s] \in s
  PROVE  \E it : ByChoice(op, z, f, c, S, it)
<1> DEFINE B == [SUBSET S -> A]
           Body(g) == [s \in SUBSET S |->
                         IF s = {} THEN z ELSE op[<<f[c[s]], g[s \ {c[s]}]>>]]
           base == [s \in SUBSET S |-> z]
           h == [p \in Nat \X B |-> Body(p[2])]
           k == Cardinality(S)
<1>0. z \in A /\ IsFiniteSet(S) /\ (\A x \in S : f[x] \in A)
      /\ \A u, v \in A : op[<<u, v>>] \in A
  BY DEF Foldable
<1>1. k \in Nat
  BY <1>0, FS_CardinalityType
<1>2. ASSUME NEW g \in B PROVE Body(g) \in B
  <2> SUFFICES ASSUME NEW s \in SUBSET S, s # {}
               PROVE  op[<<f[c[s]], g[s \ {c[s]}]>>] \in A
    BY <1>0
  <2>1. c[s] \in s /\ s \ {c[s]} \in SUBSET S
    OBVIOUS
  <2>2. f[c[s]] \in A /\ g[s \ {c[s]}] \in A
    BY <1>0, <2>1
  <2> QED BY <1>0, <2>2
<1>3. base \in B
  BY <1>0
<1>4. h \in [Nat \X B -> B] /\ \A n \in Nat, g \in B : h[<<n, g>>] = Body(g)
  <2> HIDE DEF B, Body
  <2> QED BY <1>2
<1>5. Recursion(B, base, h, k + 1) # {}
  <2>1. k + 1 \in Nat
    BY <1>1
  <2> HIDE DEF B, h, base, k
  <2>2. \A m \in Nat : Recursion(B, base, h, m) # {}
    BY <1>3, <1>4, RecursionExists
  <2> QED BY <2>1, <2>2
<1>6. PICK g \in [0..k + 1 -> B] :
        g[0] = base /\ \A n \in 1..k + 1 : g[n] = Body(g[n - 1])
  <2> HIDE DEF B, Body, h, base, k
  <2>1. PICK g \in [0..k + 1 -> B] :
          g[0] = base /\ \A n \in 1..k + 1 : g[n] = h[<<n, g[n - 1]>>]
    BY <1>5 DEF Recursion
  <2>2. ASSUME NEW n \in 1..k + 1 PROVE n \in Nat /\ n - 1 \in 0..k + 1
    BY <1>1
  <2>3. ASSUME NEW n \in 1..k + 1 PROVE n \in Nat /\ g[n - 1] \in B
    BY <2>2
  <2>4. ASSUME NEW n \in 1..k + 1 PROVE g[n] = Body(g[n - 1])
    BY <1>4, <2>1, <2>3
  <2> QED BY <2>1, <2>4
<1> HIDE DEF h
<1> DEFINE Same(n) == n <= k => \A s \in SUBSET S : Cardinality(s) <= n => g[n + 1][s] = g[n][s]
           Ns == {n \in Nat : Same(n)}
<1>7. 0 \in Ns
  <2>1. ASSUME NEW s \in SUBSET S, Cardinality(s) <= 0 PROVE s = {}
    BY <1>0, <2>1, FS_Subset, FS_EmptySet, FS_CardinalityType
  <2>2. g[0][{}] = z /\ g[1] = Body(g[0])
    <3>1. 1 \in 1..k + 1 /\ 1 - 1 = 0
      BY <1>1
    <3>2. g[1] = Body(g[0])
      <4> HIDE DEF Body, k
      <4> QED BY <1>6, <3>1
    <3> QED BY <1>6, <3>2
  <2>3. g[1][{}] = z
    BY <2>2
  <2>4. ASSUME NEW s \in SUBSET S, Cardinality(s) <= 0 PROVE g[0 + 1][s] = g[0][s]
    <3>1. s = {}
      BY <2>1, <2>4
    <3>2. 0 + 1 = 1
      OBVIOUS
    <3> HIDE DEF Body
    <3> QED BY <2>2, <2>3, <3>1, <3>2
  <2> HIDE DEF k
  <2> QED BY <2>4
<1>8. ASSUME NEW n \in Nat, Same(n), n + 1 <= k,
             NEW s \in SUBSET S, Cardinality(s) <= n + 1
      PROVE  g[n + 2][s] = g[n + 1][s]
  <2>1. g[n + 2] = Body(g[n + 1]) /\ g[n + 1] = Body(g[n])
    <3>1. n + 1 \in 1..k + 1 /\ n + 2 \in 1..k + 1 /\ (n + 2) - 1 = n + 1 /\ (n + 1) - 1 = n
      BY <1>1, <1>8
    <3> HIDE DEF Body, k
    <3> QED BY <1>6, <3>1
  <2>2. CASE s = {}
    BY <2>1, <2>2
  <2>3. CASE s # {}
    <3>1. c[s] \in s
      BY <2>3
    <3>2. s \ {c[s]} \in SUBSET S /\ Cardinality(s \ {c[s]}) <= n
      BY <1>0, <1>8, <3>1, Removed
    <3>3. n <= k
      BY <1>1, <1>8
    <3>4. g[n + 1][s \ {c[s]}] = g[n][s \ {c[s]}]
      <4> HIDE DEF k
      <4> QED BY <1>8, <3>2, <3>3
    <3>5. /\ Body(g[n + 1])[s] = op[<<f[c[s]], g[n + 1][s \ {c[s]}]>>]
          /\ Body(g[n])[s] = op[<<f[c[s]], g[n][s \ {c[s]}]>>]
      BY <2>3
    <3> HIDE DEF Body
    <3> QED BY <2>1, <3>4, <3>5
  <2> QED BY <2>2, <2>3
<1>9. \A n \in Nat : n \in Ns
  <2>1. ASSUME NEW n \in Nat, n \in Ns PROVE n + 1 \in Ns
    <3>1. (n + 1) + 1 = n + 2
      OBVIOUS
    <3> HIDE DEF k
    <3> QED BY <1>8, <2>1, <3>1
  <2> HIDE DEF Ns
  <2> QED BY <1>7, <2>1, SetInduction
<1>10. \A s \in SUBSET S : Cardinality(s) <= k
  BY <1>0, FS_Subset
<1>11. Body(g[k]) = g[k]
  <2>1. g[k] \in B
    <3> HIDE DEF k, B
    <3>1. k \in 0..k + 1
      BY <1>1
    <3> QED BY <3>1
  <2>2. k + 1 \in 1..k + 1 /\ (k + 1) - 1 = k
    BY <1>1
  <2>3. g[k + 1] = Body(g[k])
    <3> HIDE DEF Body, k
    <3> QED BY <1>6, <2>2
  <2>4. Same(k)
    <3> HIDE DEF k, Same
    <3> QED BY <1>1, <1>9
  <2>5. \A s \in SUBSET S : g[k + 1][s] = g[k][s]
    <3> HIDE DEF k
    <3>1. k <= k
      BY <1>1
    <3> QED BY <1>10, <2>4, <3>1
  <2>6. Body(g[k]) \in B
    BY <1>2, <2>1
  <2> HIDE DEF Body, k
  <2> QED BY <2>1, <2>3, <2>5, <2>6
<1> QED BY <1>11 DEF ByChoice

(* What folding gives, in whatever order.                                  *)
Fold(op, z, f, S) == CHOOSE v : \E it : IsFold(op, z, f, S, it) /\ v = it[S]

(* Every fold gives that.                                                  *)
LEMMA FoldUnique ==
  ASSUME NEW A, NEW op, NEW z, NEW f, NEW S, Foldable(A, op, z, f, S),
         NEW it, IsFold(op, z, f, S, it)
  PROVE  it[S] = Fold(op, z, f, S)
<1>1. AnyOrder(A, op, z, f, S, it)
  BY FoldInAnyOrder
<1>2. PICK jt : IsFold(op, z, f, S, jt) /\ Fold(op, z, f, S) = jt[S]
  BY DEF Fold
<1>3. AnyOrder(A, op, z, f, S, jt)
  BY <1>2, FoldInAnyOrder
<1>4. IsFiniteSet(S) /\ S \subseteq S
  BY DEF Foldable
<1>5. it[S] = jt[S]
  BY <1>1, <1>3, <1>4, FoldsAgree
<1> QED BY <1>2, <1>5

(* A function defined by a choice of elements is a fold.                   *)
LEMMA FoldByChoice ==
  ASSUME NEW op, NEW z, NEW f, NEW S,
         NEW c, \A s \in SUBSET S : s # {} => c[s] \in s,
         NEW it, ByChoice(op, z, f, c, S, it)
  PROVE  IsFold(op, z, f, S, it)
<1>1. it[{}] = z
  BY DEF ByChoice
<1>2. ASSUME NEW s \in SUBSET S, s # {} PROVE \E x \in s : it[s] = op[<<f[x], it[s \ {x}]>>]
  <2>1. it[s] = op[<<f[c[s]], it[s \ {c[s]}]>>]
    BY <1>2 DEF ByChoice
  <2> QED BY <1>2, <2>1
<1> QED BY <1>1, <1>2 DEF IsFold

(* What can be folded has a fold.                                          *)
LEMMA FoldMade ==
  ASSUME NEW A, NEW op, NEW z, NEW f, NEW S, Foldable(A, op, z, f, S)
  PROVE  \E it : AnyOrder(A, op, z, f, S, it) /\ Fold(op, z, f, S) = it[S]
<1> DEFINE c == [s \in SUBSET S |-> CHOOSE x \in s : TRUE]
<1>1. \A s \in SUBSET S : s # {} => c[s] \in s
  OBVIOUS
<1> HIDE DEF c
<1>2. PICK it : ByChoice(op, z, f, c, S, it)
  BY <1>1, FoldExists
<1>3. IsFold(op, z, f, S, it)
  BY <1>1, <1>2, FoldByChoice
<1> QED BY <1>3, FoldInAnyOrder, FoldUnique

(* What can be folded over a set can be folded over a part of it.          *)
LEMMA FoldableSubset ==
  ASSUME NEW A, NEW op, NEW z, NEW f, NEW S, Foldable(A, op, z, f, S), NEW T, T \subseteq S
  PROVE  Foldable(A, op, z, f, T)
BY FS_Subset DEF Foldable

(* Folding over a set, by any one of its elements and the rest.            *)
LEMMA FoldProperties ==
  ASSUME NEW A, NEW op, NEW z, NEW f, NEW S, Foldable(A, op, z, f, S)
  PROVE  /\ Fold(op, z, f, S) \in A
         /\ S = {} => Fold(op, z, f, S) = z
         /\ \A x \in S : Fold(op, z, f, S) = op[<<f[x], Fold(op, z, f, S \ {x})>>]
<1>1. PICK it : AnyOrder(A, op, z, f, S, it) /\ Fold(op, z, f, S) = it[S]
  BY FoldMade
<1>2. ASSUME NEW x \in S PROVE Fold(op, z, f, S \ {x}) = it[S \ {x}]
  <2>1. Foldable(A, op, z, f, S \ {x})
    BY FoldableSubset
  <2>2. PICK jt : AnyOrder(A, op, z, f, S \ {x}, jt) /\ Fold(op, z, f, S \ {x}) = jt[S \ {x}]
    BY <2>1, FoldMade
  <2>3. IsFiniteSet(S \ {x}) /\ S \ {x} \subseteq S /\ S \ {x} \subseteq S \ {x}
    BY <2>1 DEF Foldable
  <2>4. jt[S \ {x}] = it[S \ {x}]
    BY <1>1, <2>2, <2>3, FoldsAgree
  <2> QED BY <2>2, <2>4
<1>3. S \in SUBSET S
  OBVIOUS
<1>4. it[S] \in A /\ it[{}] = z /\ \A x \in S : it[S] = op[<<f[x], it[S \ {x}]>>]
  BY <1>1, <1>3 DEF AnyOrder
<1> QED BY <1>1, <1>2, <1>4

(* A fold depends on the values of the function on the set alone.          *)
LEMMA FoldCongruent ==
  ASSUME NEW A, NEW op, NEW z, NEW f, NEW g, NEW S, Foldable(A, op, z, f, S),
         \A x \in S : f[x] = g[x]
  PROVE  Fold(op, z, f, S) = Fold(op, z, g, S)
<1>1. PICK it : AnyOrder(A, op, z, f, S, it) /\ Fold(op, z, f, S) = it[S]
  BY FoldMade
<1>2. Foldable(A, op, z, g, S) /\ IsFiniteSet(S) /\ S \subseteq S
  BY DEF Foldable
<1>3. PICK jt : AnyOrder(A, op, z, g, S, jt) /\ Fold(op, z, g, S) = jt[S]
  BY <1>2, FoldMade
<1>4. it[S] = jt[S]
  BY <1>1, <1>2, <1>3, FoldsAgree
<1> QED BY <1>1, <1>3, <1>4

(***************************************************************************)
(* Sums and products of numbers                                            *)
(***************************************************************************)
Adder == [p \in Nat \X Nat |-> p[1] + p[2]]
Multiplier == [p \in Nat \X Nat |-> p[1] * p[2]]
Sum(f, S) == Fold(Adder, 0, f, S)
Prod(f, S) == Fold(Multiplier, 1, f, S)

(* Both operations may be taken in any order.                              *)
LEMMA AdderFolds ==
  ASSUME NEW S, IsFiniteSet(S), NEW f, \A x \in S : f[x] \in Nat
  PROVE  Foldable(Nat, Adder, 0, f, S)
<1>1. Adder \in [Nat \X Nat -> Nat] /\ \A x, y \in Nat : Adder[<<x, y>>] = x + y
  BY DEF Adder
<1> HIDE DEF Adder
<1>2. Swaps(Nat, Adder)
  BY <1>1 DEF Swaps
<1> QED BY <1>1, <1>2 DEF Foldable

(* Products of natural numbers can be folded, in any order.                *)
LEMMA MultiplierFolds ==
  ASSUME NEW S, IsFiniteSet(S), NEW f, \A x \in S : f[x] \in Nat
  PROVE  Foldable(Nat, Multiplier, 1, f, S)
<1>1. Multiplier \in [Nat \X Nat -> Nat] /\ \A x, y \in Nat : Multiplier[<<x, y>>] = x * y
  <2>1. \A x, y \in Nat : x * y \in Nat
    OBVIOUS
  <2> QED BY <2>1 DEF Multiplier
<1> HIDE DEF Multiplier
<1>2. Swaps(Nat, Multiplier)
  <2>1. \A x, y, w \in Nat : y * w \in Nat /\ x * w \in Nat /\ x * (y * w) = y * (x * w)
    OBVIOUS
  <2> QED BY <1>1, <2>1 DEF Swaps
<1> QED BY <1>1, <1>2 DEF Foldable

(* Two functions of subsets that obey one rule are the same.               *)
LEMMA SameRule ==
  ASSUME NEW S, IsFiniteSet(S), NEW it, NEW jt, it[{}] = jt[{}],
         \A s \in SUBSET S : s # {} =>
           \E x \in s : it[s \ {x}] = jt[s \ {x}] => it[s] = jt[s]
  PROVE  it[S] = jt[S]
<1> DEFINE Ns == {n \in Nat : \A s \in SUBSET S : Cardinality(s) <= n => it[s] = jt[s]}
<1>1. 0 \in Ns
  <2>1. ASSUME NEW s \in SUBSET S, Cardinality(s) <= 0 PROVE s = {}
    BY <2>1, FS_Subset, FS_EmptySet, FS_CardinalityType
  <2> QED BY <2>1
<1>2. ASSUME NEW n \in Nat, n \in Ns PROVE n + 1 \in Ns
  <2> SUFFICES ASSUME NEW s \in SUBSET S, Cardinality(s) <= n + 1
               PROVE  it[s] = jt[s]
    OBVIOUS
  <2>0. CASE s = {}
    BY <2>0
  <2>1. CASE s # {}
    <3>1. PICK x \in s : it[s \ {x}] = jt[s \ {x}] => it[s] = jt[s]
      BY <2>1
    <3>2. s \ {x} \in SUBSET S /\ Cardinality(s \ {x}) <= n
      BY Removed
    <3> QED BY <1>2, <3>1, <3>2
  <2> QED BY <2>0, <2>1
<1>3. \A n \in Nat : n \in Ns
  <2> HIDE DEF Ns
  <2> QED BY <1>1, <1>2, SetInduction
<1> QED BY <1>3, FS_CardinalityType

(* A set of subsets that holds a subset whenever it holds it without one   *)
(* of its elements holds the whole set.                                    *)
LEMMA SubsetInduction ==
  ASSUME NEW S, IsFiniteSet(S), NEW G, {} \in G,
         \A s \in SUBSET S : \A x \in s : s \ {x} \in G => s \in G
  PROVE  S \in G
<1> DEFINE it == [s \in SUBSET S |-> s \in G]
           jt == [s \in SUBSET S |-> TRUE]
<1>1. it[{}] = jt[{}]
  OBVIOUS
<1>2. ASSUME NEW s \in SUBSET S, s # {}
      PROVE  \E x \in s : it[s \ {x}] = jt[s \ {x}] => it[s] = jt[s]
  <2>1. PICK x \in s : TRUE
    BY <1>2
  <2>2. s \ {x} \in G => s \in G
    OBVIOUS
  <2> QED BY <2>1, <2>2
<1>3. it[S] = jt[S]
  <2> HIDE DEF it, jt
  <2> QED BY <1>1, <1>2, SameRule
<1> QED BY <1>3

(* f gives each element of the finite set S a number.                      *)
Numbers(f, S) == IsFiniteSet(S) /\ \A x \in S : f[x] \in Nat

(* A sum, and a product, by any one of the elements and the rest.          *)
LEMMA SumProperties ==
  ASSUME NEW f, NEW S, Numbers(f, S)
  PROVE  /\ Sum(f, S) \in Nat
         /\ S = {} => Sum(f, S) = 0
         /\ \A x \in S : Sum(f, S) = f[x] + Sum(f, S \ {x})
<1>1. Foldable(Nat, Adder, 0, f, S)
  BY AdderFolds DEF Numbers
<1>2. /\ Fold(Adder, 0, f, S) \in Nat
      /\ S = {} => Fold(Adder, 0, f, S) = 0
      /\ \A x \in S : Fold(Adder, 0, f, S) = Adder[<<f[x], Fold(Adder, 0, f, S \ {x})>>]
  BY <1>1, FoldProperties
<1>3. ASSUME NEW x \in S PROVE f[x] \in Nat /\ Fold(Adder, 0, f, S \ {x}) \in Nat
  <2>1. Foldable(Nat, Adder, 0, f, S \ {x})
    BY <1>1, FoldableSubset
  <2>2. Fold(Adder, 0, f, S \ {x}) \in Nat
    BY <2>1, FoldProperties
  <2> QED BY <2>2 DEF Numbers
<1>4. \A u, v \in Nat : Adder[<<u, v>>] = u + v
  BY DEF Adder
<1> HIDE DEF Adder
<1> QED BY <1>2, <1>3, <1>4 DEF Sum

(* A product is a natural number, 1 for no factors, and any factor can be  *)
(* taken out of it.                                                        *)
LEMMA ProdProperties ==
  ASSUME NEW f, NEW S, Numbers(f, S)
  PROVE  /\ Prod(f, S) \in Nat
         /\ S = {} => Prod(f, S) = 1
         /\ \A x \in S : Prod(f, S) = f[x] * Prod(f, S \ {x})
<1>1. Foldable(Nat, Multiplier, 1, f, S)
  BY MultiplierFolds DEF Numbers
<1>2. /\ Fold(Multiplier, 1, f, S) \in Nat
      /\ S = {} => Fold(Multiplier, 1, f, S) = 1
      /\ \A x \in S : Fold(Multiplier, 1, f, S) = Multiplier[<<f[x], Fold(Multiplier, 1, f, S \ {x})>>]
  BY <1>1, FoldProperties
<1>3. ASSUME NEW x \in S PROVE f[x] \in Nat /\ Fold(Multiplier, 1, f, S \ {x}) \in Nat
  <2>1. Foldable(Nat, Multiplier, 1, f, S \ {x})
    BY <1>1, FoldableSubset
  <2>2. Fold(Multiplier, 1, f, S \ {x}) \in Nat
    BY <2>1, FoldProperties
  <2> QED BY <2>2 DEF Numbers
<1>4. \A u, v \in Nat : Multiplier[<<u, v>>] = u * v
  BY DEF Multiplier
<1> HIDE DEF Multiplier
<1> QED BY <1>2, <1>3, <1>4 DEF Prod

(* Sums of equal terms are equal.                                          *)
LEMMA SumCongruent ==
  ASSUME NEW f, NEW g, NEW S, Numbers(f, S), \A x \in S : f[x] = g[x]
  PROVE  Sum(f, S) = Sum(g, S)
BY AdderFolds, FoldCongruent DEF Numbers, Sum

(* Products of equal factors are equal.                                    *)
LEMMA ProdCongruent ==
  ASSUME NEW f, NEW g, NEW S, Numbers(f, S), \A x \in S : f[x] = g[x]
  PROVE  Prod(f, S) = Prod(g, S)
BY MultiplierFolds, FoldCongruent DEF Numbers, Prod

(* Numbers on a set are numbers on a part of it.                           *)
LEMMA NumbersSubset ==
  ASSUME NEW f, NEW S, Numbers(f, S), NEW T, T \subseteq S
  PROVE  Numbers(f, T)
BY FS_Subset DEF Numbers

(* A factor that all terms have can be taken out.                          *)
LEMMA SumScaled ==
  ASSUME NEW f, NEW g, NEW c \in Nat, NEW S, Numbers(f, S), \A x \in S : g[x] = f[x] * c
  PROVE  Numbers(g, S) /\ Sum(g, S) = Sum(f, S) * c
<1> DEFINE G == {s \in SUBSET S : Sum(g, s) = Sum(f, s) * c}
<1>1. Numbers(g, S)
  <2>1. \A x \in S : f[x] * c \in Nat
    BY DEF Numbers
  <2> QED BY <2>1 DEF Numbers
<1>2. \A s \in SUBSET S : Numbers(g, s) /\ Numbers(f, s)
  BY <1>1, NumbersSubset
<1>3. {} \in G
  <2>1. {} \in SUBSET S
    OBVIOUS
  <2>2. Sum(f, {}) = 0 /\ Sum(g, {}) = 0
    BY <1>2, <2>1, SumProperties
  <2> QED BY <2>1, <2>2
<1>4. ASSUME NEW s \in SUBSET S, NEW x \in s, s \ {x} \in G PROVE s \in G
  <2> DEFINE r == s \ {x}
  <2>1. r \in SUBSET S
    OBVIOUS
  <2>2. Sum(f, s) = f[x] + Sum(f, r) /\ Sum(g, s) = g[x] + Sum(g, r)
    BY <1>2, SumProperties
  <2>3. Sum(f, r) \in Nat /\ f[x] \in Nat
    BY <1>2, <2>1, SumProperties DEF Numbers
  <2>4. g[x] = f[x] * c /\ Sum(g, r) = Sum(f, r) * c
    BY <1>4
  <2> HIDE DEF r
  <2>5. \A a, b \in Nat : a * c + b * c = (a + b) * c
    OBVIOUS
  <2> QED BY <2>2, <2>3, <2>4, <2>5
<1>5. S \in G
  <2> HIDE DEF G
  <2> QED BY <1>3, <1>4, SubsetInduction DEF Numbers
<1> QED BY <1>1, <1>5

(* The sum of two functions.                                               *)
Adds(f, g, h, S) == \A x \in S : h[x] = f[x] + g[x]

(* The sum of term by term sums is the sum of the two sums.                *)
LEMMA SumAdded ==
  ASSUME NEW f, NEW g, NEW h, NEW S, Numbers(f, S), Numbers(g, S), Adds(f, g, h, S)
  PROVE  Numbers(h, S) /\ Sum(h, S) = Sum(f, S) + Sum(g, S)
<1> USE DEF Adds
<1> DEFINE G == {s \in SUBSET S : Sum(h, s) = Sum(f, s) + Sum(g, s)}
<1>1. Numbers(h, S)
  BY DEF Numbers
<1>2. \A s \in SUBSET S : Numbers(h, s) /\ Numbers(g, s) /\ Numbers(f, s)
  BY <1>1, NumbersSubset
<1>3. {} \in G
  <2>1. {} \in SUBSET S
    OBVIOUS
  <2>2. Sum(f, {}) = 0 /\ Sum(g, {}) = 0 /\ Sum(h, {}) = 0
    BY <1>2, <2>1, SumProperties
  <2> QED BY <2>1, <2>2
<1>4. ASSUME NEW s \in SUBSET S, NEW x \in s, s \ {x} \in G PROVE s \in G
  <2> DEFINE r == s \ {x}
  <2>1. r \in SUBSET S
    OBVIOUS
  <2>2. /\ Sum(f, s) = f[x] + Sum(f, r) /\ Sum(g, s) = g[x] + Sum(g, r)
        /\ Sum(h, s) = h[x] + Sum(h, r)
    BY <1>2, SumProperties
  <2>3. Sum(f, r) \in Nat /\ f[x] \in Nat /\ Sum(g, r) \in Nat /\ g[x] \in Nat
    BY <1>2, <2>1, SumProperties DEF Numbers
  <2>4. h[x] = f[x] + g[x] /\ Sum(h, r) = Sum(f, r) + Sum(g, r)
    BY <1>4
  <2> HIDE DEF r
  <2> QED BY <2>2, <2>3, <2>4
<1>5. S \in G
  <2> HIDE DEF G
  <2> QED BY <1>3, <1>4, SubsetInduction DEF Numbers
<1> QED BY <1>1, <1>5

(* The sum over two sets that have nothing in common.                      *)
LEMMA SumOfUnion ==
  ASSUME NEW f, NEW S, NEW T, Numbers(f, S), Numbers(f, T), S \cap T = {}
  PROVE  Numbers(f, S \union T) /\ Sum(f, S \union T) = Sum(f, S) + Sum(f, T)
<1> DEFINE G == {s \in SUBSET S : Sum(f, s \union T) = Sum(f, s) + Sum(f, T)}
<1>1. Numbers(f, S \union T)
  BY FS_Union DEF Numbers
<1>2. \A s \in SUBSET S : Numbers(f, s) /\ Numbers(f, s \union T)
  BY <1>1, NumbersSubset
<1>3. {} \in G
  <2>1. {} \in SUBSET S /\ {} \union T = T
    OBVIOUS
  <2>2. Sum(f, {}) = 0 /\ Sum(f, T) \in Nat
    BY <1>2, <2>1, SumProperties
  <2> QED BY <2>1, <2>2
<1>4. ASSUME NEW s \in SUBSET S, NEW x \in s, s \ {x} \in G PROVE s \in G
  <2> DEFINE r == s \ {x}
  <2>1. r \in SUBSET S /\ x \in s \union T /\ (s \union T) \ {x} = r \union T
    OBVIOUS
  <2>2. Sum(f, s) = f[x] + Sum(f, r) /\ Sum(f, s \union T) = f[x] + Sum(f, r \union T)
    <3>1. Sum(f, s) = f[x] + Sum(f, r)
      BY <1>2, SumProperties
    <3>2. Sum(f, s \union T) = f[x] + Sum(f, (s \union T) \ {x})
      BY <1>2, <2>1, SumProperties
    <3> QED BY <2>1, <3>1, <3>2
  <2>3. Sum(f, r) \in Nat /\ f[x] \in Nat /\ Sum(f, T) \in Nat
    BY <1>2, <2>1, SumProperties DEF Numbers
  <2>4. Sum(f, r \union T) = Sum(f, r) + Sum(f, T)
    BY <1>4
  <2> HIDE DEF r
  <2> QED BY <2>2, <2>3, <2>4
<1>5. S \in G
  <2> HIDE DEF G
  <2> QED BY <1>3, <1>4, SubsetInduction DEF Numbers
<1> QED BY <1>1, <1>5

(* What is 0 adds nothing.                                                 *)
LEMMA SumOfZeros ==
  ASSUME NEW f, NEW S, IsFiniteSet(S), \A x \in S : f[x] = 0
  PROVE  Sum(f, S) = 0
<1>1. Numbers(f, S)
  BY DEF Numbers
<1>2. \A x \in S : f[x] = f[x] * 0
  OBVIOUS
<1>3. Sum(f, S) = Sum(f, S) * 0 /\ Sum(f, S) \in Nat
  <2>1. Sum(f, S) = Sum(f, S) * 0
    BY <1>1, <1>2, SumScaled
  <2> QED BY <1>1, <2>1, SumProperties
<1> QED BY <1>3

(* A sum can leave out what is 0.                                          *)
LEMMA SumWhere ==
  ASSUME NEW f, NEW S, Numbers(f, S), NEW T, T \subseteq S,
         \A x \in S \ T : f[x] = 0
  PROVE  Sum(f, S) = Sum(f, T)
<1>1. Numbers(f, S \ T) /\ Numbers(f, T)
  BY NumbersSubset
<1>2. Sum(f, S \ T) = 0
  BY <1>1, SumOfZeros DEF Numbers
<1>3. (S \ T) \union T = S /\ (S \ T) \cap T = {}
  OBVIOUS
<1>4. Sum(f, S) = Sum(f, S \ T) + Sum(f, T) /\ Sum(f, T) \in Nat
  <2>1. Sum(f, (S \ T) \union T) = Sum(f, S \ T) + Sum(f, T)
    BY <1>1, <1>3, SumOfUnion
  <2> QED BY <1>1, <1>3, <2>1, SumProperties
<1> QED BY <1>2, <1>4

(* A sum by other names: b gives each member of T its one name in S.       *)
Renames(b, S, T, f, g) ==
  /\ \A x \in S : b[x] \in T /\ f[x] = g[b[x]]
  /\ \A x, y \in S : b[x] = b[y] => x = y
  /\ \A y \in T : \E x \in S : b[x] = y

(* A sum does not change when its terms are renamed one to one.            *)
LEMMA SumRenamed ==
  ASSUME NEW f, NEW g, NEW S, NEW T, IsFiniteSet(S), Numbers(g, T),
         NEW b, Renames(b, S, T, f, g)
  PROVE  Numbers(f, S) /\ Sum(f, S) = Sum(g, T)
<1> USE DEF Renames
<1> DEFINE img(s) == {b[x] : x \in s}
           G == {s \in SUBSET S : Sum(f, s) = Sum(g, img(s))}
<1>1. Numbers(f, S)
  BY DEF Numbers
<1>2. \A s \in SUBSET S : img(s) \in SUBSET T
  OBVIOUS
<1>3. \A s \in SUBSET S : Numbers(f, s) /\ Numbers(g, img(s))
  BY <1>1, <1>2, NumbersSubset
<1>4. {} \in G
  <2>1. {} \in SUBSET S /\ img({}) = {}
    OBVIOUS
  <2> HIDE DEF img
  <2>2. Sum(f, {}) = 0 /\ Sum(g, {}) = 0
    BY <1>3, <2>1, SumProperties
  <2> QED BY <2>1, <2>2
<1>5. ASSUME NEW s \in SUBSET S, NEW x \in s, s \ {x} \in G PROVE s \in G
  <2>1. s \ {x} \in SUBSET S /\ b[x] \in img(s)
    OBVIOUS
  <2>2. img(s) \ {b[x]} = img(s \ {x})
    OBVIOUS
  <2>3. Sum(f, s) = f[x] + Sum(f, s \ {x})
    <3> HIDE DEF img
    <3> QED BY <1>3, SumProperties
  <2>4. Sum(g, img(s)) = g[b[x]] + Sum(g, img(s) \ {b[x]})
    <3> HIDE DEF img
    <3> QED BY <1>3, <2>1, SumProperties
  <2>5. Sum(f, s \ {x}) = Sum(g, img(s \ {x})) /\ f[x] = g[b[x]]
    BY <1>5
  <2> HIDE DEF img
  <2> QED BY <2>2, <2>3, <2>4, <2>5
<1>6. S \in G
  <2> HIDE DEF G
  <2> QED BY <1>4, <1>5, SubsetInduction
<1>7. img(S) = T
  OBVIOUS
<1> QED BY <1>1, <1>6, <1>7

(* A sum by groups: k tells the group that each member of S is in.         *)
Groups(f, S, k, V, g) ==
  /\ \A x \in S : k[x] \in V
  /\ \A v \in V : g[v] = Sum(f, {x \in S : k[x] = v})

(* A sum can be made group by group.                                       *)
LEMMA SumByGroups ==
  ASSUME NEW f, NEW S, Numbers(f, S), NEW V, IsFiniteSet(V), NEW k, NEW g,
         Groups(f, S, k, V, g)
  PROVE  Numbers(g, V) /\ Sum(f, S) = Sum(g, V)
<1> USE DEF Groups
<1> DEFINE In(vs) == {x \in S : k[x] \in vs}
           G == {vs \in SUBSET V : Sum(f, In(vs)) = Sum(g, vs)}
<1>1. \A R \in SUBSET S : Numbers(f, R)
  BY NumbersSubset
<1>2. Numbers(g, V)
  <2>1. ASSUME NEW v \in V PROVE g[v] \in Nat
    <3>1. Numbers(f, {x \in S : k[x] = v})
      BY <1>1
    <3> QED BY <3>1, SumProperties
  <2> QED BY <2>1 DEF Numbers
<1>3. \A vs \in SUBSET V : Numbers(g, vs)
  BY <1>2, NumbersSubset
<1>4. {} \in G
  <2>1. {} \in SUBSET V /\ In({}) = {} /\ {} \in SUBSET S
    OBVIOUS
  <2> HIDE DEF In
  <2>2. Sum(f, {}) = 0 /\ Sum(g, {}) = 0
    BY <1>1, <1>3, <2>1, SumProperties
  <2> QED BY <2>1, <2>2
<1>5. ASSUME NEW vs \in SUBSET V, NEW v \in vs, vs \ {v} \in G PROVE vs \in G
  <2> DEFINE one == {x \in S : k[x] = v}
             rest == In(vs \ {v})
  <2>1. one \in SUBSET S /\ rest \in SUBSET S /\ one \cap rest = {} /\ one \union rest = In(vs)
    OBVIOUS
  <2>2. g[v] = Sum(f, one)
    OBVIOUS
  <2>3. Sum(f, rest) = Sum(g, vs \ {v})
    BY <1>5
  <2> HIDE DEF one, rest, In
  <2>4. Sum(f, one \union rest) = Sum(f, one) + Sum(f, rest)
    BY <1>1, <2>1, SumOfUnion
  <2>5. Sum(g, vs) = g[v] + Sum(g, vs \ {v})
    BY <1>3, SumProperties
  <2> QED BY <2>1, <2>2, <2>3, <2>4, <2>5
<1>6. V \in G
  <2> HIDE DEF G
  <2> QED BY <1>4, <1>5, SubsetInduction
<1>7. In(V) = S
  OBVIOUS
<1> QED BY <1>2, <1>6, <1>7

(* The recursions on subsets that the operators for folds are defined by.  *)
AnyOf(s) == CHOOSE x \in s : TRUE

SumRule(f, S, it) ==
  it = [s \in SUBSET S |-> IF s = {} THEN 0 ELSE f[AnyOf(s)] + it[s \ {AnyOf(s)}]]

ProdRule(f, S, it) ==
  it = [s \in SUBSET S |-> IF s = {} THEN 1 ELSE f[AnyOf(s)] * it[s \ {AnyOf(s)}]]

FoldRule(op, z, f, S, it) ==
  it = [s \in SUBSET S |-> IF s = {} THEN z ELSE op[<<f[AnyOf(s)], it[s \ {AnyOf(s)}]>>]]

(* A function that obeys the rule exists, and gives the fold.              *)
LEMMA FoldOfChoices ==
  ASSUME NEW A, NEW op, NEW z, NEW f, NEW S, Foldable(A, op, z, f, S)
  PROVE  \E it : /\ it[S] = Fold(op, z, f, S)
                 /\ \A s \in SUBSET S : it[s] \in A
                 /\ FoldRule(op, z, f, S, it)
<1> DEFINE c == [s \in SUBSET S |-> AnyOf(s)]
<1>1. \A s \in SUBSET S : c[s] = AnyOf(s) /\ (s # {} => c[s] \in s)
  BY DEF AnyOf
<1> HIDE DEF c
<1>2. PICK it : ByChoice(op, z, f, c, S, it)
  BY <1>1, FoldExists
<1>3. IsFold(op, z, f, S, it)
  BY <1>1, <1>2, FoldByChoice
<1>4. it[S] = Fold(op, z, f, S) /\ AnyOrder(A, op, z, f, S, it)
  BY <1>3, FoldUnique, FoldInAnyOrder
<1>5. FoldRule(op, z, f, S, it)
  BY <1>1, <1>2 DEF ByChoice, FoldRule
<1> QED BY <1>4, <1>5 DEF AnyOrder

(* Whatever obeys the rule gives the sum, and the product.                 *)
LEMMA SumMadeByRule ==
  ASSUME NEW f, NEW S, Numbers(f, S)
  PROVE  /\ \E it : SumRule(f, S, it)
         /\ \A it : SumRule(f, S, it) =>
              it[S] = Sum(f, S) /\ \A s \in SUBSET S : it[s] \in Nat
<1>1. Foldable(Nat, Adder, 0, f, S)
  BY AdderFolds DEF Numbers
<1>2. PICK jt : /\ jt[S] = Sum(f, S)
                /\ \A s \in SUBSET S : jt[s] \in Nat
                /\ FoldRule(Adder, 0, f, S, jt)
  BY <1>1, FoldOfChoices DEF Sum
<1>3. ASSUME NEW s \in SUBSET S, s # {}
      PROVE  /\ AnyOf(s) \in s
             /\ jt[s] = f[AnyOf(s)] + jt[s \ {AnyOf(s)}]
  <2>1. AnyOf(s) \in s
    BY <1>3 DEF AnyOf
  <2>2. f[AnyOf(s)] \in Nat /\ jt[s \ {AnyOf(s)}] \in Nat
    BY <1>2, <2>1 DEF Numbers
  <2>3. jt[s] = Adder[<<f[AnyOf(s)], jt[s \ {AnyOf(s)}]>>]
    BY <1>2, <1>3 DEF FoldRule
  <2>4. \A u, v \in Nat : Adder[<<u, v>>] = u + v
    BY DEF Adder
  <2> QED BY <2>1, <2>2, <2>3, <2>4
<1>4. jt[{}] = 0
  BY <1>2 DEF FoldRule
<1>5. SumRule(f, S, jt)
  <2>1. \A s \in SUBSET S :
          jt[s] = IF s = {} THEN 0 ELSE f[AnyOf(s)] + jt[s \ {AnyOf(s)}]
    BY <1>3, <1>4
  <2>2. jt = [s \in SUBSET S |-> jt[s]]
    BY <1>2 DEF FoldRule
  <2> QED BY <2>1, <2>2 DEF SumRule
<1>6. ASSUME NEW it, SumRule(f, S, it), NEW r \in SUBSET S PROVE it[r] = jt[r]
  <2>1. it[{}] = jt[{}]
    BY <1>4, <1>6 DEF SumRule
  <2>2. ASSUME NEW s \in SUBSET r, s # {}
        PROVE  \E x \in s : it[s \ {x}] = jt[s \ {x}] => it[s] = jt[s]
    <3>1. it[s] = f[AnyOf(s)] + it[s \ {AnyOf(s)}]
      BY <1>6, <2>2 DEF SumRule
    <3> QED BY <1>3, <2>2, <3>1
  <2>3. IsFiniteSet(r)
    BY FS_Subset DEF Numbers
  <2> QED BY <2>1, <2>2, <2>3, SameRule
<1>7. S \in SUBSET S
  OBVIOUS
<1> QED BY <1>2, <1>5, <1>6, <1>7

(* A product taken over all subsets by the rule exists, and is the         *)
(* product.                                                                *)
LEMMA ProdMadeByRule ==
  ASSUME NEW f, NEW S, Numbers(f, S)
  PROVE  /\ \E it : ProdRule(f, S, it)
         /\ \A it : ProdRule(f, S, it) =>
              it[S] = Prod(f, S) /\ \A s \in SUBSET S : it[s] \in Nat
<1>1. Foldable(Nat, Multiplier, 1, f, S)
  BY MultiplierFolds DEF Numbers
<1>2. PICK jt : /\ jt[S] = Prod(f, S)
                /\ \A s \in SUBSET S : jt[s] \in Nat
                /\ FoldRule(Multiplier, 1, f, S, jt)
  BY <1>1, FoldOfChoices DEF Prod
<1>3. ASSUME NEW s \in SUBSET S, s # {}
      PROVE  /\ AnyOf(s) \in s
             /\ jt[s] = f[AnyOf(s)] * jt[s \ {AnyOf(s)}]
  <2>1. AnyOf(s) \in s
    BY <1>3 DEF AnyOf
  <2>2. f[AnyOf(s)] \in Nat /\ jt[s \ {AnyOf(s)}] \in Nat
    BY <1>2, <2>1 DEF Numbers
  <2>3. jt[s] = Multiplier[<<f[AnyOf(s)], jt[s \ {AnyOf(s)}]>>]
    BY <1>2, <1>3 DEF FoldRule
  <2>4. \A u, v \in Nat : Multiplier[<<u, v>>] = u * v
    BY DEF Multiplier
  <2> QED BY <2>1, <2>2, <2>3, <2>4
<1>4. jt[{}] = 1
  BY <1>2 DEF FoldRule
<1>5. ProdRule(f, S, jt)
  <2>1. \A s \in SUBSET S :
          jt[s] = IF s = {} THEN 1 ELSE f[AnyOf(s)] * jt[s \ {AnyOf(s)}]
    BY <1>3, <1>4
  <2>2. jt = [s \in SUBSET S |-> jt[s]]
    BY <1>2 DEF FoldRule
  <2> QED BY <2>1, <2>2 DEF ProdRule
<1>6. ASSUME NEW it, ProdRule(f, S, it), NEW r \in SUBSET S PROVE it[r] = jt[r]
  <2>1. it[{}] = jt[{}]
    BY <1>4, <1>6 DEF ProdRule
  <2>2. ASSUME NEW s \in SUBSET r, s # {}
        PROVE  \E x \in s : it[s \ {x}] = jt[s \ {x}] => it[s] = jt[s]
    <3>1. it[s] = f[AnyOf(s)] * it[s \ {AnyOf(s)}]
      BY <1>6, <2>2 DEF ProdRule
    <3> QED BY <1>3, <2>2, <3>1
  <2>3. IsFiniteSet(r)
    BY FS_Subset DEF Numbers
  <2> QED BY <2>1, <2>2, <2>3, SameRule
<1>7. S \in SUBSET S
  OBVIOUS
<1> QED BY <1>2, <1>5, <1>6, <1>7

(* SumFunction is the sum of the values of a function.                     *)
LEMMA SumFunctionIsSum ==
  ASSUME NEW f, Numbers(f, DOMAIN f)
  PROVE  SumFunction(f) = Sum(f, DOMAIN f) /\ SumFunction(f) \in Nat
<1> DEFINE S == DOMAIN f
           x(s) == CHOOSE z \in s : TRUE
           Def(it) == [s \in SUBSET S |-> IF s = {} THEN 0 ELSE f[x(s)] + it[s \ {x(s)}]]
           iter == CHOOSE it : it = Def(it)
<1>1. SumFunction(f) = iter[S]
  BY DEF SumFunction, SumFunctionOnSet, FoldFunctionOnSet, MapThenFoldSet
<1>2. \A it : it = Def(it) <=> SumRule(f, S, it)
  BY DEF SumRule, AnyOf
<1>3. \E it : SumRule(f, S, it)
  BY SumMadeByRule
<1>4. SumRule(f, S, iter)
  <2> HIDE DEF Def
  <2> QED BY <1>2, <1>3
<1>5. iter[S] = Sum(f, S)
  <2> HIDE DEF iter, S
  <2>1. Numbers(f, S)
    BY DEF S
  <2> QED BY <1>4, <2>1, SumMadeByRule
<1> QED BY <1>1, <1>5, SumProperties

(***************************************************************************)
(* Quotients and remainders                                                *)
(***************************************************************************)
(* Multiples of r are at least r apart.                                    *)
LEMMA Multiple ==
  ASSUME NEW r \in Nat, NEW a \in Nat, NEW b \in Nat, a < b
  PROVE  a * r + r <= b * r
<1>1. b * r = (a * r + r) + ((b - a) - 1) * r
  OBVIOUS
<1>2. ((b - a) - 1) * r \in Nat
  <2>1. (b - a) - 1 \in Nat
    OBVIOUS
  <2> QED BY <2>1
<1>3. a * r \in Nat
  OBVIOUS
<1> QED BY <1>1, <1>2, <1>3

(* The quotient and the remainder of a number that is written as digits.   *)
LEMMA Digits ==
  ASSUME NEW q \in Nat \ {0}, NEW a \in Nat, NEW d \in 0..q - 1
  PROVE  /\ a * q + d \in Nat
         /\ (a * q + d) \div q = a
         /\ (a * q + d) % q = d
<1> DEFINE t == a * q + d
           b == t \div q
           r == t % q
<1>1. a * q \in Nat /\ t \in Nat
  OBVIOUS
<1>2. t = q * b + r /\ r \in 0..q - 1 /\ b \in Nat
  <2> HIDE DEF t
  <2> QED BY <1>1
<1>3. q * b = b * q /\ b * q \in Nat
  <2> HIDE DEF b
  <2> QED BY <1>2
<1>4. a * q + d = b * q + r
  BY <1>2, <1>3
<1> HIDE DEF t, b, r
<1>5. ~ a < b
  <2> SUFFICES ASSUME a < b PROVE FALSE
    OBVIOUS
  <2>1. a * q + q <= b * q
    BY <1>2, Multiple
  <2> QED BY <1>1, <1>2, <1>3, <1>4, <2>1
<1>6. ~ b < a
  <2> SUFFICES ASSUME b < a PROVE FALSE
    OBVIOUS
  <2>1. b * q + q <= a * q
    BY <1>2, Multiple
  <2> QED BY <1>1, <1>2, <1>3, <1>4, <2>1
<1>7. b = a
  BY <1>2, <1>5, <1>6
<1>8. r = d
  BY <1>1, <1>2, <1>4, <1>7
<1> QED BY <1>1, <1>7, <1>8 DEF t, b, r

(* The leading digit of a number below c * r is below c.                   *)
LEMMA QuotientBound ==
  ASSUME NEW r \in Nat \ {0}, NEW a \in Nat, NEW b \in 0..r - 1, NEW c \in Nat,
         a * r + b < c * r
  PROVE  a \in 0..c - 1
<1>1. a * r \in Nat /\ c * r \in Nat
  OBVIOUS
<1>2. a < c
  <2> SUFFICES ASSUME ~ a < c PROVE FALSE
    OBVIOUS
  <2>1. CASE c = a
    BY <1>1, <2>1
  <2>2. CASE c < a
    <3>1. c * r + r <= a * r
      BY <2>2, Multiple
    <3> QED BY <1>1, <3>1
  <2> QED BY <2>1, <2>2
<1> QED BY <1>2

(* A number is its quotient times the divisor plus its remainder.          *)
LEMMA Remainders ==
  ASSUME NEW t \in Nat, NEW r \in Nat \ {0}
  PROVE  /\ t = (t \div r) * r + (t % r)
         /\ t % r \in 0..r - 1 /\ t \div r \in Nat
         /\ \A c \in Nat : t < c * r => t \div r \in 0..c - 1
<1> DEFINE a == t \div r
           b == t % r
<1>1. t = r * a + b /\ b \in 0..r - 1 /\ a \in Nat
  OBVIOUS
<1>2. r * a = a * r
  <2> HIDE DEF a
  <2> QED BY <1>1
<1> HIDE DEF a, b
<1>3. t = a * r + b
  BY <1>1, <1>2
<1>4. ASSUME NEW c \in Nat, t < c * r PROVE a \in 0..c - 1
  BY <1>1, <1>3, <1>4, QuotientBound
<1>5. b \in 0..r - 1 /\ a \in Nat
  BY <1>1
<1> USE DEF a, b
<1>6. t = (t \div r) * r + (t % r)
  BY <1>3, Zenon
<1>7. t % r \in 0..r - 1 /\ t \div r \in Nat
  BY <1>5, Zenon
<1>8. \A c \in Nat : t < c * r => t \div r \in 0..c - 1
  BY <1>4, Zenon
<1> HIDE DEF a, b
<1> QED BY <1>6, <1>7, <1>8, Zenon

(***************************************************************************)
(* Sums over walks                                                         *)
(***************************************************************************)
(* A walk of n steps in S; M[x][s][t] weighs step x from s to t, and u     *)
(* the start.                                                              *)
Walks(S, n) == [0..n -> S]
Weighs(S, u, M, n) ==
  /\ IsFiniteSet(S) /\ n \in Nat /\ u \in [S -> Nat]
  /\ \A x \in 0..n - 1 : \A s, t \in S : M[x][s][t] \in Nat
StepWeights(M, p, n) == [x \in 0..n - 1 |-> M[x][p[x]][p[x + 1]]]
WalkWeights(S, u, M, n) ==
  [p \in Walks(S, n) |-> u[p[0]] * Prod(StepWeights(M, p, n), 0..n - 1)]

(* Those that end in t, and their weight.                                  *)
WalksTo(S, n, t) == {p \in Walks(S, n) : p[n] = t}
Arriving(S, u, M, n, t) == Sum(WalkWeights(S, u, M, n), WalksTo(S, n, t))

(* The image of a finite set is finite.                                    *)
LEMMA ImageFinite ==
  ASSUME NEW S, IsFiniteSet(S), NEW h
  PROVE  IsFiniteSet({h[s] : s \in S})
<1> DEFINE T == {h[s] : s \in S}
           g == [s \in S |-> h[s]]
<1>1. g \in Surjection(S, T)
  BY DEF Surjection
<1> HIDE DEF g, T
<1>2. IsFiniteSet(T)
  BY <1>1, FS_Surjection
<1> QED BY <1>2 DEF T

(* There are finitely many walks of each length.                           *)
LEMMA WalksFinite ==
  ASSUME NEW S, IsFiniteSet(S)
  PROVE  \A n \in Nat : IsFiniteSet(Walks(S, n))
<1> DEFINE Ns == {n \in Nat : IsFiniteSet(Walks(S, n))}
<1>1. 0 \in Ns
  <2> DEFINE h == [s \in S |-> [x \in 0..0 |-> s]]
  <2>1. IsFiniteSet({h[s] : s \in S})
    <3> HIDE DEF h
    <3> QED BY ImageFinite
  <2>2. \A p \in Walks(S, 0) : p[0] \in S /\ p = h[p[0]]
    BY DEF Walks
  <2>3. Walks(S, 0) \subseteq {h[s] : s \in S}
    BY <2>2
  <2> QED BY <2>1, <2>3, FS_Subset
<1>2. ASSUME NEW n \in Nat, n \in Ns PROVE n + 1 \in Ns
  <2> DEFINE P == Walks(S, n) \X S
             h == [y \in P |-> [x \in 0..n + 1 |-> IF x = n + 1 THEN y[2] ELSE y[1][x]]]
  <2>1. IsFiniteSet(P)
    BY <1>2, FS_Product
  <2>2. IsFiniteSet({h[y] : y \in P})
    <3> HIDE DEF P, h
    <3> QED BY <2>1, ImageFinite
  <2>3. ASSUME NEW p \in Walks(S, n + 1) PROVE p \in {h[y] : y \in P}
    <3> DEFINE r == [x \in 0..n |-> p[x]]
    <3>1. r \in Walks(S, n) /\ p[n + 1] \in S
      BY DEF Walks
    <3>2. p = [x \in 0..n + 1 |-> IF x = n + 1 THEN p[n + 1] ELSE r[x]]
      BY DEF Walks
    <3>3. <<r, p[n + 1]>> \in P
      BY <3>1
    <3>4. h[<<r, p[n + 1]>>] = [x \in 0..n + 1 |-> IF x = n + 1 THEN p[n + 1] ELSE r[x]]
      BY <3>3
    <3> QED BY <3>2, <3>3, <3>4
  <2>4. Walks(S, n + 1) \subseteq {h[y] : y \in P}
    BY <2>3
  <2> QED BY <2>2, <2>4, FS_Subset
<1> HIDE DEF Ns
<1>3. \A n \in Nat : n \in Ns
  BY <1>1, <1>2, SetInduction
<1> QED BY <1>3 DEF Ns

(* The steps of a walk are weighed by the entries of the matrices, which   *)
(* are natural numbers.                                                    *)
LEMMA StepsAreNumbers ==
  ASSUME NEW S, NEW u, NEW M, NEW n, Weighs(S, u, M, n), NEW p \in Walks(S, n)
  PROVE  /\ Numbers(StepWeights(M, p, n), 0..n - 1)
         /\ \A x \in 0..n - 1 : StepWeights(M, p, n)[x] = M[x][p[x]][p[x + 1]]
         /\ p[0] \in S /\ p[n] \in S
         /\ \A x \in 0..n - 1 : p[x] \in S /\ p[x + 1] \in S
<1>1. n \in Nat
  BY DEF Weighs
<1>2. IsFiniteSet(0..n - 1)
  BY <1>1, FS_Interval
<1>3. \A x \in 0..n - 1 : p[x] \in S /\ p[x + 1] \in S
  BY <1>1 DEF Walks
<1>4. p[0] \in S /\ p[n] \in S
  BY <1>1 DEF Walks
<1>5. \A x \in 0..n - 1 : M[x][p[x]][p[x + 1]] \in Nat
  BY <1>3 DEF Weighs
<1> QED BY <1>2, <1>3, <1>4, <1>5 DEF Numbers, StepWeights

(* The weights of walks, and their sums over those that end in a state,    *)
(* are natural numbers.                                                    *)
LEMMA WalkWeightsAreNumbers ==
  ASSUME NEW S, NEW u, NEW M, NEW n, Weighs(S, u, M, n)
  PROVE  /\ Numbers(WalkWeights(S, u, M, n), Walks(S, n))
         /\ \A t : Numbers(WalkWeights(S, u, M, n), WalksTo(S, n, t))
         /\ \A t : Arriving(S, u, M, n, t) \in Nat
<1>1. IsFiniteSet(Walks(S, n))
  BY WalksFinite DEF Weighs
<1>2. ASSUME NEW p \in Walks(S, n) PROVE WalkWeights(S, u, M, n)[p] \in Nat
  <2>1. Prod(StepWeights(M, p, n), 0..n - 1) \in Nat
    BY StepsAreNumbers, ProdProperties
  <2>2. u[p[0]] \in Nat
    BY StepsAreNumbers DEF Weighs
  <2>3. \A a, b \in Nat : a * b \in Nat
    OBVIOUS
  <2> QED BY <2>1, <2>2, <2>3 DEF WalkWeights
<1>3. Numbers(WalkWeights(S, u, M, n), Walks(S, n))
  BY <1>1, <1>2 DEF Numbers
<1>4. \A t : WalksTo(S, n, t) \subseteq Walks(S, n)
  BY DEF WalksTo
<1>5. \A t : Numbers(WalkWeights(S, u, M, n), WalksTo(S, n, t))
  BY <1>3, <1>4, NumbersSubset
<1>6. \A t : Sum(WalkWeights(S, u, M, n), WalksTo(S, n, t)) \in Nat
  BY <1>5, SumProperties
<1> QED BY <1>3, <1>5, <1>6 DEF Arriving

(* Without a step.                                                         *)
LEMMA ArrivingFirst ==
  ASSUME NEW S, NEW u, NEW M, Weighs(S, u, M, 0), NEW t \in S
  PROVE  Arriving(S, u, M, 0, t) = u[t]
<1> DEFINE a == [x \in 0..0 |-> t]
           w == WalkWeights(S, u, M, 0)
<1>1. a \in WalksTo(S, 0, t) /\ WalksTo(S, 0, t) \ {a} = {}
  <2>1. a \in Walks(S, 0) /\ a[0] = t
    BY DEF Walks
  <2>2. \A p \in Walks(S, 0) : p = [x \in 0..0 |-> p[x]]
    BY DEF Walks
  <2>3. \A x \in 0..0 : x = 0
    OBVIOUS
  <2>4. \A p \in Walks(S, 0) : p[0] = t => p = a
    BY <2>2, <2>3
  <2> QED BY <2>1, <2>4 DEF WalksTo
<1>2. Numbers(w, WalksTo(S, 0, t)) /\ Numbers(w, {})
  BY WalkWeightsAreNumbers, FS_EmptySet DEF Numbers
<1>3. Sum(w, WalksTo(S, 0, t)) = w[a] + Sum(w, {}) /\ Sum(w, {}) = 0
  <2> HIDE DEF w, a
  <2> QED BY <1>1, <1>2, SumProperties
<1>4. w[a] = u[t]
  <2>1. a \in Walks(S, 0) /\ a[0] = t
    BY DEF Walks
  <2>2. 0..0 - 1 = {}
    OBVIOUS
  <2>3. Prod(StepWeights(M, a, 0), 0..0 - 1) = 1
    BY <2>2, FS_EmptySet, ProdProperties DEF Numbers
  <2>4. u[t] \in Nat
    BY DEF Weighs
  <2>5. w[a] = u[a[0]] * Prod(StepWeights(M, a, 0), 0..0 - 1)
    <3> HIDE DEF a
    <3> QED BY <2>1 DEF WalkWeights
  <2> HIDE DEF w, a
  <2> QED BY <2>1, <2>3, <2>4, <2>5
<1>5. u[t] \in Nat
  BY DEF Weighs
<1> HIDE DEF w, a
<1>6. Sum(w, WalksTo(S, 0, t)) = u[t]
  BY <1>3, <1>4, <1>5
<1> QED BY <1>6 DEF Arriving, w

(* One step more.                                                          *)
LEMMA WalkExtended ==
  ASSUME NEW S, NEW u, NEW M, NEW n \in Nat, Weighs(S, u, M, n + 1),
         NEW p \in Walks(S, n + 1), NEW r, r = [x \in 0..n |-> p[x]]
  PROVE  /\ Weighs(S, u, M, n) /\ r \in Walks(S, n) /\ r[n] = p[n]
         /\ WalkWeights(S, u, M, n + 1)[p] =
              WalkWeights(S, u, M, n)[r] * M[n][p[n]][p[n + 1]]
<1> DEFINE f == StepWeights(M, p, n + 1)
           g == StepWeights(M, r, n)
<1>1. Weighs(S, u, M, n)
  <2>1. 0..n - 1 \subseteq 0..(n + 1) - 1
    OBVIOUS
  <2> QED BY <2>1 DEF Weighs
<1>2. r \in Walks(S, n) /\ r[n] = p[n] /\ r[0] = p[0]
  BY DEF Walks
<1>3. Numbers(f, 0..(n + 1) - 1) /\ \A x \in 0..(n + 1) - 1 : f[x] = M[x][p[x]][p[x + 1]]
  <2> HIDE DEF f
  <2> QED BY StepsAreNumbers DEF f
<1>4. Numbers(g, 0..n - 1) /\ \A x \in 0..n - 1 : g[x] = M[x][r[x]][r[x + 1]]
  <2>1. ASSUME NEW q \in Walks(S, n)
        PROVE  /\ Numbers(StepWeights(M, q, n), 0..n - 1)
               /\ \A x \in 0..n - 1 : StepWeights(M, q, n)[x] = M[x][q[x]][q[x + 1]]
    BY <1>1, StepsAreNumbers
  <2> HIDE DEF g
  <2> QED BY <1>2, <2>1 DEF g
<1>5. \A x \in 0..n - 1 : g[x] = f[x]
  <2> HIDE DEF f, g
  <2>1. ASSUME NEW x \in 0..n - 1 PROVE g[x] = f[x]
    <3>1. x \in 0..(n + 1) - 1 /\ r[x] = p[x] /\ r[x + 1] = p[x + 1]
      OBVIOUS
    <3>2. f[x] = M[x][p[x]][p[x + 1]]
      BY <1>3, <3>1
    <3>3. g[x] = M[x][r[x]][r[x + 1]]
      BY <1>4
    <3> QED BY ONLY <3>1, <3>2, <3>3
  <2> QED BY <2>1
<1>6. n \in 0..(n + 1) - 1 /\ (0..(n + 1) - 1) \ {n} = 0..n - 1
  OBVIOUS
<1> HIDE DEF f, g
<1>7. Prod(f, 0..(n + 1) - 1) = f[n] * Prod(f, 0..n - 1)
  <2>1. \A x \in 0..(n + 1) - 1 :
          Prod(f, 0..(n + 1) - 1) = f[x] * Prod(f, (0..(n + 1) - 1) \ {x})
    BY ZenonT(40), <1>3, ProdProperties
  <2> QED BY <1>6, <2>1
<1>8. Prod(g, 0..n - 1) = Prod(f, 0..n - 1) /\ Prod(g, 0..n - 1) \in Nat
  BY <1>4, <1>5, ProdCongruent, ProdProperties
<1>9. f[n] = M[n][p[n]][p[n + 1]] /\ f[n] \in Nat /\ u[p[0]] \in Nat
  <2>1. u[p[0]] \in Nat
    BY StepsAreNumbers DEF Weighs
  <2> QED BY <1>3, <1>6, <2>1 DEF Numbers
<1>10. WalkWeights(S, u, M, n + 1)[p] = u[p[0]] * Prod(f, 0..(n + 1) - 1)
  BY DEF WalkWeights, f
<1>11. WalkWeights(S, u, M, n)[r] = u[p[0]] * Prod(g, 0..n - 1)
  BY <1>2 DEF WalkWeights, g
<1>12. \A a, b, c \in Nat : a * (b * c) = (a * c) * b
  OBVIOUS
<1> HIDE DEF Walks, Weighs
<1>13. u[p[0]] * (f[n] * Prod(g, 0..n - 1)) = (u[p[0]] * Prod(g, 0..n - 1)) * f[n]
  BY <1>8, <1>9, <1>12
<1> QED BY <1>1, <1>2, <1>7, <1>8, <1>9, <1>10, <1>11, <1>13

(* The walks that arrive in t from s.                                      *)
WalksFrom(S, n, s, t) == {p \in WalksTo(S, n + 1, t) : p[n] = s}

(* The walks that end with the step from s to t weigh what those to s do,  *)
(* times the step.                                                         *)
LEMMA ArrivingFrom ==
  ASSUME NEW S, NEW u, NEW M, NEW n \in Nat, Weighs(S, u, M, n + 1),
         NEW s \in S, NEW t \in S
  PROVE  Sum(WalkWeights(S, u, M, n + 1), WalksFrom(S, n, s, t)) =
           Arriving(S, u, M, n, s) * M[n][s][t]
<1> DEFINE f == WalkWeights(S, u, M, n + 1)
           w == WalkWeights(S, u, M, n)
           P == WalksFrom(S, n, s, t)
           T == WalksTo(S, n, s)
           g == [r \in T |-> w[r] * M[n][s][t]]
           b == [p \in P |-> [x \in 0..n |-> p[x]]]
<1>1. Weighs(S, u, M, n)
  <2>1. 0..n - 1 \subseteq 0..(n + 1) - 1
    OBVIOUS
  <2> QED BY <2>1 DEF Weighs
<1>2. Numbers(w, T) /\ Numbers(f, WalksTo(S, n + 1, t))
  BY <1>1, WalkWeightsAreNumbers
<1>3. M[n][s][t] \in Nat
  <2>1. n \in 0..(n + 1) - 1
    OBVIOUS
  <2> QED BY <2>1 DEF Weighs
<1>4. \A r \in T : g[r] = w[r] * M[n][s][t]
  OBVIOUS
<1>5. Numbers(g, T) /\ Sum(g, T) = Sum(w, T) * M[n][s][t]
  <2> DEFINE c == M[n][s][t]
  <2>1. c \in Nat /\ \A r \in T : g[r] = w[r] * c
    BY <1>3, <1>4
  <2> HIDE DEF g, T, w, c
  <2>2. Numbers(g, T) /\ Sum(g, T) = Sum(w, T) * c
    BY <1>2, <2>1, SumScaled
  <2> QED BY <2>2 DEF c
<1>6. IsFiniteSet(P)
  <2>1. P \subseteq WalksTo(S, n + 1, t)
    BY DEF WalksFrom
  <2> QED BY <1>2, <2>1, FS_Subset DEF Numbers
<1>7. ASSUME NEW p \in P PROVE b[p] \in T /\ f[p] = g[b[p]]
  <2>1. p \in Walks(S, n + 1) /\ p[n] = s /\ p[n + 1] = t
    BY DEF WalksFrom, WalksTo
  <2>2. b[p] = [x \in 0..n |-> p[x]]
    OBVIOUS
  <2> HIDE DEF b
  <2>3. b[p] \in Walks(S, n) /\ b[p][n] = s /\ f[p] = w[b[p]] * M[n][s][t]
    BY <2>1, <2>2, WalkExtended
  <2> QED BY <2>3 DEF WalksTo
<1>8. ASSUME NEW p \in P, NEW q \in P, b[p] = b[q] PROVE p = q
  <2>1. p \in [0..n + 1 -> S] /\ q \in [0..n + 1 -> S] /\ p[n + 1] = q[n + 1]
    BY DEF WalksFrom, WalksTo, Walks
  <2>2. \A x \in 0..n : p[x] = b[p][x] /\ q[x] = b[q][x]
    OBVIOUS
  <2>3. \A x \in 0..n + 1 : p[x] = q[x]
    BY <1>8, <2>1, <2>2
  <2> QED BY <2>1, <2>3
<1>9. ASSUME NEW r \in T PROVE \E p \in P : b[p] = r
  <2> DEFINE p == [x \in 0..n + 1 |-> IF x = n + 1 THEN t ELSE r[x]]
  <2>1. r \in [0..n -> S] /\ r[n] = s
    BY DEF WalksTo, Walks
  <2>2. p \in [0..n + 1 -> S] /\ p[n + 1] = t /\ p[n] = s
    BY <2>1
  <2>3. p \in P
    BY <2>2 DEF WalksFrom, WalksTo, Walks
  <2>4. [x \in 0..n |-> p[x]] = r
    BY <2>1
  <2> QED BY <2>3, <2>4
<1>10. Renames(b, P, T, f, g)
  <2> HIDE DEF b, P, T, f, g
  <2> QED BY <1>7, <1>8, <1>9 DEF Renames
<1>11. Sum(f, P) = Sum(g, T)
  <2> HIDE DEF b, P, T, f, g
  <2> QED BY <1>5, <1>6, <1>10, SumRenamed
<1> QED BY <1>5, <1>11 DEF Arriving

(* A step of the forward recursion, and of the backward one.               *)
Ahead(S, M, n, a, t) == [s \in S |-> a[s] * M[n][s][t]]
Behind(S, M, n, b, s) == [t \in S |-> M[n][s][t] * b[t]]

(* One step of the forward pass: what arrives at t is what arrives at the  *)
(* states before it, each times its step.                                  *)
LEMMA ArrivingNext ==
  ASSUME NEW S, NEW u, NEW M, NEW n \in Nat, Weighs(S, u, M, n + 1), NEW t \in S,
         NEW a, \A s \in S : a[s] = Arriving(S, u, M, n, s)
  PROVE  Arriving(S, u, M, n + 1, t) = Sum(Ahead(S, M, n, a, t), S)
<1> DEFINE f == WalkWeights(S, u, M, n + 1)
           P == WalksTo(S, n + 1, t)
           k == [p \in P |-> p[n]]
           g == Ahead(S, M, n, a, t)
<1>1. Numbers(f, P) /\ IsFiniteSet(S)
  <2>1. n + 1 \in Nat
    OBVIOUS
  <2> QED BY <2>1, WalkWeightsAreNumbers DEF Weighs
<1>2. \A p \in P : k[p] \in S
  <2>1. ASSUME NEW p \in P PROVE p[n] \in S
    BY DEF WalksTo, Walks
  <2> QED BY <2>1
<1>3. ASSUME NEW s \in S PROVE g[s] = Sum(f, {p \in P : k[p] = s})
  <2>1. {p \in P : k[p] = s} = WalksFrom(S, n, s, t)
    BY DEF WalksFrom
  <2>2. Sum(f, WalksFrom(S, n, s, t)) = Arriving(S, u, M, n, s) * M[n][s][t]
    BY ArrivingFrom
  <2>3. g[s] = a[s] * M[n][s][t]
    BY DEF Ahead
  <2> QED BY <2>1, <2>2, <2>3
<1>4. Groups(f, P, k, S, g)
  <2> HIDE DEF f, P, k, g
  <2> QED BY <1>2, <1>3 DEF Groups
<1>5. Sum(f, P) = Sum(g, S)
  <2> HIDE DEF f, P, k, g
  <2> QED BY <1>1, <1>4, SumByGroups
<1> QED BY <1>5 DEF Arriving

(* A sum of sums in the other order.                                       *)
RowSums(h, S, T) == [x \in S |-> Sum(h[x], T)]
Column(h, S, y) == [x \in S |-> h[x][y]]
ColumnSums(h, S, T) == [y \in T |-> Sum(Column(h, S, y), S)]
Tabulated(h, S, T) ==
  IsFiniteSet(S) /\ IsFiniteSet(T) /\ \A x \in S, y \in T : h[x][y] \in Nat

(* The sum of a table by rows is its sum by columns.                       *)
LEMMA SumSwapped ==
  ASSUME NEW h, NEW S, NEW T, Tabulated(h, S, T)
  PROVE  /\ Numbers(RowSums(h, S, T), S) /\ Numbers(ColumnSums(h, S, T), T)
         /\ Sum(RowSums(h, S, T), S) = Sum(ColumnSums(h, S, T), T)
<1> DEFINE rows == RowSums(h, S, T)
           cols(s) == [y \in T |-> Sum(Column(h, S, y), s)]
           G == {s \in SUBSET S : Sum(rows, s) = Sum(cols(s), T)}
<1>1. \A x \in S : Numbers(h[x], T)
  BY DEF Tabulated, Numbers
<1>2. \A s \in SUBSET S : \A y \in T : Numbers(Column(h, S, y), s)
  <2>1. \A y \in T : Numbers(Column(h, S, y), S)
    BY DEF Tabulated, Numbers, Column
  <2> QED BY <2>1, NumbersSubset
<1>3. \A s \in SUBSET S : Numbers(cols(s), T) /\ Numbers(rows, s)
  <2>1. \A s \in SUBSET S : \A y \in T : Sum(Column(h, S, y), s) \in Nat
    BY <1>2, SumProperties
  <2>2. \A x \in S : rows[x] \in Nat
    <3>1. \A x \in S : Sum(h[x], T) \in Nat
      BY <1>1, SumProperties
    <3> QED BY <3>1 DEF RowSums
  <2>3. Numbers(rows, S)
    BY <2>2 DEF Numbers, Tabulated
  <2>4. \A s \in SUBSET S : Numbers(cols(s), T)
    BY <2>1 DEF Numbers, Tabulated
  <2> QED BY <2>3, <2>4, NumbersSubset
<1>4. {} \in G
  <2>1. {} \in SUBSET S
    OBVIOUS
  <2>2. \A y \in T : cols({})[y] = 0
    <3>1. \A y \in T : Sum(Column(h, S, y), {}) = 0
      BY <1>2, <2>1, SumProperties
    <3> QED BY <3>1
  <2>3. Sum(rows, {}) = 0
    <3> HIDE DEF rows
    <3> QED BY <1>3, <2>1, SumProperties
  <2>4. Sum(cols({}), T) = 0
    <3> HIDE DEF cols
    <3> QED BY <2>2, SumOfZeros DEF Tabulated
  <2> QED BY <2>1, <2>3, <2>4
<1>5. ASSUME NEW s \in SUBSET S, NEW x \in s, s \ {x} \in G PROVE s \in G
  <2> DEFINE r == s \ {x}
  <2>1. r \in SUBSET S /\ x \in S /\ s \in SUBSET S
    OBVIOUS
  <2>2. Sum(rows, s) = rows[x] + Sum(rows, r)
    <3> HIDE DEF rows
    <3> QED BY <1>3, SumProperties
  <2>3. rows[x] = Sum(h[x], T) /\ Sum(rows, r) = Sum(cols(r), T)
    BY <1>5, <2>1 DEF RowSums
  <2>4. ASSUME NEW y \in T PROVE cols(s)[y] = h[x][y] + cols(r)[y]
    <3>1. Sum(Column(h, S, y), s) = Column(h, S, y)[x] + Sum(Column(h, S, y), r)
      BY <1>2, SumProperties
    <3>2. Column(h, S, y)[x] = h[x][y]
      BY <2>1 DEF Column
    <3> QED BY <3>1, <3>2
  <2>5. Adds(h[x], cols(r), cols(s), T)
    <3> HIDE DEF cols, r
    <3> QED BY <2>4 DEF Adds
  <2>6. Sum(cols(s), T) = Sum(h[x], T) + Sum(cols(r), T)
    <3> HIDE DEF cols, r
    <3> QED BY <1>1, <1>3, <2>1, <2>5, SumAdded
  <2> HIDE DEF cols, rows, r
  <2> QED BY <2>1, <2>2, <2>3, <2>6
<1>6. S \in G
  <2> HIDE DEF G
  <2> QED BY <1>4, <1>5, SubsetInduction DEF Tabulated
<1>7. cols(S) = ColumnSums(h, S, T)
  BY DEF ColumnSums
<1>8. S \in SUBSET S
  OBVIOUS
<1>9. Sum(rows, S) = Sum(cols(S), T)
  BY <1>6
<1> HIDE DEF rows, cols
<1>10. Numbers(cols(S), T) /\ Numbers(rows, S)
  BY <1>3, <1>8
<1> QED BY <1>7, <1>9, <1>10 DEF rows

(* What arrives and what is left to do from there, together.               *)
Meets(S, a, b) == [s \in S |-> a[s] * b[s]]

(* The two passes meet in the same sum at any index: one step of the       *)
(* forward pass and one of the backward pass balance.                      *)
LEMMA MeetingMoves ==
  ASSUME NEW S, NEW u, NEW M, NEW N, Weighs(S, u, M, N), NEW n \in 0..N - 1,
         NEW a, Numbers(a, S), NEW b, Numbers(b, S),
         NEW c, \A t \in S : c[t] = Sum(Ahead(S, M, n, a, t), S),
         NEW d, \A s \in S : d[s] = Sum(Behind(S, M, n, b, s), S)
  PROVE  /\ Numbers(c, S) /\ Numbers(d, S)
         /\ Sum(Meets(S, a, d), S) = Sum(Meets(S, c, b), S)
<1> DEFINE h == [s \in S |-> [t \in S |-> (a[s] * M[n][s][t]) * b[t]]]
<1>1. \A x, y \in Nat : x * y \in Nat /\ x * y = y * x
  OBVIOUS
<1>2. \A s, t \in S : M[n][s][t] \in Nat /\ a[s] \in Nat /\ b[t] \in Nat
  BY DEF Weighs, Numbers
<1>3. \A s, t \in S : a[s] * M[n][s][t] \in Nat /\ M[n][s][t] * b[t] \in Nat
  BY <1>1, <1>2
<1>4. \A s, t \in S : h[s][t] = (a[s] * M[n][s][t]) * b[t] /\ h[s][t] \in Nat
  BY <1>1, <1>2, <1>3
<1> HIDE DEF h
<1>5. Tabulated(h, S, S)
  BY <1>4 DEF Tabulated, Weighs
<1>6. \A t \in S : Numbers(Ahead(S, M, n, a, t), S)
  BY <1>3 DEF Numbers, Ahead
<1>7. \A s \in S : Numbers(Behind(S, M, n, b, s), S)
  BY <1>3 DEF Numbers, Behind
<1>8. Numbers(c, S) /\ Numbers(d, S)
  <2>1. \A t \in S : c[t] \in Nat /\ d[t] \in Nat
    BY <1>6, <1>7, SumProperties
  <2> QED BY <2>1 DEF Numbers
<1>9. ASSUME NEW s \in S PROVE Meets(S, a, d)[s] = RowSums(h, S, S)[s]
  <2>1. \A x, y, z \in Nat : (x * y) * z = (y * z) * x
    OBVIOUS
  <2>2. \A t \in S : h[s][t] = Behind(S, M, n, b, s)[t] * a[s]
    <3>1. ASSUME NEW t \in S PROVE h[s][t] = Behind(S, M, n, b, s)[t] * a[s]
      <4>1. Behind(S, M, n, b, s)[t] = M[n][s][t] * b[t]
        BY DEF Behind
      <4> QED BY <1>2, <1>4, <2>1, <4>1
    <3> QED BY <3>1
  <2>3. a[s] \in Nat
    BY <1>2
  <2>4. Sum(h[s], S) = Sum(Behind(S, M, n, b, s), S) * a[s]
    BY <1>7, <2>2, <2>3, SumScaled
  <2>5. d[s] \in Nat
    BY <1>8 DEF Numbers
  <2> QED BY <1>1, <2>3, <2>4, <2>5 DEF Meets, RowSums
<1>10. ASSUME NEW t \in S PROVE Meets(S, c, b)[t] = ColumnSums(h, S, S)[t]
  <2>1. \A s \in S : Column(h, S, t)[s] = Ahead(S, M, n, a, t)[s] * b[t]
    BY <1>4 DEF Column, Ahead
  <2>2. b[t] \in Nat
    BY <1>2
  <2>3. Sum(Column(h, S, t), S) = Sum(Ahead(S, M, n, a, t), S) * b[t]
    BY <1>6, <2>1, <2>2, SumScaled
  <2> QED BY <2>3 DEF Meets, ColumnSums
<1>11. /\ Numbers(RowSums(h, S, S), S) /\ Numbers(ColumnSums(h, S, S), S)
       /\ Sum(RowSums(h, S, S), S) = Sum(ColumnSums(h, S, S), S)
  BY <1>5, SumSwapped
<1>12. Sum(RowSums(h, S, S), S) = Sum(Meets(S, a, d), S)
  BY <1>9, <1>11, SumCongruent
<1>13. Sum(ColumnSums(h, S, S), S) = Sum(Meets(S, c, b), S)
  BY <1>10, <1>11, SumCongruent
<1> QED BY <1>8, <1>11, <1>12, <1>13

(* Rows that a forward and a backward recursion compute.                   *)
ForwardOn(S, u, M, i, A) ==
  /\ \A s \in S : A[0][s] = u[s]
  /\ \A j \in 0..i - 1 : \A t \in S : A[j + 1][t] = Sum(Ahead(S, M, j, A[j], t), S)
BackwardOn(S, v, M, i, n, B) ==
  /\ \A s \in S : B[n][s] = v[s]
  /\ \A j \in i..n - 1 : \A s \in S : B[j][s] = Sum(Behind(S, M, j, B[j + 1], s), S)

(* The forward pass makes the sums over the walks that arrive.             *)
LEMMA ArrivingIs ==
  ASSUME NEW S, NEW u, NEW M, NEW n, Weighs(S, u, M, n), NEW i \in 0..n,
         NEW A, ForwardOn(S, u, M, i, A)
  PROVE  \A j \in 0..i : \A s \in S : A[j][s] = Arriving(S, u, M, j, s)
<1> DEFINE G == {j \in 0..i : \A s \in S : A[j][s] = Arriving(S, u, M, j, s)}
<1>0. n \in Nat /\ i \in Nat
  BY DEF Weighs
<1>1. ASSUME NEW j \in 0..i PROVE Weighs(S, u, M, j)
  <2>1. 0..j - 1 \subseteq 0..n - 1 /\ j \in Nat
    BY <1>0
  <2> QED BY <2>1 DEF Weighs
<1>2. 0 \in G
  <2>1. 0 \in 0..i /\ Weighs(S, u, M, 0)
    BY <1>0, <1>1
  <2> QED BY <2>1, ArrivingFirst DEF ForwardOn
<1>3. ASSUME NEW j \in 1..i, j - 1 \in G PROVE j \in G
  <2>1. PICK k \in Nat : j = k + 1
    BY <1>0
  <2>2. k \in G /\ j \in 0..i /\ k \in 0..i - 1 /\ k + 1 \in 0..i
    BY <1>0, <1>3, <2>1
  <2>3. Weighs(S, u, M, k + 1)
    BY <1>1, <2>2
  <2>4. \A s \in S : A[k][s] = Arriving(S, u, M, k, s)
    BY <2>2
  <2>5. \A t \in S : Arriving(S, u, M, k + 1, t) = Sum(Ahead(S, M, k, A[k], t), S)
    BY <2>3, <2>4, ArrivingNext
  <2>6. \A t \in S : A[k + 1][t] = Sum(Ahead(S, M, k, A[k], t), S)
    BY <2>2 DEF ForwardOn
  <2> QED BY <2>1, <2>2, <2>5, <2>6
<1> HIDE DEF G
<1>4. \A j \in 0..i : j \in G
  BY <1>0, <1>2, <1>3, IntervalInduction
<1> QED BY <1>4 DEF G

(* The weight of whole walks, with the weights v of their ends.            *)
WholeWalks(S, u, M, v, n) ==
  [p \in Walks(S, n) |-> WalkWeights(S, u, M, n)[p] * v[p[n]]]
Arrivals(S, u, M, n) == [t \in S |-> Arriving(S, u, M, n, t)]

(* All walks, weighed at both ends, sum to what arrives at the last        *)
(* states, each times its weight.                                          *)
LEMMA WalksEnd ==
  ASSUME NEW S, NEW u, NEW M, NEW n, Weighs(S, u, M, n), NEW v \in [S -> Nat]
  PROVE  /\ Numbers(WholeWalks(S, u, M, v, n), Walks(S, n))
         /\ Sum(WholeWalks(S, u, M, v, n), Walks(S, n)) =
              Sum(Meets(S, Arrivals(S, u, M, n), v), S)
<1> DEFINE f == WholeWalks(S, u, M, v, n)
           w == WalkWeights(S, u, M, n)
           P == Walks(S, n)
           k == [p \in P |-> p[n]]
           g == Meets(S, Arrivals(S, u, M, n), v)
<1>1. Numbers(w, P) /\ \A t : Numbers(w, WalksTo(S, n, t))
  BY WalkWeightsAreNumbers
<1>2. \A p \in P : p[n] \in S
  BY DEF Weighs, Walks
<1>3. \A p \in P : f[p] = w[p] * v[p[n]] /\ f[p] \in Nat
  <2>1. \A x, y \in Nat : x * y \in Nat
    OBVIOUS
  <2>2. \A p \in P : f[p] = w[p] * v[p[n]]
    BY DEF WholeWalks
  <2>3. \A p \in P : w[p] \in Nat /\ v[p[n]] \in Nat
    BY <1>1, <1>2 DEF Numbers
  <2> HIDE DEF f, w, P
  <2> QED BY <2>1, <2>2, <2>3
<1>4. Numbers(f, P)
  BY <1>1, <1>3 DEF Numbers
<1>5. ASSUME NEW t \in S PROVE g[t] = Sum(f, {p \in P : k[p] = t})
  <2>1. {p \in P : k[p] = t} = WalksTo(S, n, t)
    BY DEF WalksTo
  <2>2. \A p \in WalksTo(S, n, t) : f[p] = w[p] * v[t]
    BY <1>3 DEF WalksTo
  <2>3. v[t] \in Nat
    OBVIOUS
  <2>4. Sum(f, WalksTo(S, n, t)) = Sum(w, WalksTo(S, n, t)) * v[t]
    <3> HIDE DEF f, w
    <3> QED BY <1>1, <2>2, <2>3, SumScaled
  <2>5. g[t] = Sum(w, WalksTo(S, n, t)) * v[t]
    BY DEF Meets, Arrivals, Arriving
  <2> QED BY <2>1, <2>4, <2>5
<1>6. Groups(f, P, k, S, g)
  <2>1. \A p \in P : k[p] \in S
    BY <1>2
  <2> HIDE DEF f, P, k, g
  <2> QED BY <1>5, <2>1 DEF Groups
<1>7. Sum(f, P) = Sum(g, S)
  <2>1. IsFiniteSet(S)
    BY DEF Weighs
  <2> HIDE DEF f, P, k, g
  <2> QED BY <1>4, <1>6, <2>1, SumByGroups
<1> QED BY <1>4, <1>7

(* Wherever the two passes meet, they have summed the whole walks.         *)
LEMMA TwoPasses ==
  ASSUME NEW S, NEW u, NEW M, NEW n, Weighs(S, u, M, n), NEW v \in [S -> Nat],
         NEW i \in 0..n, NEW A, ForwardOn(S, u, M, i, A),
         NEW B, BackwardOn(S, v, M, i, n, B)
  PROVE  Sum(WholeWalks(S, u, M, v, n), Walks(S, n)) = Sum(Meets(S, A[i], B[i]), S)
<1> DEFINE C == [j \in 0..n |-> Arrivals(S, u, M, j)]
           total == Sum(WholeWalks(S, u, M, v, n), Walks(S, n))
           G == {x \in 0..n - i : /\ Numbers(B[n - x], S)
                                  /\ Sum(Meets(S, C[n - x], B[n - x]), S) = total}
<1>0. n \in Nat /\ i \in Nat /\ i <= n /\ n - i \in Nat
  BY DEF Weighs
<1>1. ASSUME NEW j \in 0..n PROVE Weighs(S, u, M, j)
  <2>1. 0..j - 1 \subseteq 0..n - 1 /\ j \in Nat
    BY <1>0
  <2> QED BY <2>1 DEF Weighs
<1>2. \A j \in 0..n : C[j] = Arrivals(S, u, M, j) /\ Numbers(C[j], S)
  <2>1. ASSUME NEW j \in 0..n PROVE C[j] = Arrivals(S, u, M, j)
    OBVIOUS
  <2> HIDE DEF C
  <2>2. ASSUME NEW j \in 0..n PROVE Numbers(C[j], S)
    <3>1. \A t : Arriving(S, u, M, j, t) \in Nat
      BY <1>1, WalkWeightsAreNumbers
    <3>2. IsFiniteSet(S)
      BY DEF Weighs
    <3>3. \A t \in S : Arrivals(S, u, M, j)[t] = Arriving(S, u, M, j, t)
      BY DEF Arrivals
    <3> QED BY <2>1, <3>1, <3>2, <3>3 DEF Numbers
  <2> QED BY <2>1, <2>2
<1> HIDE DEF C
<1>3. 0 \in G
  <2>1. 0 \in 0..n - i /\ n - 0 = n /\ n \in 0..n
    BY <1>0
  <2>2. Numbers(B[n], S) /\ \A s \in S : B[n][s] = v[s]
    BY DEF BackwardOn, Numbers, Weighs
  <2>3. total = Sum(Meets(S, C[n], v), S)
    BY <1>2, <2>1, WalksEnd
  <2>4. Meets(S, C[n], v) = Meets(S, C[n], B[n])
    BY <2>2 DEF Meets
  <2> HIDE DEF total
  <2> QED BY <2>1, <2>2, <2>3, <2>4
<1>4. ASSUME NEW x \in 1..n - i, x - 1 \in G PROVE x \in G
  <2> DEFINE k == n - x
  <2>1. k \in 0..n - 1 /\ k \in i..n - 1 /\ n - (x - 1) = k + 1 /\ k + 1 \in 0..n
        /\ k \in 0..n /\ x \in 0..n - i /\ k \in Nat
    BY <1>0
  <2> HIDE DEF k
  <2>2. Numbers(B[k + 1], S) /\ Sum(Meets(S, C[k + 1], B[k + 1]), S) = total
    BY <1>4, <2>1
  <2>3. \A s \in S : B[k][s] = Sum(Behind(S, M, k, B[k + 1], s), S)
    BY <2>1 DEF BackwardOn
  <2>4. \A t \in S : C[k + 1][t] = Sum(Ahead(S, M, k, C[k], t), S)
    <3>1. \A s \in S : C[k][s] = Arriving(S, u, M, k, s)
      BY <1>2, <2>1 DEF Arrivals
    <3>2. \A t \in S : C[k + 1][t] = Arriving(S, u, M, k + 1, t)
      BY <1>2, <2>1 DEF Arrivals
    <3>3. Weighs(S, u, M, k + 1)
      BY <1>1, <2>1
    <3> QED BY <2>1, <3>1, <3>2, <3>3, ArrivingNext
  <2>5. Numbers(C[k], S)
    BY <1>2, <2>1
  <2>6. Numbers(B[k], S) /\ Sum(Meets(S, C[k], B[k]), S) = Sum(Meets(S, C[k + 1], B[k + 1]), S)
    BY <2>1, <2>2, <2>3, <2>4, <2>5, MeetingMoves
  <2> QED BY <2>1, <2>2, <2>6 DEF k
<1>5. n - i \in G
  <2> HIDE DEF G
  <2>1. \A x \in 0..n - i : x \in G
    BY <1>0, <1>3, <1>4, IntervalInduction
  <2> QED BY <1>0, <2>1
<1>6. n - (n - i) = i /\ i \in 0..n
  BY <1>0
<1>7. \A s \in S : A[i][s] = C[i][s]
  <2>1. \A s \in S : C[i][s] = Arriving(S, u, M, i, s)
    BY <1>2, <1>6 DEF Arrivals
  <2>2. \A j \in 0..i : \A s \in S : A[j][s] = Arriving(S, u, M, j, s)
    BY ArrivingIs
  <2> QED BY <1>0, <2>1, <2>2
<1>8. Meets(S, A[i], B[i]) = Meets(S, C[i], B[i])
  BY <1>7 DEF Meets
<1> QED BY <1>5, <1>6, <1>8

(* When sums and products are positive.                                    *)
LEMMA SumPositive ==
  ASSUME NEW f, NEW S, Numbers(f, S), NEW x \in S, f[x] > 0
  PROVE  Sum(f, S) > 0
<1>1. Sum(f, S) = f[x] + Sum(f, S \ {x})
  BY SumProperties
<1>2. Numbers(f, S \ {x})
  BY NumbersSubset
<1>3. Sum(f, S \ {x}) \in Nat
  BY <1>2, SumProperties
<1>4. f[x] \in Nat
  BY DEF Numbers
<1> QED BY <1>1, <1>3, <1>4

(* A product with a factor 0 is 0.                                         *)
LEMMA ProdZero ==
  ASSUME NEW f, NEW S, Numbers(f, S), NEW x \in S, f[x] = 0
  PROVE  Prod(f, S) = 0
<1>1. Prod(f, S) = f[x] * Prod(f, S \ {x})
  BY ProdProperties
<1>2. Numbers(f, S \ {x})
  BY NumbersSubset
<1>3. Prod(f, S \ {x}) \in Nat
  BY <1>2, ProdProperties
<1>4. \A y \in Nat : 0 * y = 0
  OBVIOUS
<1> QED BY <1>1, <1>3, <1>4

(* A product is positive when both its factors are.                        *)
LEMMA ProductPositive ==
  ASSUME NEW x \in Nat, NEW y \in Nat
  PROVE  x * y \in Nat /\ (x * y > 0 <=> x > 0 /\ y > 0)
<1>1. x = 0 => x * y = 0
  OBVIOUS
<1>2. y = 0 => x * y = 0
  OBVIOUS
<1>3. ASSUME x > 0, y > 0 PROVE x * y > 0
  <2>1. PICK z \in Nat : x = z + 1
    BY <1>3
  <2>2. (z + 1) * y = z * y + y /\ z * y \in Nat
    OBVIOUS
  <2> QED BY <1>3, <2>1, <2>2
<1>4. x * y \in Nat
  OBVIOUS
<1> QED BY <1>1, <1>2, <1>3, <1>4

(* The forward pass keeps weight along a step that has some.               *)
LEMMA AheadPositive ==
  ASSUME NEW S, NEW u, NEW M, NEW N, Weighs(S, u, M, N), NEW n \in 0..N - 1,
         NEW a, Numbers(a, S), NEW s \in S, NEW t \in S, a[s] > 0, M[n][s][t] > 0
  PROVE  Sum(Ahead(S, M, n, a, t), S) > 0
<1>1. \A z \in S : a[z] \in Nat /\ M[n][z][t] \in Nat
  BY DEF Weighs, Numbers
<1>2. \A z \in S : a[z] * M[n][z][t] \in Nat
  BY <1>1, ProductPositive
<1>3. Numbers(Ahead(S, M, n, a, t), S)
  BY <1>2 DEF Numbers, Ahead
<1>4. a[s] * M[n][s][t] > 0
  BY <1>1, ProductPositive
<1>5. Ahead(S, M, n, a, t)[s] > 0
  BY <1>4 DEF Ahead
<1> QED BY <1>3, <1>5, SumPositive

(* The backward pass keeps weight along a step that has some.              *)
LEMMA BackPositive ==
  ASSUME NEW S, NEW u, NEW M, NEW N, Weighs(S, u, M, N), NEW n \in 0..N - 1,
         NEW b, Numbers(b, S), NEW s \in S, NEW t \in S, b[t] > 0, M[n][s][t] > 0
  PROVE  Sum(Behind(S, M, n, b, s), S) > 0
<1>1. \A z \in S : b[z] \in Nat /\ M[n][s][z] \in Nat
  BY DEF Weighs, Numbers
<1>2. \A z \in S : M[n][s][z] * b[z] \in Nat
  BY <1>1, ProductPositive
<1>3. Numbers(Behind(S, M, n, b, s), S)
  BY <1>2 DEF Numbers, Behind
<1>4. M[n][s][t] * b[t] > 0
  BY <1>1, ProductPositive
<1>5. Behind(S, M, n, b, s)[t] > 0
  BY <1>4 DEF Behind
<1> QED BY <1>3, <1>5, SumPositive

(* Walks that stay within a set at each place, and rows that are computed  *)
(* for those.                                                              *)
Staying(S, K, n) == {p \in Walks(S, n) : \A j \in 0..n : p[j] \in K[j]}
Inside(S, M, K, n) ==
  [x \in 0..n - 1 |->
     [s \in S |-> [t \in S |-> IF s \in K[x] /\ t \in K[x + 1] THEN M[x][s][t] ELSE 0]]]
ForwardIn(S, u, M, K, i, A) ==
  /\ \A s \in S : A[0][s] = u[s]
  /\ \A j \in 0..i : \A s \in S : A[j][s] \in Nat
  /\ \A j \in 0..i - 1 : \A t \in K[j + 1] : A[j + 1][t] = Sum(Ahead(S, M, j, A[j], t), K[j])
BackwardIn(S, v, M, K, i, n, B) ==
  /\ \A s \in S : B[n][s] = v[s]
  /\ \A j \in i..n : \A s \in S : B[j][s] \in Nat
  /\ \A j \in i..n - 1 : \A s \in K[j] : B[j][s] = Sum(Behind(S, M, j, B[j + 1], s), K[j + 1])

(* The matrices inside K are those of M between states of K, and 0         *)
(* elsewhere.                                                              *)
LEMMA InsideSteps ==
  ASSUME NEW S, NEW M, NEW K, NEW n \in Nat, NEW x \in 0..n - 1, NEW s \in S, NEW t \in S
  PROVE  /\ s \in K[x] /\ t \in K[x + 1] => Inside(S, M, K, n)[x][s][t] = M[x][s][t]
         /\ s \notin K[x] \/ t \notin K[x + 1] => Inside(S, M, K, n)[x][s][t] = 0
BY DEF Inside

(* A forward pass that goes on from the states of K alone is a forward     *)
(* pass of the matrices inside K.                                          *)
LEMMA InsideForward ==
  ASSUME NEW S, NEW u, NEW M, NEW n, Weighs(S, u, M, n),
         NEW K, \A j \in 0..n : K[j] \subseteq S, NEW i \in 0..n,
         NEW A, ForwardIn(S, u, M, K, i, A),
         NEW a, \A j \in 0..i : \A s \in S : a[j][s] = IF j = 0 \/ s \in K[j] THEN A[j][s] ELSE 0
  PROVE  ForwardOn(S, u, Inside(S, M, K, n), i, a)
<1> DEFINE H == Inside(S, M, K, n)
<1>0. n \in Nat /\ IsFiniteSet(S) /\ \A x \in 0..n - 1 : \A s, t \in S : M[x][s][t] \in Nat
  BY DEF Weighs
<1>1. \A s \in S : a[0][s] = u[s]
  BY <1>0 DEF ForwardIn
<1>2. ASSUME NEW j \in 0..i - 1, NEW t \in S PROVE a[j + 1][t] = Sum(Ahead(S, H, j, a[j], t), S)
  <2> DEFINE f == Ahead(S, H, j, a[j], t)
             g == Ahead(S, M, j, A[j], t)
  <2>0. j \in 0..n - 1 /\ j \in 0..i /\ j + 1 \in 0..i /\ j + 1 # 0 /\ j \in 0..n
    BY <1>0
  <2>1. \A s \in S : a[j][s] \in Nat /\ (s \in K[j] => a[j][s] = A[j][s]) /\ A[j][s] \in Nat
    BY <2>0 DEF ForwardIn
  <2>2. \A s \in S : f[s] = a[j][s] * H[j][s][t] /\ g[s] = A[j][s] * M[j][s][t]
    BY DEF Ahead
  <2>3. \A s \in S : H[j][s][t] \in Nat /\ (s \notin K[j] \/ t \notin K[j + 1] => H[j][s][t] = 0)
                     /\ (s \in K[j] /\ t \in K[j + 1] => H[j][s][t] = M[j][s][t])
    <3>1. ASSUME NEW s \in S
          PROVE  /\ s \notin K[j] \/ t \notin K[j + 1] => H[j][s][t] = 0
                 /\ s \in K[j] /\ t \in K[j + 1] => H[j][s][t] = M[j][s][t]
      BY <1>0, <2>0, InsideSteps
    <3> HIDE DEF H
    <3>2. \A s \in S : M[j][s][t] \in Nat
      BY <1>0, <2>0
    <3> QED BY <3>1, <3>2
  <2> HIDE DEF f, g, H
  <2>4. \A x, y \in Nat : x * y \in Nat /\ x * 0 = 0
    OBVIOUS
  <2>5. \A s \in S : f[s] \in Nat /\ (s \notin K[j] \/ t \notin K[j + 1] => f[s] = 0)
                     /\ (s \in K[j] /\ t \in K[j + 1] => f[s] = g[s])
    <3>1. ASSUME NEW s \in S
          PROVE  f[s] \in Nat /\ (s \notin K[j] \/ t \notin K[j + 1] => f[s] = 0)
                 /\ (s \in K[j] /\ t \in K[j + 1] => f[s] = g[s])
      <4>1. f[s] = a[j][s] * H[j][s][t] /\ g[s] = A[j][s] * M[j][s][t]
        BY <2>2
      <4>2. a[j][s] \in Nat /\ H[j][s][t] \in Nat
        BY <2>1, <2>3
      <4>3. f[s] \in Nat
        BY <2>4, <4>1, <4>2
      <4>4. ASSUME s \notin K[j] \/ t \notin K[j + 1] PROVE f[s] = 0
        <5>1. H[j][s][t] = 0
          BY <2>3, <4>4
        <5> QED BY <2>4, <4>1, <4>2, <5>1
      <4>5. ASSUME s \in K[j], t \in K[j + 1] PROVE f[s] = g[s]
        BY <2>1, <2>3, <4>1, <4>5
      <4> QED BY <4>3, <4>4, <4>5
    <3> QED BY <3>1
  <2>6. Numbers(f, S)
    BY <1>0, <2>5 DEF Numbers
  <2>7. CASE t \in K[j + 1]
    <3>1. K[j] \subseteq S /\ \A s \in S \ K[j] : f[s] = 0
      BY <2>0, <2>5
    <3>2. Sum(f, S) = Sum(f, K[j])
      BY <2>6, <3>1, SumWhere
    <3>3. Numbers(f, K[j]) /\ \A s \in K[j] : f[s] = g[s]
      BY <2>5, <2>6, <2>7, <3>1, NumbersSubset
    <3>4. Sum(f, K[j]) = Sum(g, K[j])
      BY <3>3, SumCongruent
    <3>5. A[j + 1][t] = Sum(g, K[j])
      BY <2>0, <2>7 DEF ForwardIn, g
    <3>6. a[j + 1][t] = A[j + 1][t]
      BY <2>0, <2>7
    <3> QED BY <3>2, <3>4, <3>5, <3>6 DEF f
  <2>8. CASE t \notin K[j + 1]
    <3>1. a[j + 1][t] = 0
      BY <2>0, <2>8
    <3>2. Sum(f, S) = 0
      BY <1>0, <2>5, <2>8, SumOfZeros
    <3> QED BY <3>1, <3>2 DEF f
  <2> QED BY <2>7, <2>8
<1> QED BY <1>1, <1>2 DEF ForwardOn

(* A backward pass that goes on from the states of K alone is a backward   *)
(* pass of the matrices inside K.                                          *)
LEMMA InsideBackward ==
  ASSUME NEW S, NEW u, NEW M, NEW n, Weighs(S, u, M, n),
         NEW K, \A j \in 0..n : K[j] \subseteq S, NEW i \in 0..n, NEW v \in [S -> Nat],
         NEW B, BackwardIn(S, v, M, K, i, n, B),
         NEW b, \A j \in i..n : \A s \in S : b[j][s] = IF j = n \/ s \in K[j] THEN B[j][s] ELSE 0
  PROVE  BackwardOn(S, v, Inside(S, M, K, n), i, n, b)
<1> DEFINE H == Inside(S, M, K, n)
<1>0. n \in Nat /\ IsFiniteSet(S) /\ \A x \in 0..n - 1 : \A s, t \in S : M[x][s][t] \in Nat
  BY DEF Weighs
<1>1. \A s \in S : b[n][s] = v[s]
  <2>1. n \in i..n
    BY <1>0
  <2> QED BY <2>1 DEF BackwardIn
<1>2. ASSUME NEW j \in i..n - 1, NEW s \in S PROVE b[j][s] = Sum(Behind(S, H, j, b[j + 1], s), S)
  <2> DEFINE f == Behind(S, H, j, b[j + 1], s)
             g == Behind(S, M, j, B[j + 1], s)
  <2>0. j \in 0..n - 1 /\ j \in i..n /\ j + 1 \in i..n /\ j # n /\ j + 1 \in 0..n /\ j \in 0..n
    BY <1>0
  <2>1. \A t \in S : b[j + 1][t] \in Nat /\ (t \in K[j + 1] => b[j + 1][t] = B[j + 1][t]) /\ B[j + 1][t] \in Nat
    BY <2>0 DEF BackwardIn
  <2>2. \A t \in S : f[t] = H[j][s][t] * b[j + 1][t] /\ g[t] = M[j][s][t] * B[j + 1][t]
    BY DEF Behind
  <2>3. \A t \in S : H[j][s][t] \in Nat /\ (s \notin K[j] \/ t \notin K[j + 1] => H[j][s][t] = 0)
                     /\ (s \in K[j] /\ t \in K[j + 1] => H[j][s][t] = M[j][s][t])
    <3>1. ASSUME NEW t \in S
          PROVE  /\ s \notin K[j] \/ t \notin K[j + 1] => H[j][s][t] = 0
                 /\ s \in K[j] /\ t \in K[j + 1] => H[j][s][t] = M[j][s][t]
      BY <1>0, <2>0, InsideSteps
    <3> HIDE DEF H
    <3>2. \A t \in S : M[j][s][t] \in Nat
      BY <1>0, <2>0
    <3> QED BY <3>1, <3>2
  <2> HIDE DEF f, g, H
  <2>4. \A x, y \in Nat : x * y \in Nat /\ 0 * y = 0
    OBVIOUS
  <2>5. \A t \in S : f[t] \in Nat /\ (s \notin K[j] \/ t \notin K[j + 1] => f[t] = 0)
                     /\ (s \in K[j] /\ t \in K[j + 1] => f[t] = g[t])
    <3>1. ASSUME NEW t \in S
          PROVE  f[t] \in Nat /\ (s \notin K[j] \/ t \notin K[j + 1] => f[t] = 0)
                 /\ (s \in K[j] /\ t \in K[j + 1] => f[t] = g[t])
      <4>1. f[t] = H[j][s][t] * b[j + 1][t] /\ g[t] = M[j][s][t] * B[j + 1][t]
        BY <2>2
      <4>2. b[j + 1][t] \in Nat /\ H[j][s][t] \in Nat
        BY <2>1, <2>3
      <4>3. f[t] \in Nat
        BY <2>4, <4>1, <4>2
      <4>4. ASSUME s \notin K[j] \/ t \notin K[j + 1] PROVE f[t] = 0
        <5>1. H[j][s][t] = 0
          BY <2>3, <4>4
        <5> QED BY <2>4, <4>1, <4>2, <5>1
      <4>5. ASSUME s \in K[j], t \in K[j + 1] PROVE f[t] = g[t]
        BY <2>1, <2>3, <4>1, <4>5
      <4> QED BY <4>3, <4>4, <4>5
    <3> QED BY <3>1
  <2>6. Numbers(f, S)
    BY <1>0, <2>5 DEF Numbers
  <2>7. CASE s \in K[j]
    <3>1. K[j + 1] \subseteq S /\ \A t \in S \ K[j + 1] : f[t] = 0
      BY <2>0, <2>5
    <3>2. Sum(f, S) = Sum(f, K[j + 1])
      BY <2>6, <3>1, SumWhere
    <3>3. Numbers(f, K[j + 1]) /\ \A t \in K[j + 1] : f[t] = g[t]
      BY <2>5, <2>6, <2>7, <3>1, NumbersSubset
    <3>4. Sum(f, K[j + 1]) = Sum(g, K[j + 1])
      BY <3>3, SumCongruent
    <3>5. B[j][s] = Sum(g, K[j + 1])
      BY <2>0, <2>7 DEF BackwardIn, g
    <3>6. b[j][s] = B[j][s]
      BY <2>0, <2>7
    <3> QED BY <3>2, <3>4, <3>5, <3>6 DEF f
  <2>8. CASE s \notin K[j]
    <3>1. b[j][s] = 0
      BY <2>0, <2>8
    <3>2. Sum(f, S) = 0
      BY <1>0, <2>5, <2>8, SumOfZeros
    <3> QED BY <3>1, <3>2 DEF f
  <2> QED BY <2>7, <2>8
<1> QED BY <1>1, <1>2 DEF BackwardOn

(* The weight of a walk that stays, and of one that does not.              *)
LEMMA InsideWeights ==
  ASSUME NEW S, NEW u, NEW M, NEW n, Weighs(S, u, M, n), n # 0,
         NEW K, NEW v \in [S -> Nat], NEW p \in Walks(S, n)
  PROVE  /\ Weighs(S, u, Inside(S, M, K, n), n)
         /\ p \in Staying(S, K, n) =>
              WholeWalks(S, u, Inside(S, M, K, n), v, n)[p] = WholeWalks(S, u, M, v, n)[p]
         /\ p \notin Staying(S, K, n) => WholeWalks(S, u, Inside(S, M, K, n), v, n)[p] = 0
<1> DEFINE H == Inside(S, M, K, n)
<1>0. n \in Nat /\ IsFiniteSet(S) /\ u \in [S -> Nat]
      /\ \A x \in 0..n - 1 : \A s, t \in S : M[x][s][t] \in Nat
  BY DEF Weighs
<1>1. \A x \in 0..n - 1 : \A s, t \in S :
        /\ H[x][s][t] \in Nat
        /\ s \notin K[x] \/ t \notin K[x + 1] => H[x][s][t] = 0
        /\ s \in K[x] /\ t \in K[x + 1] => H[x][s][t] = M[x][s][t]
  <2>1. ASSUME NEW x \in 0..n - 1, NEW s \in S, NEW t \in S
        PROVE  /\ s \notin K[x] \/ t \notin K[x + 1] => H[x][s][t] = 0
               /\ s \in K[x] /\ t \in K[x + 1] => H[x][s][t] = M[x][s][t]
    BY <1>0, InsideSteps
  <2> HIDE DEF H
  <2> QED BY <1>0, <2>1
<1> HIDE DEF H
<1>2. Weighs(S, u, H, n)
  BY <1>0, <1>1 DEF Weighs
<1>3. /\ Numbers(StepWeights(H, p, n), 0..n - 1)
      /\ \A x \in 0..n - 1 : StepWeights(H, p, n)[x] = H[x][p[x]][p[x + 1]]
      /\ p[0] \in S /\ p[n] \in S
      /\ \A x \in 0..n - 1 : p[x] \in S /\ p[x + 1] \in S
  BY <1>2, StepsAreNumbers
<1>4. \A x \in 0..n - 1 : StepWeights(M, p, n)[x] = M[x][p[x]][p[x + 1]]
  BY DEF StepWeights
<1>5. /\ WholeWalks(S, u, H, v, n)[p] = (u[p[0]] * Prod(StepWeights(H, p, n), 0..n - 1)) * v[p[n]]
      /\ WholeWalks(S, u, M, v, n)[p] = (u[p[0]] * Prod(StepWeights(M, p, n), 0..n - 1)) * v[p[n]]
  BY DEF WholeWalks, WalkWeights
<1>6. ASSUME p \in Staying(S, K, n)
      PROVE  WholeWalks(S, u, H, v, n)[p] = WholeWalks(S, u, M, v, n)[p]
  <2>1. \A x \in 0..n - 1 : p[x] \in K[x] /\ p[x + 1] \in K[x + 1]
    <3>1. \A j \in 0..n : p[j] \in K[j]
      BY <1>6 DEF Staying
    <3>2. \A x \in 0..n - 1 : x \in 0..n /\ x + 1 \in 0..n
      BY <1>0
    <3> QED BY <3>1, <3>2
  <2>2. \A x \in 0..n - 1 : StepWeights(H, p, n)[x] = StepWeights(M, p, n)[x]
    <3>1. ASSUME NEW x \in 0..n - 1 PROVE StepWeights(H, p, n)[x] = StepWeights(M, p, n)[x]
      <4>1. p[x] \in S /\ p[x + 1] \in S /\ p[x] \in K[x] /\ p[x + 1] \in K[x + 1]
        BY <1>3, <2>1
      <4>2. H[x][p[x]][p[x + 1]] = M[x][p[x]][p[x + 1]]
        BY <1>1, <4>1
      <4> QED BY <1>3, <1>4, <4>2
    <3> QED BY <3>1
  <2>3. Prod(StepWeights(H, p, n), 0..n - 1) = Prod(StepWeights(M, p, n), 0..n - 1)
    BY <1>3, <2>2, ProdCongruent
  <2> QED BY <1>5, <2>3
<1>7. ASSUME p \notin Staying(S, K, n)
      PROVE  WholeWalks(S, u, H, v, n)[p] = 0
  <2>1. PICK j \in 0..n : p[j] \notin K[j]
    BY <1>7 DEF Staying
  <2>2. \E x \in 0..n - 1 : StepWeights(H, p, n)[x] = 0
    <3>1. CASE j \in 0..n - 1
      BY <1>1, <1>3, <2>1, <3>1
    <3>2. CASE j \notin 0..n - 1
      <4>1. PICK x \in 0..n - 1 : x + 1 = j
        <5>1. n - 1 \in 0..n - 1 /\ (n - 1) + 1 = j
          BY <1>0, <3>2
        <5> QED BY <5>1
      <4>2. p[x] \in S /\ p[x + 1] \in S /\ p[x + 1] \notin K[x + 1]
        BY <1>3, <2>1, <4>1
      <4>3. H[x][p[x]][p[x + 1]] = 0
        BY <1>1, <4>2
      <4> QED BY <1>3, <4>3
    <3> QED BY <3>1, <3>2
  <2>3. PICK x \in 0..n - 1 : StepWeights(H, p, n)[x] = 0
    BY <2>2
  <2>4. Prod(StepWeights(H, p, n), 0..n - 1) = 0
    BY <1>3, <2>3, ProdZero
  <2>5. u[p[0]] \in Nat /\ v[p[n]] \in Nat
    BY <1>0, <1>3
  <2>6. \A y, z \in Nat : (y * 0) * z = 0
    OBVIOUS
  <2> QED BY <1>5, <2>4, <2>5, <2>6
<1> QED BY <1>2, <1>6, <1>7 DEF H

(* Wherever the two passes meet, they have summed the walks that stay.     *)
LEMMA KeptWalks ==
  ASSUME NEW S, NEW u, NEW M, NEW n, Weighs(S, u, M, n), n # 0, NEW v \in [S -> Nat],
         NEW K, \A j \in 0..n : K[j] \subseteq S, NEW i \in 0..n,
         NEW A, ForwardIn(S, u, M, K, i, A),
         NEW B, BackwardIn(S, v, M, K, i, n, B)
  PROVE  Sum(WholeWalks(S, u, M, v, n), Staying(S, K, n)) = Sum(Meets(S, A[i], B[i]), K[i])
<1> DEFINE H == Inside(S, M, K, n)
           a == [j \in 0..i |-> [s \in S |-> IF j = 0 \/ s \in K[j] THEN A[j][s] ELSE 0]]
           b == [j \in i..n |-> [s \in S |-> IF j = n \/ s \in K[j] THEN B[j][s] ELSE 0]]
<1>0. n \in Nat /\ IsFiniteSet(S) /\ i \in 0..i /\ i \in i..n /\ K[i] \subseteq S
  BY DEF Weighs
<1>1. /\ \A j \in 0..i : \A s \in S : a[j][s] = IF j = 0 \/ s \in K[j] THEN A[j][s] ELSE 0
      /\ \A j \in i..n : \A s \in S : b[j][s] = IF j = n \/ s \in K[j] THEN B[j][s] ELSE 0
  OBVIOUS
<1> HIDE DEF a, b, H
<1>2. ForwardOn(S, u, H, i, a)
  BY <1>1, InsideForward DEF H
<1>3. BackwardOn(S, v, H, i, n, b)
  BY <1>1, InsideBackward DEF H
<1>4. Weighs(S, u, H, n)
  <2>1. n \in Nat /\ u \in [S -> Nat] /\ \A x \in 0..n - 1 : \A s, t \in S : M[x][s][t] \in Nat
    BY DEF Weighs
  <2>2. ASSUME NEW x \in 0..n - 1, NEW s \in S, NEW t \in S PROVE H[x][s][t] \in Nat
    <3>1. H[x][s][t] = M[x][s][t] \/ H[x][s][t] = 0
      BY <1>0, InsideSteps DEF H
    <3> QED BY <2>1, <3>1
  <2> QED BY <1>0, <2>1, <2>2 DEF Weighs
<1>5. Sum(WholeWalks(S, u, H, v, n), Walks(S, n)) = Sum(Meets(S, a[i], b[i]), S)
  BY <1>2, <1>3, <1>4, TwoPasses
<1>6. Sum(Meets(S, a[i], b[i]), S) = Sum(Meets(S, A[i], B[i]), K[i])
  <2> DEFINE f == Meets(S, a[i], b[i])
             g == Meets(S, A[i], B[i])
  <2>1. \A s \in S : f[s] = a[i][s] * b[i][s] /\ g[s] = A[i][s] * B[i][s]
    BY DEF Meets
  <2>2. \A s \in S : A[i][s] \in Nat /\ B[i][s] \in Nat
    BY <1>0 DEF ForwardIn, BackwardIn
  <2>3. \A s \in S : a[i][s] \in Nat /\ b[i][s] \in Nat
    BY <1>0, <1>1, <2>2
  <2>4. \A s \in K[i] : a[i][s] = A[i][s] /\ b[i][s] = B[i][s]
    BY <1>0, <1>1
  <2>5. \A s \in S \ K[i] : a[i][s] = 0 \/ b[i][s] = 0
    BY <1>0, <1>1
  <2> HIDE DEF f, g
  <2>6. \A x, y \in Nat : x * y \in Nat /\ x * 0 = 0 /\ 0 * y = 0
    OBVIOUS
  <2>7. (\A s \in S : f[s] \in Nat) /\ (\A s \in S \ K[i] : f[s] = 0) /\ (\A s \in K[i] : f[s] = g[s])
    <3>1. \A s \in S : f[s] \in Nat
      BY <2>1, <2>3, <2>6
    <3>2. \A s \in S \ K[i] : f[s] = 0
      BY <2>1, <2>3, <2>5, <2>6, Zenon
    <3>3. \A s \in K[i] : f[s] = g[s]
      BY <1>0, <2>1, <2>4
    <3> QED BY <3>1, <3>2, <3>3
  <2>8. Numbers(f, S) /\ Numbers(f, K[i])
    <3>1. Numbers(f, S)
      BY <1>0, <2>7 DEF Numbers
    <3> QED BY <1>0, <3>1, NumbersSubset
  <2>9. Sum(f, S) = Sum(f, K[i])
    BY <1>0, <2>7, <2>8, SumWhere
  <2>10. Sum(f, K[i]) = Sum(g, K[i])
    BY <2>7, <2>8, SumCongruent
  <2> QED BY <2>9, <2>10 DEF f, g
<1>7. Sum(WholeWalks(S, u, H, v, n), Walks(S, n)) = Sum(WholeWalks(S, u, M, v, n), Staying(S, K, n))
  <2> DEFINE f == WholeWalks(S, u, H, v, n)
             g == WholeWalks(S, u, M, v, n)
             W == Walks(S, n)
             T == Staying(S, K, n)
  <2>1. ASSUME NEW p \in W
        PROVE  (p \in T => f[p] = g[p]) /\ (p \notin T => f[p] = 0)
    <3>1. /\ p \in Staying(S, K, n) =>
               WholeWalks(S, u, Inside(S, M, K, n), v, n)[p] = WholeWalks(S, u, M, v, n)[p]
          /\ p \notin Staying(S, K, n) => WholeWalks(S, u, Inside(S, M, K, n), v, n)[p] = 0
      BY InsideWeights
    <3> QED BY <3>1 DEF H
  <2>2. Numbers(f, W)
    BY <1>4, WalksEnd
  <2>3. T \subseteq W
    BY DEF Staying
  <2> HIDE DEF f, g, W, T
  <2>4. Sum(f, W) = Sum(f, T)
    BY <2>1, <2>2, <2>3, SumWhere
  <2>5. Numbers(f, T)
    BY <2>2, <2>3, NumbersSubset
  <2>6. \A p \in T : f[p] = g[p]
    BY <2>1, <2>3
  <2>7. Sum(f, T) = Sum(g, T)
    BY <2>5, <2>6, SumCongruent
  <2> QED BY <2>4, <2>7 DEF f, g, W, T
<1> QED BY <1>5, <1>6, <1>7
=============================================================================
