-------------------------- MODULE DeviceDecoder_proofs --------------------------
(***************************************************************************)
(* PosteriorsExact holds in every state, for all decoders and frames, on   *)
(* the host and on a graphics processor. The argument has four parts.      *)
(*   - Sums over paths (DeviceSums, HostSymbols): rows that two passes     *)
(*     make step by step, and a table where they meet, sum the paths       *)
(*     through the states that are kept.                                   *)
(*   - The host (HostInv): memory holds the metrics of the frame wherever  *)
(*     it is valid, and the rows that are made are those of the two        *)
(*     passes.                                                             *)
(*   - The queue (Contract): for any number of codewords and streams, both *)
(*     paths order all kernels that share memory one of them writes, each  *)
(*     user of metrics finds those of its codeword, and each row is made   *)
(*     once, after what it needs.                                          *)
(*   - The device (DeviceInv): whatever the order in which kernels begin   *)
(*     and end, what those that have ended made is still there, and exact. *)
(***************************************************************************)
EXTENDS DeviceDecoder, Induction, SequenceTheorems

(***************************************************************************)
(* Where the commands of a flattened sequence are                          *)
(***************************************************************************)
(* off[j] is how many commands the first j sequences hold.                 *)
Offsets(seqs, n, off) ==
  /\ off \in [0..n -> Nat] /\ off[0] = 0
  /\ \A j \in 1..n : off[j] = off[j - 1] + Len(seqs[j])
Flattened(seqs, n, F, off) ==
  /\ Len(F) = off[n]
  /\ \A j \in 1..n : \A y \in 1..Len(seqs[j]) : F[off[j - 1] + y] = seqs[j][y]
  /\ \A k \in 1..Len(F) : \E j \in 1..n : k \in off[j - 1] + 1..off[j]

(* The offsets of the sequences that are flattened do not decrease.        *)
LEMMA OffsetsGrow ==
  ASSUME NEW n \in Nat, NEW seqs, NEW off, Offsets(seqs, n, off),
         \A j \in 1..n : Len(seqs[j]) \in Nat
  PROVE  \A j \in 0..n : \A i \in 0..j : off[i] <= off[j]
<1> DEFINE G == {j \in 0..n : \A i \in 0..j : off[i] <= off[j]}
<1>1. 0 \in G
  BY DEF Offsets
<1>2. ASSUME NEW j \in 1..n, j - 1 \in G PROVE j \in G
  <2>1. off[j] = off[j - 1] + Len(seqs[j]) /\ off[j] \in Nat /\ off[j - 1] \in Nat
    BY DEF Offsets
  <2>2. \A i \in 0..j - 1 : off[i] <= off[j - 1] /\ off[i] \in Nat
    BY <1>2 DEF Offsets
  <2>3. ASSUME NEW i \in 0..j PROVE off[i] <= off[j]
    <3>1. CASE i = j
      BY <3>1, <2>1
    <3>2. CASE i # j
      <4>1. i \in 0..j - 1
        BY <3>2
      <4> QED BY <2>1, <2>2, <4>1
    <3> QED BY <3>1, <3>2
  <2> QED BY <2>3
<1> HIDE DEF G
<1>3. \A j \in 0..n : j \in G
  BY <1>1, <1>2, IntervalInduction
<1> QED BY <1>3 DEF G

(* FlattenSeq puts the sequences one after the other, each at its offset.  *)
LEMMA FlattenedParts ==
  ASSUME NEW T, NEW n \in Nat \ {0}, NEW seqs \in [1..n -> Seq(T)]
  PROVE  /\ FlattenSeq(seqs) \in Seq(T)
         /\ \E off : Offsets(seqs, n, off) /\ Flattened(seqs, n, FlattenSeq(seqs), off)
<1> DEFINE A == Seq(T)
           h == [p \in Nat \X A |-> IF p[1] \in 1..n THEN p[2] \o seqs[p[1]] ELSE p[2]]
           Def(f) == [i \in 1..n |-> IF i = 1 THEN seqs[i] ELSE f[i - 1] \o seqs[i]]
<1>1. h \in [Nat \X A -> A]
  OBVIOUS
<1>2. PICK g \in [0..n -> A] : g[0] = <<>> /\ \A i \in 1..n : g[i] = h[<<i, g[i - 1]>>]
  <2>1. <<>> \in A
    OBVIOUS
  <2> HIDE DEF A, h
  <2>2. Recursion(A, <<>>, h, n) # {}
    BY <1>1, <2>1, RecursionExists
  <2> QED BY <2>2 DEF Recursion
<1>3. \A i \in 1..n : g[i] = g[i - 1] \o seqs[i] /\ g[i] \in Seq(T) /\ g[i - 1] \in Seq(T)
  <2>1. ASSUME NEW i \in 1..n PROVE g[i] = g[i - 1] \o seqs[i] /\ g[i] \in Seq(T) /\ g[i - 1] \in Seq(T)
    <3>1. i - 1 \in 0..n /\ i \in Nat /\ i \in 0..n
      OBVIOUS
    <3>2. <<i, g[i - 1]>> \in Nat \X A
      BY <3>1
    <3> QED BY <1>2, <3>1, <3>2
  <2> QED BY <2>1
<1>e. \A s \in Seq(T) : <<>> \o s = s
  BY ConcatEmptySeq
<1>c. \A s, q \in Seq(T) :
        /\ s \o q \in Seq(T) /\ Len(s \o q) = Len(s) + Len(q)
        /\ \A x \in 1..Len(s) + Len(q) :
             (s \o q)[x] = IF x <= Len(s) THEN s[x] ELSE q[x - Len(s)]
  BY ConcatProperties
<1>f. g[1] = seqs[1]
  <2>1. 1 \in 1..n /\ seqs[1] \in Seq(T)
    OBVIOUS
  <2>2. g[1] = g[1 - 1] \o seqs[1]
    BY <1>3, <2>1
  <2>3. g[1 - 1] = <<>>
    BY <1>2
  <2> QED BY <1>e, <2>1, <2>2, <2>3
<1> HIDE DEF h
<1> DEFINE f == [i \in 1..n |-> g[i]]
<1>4. f = Def(f)
  <2>1. ASSUME NEW i \in 1..n
        PROVE  f[i] = IF i = 1 THEN seqs[i] ELSE f[i - 1] \o seqs[i]
    <3>1. CASE i = 1
      <4>1. f[i] = g[1]
        BY <3>1
      <4> QED BY <1>f, <3>1, <4>1
    <3>2. CASE i # 1
      <4>1. f[i] = g[i] /\ f[i - 1] = g[i - 1]
        BY <3>2
      <4> QED BY <1>3, <3>2, <4>1
    <3> QED BY <3>1, <3>2
  <2> QED BY <2>1
<1>5. ASSUME NEW q, q = Def(q) PROVE q[n] = g[n]
  <2> DEFINE G == {i \in 0..n : i = 0 \/ q[i] = g[i]}
  <2>1. 0 \in G
    OBVIOUS
  <2>2. ASSUME NEW i \in 1..n, i - 1 \in G PROVE i \in G
    <3>1. q[i] = IF i = 1 THEN seqs[i] ELSE q[i - 1] \o seqs[i]
      <4> HIDE DEF G
      <4> QED BY <1>5
    <3>2. CASE i = 1
      <4>1. q[i] = seqs[1]
        BY <3>1, <3>2
      <4> QED BY <1>f, <3>2, <4>1
    <3>3. CASE i # 1
      <4>1. q[i - 1] = g[i - 1]
        BY <2>2, <3>3
      <4>2. q[i] = q[i - 1] \o seqs[i]
        BY <3>1, <3>3
      <4>3. g[i] = g[i - 1] \o seqs[i]
        BY <1>3
      <4>4. q[i] = g[i]
        BY <4>1, <4>2, <4>3
      <4> QED BY <4>4
    <3> QED BY <3>2, <3>3
  <2> HIDE DEF G
  <2>3. \A i \in 0..n : i \in G
    BY <2>1, <2>2, IntervalInduction
  <2> QED BY <2>3 DEF G
<1>6. FlattenSeq(seqs) = g[n]
  <2> DEFINE q == CHOOSE q : q = Def(q)
  <2>1. q = Def(q)
    <3> HIDE DEF Def, f
    <3> QED BY <1>4
  <2>2. Len(seqs) = n
    OBVIOUS
  <2>3. FlattenSeq(seqs) = q[n]
    BY <2>2 DEF FlattenSeq
  <2> HIDE DEF q, Def
  <2> QED BY <1>5, <2>1, <2>3
<1> DEFINE off == [i \in 0..n |-> Len(g[i])]
<1>7. Offsets(seqs, n, off)
  <2>1. \A i \in 0..n : g[i] \in Seq(T) /\ Len(g[i]) \in Nat
    OBVIOUS
  <2>2. \A i \in 1..n : Len(g[i]) = Len(g[i - 1]) + Len(seqs[i])
    <3>1. ASSUME NEW i \in 1..n PROVE Len(g[i]) = Len(g[i - 1]) + Len(seqs[i])
      <4>1. g[i] = g[i - 1] \o seqs[i] /\ g[i - 1] \in Seq(T) /\ seqs[i] \in Seq(T)
        BY <1>3
      <4> QED BY <1>c, <4>1
    <3> QED BY <3>1
  <2>3. Len(g[0]) = 0
    BY <1>2
  <2>4. off \in [0..n -> Nat]
    BY <2>1
  <2>5. off[0] = 0
    BY <2>3
  <2>6. \A i \in 1..n : off[i] = off[i - 1] + Len(seqs[i])
    <3>1. ASSUME NEW i \in 1..n PROVE off[i] = off[i - 1] + Len(seqs[i])
      <4>1. off[i] = Len(g[i]) /\ off[i - 1] = Len(g[i - 1])
        OBVIOUS
      <4> QED BY <2>2, <4>1
    <3> QED BY <3>1
  <2> HIDE DEF off
  <2> QED BY <2>4, <2>5, <2>6 DEF Offsets
<1>8. \A i \in 0..n : off[i] = Len(g[i])
  OBVIOUS
<1> HIDE DEF f, off
<1> DEFINE G == {i \in 0..n : Flattened(seqs, i, g[i], off)}
<1>9. 0 \in G
  BY SMTT(40), <1>2, <1>8 DEF Flattened
<1>10. ASSUME NEW i \in 1..n, i - 1 \in G PROVE i \in G
  <2> DEFINE a == g[i - 1]
             b == seqs[i]
  <2>1. g[i] = a \o b /\ a \in Seq(T) /\ b \in Seq(T)
    BY <1>3
  <2>2. Flattened(seqs, i - 1, a, off)
    BY <1>10
  <2>3. Len(a) = off[i - 1] /\ Len(g[i]) = off[i] /\ off[i] = off[i - 1] + Len(b)
        /\ off[i - 1] \in Nat /\ off[i] \in Nat
    <3>1. i \in 0..n /\ i - 1 \in 0..n
      OBVIOUS
    <3>2. off[i] = Len(g[i]) /\ off[i - 1] = Len(a)
      BY <1>8, <3>1
    <3>3. off[i] = off[i - 1] + Len(b) /\ off[i] \in Nat /\ off[i - 1] \in Nat
      BY <1>7, <3>1 DEF Offsets
    <3> QED BY <3>2, <3>3
  <2>4. \A j \in 1..n : off[j] \in Nat /\ off[j - 1] \in Nat /\ off[j] = off[j - 1] + Len(seqs[j])
    BY <1>7 DEF Offsets
  <2>5. \A j \in 1..i - 1 : off[j] <= off[i - 1]
    <3>1. \A j \in 1..n : Len(seqs[j]) \in Nat
      OBVIOUS
    <3>2. \A j \in 0..n : \A k \in 0..j : off[k] <= off[j]
      BY <1>7, <3>1, OffsetsGrow
    <3> QED BY <3>2
  <2> HIDE DEF a, b
  <2>6. ASSUME NEW j \in 1..i, NEW y \in 1..Len(seqs[j]) PROVE g[i][off[j - 1] + y] = seqs[j][y]
    <3>1. CASE j = i
      <4>1. off[j - 1] + y \in Len(a) + 1..Len(a) + Len(b) /\ (off[j - 1] + y) - Len(a) = y
        <5>1. y \in 1..Len(b) /\ off[j - 1] = Len(a) /\ Len(a) \in Nat /\ Len(b) \in Nat
          BY <2>1, <2>3, <3>1 DEF b
        <5> QED BY <5>1
      <4>2. (a \o b)[off[j - 1] + y] = b[y]
        <5>1. Len(a) \in Nat /\ Len(b) \in Nat
          BY SMTT(40), <2>1
        <5>2. off[j - 1] + y \in 1..Len(a) + Len(b) /\ ~ (off[j - 1] + y <= Len(a))
          BY SMTT(40), <4>1, <5>1
        <5> QED BY SMTT(40), <1>c, <2>1, <4>1, <5>2
      <4> QED BY <2>1, <3>1, <4>2 DEF b
    <3>2. CASE j # i
      <4>1. j \in 1..i - 1 /\ j \in 1..n
        BY <3>2
      <4>2. off[j - 1] + y \in 1..Len(a)
        <5>1. off[j] \in Nat /\ off[j - 1] \in Nat /\ off[j] = off[j - 1] + Len(seqs[j])
              /\ off[j] <= Len(a) /\ Len(a) \in Nat
          BY <2>3, <2>4, <2>5, <4>1
        <5>2. Len(seqs[j]) \in Nat
          BY <4>1
        <5>3. PICK m \in Nat : m = Len(seqs[j])
          BY <5>2
        <5>4. y \in 1..m /\ off[j] = off[j - 1] + m
          BY <5>1, <5>3
        <5>5. \A p, q, l \in Nat : q = p + m /\ q <= l => p + y \in 1..l
          BY <5>4
        <5> QED BY <5>1, <5>4, <5>5, Zenon
      <4>3. (a \o b)[off[j - 1] + y] = a[off[j - 1] + y]
        <5>1. Len(a) \in Nat /\ Len(b) \in Nat
          BY SMTT(40), <2>1
        <5>2. off[j - 1] + y \in 1..Len(a) + Len(b) /\ off[j - 1] + y <= Len(a)
          BY <4>2, <5>1
        <5> QED BY <1>c, <2>1, <5>2
      <4>4. a[off[j - 1] + y] = seqs[j][y]
        BY <2>2, <4>1 DEF Flattened
      <4> QED BY <2>1, <4>3, <4>4
    <3> QED BY <3>1, <3>2
  <2>7. ASSUME NEW k \in 1..Len(g[i]) PROVE \E j \in 1..i : k \in off[j - 1] + 1..off[j]
    <3>1. CASE k <= Len(a)
      <4>1. k \in 1..Len(a)
        BY <2>1, <3>1
      <4>2. \E j \in 1..i - 1 : k \in off[j - 1] + 1..off[j]
        BY <2>2, <4>1 DEF Flattened
      <4> QED BY <4>2
    <3>2. CASE k > Len(a)
      <4>1. k \in off[i - 1] + 1..off[i] /\ i \in 1..i
        <5>1. k \in 1..off[i] /\ off[i] \in Nat /\ off[i - 1] \in Nat /\ k > off[i - 1]
          BY <2>3, <3>2
        <5> QED BY <5>1
      <4> QED BY <4>1
    <3> QED BY SMTT(40), <2>3, <3>1, <3>2
  <2>8. Flattened(seqs, i, g[i], off)
    BY <2>3, <2>6, <2>7 DEF Flattened
  <2> QED BY <2>8
<1> HIDE DEF G
<1>11. \A i \in 0..n : i \in G
  BY <1>9, <1>10, IntervalInduction
<1>12. Flattened(seqs, n, g[n], off)
  BY <1>11 DEF G
<1> QED BY <1>6, <1>7, <1>12

(***************************************************************************)
(* Streams                                                                 *)
(***************************************************************************)
(* Counting on from a multiple of d, remainders count from 0, and start    *)
(* again after d - 1.                                                      *)
LEMMA RestProperties ==
  ASSUME NEW d \in Nat \ {0}, NEW a \in Nat
  PROVE  /\ a % d \in 0..d - 1 /\ a - (a % d) \in Nat
         /\ \A x \in 0..d - 1 : ((a - (a % d)) + x) % d = x
         /\ (a + 1) % d = IF a % d = d - 1 THEN 0 ELSE (a % d) + 1
<1> DEFINE q == a \div d
           r == a % d
<1>1. a = q * d + r /\ r \in 0..d - 1 /\ q \in Nat
  BY Remainders
<1> HIDE DEF q, r
<1>2. q * d \in Nat /\ a - r = q * d
  <2>1. q * d \in Nat
    BY <1>1
  <2> QED BY <1>1, <2>1
<1>3. \A x \in 0..d - 1 : (q * d + x) % d = x
  BY <1>1, Digits
<1>4. (a + 1) % d = IF r = d - 1 THEN 0 ELSE r + 1
  <2>1. CASE r = d - 1
    <3>1. a + 1 = (q + 1) * d + 0
      BY <1>1, <2>1
    <3>2. ((q + 1) * d + 0) % d = 0
      <4>1. q + 1 \in Nat /\ 0 \in 0..d - 1
        BY <1>1
      <4> QED BY <4>1, Digits
    <3> QED BY <2>1, <3>1, <3>2
  <2>2. CASE r # d - 1
    <3>1. r + 1 \in 0..d - 1 /\ a + 1 = q * d + (r + 1)
      BY <1>1, <1>2, <2>2
    <3> QED BY <1>3, <2>2, <3>1
  <2> QED BY <2>1, <2>2
<1> QED BY <1>1, <1>2, <1>3, <1>4 DEF r

(* Two numbers with the same remainder are a multiple of the divisor       *)
(* apart.                                                                  *)
LEMMA SameRest ==
  ASSUME NEW d \in Nat \ {0}, NEW a \in Nat, NEW b \in Nat, a < b, a % d = b % d
  PROVE  b >= a + d
<1> DEFINE q == a \div d
           p == b \div d
           r == a % d
<1>1. a = q * d + r /\ b = p * d + r /\ r \in 0..d - 1 /\ q \in Nat /\ p \in Nat
  BY Remainders
<1> HIDE DEF q, r, p
<1>2. q * d \in Nat /\ p * d \in Nat
  BY <1>1
<1>3. q < p
  <2>1. CASE q = p
    BY <1>1, <1>2, <2>1
  <2>2. CASE p < q
    <3>1. p * d + d <= q * d
      BY <1>1, <2>2, Multiple
    <3> QED BY <1>1, <1>2, <3>1
  <2> QED BY <1>1, <2>1, <2>2
<1>4. q * d + d <= p * d
  BY <1>1, <1>3, Multiple
<1> QED BY <1>1, <1>2, <1>4

(***************************************************************************)
(* Breadth-first issue                                                     *)
(***************************************************************************)
Sizes == fba.N \in Nat \ {0} /\ fba.depth \in Nat \ {0}

(* The first of the group of i.                                            *)
Leader(i) == i - ((i - 1) % fba.depth)

(* The groups of InGroups: they start at every depth-th index, and each    *)
(* index is in the group of its leader and in no other.                    *)
LEMMA GroupProperties ==
  ASSUME Sizes
  PROVE  /\ \A j \in 1..fba.N :
              /\ Group(j) \in 0..fba.N - j + 1
              /\ Group(j) > 0 => (j - 1) % fba.depth = 0 /\ Group(j) <= fba.depth
         /\ \A i \in 1..fba.N :
              /\ Leader(i) \in 1..i /\ Leader(i) >= i - fba.depth + 1
              /\ i - Leader(i) + 1 \in 1..Group(Leader(i))
              /\ \A j \in 1..i : i - j < Group(j) => j = Leader(i)
<1> DEFINE N == fba.N
           d == fba.depth
<1>0. N \in Nat \ {0} /\ d \in Nat \ {0}
  BY DEF Sizes
<1>1. ASSUME NEW j \in 1..N
      PROVE  Group(j) = IF (j - 1) % d = 0 THEN (IF d <= N - j + 1 THEN d ELSE N - j + 1) ELSE 0
  <2>1. \A x, y \in Int : Min({x, y}) = IF x <= y THEN x ELSE y
    BY DEF Min
  <2>2. d \in Int /\ N - j + 1 \in Int
    BY <1>0
  <2>3. Min({d, N - j + 1}) = IF d <= N - j + 1 THEN d ELSE N - j + 1
    BY <2>1, <2>2
  <2> QED BY <2>3 DEF Group
<1>2. ASSUME NEW j \in 1..N
      PROVE  /\ Group(j) \in 0..N - j + 1
             /\ Group(j) > 0 => (j - 1) % d = 0 /\ Group(j) <= d
  <2> HIDE DEF N, d
  <2> QED BY <1>0, <1>1
<1>3. ASSUME NEW i \in 1..N
      PROVE  /\ Leader(i) \in 1..i /\ Leader(i) >= i - d + 1
             /\ i - Leader(i) + 1 \in 1..Group(Leader(i))
             /\ \A j \in 1..i : i - j < Group(j) => j = Leader(i)
  <2> DEFINE r == (i - 1) % d
             l == Leader(i)
  <2>1. i - 1 \in Nat
    BY <1>0
  <2>2. r \in 0..d - 1 /\ (i - 1) - r \in Nat /\ ((i - 1) - r + 0) % d = 0
    <3> HIDE DEF N, d
    <3>1. 0 \in 0..d - 1
      BY <1>0
    <3> QED BY <1>0, <2>1, <3>1, RestProperties
  <2>3. l = i - r
    BY DEF Leader
  <2> HIDE DEF r, l, N, d
  <2>4. l - 1 = (i - 1) - r + 0 /\ l \in 1..i /\ l \in 1..N /\ l >= i - d + 1
    BY <1>0, <2>2, <2>3
  <2>5. (l - 1) % d = 0
    BY <2>2, <2>4
  <2>6. i - l + 1 \in 1..Group(l)
    BY <1>0, <1>1, <2>2, <2>3, <2>4, <2>5
  <2>7. ASSUME NEW j \in 1..i, i - j < Group(j) PROVE j = l
    <3>1. (j - 1) % d = 0 /\ i - j \in 0..d - 1 /\ j - 1 \in Nat
      BY <1>0, <1>2, <2>7
    <3>2. ((j - 1) - ((j - 1) % d) + (i - j)) % d = i - j
      BY <1>0, <3>1, RestProperties
    <3>3. (j - 1) - ((j - 1) % d) + (i - j) = i - 1
      <4> DEFINE z == (j - 1) % d
      <4>1. z = 0
        BY <3>1
      <4> HIDE DEF z
      <4>2. (j - 1) - z + (i - j) = i - 1
        BY <3>1, <4>1
      <4> QED BY <4>2 DEF z
    <3>4. r = i - j
      BY <3>2, <3>3 DEF r
    <3> QED BY <1>0, <2>3, <3>4
  <2> QED BY <2>4, <2>6, <2>7 DEF l
<1> QED BY <1>2, <1>3

(* The metrics of i are at g[i], before its stage, at a[i] + 1 onwards.    *)
Placed(F, metrics, stages, m, a, g) ==
  /\ a \in [1..fba.N -> Nat] /\ g \in [1..fba.N -> Nat]
  /\ \A i \in 1..fba.N :
       /\ g[i] \in 1..a[i] /\ a[i] + m <= Len(F)
       /\ F[g[i]] = metrics[i] /\ \A y \in 1..m : F[a[i] + y] = stages[i][y]
  /\ \A h \in 1..fba.N : \A i \in h + 1..fba.N :
       /\ a[h] + m <= a[i]
       /\ (h - 1) % fba.depth = (i - 1) % fba.depth => a[h] + m < g[i]
  /\ \A k \in 1..Len(F) : \E i \in 1..fba.N : k = g[i] \/ k \in a[i] + 1..a[i] + m

(* In what InGroups makes, each metric and each stage has its place, the   *)
(* metric of an index before its stage.                                    *)
LEMMA InGroupsPlaced ==
  ASSUME Sizes, NEW T, NEW metrics \in [1..fba.N -> T], NEW stages \in [1..fba.N -> Seq(T)],
         NEW m \in Nat \ {0}, \A j \in 1..fba.N : Len(stages[j]) = m
  PROVE  /\ InGroups(metrics, stages) \in Seq(T)
         /\ \E a, g : Placed(InGroups(metrics, stages), metrics, stages, m, a, g)
<1> DEFINE N == fba.N
           d == fba.depth
           led(j) == [x \in 1..Group(j) |-> metrics[j + x - 1]]
           seqs == [j \in 1..N |-> led(j) \o stages[j]]
           F == InGroups(metrics, stages)
<1>0. N \in Nat \ {0} /\ d \in Nat \ {0}
  BY DEF Sizes
<1>1. ASSUME NEW j \in 1..N
      PROVE  /\ Group(j) \in 0..N - j + 1
             /\ Group(j) > 0 => (j - 1) % d = 0 /\ Group(j) <= d
  BY GroupProperties
<1>2. ASSUME NEW i \in 1..N
      PROVE  /\ Leader(i) \in 1..i /\ Leader(i) >= i - d + 1
             /\ i - Leader(i) + 1 \in 1..Group(Leader(i))
             /\ \A j \in 1..i : i - j < Group(j) => j = Leader(i)
  BY GroupProperties
<1>3. ASSUME NEW j \in 1..N
      PROVE  /\ seqs[j] \in Seq(T) /\ Len(seqs[j]) = Group(j) + m
             /\ \A x \in 1..Group(j) : j + x - 1 \in 1..N /\ seqs[j][x] = metrics[j + x - 1]
             /\ \A y \in 1..m : seqs[j][Group(j) + y] = stages[j][y]
  <2>1. Group(j) \in Nat /\ \A x \in 1..Group(j) : j + x - 1 \in 1..N
    <3> HIDE DEF N
    <3> QED BY <1>0, <1>1
  <2> DEFINE s == led(j)
             t == stages[j]
  <2>2. s \in Seq(T) /\ Len(s) = Group(j) /\ \A x \in 1..Group(j) : s[x] = metrics[j + x - 1]
    BY SMTT(40), <2>1
  <2>3. t \in Seq(T) /\ Len(t) = m
    OBVIOUS
  <2>4. seqs[j] = s \o t
    OBVIOUS
  <2> HIDE DEF s, seqs, t
  <2>5. /\ s \o t \in Seq(T) /\ Len(s \o t) = Group(j) + m
        /\ \A x \in 1..Group(j) + m :
             (s \o t)[x] = IF x <= Group(j) THEN s[x] ELSE t[x - Group(j)]
    <3>1. /\ s \o t \in Seq(T) /\ Len(s \o t) = Len(s) + Len(t)
          /\ \A x \in 1..Len(s) + Len(t) :
               (s \o t)[x] = IF x <= Len(s) THEN s[x] ELSE t[x - Len(s)]
      BY <2>2, <2>3, ConcatProperties
    <3> QED BY <2>2, <2>3, <3>1
  <2>6. \A y \in 1..m : Group(j) + y \in 1..Group(j) + m /\ ~ (Group(j) + y <= Group(j))
                        /\ (Group(j) + y) - Group(j) = y
    BY <2>1
  <2>7. \A x \in 1..Group(j) : x \in 1..Group(j) + m /\ x <= Group(j)
    BY <2>1
  <2> QED BY <2>1, <2>2, <2>4, <2>5, <2>6, <2>7 DEF t
<1>4. F = FlattenSeq(seqs)
  BY DEF InGroups
<1>5. seqs \in [1..N -> Seq(T)]
  <2> DEFINE q == seqs
  <2>1. q = [j \in 1..N |-> q[j]]
    OBVIOUS
  <2>2. \A j \in 1..N : q[j] \in Seq(T)
    BY <1>3
  <2> HIDE DEF q
  <2>3. q \in [1..N -> Seq(T)]
    BY <2>1, <2>2
  <2> QED BY <2>3 DEF q
<1> HIDE DEF seqs, F, N, d
<1>6. F \in Seq(T) /\ \E off : Offsets(seqs, N, off) /\ Flattened(seqs, N, F, off)
  BY <1>0, <1>4, <1>5, FlattenedParts
<1>7. PICK off : Offsets(seqs, N, off) /\ Flattened(seqs, N, F, off)
  BY <1>6
<1>8. \A j \in 0..N : \A i \in 0..j : off[i] <= off[j]
  <2>1. \A j \in 1..N : Len(seqs[j]) \in Nat
    BY <1>5
  <2> QED BY <1>0, <1>7, <2>1, OffsetsGrow
<1>9. \A j \in 1..N : off[j] = off[j - 1] + Group(j) + m /\ off[j] \in Nat /\ off[j - 1] \in Nat
  <2>1. ASSUME NEW j \in 1..N
        PROVE  off[j] = off[j - 1] + Group(j) + m /\ off[j] \in Nat /\ off[j - 1] \in Nat
    <3>1. off[j] = off[j - 1] + Len(seqs[j]) /\ Len(seqs[j]) = Group(j) + m
      BY <1>3, <1>7 DEF Offsets
    <3>2. off[j] \in Nat /\ off[j - 1] \in Nat
      BY <1>0, <1>7 DEF Offsets
    <3>3. Group(j) \in Nat
      BY <1>0, <1>1
    <3> QED BY <3>1, <3>2, <3>3
  <2> QED BY <2>1
<1>10. /\ Len(F) = off[N]
       /\ \A j \in 1..N : \A y \in 1..Group(j) + m : F[off[j - 1] + y] = seqs[j][y]
       /\ \A k \in 1..Len(F) : \E j \in 1..N : k \in off[j - 1] + 1..off[j]
  BY <1>3, <1>7 DEF Flattened
<1> DEFINE a == [i \in 1..N |-> off[i - 1] + Group(i)]
           g == [i \in 1..N |-> off[Leader(i) - 1] + (i - Leader(i) + 1)]
<1>11. ASSUME NEW i \in 1..N
       PROVE  /\ a[i] = off[i - 1] + Group(i) /\ a[i] \in Nat
              /\ g[i] = off[Leader(i) - 1] + (i - Leader(i) + 1) /\ g[i] \in Nat
              /\ Leader(i) \in 1..N /\ a[i] + m = off[i] /\ Group(i) \in Nat
              /\ off[Leader(i) - 1] \in Nat
  <2>1. Group(i) \in Nat /\ Leader(i) \in 1..N /\ i - Leader(i) + 1 \in Nat
    <3>1. Leader(i) \in 1..i /\ Group(i) \in 0..N - i + 1
      BY <1>1, <1>2
    <3> QED BY <1>0, <3>1
  <2>2. off[i - 1] \in Nat /\ off[i] = off[i - 1] + Group(i) + m /\ off[Leader(i) - 1] \in Nat
    BY <1>9, <2>1
  <2>3. a[i] = off[i - 1] + Group(i) /\ g[i] = off[Leader(i) - 1] + (i - Leader(i) + 1)
    OBVIOUS
  <2> HIDE DEF a, g
  <2>4. a[i] \in Nat /\ a[i] + m = off[i]
    BY SMTT(40), <2>1, <2>2, <2>3
  <2>5. \A x, y \in Nat : x + y \in Nat
    OBVIOUS
  <2>6. g[i] \in Nat
    BY <2>1, <2>2, <2>3, <2>5
  <2> QED BY <2>1, <2>2, <2>3, <2>4, <2>6
<1>12. a \in [1..N -> Nat] /\ g \in [1..N -> Nat]
  BY <1>11
<1> HIDE DEF a, g
<1>13. ASSUME NEW i \in 1..N
       PROVE  /\ g[i] \in 1..a[i] /\ a[i] + m <= Len(F)
              /\ F[g[i]] = metrics[i] /\ \A y \in 1..m : F[a[i] + y] = stages[i][y]
  <2> DEFINE l == Leader(i)
  <2>1. l \in 1..i /\ i - l + 1 \in 1..Group(l) /\ l \in 1..N /\ Group(l) \in Nat
    BY <1>0, <1>1, <1>2, <1>11
  <2>2. off[l - 1] \in Nat /\ off[i] <= off[N] /\ off[i - 1] \in Nat
        /\ off[l] = off[l - 1] + Group(l) + m
    BY SMTT(40), <1>0, <1>8, <1>9, <2>1
  <2>3. g[i] = off[l - 1] + (i - l + 1) /\ a[i] = off[i - 1] + Group(i) /\ a[i] + m = off[i]
        /\ Group(i) \in Nat
    BY <1>11
  <2>h. TRUE
    OBVIOUS
  <2> HIDE DEF l
  <2>4. g[i] <= a[i]
    <3>1. CASE l = i
      BY <2>1, <2>2, <2>3, <3>1
    <3>2. CASE l # i
      <4>1. l \in 0..i - 1 /\ i - 1 \in 0..N
        BY <1>0, <2>1, <3>2
      <4>2. off[l] <= off[i - 1]
        BY <1>8, <4>1
      <4> QED BY SMTT(40), <2>1, <2>2, <2>3, <4>2
    <3> QED BY <3>1, <3>2
  <2>5. g[i] \in 1..a[i] /\ a[i] + m <= Len(F)
    <3>1. Len(F) = off[N]
      BY <1>10
    <3>2. i - l + 1 \in Nat /\ i - l + 1 >= 1
      BY <2>1
    <3>3. \A x, y \in Nat : y >= 1 => x + y \in Nat /\ x + y >= 1
      OBVIOUS
    <3>4. g[i] \in Nat /\ g[i] >= 1
      BY <2>2, <2>3, <3>2, <3>3
    <3>5. a[i] \in Nat
      BY <1>11
    <3> QED BY <2>2, <2>3, <2>4, <3>1, <3>4, <3>5
  <2>6. F[g[i]] = metrics[i]
    <3> DEFINE x == i - l + 1
    <3>1. x \in 1..Group(l) /\ x \in 1..Group(l) + m /\ l + x - 1 = i
      BY <2>1
    <3> HIDE DEF x
    <3>2. F[off[l - 1] + x] = seqs[l][x]
      BY <1>10, <2>1, <3>1
    <3>3. seqs[l][x] = metrics[l + x - 1]
      BY <1>3, <2>1, <3>1
    <3> QED BY <2>3, <3>1, <3>2, <3>3 DEF x
  <2>7. ASSUME NEW y \in 1..m PROVE F[a[i] + y] = stages[i][y]
    <3>1. Group(i) + y \in 1..Group(i) + m /\ a[i] + y = off[i - 1] + (Group(i) + y)
      BY <2>2, <2>3
    <3>2. F[off[i - 1] + (Group(i) + y)] = seqs[i][Group(i) + y]
      BY <1>10, <3>1
    <3> QED BY <1>3, <3>1, <3>2
  <2> QED BY <2>5, <2>6, <2>7
<1>14. ASSUME NEW h \in 1..N, NEW i \in h + 1..N
       PROVE  /\ a[h] + m <= a[i]
              /\ (h - 1) % d = (i - 1) % d => a[h] + m < g[i]
  <2>1. i \in 1..N /\ i - 1 \in 0..N /\ h \in 0..i - 1 /\ h - 1 \in Nat /\ i - 1 \in Nat
    BY <1>0
  <2>2. a[h] + m = off[h] /\ a[i] = off[i - 1] + Group(i) /\ Group(i) \in Nat
        /\ g[i] = off[Leader(i) - 1] + (i - Leader(i) + 1)
    BY <1>11, <2>1
  <2>3. off[h] <= off[i - 1] /\ off[i - 1] \in Nat /\ off[h] \in Nat
    BY <1>8, <1>9, <2>1
  <2>4. ASSUME (h - 1) % d = (i - 1) % d PROVE a[h] + m < g[i]
    <3>1. i - 1 >= (h - 1) + d
      <4>1. h - 1 < i - 1
        BY <2>1
      <4> QED BY <1>0, <2>1, <2>4, <4>1, SameRest
    <3>2. Leader(i) >= i - d + 1 /\ Leader(i) \in 1..i
      BY <1>2, <2>1
    <3>3. Leader(i) - 1 \in 0..N /\ h \in 0..Leader(i) - 1 /\ i - Leader(i) + 1 >= 1
      BY <1>0, <3>1, <3>2
    <3>4. off[h] <= off[Leader(i) - 1] /\ off[Leader(i) - 1] \in Nat
      BY <1>8, <1>11, <2>1, <3>3
    <3>5. \A x, y, z \in Int : x <= y /\ z >= 1 => x < y + z
      OBVIOUS
    <3>6. i - Leader(i) + 1 \in Int
      BY <3>2
    <3> QED BY <2>2, <2>3, <3>3, <3>4, <3>5, <3>6
  <2> QED BY <2>2, <2>3, <2>4
<1>15. ASSUME NEW k \in 1..Len(F) PROVE \E i \in 1..N : k = g[i] \/ k \in a[i] + 1..a[i] + m
  <2>1. PICK j \in 1..N : k \in off[j - 1] + 1..off[j]
    BY <1>10
  <2>2. a[j] = off[j - 1] + Group(j) /\ a[j] + m = off[j] /\ off[j - 1] \in Nat /\ Group(j) \in Nat
    BY <1>9, <1>11
  <2>3. CASE k > a[j]
    <3>1. k \in a[j] + 1..a[j] + m
      BY <2>1, <2>2, <2>3
    <3> QED BY <3>1
  <2>4. CASE k <= a[j]
    <3> DEFINE x == k - off[j - 1]
               i == j + x - 1
    <3>1. x \in 1..Group(j)
      BY <2>1, <2>2, <2>4
    <3>2. i \in 1..N /\ j \in 1..i /\ i - j < Group(j)
      <4>1. j + x - 1 \in 1..N
        BY <1>3, <3>1
      <4> QED BY SMTT(40), <2>2, <3>1, <4>1
    <3>3. j = Leader(i)
      <4> HIDE DEF i
      <4> QED BY <1>2, <3>2
    <3>4. g[i] = off[j - 1] + (i - j + 1)
      <4> HIDE DEF i
      <4> QED BY <1>11, <3>2, <3>3
    <3>5. k = g[i]
      BY SMTT(40), <2>1, <2>2, <3>4
    <3> HIDE DEF i
    <3> QED BY <3>2, <3>5
  <2> QED BY <2>1, <2>2, <2>3, <2>4
<1>16. Placed(F, metrics, stages, m, a, g)
  <2> USE DEF N, d
  <2> QED BY <1>12, <1>13, <1>14, <1>15 DEF Placed
<1> QED BY <1>6, <1>16 DEF F

(***************************************************************************)
(* A pass on the local path                                                *)
(***************************************************************************)
KernelOps == {"init_alpha", "alpha", "normalize_alpha", "init_beta", "beta",
              "normalize_beta", "gamma", "message"}
Cmd == [op : KernelOps \union {"wait", "record", "synchronize"}, i : Int, stream : Int]

(* st[t] is the stream of turn t; turn 0 is at 1..3, the metrics of turn t *)
(* at g[t] and its stage, of m commands, at a[t] + 1 onwards.              *)
OneOf(c, stream) == c.stream = stream /\ c.op \in KernelOps
IsPass(P, st, m, a, g) ==
  /\ P \in Seq(Cmd) /\ Len(P) \in Nat /\ Len(P) >= 4 /\ m \in Nat /\ m >= 4
  /\ P[Len(P)].op = "synchronize"
  /\ OneOf(P[1], st[0]) /\ OneOf(P[2], st[0]) /\ P[3] = On(st[0], "record", st[0])
  /\ \A t \in 1..fba.N :
       /\ a[t] \in Nat /\ g[t] \in 4..a[t] /\ a[t] + m < Len(P)
       /\ OneOf(P[g[t]], st[t]) /\ P[g[t]].op = "gamma"
       /\ P[a[t] + 1] = On(st[t], "wait", st[t - 1])
       /\ P[a[t] + 4] = On(st[t], "record", st[t])
       /\ \A y \in (2..m) \ {4} : OneOf(P[a[t] + y], st[t]) /\ P[a[t] + y].op # "gamma"
       /\ \A u \in t + 1..fba.N :
            /\ a[t] + m <= a[u]
            /\ (t - 1) % fba.depth = (u - 1) % fba.depth => a[t] + m < g[u]
  /\ \A k \in 1..Len(P) :
       \/ k \in 1..3 \/ k = Len(P)
       \/ \E t \in 1..fba.N : k = g[t] \/ k \in a[t] + 1..a[t] + m

Within(c, o, P) == \A k \in 1..Len(P) : c[o + k] = P[k]
Before(a, t) == IF t = 1 THEN -1 ELSE a[t - 1]

(* What a stage waits for: all but the message of the turn before.         *)
LEMMA WaitOrders ==
  ASSUME Sizes, NEW P, NEW st, NEW m, NEW a, NEW g, IsPass(P, st, m, a, g),
         NEW c, NEW o \in Nat, Within(c, o, P),
         NEW t \in 1..fba.N, NEW x \in 2..3, NEW y \in 2..m
  PROVE  o + (Before(a, t) + x) \in After(c, o + (a[t] + y))
<1> DEFINE b == Before(a, t)
           r == o + (b + 4)
           w == o + (a[t] + 1)
           k == o + (a[t] + y)
           j == o + (b + x)
<1>0. fba.N \in Nat /\ m \in Nat /\ m >= 4 /\ Len(P) \in Nat
  BY DEF Sizes, IsPass
<1>1. /\ a[t] \in Nat /\ b \in Int /\ b >= -1 /\ b + 4 <= a[t] /\ a[t] + m < Len(P)
      /\ P[b + 4] = On(st[t - 1], "record", st[t - 1])
      /\ P[b + x].stream = st[t - 1] /\ a[t] >= 4
  <2>1. a[t] \in Nat /\ a[t] >= 4 /\ a[t] + m < Len(P)
    <3>1. a[t] \in Nat /\ g[t] \in 4..a[t] /\ a[t] + m < Len(P)
      BY DEF IsPass
    <3> QED BY <3>1
  <2>2. CASE t = 1
    <3>1. b = -1 /\ x - 1 \in 1..2 /\ t - 1 = 0
      BY <2>2 DEF Before
    <3>2. P[b + 4] = On(st[0], "record", st[0])
      BY <3>1 DEF IsPass
    <3>3. P[x - 1].stream = st[0]
      BY <3>1 DEF IsPass, OneOf
    <3>4. b + x = x - 1
      BY <3>1
    <3> QED BY <2>1, <3>1, <3>2, <3>3, <3>4
  <2>3. CASE t # 1
    <3>1. t - 1 \in 1..fba.N /\ t \in (t - 1) + 1..fba.N /\ b = a[t - 1]
      BY <1>0, <2>3 DEF Before
    <3>2. a[t - 1] \in Nat /\ a[t - 1] + m <= a[t]
      BY <3>1 DEF IsPass
    <3>3. P[a[t - 1] + 4] = On(st[t - 1], "record", st[t - 1])
      BY <3>1 DEF IsPass
    <3>4. x \in (2..m) \ {4}
      BY <1>0
    <3>5. P[a[t - 1] + x].stream = st[t - 1]
      BY <3>1, <3>4 DEF IsPass, OneOf
    <3> QED BY SMTT(40), <1>0, <2>1, <3>1, <3>2, <3>3, <3>5
  <2> QED BY <2>2, <2>3
<1> HIDE DEF b
<1>2. /\ b + 4 \in 1..Len(P) /\ a[t] + 1 \in 1..Len(P) /\ a[t] + y \in 1..Len(P)
      /\ b + x \in 1..Len(P)
  <2>1. PICK A \in Nat, L \in Nat : A = a[t] /\ L = Len(P)
    BY <1>0, <1>1
  <2>2. b \in Int /\ b >= -1 /\ b + 4 <= A /\ A + m < L
    BY <1>1, <2>1
  <2>3. b + 4 \in 1..L /\ A + 1 \in 1..L /\ A + y \in 1..L /\ b + x \in 1..L
    BY <1>0, <2>2
  <2> QED BY <2>1, <2>3
<1>3. /\ c[r] = On(st[t - 1], "record", st[t - 1])
      /\ c[w] = On(st[t], "wait", st[t - 1])
      /\ c[k].stream = st[t] /\ c[j].stream = st[t - 1]
  <2>1. c[r] = P[b + 4] /\ c[w] = P[a[t] + 1] /\ c[k] = P[a[t] + y] /\ c[j] = P[b + x]
    BY <1>2 DEF Within
  <2>2. P[a[t] + 1] = On(st[t], "wait", st[t - 1])
    BY DEF IsPass
  <2>3. P[a[t] + y].stream = st[t]
    <3>1. CASE y = 4
      <4>1. P[a[t] + 4] = On(st[t], "record", st[t])
        BY DEF IsPass
      <4> QED BY <3>1, <4>1 DEF On
    <3>2. CASE y # 4
      <4>1. y \in (2..m) \ {4}
        BY <3>2
      <4> QED BY <4>1 DEF IsPass, OneOf
    <3> QED BY <3>1, <3>2
  <2> QED BY <1>1, <2>1, <2>2, <2>3
<1>4. j \in 1..k - 1 /\ w \in 1..k - 1 /\ r \in j..w - 1
  <2>1. PICK A \in Nat : A = a[t]
    BY <1>1
  <2>2. b \in Int /\ b >= -1 /\ b + 4 <= A
    BY <1>1, <2>1
  <2>3. /\ o + (b + x) \in 1..(o + (A + y)) - 1
        /\ o + (A + 1) \in 1..(o + (A + y)) - 1
        /\ o + (b + 4) \in o + (b + x)..(o + (A + 1)) - 1
    BY <1>0, <2>2
  <2> QED BY <2>1, <2>3
<1>5. ASSUME NEW z \in r + 1..w - 1 PROVE c[z].op # "record"
  <2> DEFINE q == z - o
  <2>1. q \in b + 5..a[t] /\ q \in 1..Len(P) /\ z = o + q /\ q \in Int
    BY SMTT(40), <1>0, <1>1
  <2> HIDE DEF q
  <2>2. c[z] = P[q]
    BY <2>1 DEF Within
  <2>3. q \notin 1..3 /\ q # Len(P)
    <3>1. PICK A \in Nat, L \in Nat : A = a[t] /\ L = Len(P)
      BY <1>0, <1>1
    <3>2. b \in Int /\ b >= -1 /\ A + m < L
      BY <1>1, <3>1
    <3>3. q \in b + 5..A
      BY <2>1, <3>1
    <3> QED BY SMTT(40), <1>0, <3>1, <3>2, <3>3
  <2>4. PICK u \in 1..fba.N : q = g[u] \/ q \in a[u] + 1..a[u] + m
    BY <2>1, <2>3 DEF IsPass
  <2>5. CASE q = g[u]
    BY <2>2, <2>5 DEF IsPass
  <2>6. CASE q \in a[u] + 1..a[u] + m
    <3>1. a[u] \in Nat
      BY DEF IsPass
    <3>2. ~ u >= t
      <4>1. CASE u = t
        BY <2>1, <2>6, <3>1, <4>1
      <4>2. CASE u > t
        <5>1. u \in t + 1..fba.N
          BY <1>0, <4>2
        <5>2. a[t] + m <= a[u]
          BY <5>1 DEF IsPass
        <5> QED BY SMTT(40), <1>0, <1>1, <2>1, <2>6, <3>1, <5>2
      <4> QED BY <4>1, <4>2
    <3>3. t - 1 \in 1..fba.N /\ t # 1 /\ b = a[t - 1]
      BY <1>0, <3>2 DEF b, Before
    <3>4. u = t - 1
      <4> SUFFICES ASSUME u # t - 1 PROVE FALSE
        OBVIOUS
      <4>1. t - 1 \in u + 1..fba.N
        BY <1>0, <3>2, <3>3
      <4>2. a[u] + m <= a[t - 1]
        BY <4>1 DEF IsPass
      <4>3. PICK A \in Nat : A = a[u]
        BY <3>1
      <4>4. A + m <= b /\ q \in A + 1..A + m /\ q >= b + 5 /\ b \in Int
        BY <1>1, <2>1, <2>6, <3>3, <4>2, <4>3
      <4> QED BY <1>0, <4>4
    <3>5. q - a[u] \in (2..m) \ {4} /\ q = a[u] + (q - a[u])
      <4>1. q \in b + 1..b + m /\ q >= b + 5 /\ b \in Int /\ q \in Int
        BY <1>1, <2>1, <2>6, <3>3, <3>4
      <4>2. q - b \in (2..m) \ {4} /\ q = b + (q - b)
        BY <1>0, <4>1
      <4> QED BY <3>3, <3>4, <4>2
    <3>6. P[a[u] + (q - a[u])].op \in KernelOps
      BY <3>5 DEF IsPass, OneOf
    <3> QED BY <2>2, <3>5, <3>6 DEF KernelOps
  <2> QED BY <2>4, <2>5, <2>6
<1>6. /\ c[w].op = "wait" /\ c[w].stream = c[k].stream
      /\ c[r].op = "record" /\ c[r].i = c[w].i /\ c[r].stream = c[j].stream
  BY <1>3 DEF On
<1> HIDE DEF r, w, k, j
<1>7. j \in After(c, k)
  BY <1>4, <1>5, <1>6 DEF After
<1> QED BY <1>7 DEF j, k, b

(* The parts of a pass, and the pass that they make.                       *)
Parts(st, m, start, metrics, stages) ==
  /\ start \in Seq(Cmd) /\ Len(start) = 3 /\ m \in Nat /\ m >= 4
  /\ OneOf(start[1], st[0]) /\ OneOf(start[2], st[0])
  /\ start[3] = On(st[0], "record", st[0])
  /\ metrics \in [1..fba.N -> Cmd] /\ stages \in [1..fba.N -> Seq(Cmd)]
  /\ \A t \in 1..fba.N :
       /\ OneOf(metrics[t], st[t]) /\ metrics[t].op = "gamma"
       /\ Len(stages[t]) = m
       /\ stages[t][1] = On(st[t], "wait", st[t - 1])
       /\ stages[t][4] = On(st[t], "record", st[t])
       /\ \A y \in (2..m) \ {4} : OneOf(stages[t][y], st[t]) /\ stages[t][y].op # "gamma"
Made(P, m, start, metrics, stages, a, g) ==
  /\ \A x \in 1..3 : P[x] = start[x]
  /\ \A t \in 1..fba.N : P[g[t]] = metrics[t] /\ \A y \in 1..m : P[a[t] + y] = stages[t][y]

(* A pass that is made of a start, groups and a synchronisation is ordered *)
(* as IsPass says, with its parts in their places.                         *)
LEMMA PassMade ==
  ASSUME Sizes, NEW st, NEW m, NEW start, NEW metrics, NEW stages,
         Parts(st, m, start, metrics, stages),
         NEW P, P = start \o InGroups(metrics, stages) \o Sync
  PROVE  \E a, g : IsPass(P, st, m, a, g) /\ Made(P, m, start, metrics, stages, a, g)
<1> DEFINE N == fba.N
           F == InGroups(metrics, stages)
<1>0. N \in Nat \ {0} /\ m \in Nat \ {0} /\ m >= 4
  BY DEF Sizes, Parts
<1>1. F \in Seq(Cmd) /\ \E b, h : Placed(F, metrics, stages, m, b, h)
  <2>1. metrics \in [1..N -> Cmd] /\ stages \in [1..N -> Seq(Cmd)]
        /\ \A t \in 1..N : Len(stages[t]) = m
    BY DEF Parts
  <2> QED BY <1>0, <2>1, InGroupsPlaced
<1>2. PICK b, h : Placed(F, metrics, stages, m, b, h)
  BY <1>1
<1> HIDE DEF F
<1>3. PICK L \in Nat : L = Len(F)
  BY <1>1
<1>4. /\ P \in Seq(Cmd) /\ Len(P) = L + 4
      /\ \A x \in 1..3 : P[x] = start[x]
      /\ \A p \in 1..L : P[p + 3] = F[p]
      /\ P[L + 4] = On(Default, "synchronize", 0)
  <2>1. start \in Seq(Cmd) /\ Len(start) = 3
    BY DEF Parts
  <2>2. Sync \in Seq(Cmd) /\ Len(Sync) = 1 /\ Sync[1] = On(Default, "synchronize", 0)
    <3>1. On(Default, "synchronize", 0) \in Cmd
      <4>1. "synchronize" \in KernelOps \union {"wait", "record", "synchronize"}
        OBVIOUS
      <4>2. Default \in Int
        BY DEF Default
      <4> QED BY <4>1, <4>2 DEF On, Cmd
    <3> QED BY <3>1 DEF Sync
  <2>3. /\ start \o F \in Seq(Cmd) /\ Len(start \o F) = 3 + L
        /\ \A x \in 1..3 + L : (start \o F)[x] = IF x <= 3 THEN start[x] ELSE F[x - 3]
    <3>1. /\ start \o F \in Seq(Cmd) /\ Len(start \o F) = Len(start) + Len(F)
          /\ \A x \in 1..Len(start) + Len(F) :
               (start \o F)[x] = IF x <= Len(start) THEN start[x] ELSE F[x - Len(start)]
      BY <1>1, <2>1, ConcatProperties
    <3> QED BY <1>3, <2>1, <3>1
  <2> DEFINE G == start \o F
  <2>4. P = G \o Sync
    BY DEF F
  <2> HIDE DEF G
  <2>5. G \in Seq(Cmd) /\ Len(G) = 3 + L
        /\ \A x \in 1..3 + L : G[x] = IF x <= 3 THEN start[x] ELSE F[x - 3]
    BY <2>3 DEF G
  <2>6. /\ P \in Seq(Cmd) /\ Len(P) = Len(G) + Len(Sync)
        /\ \A x \in 1..Len(G) + Len(Sync) :
             P[x] = IF x <= Len(G) THEN G[x] ELSE Sync[x - Len(G)]
    <3>1. /\ G \o Sync \in Seq(Cmd) /\ Len(G \o Sync) = Len(G) + Len(Sync)
          /\ \A x \in 1..Len(G) + Len(Sync) :
               (G \o Sync)[x] = IF x <= Len(G) THEN G[x] ELSE Sync[x - Len(G)]
      BY <2>2, <2>5, ConcatProperties
    <3> QED BY <2>4, <3>1, Zenon
  <2>7. \A x \in 1..(3 + L) + 1 : P[x] = IF x <= 3 + L THEN G[x] ELSE Sync[x - (3 + L)]
    BY <2>2, <2>5, <2>6
  <2>8. \A x \in 1..3 : P[x] = start[x]
    <3>1. ASSUME NEW x \in 1..3 PROVE P[x] = start[x]
      <4>1. x \in 1..3 + L /\ x \in 1..(3 + L) + 1 /\ x <= 3 + L /\ x <= 3
        BY <1>3
      <4>2. P[x] = G[x]
        BY <2>7, <4>1
      <4>3. G[x] = start[x]
        BY <2>5, <4>1
      <4> QED BY <4>2, <4>3
    <3> QED BY <3>1
  <2>9. \A p \in 1..L : P[p + 3] = F[p]
    <3>1. ASSUME NEW p \in 1..L PROVE P[p + 3] = F[p]
      <4>1. p + 3 \in 1..3 + L /\ p + 3 \in 1..(3 + L) + 1 /\ p + 3 <= 3 + L /\ ~ (p + 3 <= 3)
            /\ (p + 3) - 3 = p
        BY <1>3
      <4>2. P[p + 3] = G[p + 3]
        BY <2>7, <4>1
      <4>3. G[p + 3] = F[(p + 3) - 3]
        BY <2>5, <4>1
      <4> QED BY <4>1, <4>2, <4>3
    <3> QED BY <3>1
  <2>10. P[L + 4] = Sync[1]
    <3>1. L + 4 \in 1..(3 + L) + 1 /\ ~ (L + 4 <= 3 + L) /\ (L + 4) - (3 + L) = 1
      BY <1>3
    <3> QED BY <2>7, <3>1
  <2>11. Len(P) = L + 4
    <3>1. Len(P) = (3 + L) + 1
      BY <2>2, <2>5, <2>6
    <3> QED BY <1>3, <3>1
  <2>12. P[L + 4] = On(Default, "synchronize", 0)
    BY <2>2, <2>10
  <2> QED BY <2>6, <2>8, <2>9, <2>11, <2>12
<1> DEFINE a == [t \in 1..N |-> b[t] + 3]
           g == [t \in 1..N |-> h[t] + 3]
<1>5. ASSUME NEW t \in 1..N
      PROVE  /\ a[t] = b[t] + 3 /\ g[t] = h[t] + 3 /\ b[t] \in Nat /\ h[t] \in Nat
             /\ h[t] \in 1..b[t] /\ b[t] + m <= L
             /\ F[h[t]] = metrics[t] /\ \A y \in 1..m : F[b[t] + y] = stages[t][y]
             /\ \A u \in t + 1..N :
                  /\ b[t] + m <= b[u] /\ u \in 1..N /\ b[u] \in Nat /\ h[u] \in Nat
                  /\ (t - 1) % fba.depth = (u - 1) % fba.depth => b[t] + m < h[u]
  <2>1. b[t] \in Nat /\ h[t] \in Nat
    BY <1>2 DEF Placed
  <2>2. /\ h[t] \in 1..b[t] /\ b[t] + m <= L
        /\ F[h[t]] = metrics[t] /\ \A y \in 1..m : F[b[t] + y] = stages[t][y]
    BY <1>2, <1>3 DEF Placed
  <2>3. ASSUME NEW u \in t + 1..N
        PROVE  /\ b[t] + m <= b[u] /\ u \in 1..N /\ b[u] \in Nat /\ h[u] \in Nat
               /\ (t - 1) % fba.depth = (u - 1) % fba.depth => b[t] + m < h[u]
    <3>1. u \in 1..N
      BY <1>0
    <3>2. b[u] \in Nat /\ h[u] \in Nat
      BY <1>2, <3>1 DEF Placed
    <3>3. /\ b[t] + m <= b[u]
          /\ (t - 1) % fba.depth = (u - 1) % fba.depth => b[t] + m < h[u]
      BY <1>2 DEF Placed
    <3> QED BY <3>1, <3>2, <3>3
  <2>4. a[t] = b[t] + 3 /\ g[t] = h[t] + 3
    OBVIOUS
  <2> HIDE DEF N, a, g
  <2> QED BY <2>1, <2>2, <2>3, <2>4
<1> HIDE DEF a, g
<1>6. ASSUME NEW t \in 1..N
      PROVE  P[g[t]] = metrics[t] /\ \A y \in 1..m : P[a[t] + y] = stages[t][y]
  <2>1. PICK x \in Nat, z \in Nat : x = b[t] /\ z = h[t]
    BY <1>5
  <2>2. x + m <= L /\ z \in 1..x /\ z \in 1..L /\ a[t] = x + 3 /\ g[t] = z + 3
    <3>1. x + m <= L /\ z \in 1..x /\ a[t] = x + 3 /\ g[t] = z + 3
      BY <1>5, <2>1
    <3> QED BY <1>0, <1>3, <3>1
  <2>3. P[z + 3] = F[z]
    BY <1>4, <2>2
  <2>4. ASSUME NEW y \in 1..m PROVE P[a[t] + y] = stages[t][y]
    <3>1. x + y \in 1..L /\ (x + y) + 3 = a[t] + y
      BY <1>0, <1>3, <2>2
    <3>2. P[(x + y) + 3] = F[x + y]
      BY <1>4, <3>1
    <3>3. F[x + y] = stages[t][y]
      BY <1>5, <2>1
    <3> QED BY <3>1, <3>2, <3>3
  <2>5. F[z] = metrics[t]
    BY <1>5, <2>1
  <2> QED BY <2>2, <2>3, <2>4, <2>5
<1>7. ASSUME NEW t \in 1..N
      PROVE  /\ a[t] \in Nat /\ g[t] \in 4..a[t] /\ a[t] + m < Len(P)
             /\ \A u \in t + 1..N :
                  /\ a[t] + m <= a[u]
                  /\ (t - 1) % fba.depth = (u - 1) % fba.depth => a[t] + m < g[u]
  <2>1. PICK x \in Nat, z \in Nat : x = b[t] /\ z = h[t]
    BY <1>5
  <2>2. x + m <= L /\ z \in 1..x /\ a[t] = x + 3 /\ g[t] = z + 3
    BY <1>5, <2>1
  <2>3. a[t] \in Nat /\ g[t] \in 4..a[t] /\ a[t] + m < Len(P)
    <3>1. x + 3 \in Nat /\ z + 3 \in 4..x + 3 /\ (x + 3) + m < L + 4
      BY <1>0, <1>3, <2>2
    <3> QED BY <1>4, <2>2, <3>1
  <2>4. ASSUME NEW u \in t + 1..N
        PROVE  /\ a[t] + m <= a[u]
               /\ (t - 1) % fba.depth = (u - 1) % fba.depth => a[t] + m < g[u]
    <3>1. PICK v \in Nat, w \in Nat : v = b[u] /\ w = h[u]
      BY <1>5
    <3>2. u \in 1..N /\ x + m <= v
          /\ ((t - 1) % fba.depth = (u - 1) % fba.depth => x + m < w)
      BY <1>5, <2>1, <3>1
    <3>3. a[u] = v + 3 /\ g[u] = w + 3
      BY <1>5, <3>1, <3>2
    <3> QED BY <1>0, <2>2, <3>2, <3>3
  <2> QED BY <2>3, <2>4
<1>8. ASSUME NEW k \in 1..Len(P)
      PROVE  \/ k \in 1..3 \/ k = Len(P)
             \/ \E t \in 1..N : k = g[t] \/ k \in a[t] + 1..a[t] + m
  <2>1. CASE k \in 1..3 \/ k = Len(P)
    BY <2>1
  <2>2. CASE ~ (k \in 1..3 \/ k = Len(P))
    <3>1. k - 3 \in 1..L /\ k \in Int
      <4>1. k \in 1..L + 4 /\ k # L + 4 /\ k \notin 1..3
        BY <1>4, <2>2
      <4> QED BY <1>3, <4>1
    <3>2. PICK t \in 1..N : k - 3 = h[t] \/ k - 3 \in b[t] + 1..b[t] + m
      BY <1>2, <1>3, <3>1 DEF Placed
    <3>3. PICK x \in Nat, z \in Nat : x = b[t] /\ z = h[t]
      BY <1>5
    <3>4. a[t] = x + 3 /\ g[t] = z + 3
      BY <1>5, <3>3
    <3>5. k = g[t] \/ k \in a[t] + 1..a[t] + m
      <4>1. CASE k - 3 = h[t]
        BY <3>1, <3>3, <3>4, <4>1
      <4>2. CASE k - 3 \in b[t] + 1..b[t] + m
        <5>1. k - 3 \in x + 1..x + m
          BY <3>3, <4>2
        <5>2. k \in (x + 3) + 1..(x + 3) + m
          BY <1>0, <3>1, <5>1
        <5> QED BY <3>4, <5>2
      <4> QED BY <3>2, <4>1, <4>2
    <3> QED BY <3>5
  <2> QED BY <2>1, <2>2
<1>9. IsPass(P, st, m, a, g)
  <2>1. P[Len(P)].op = "synchronize"
    <3>1. P[Len(P)] = On(Default, "synchronize", 0)
      BY <1>4, Zenon
    <3> QED BY <3>1 DEF On
  <2>2. Len(P) \in Nat /\ Len(P) >= 4
    BY <1>3, <1>4
  <2>3. OneOf(P[1], st[0]) /\ OneOf(P[2], st[0]) /\ P[3] = On(st[0], "record", st[0])
    <3>1. P[1] = start[1] /\ P[2] = start[2] /\ P[3] = start[3]
      <4>1. \A x \in 1..3 : P[x] = start[x]
        BY <1>4
      <4>2. 1 \in 1..3 /\ 2 \in 1..3 /\ 3 \in 1..3
        OBVIOUS
      <4> QED BY <4>1, <4>2
    <3> QED BY <3>1 DEF Parts
  <2>4. ASSUME NEW t \in 1..N
        PROVE  /\ OneOf(P[g[t]], st[t]) /\ P[g[t]].op = "gamma"
               /\ P[a[t] + 1] = On(st[t], "wait", st[t - 1])
               /\ P[a[t] + 4] = On(st[t], "record", st[t])
               /\ \A y \in (2..m) \ {4} : OneOf(P[a[t] + y], st[t]) /\ P[a[t] + y].op # "gamma"
    <3>1. /\ OneOf(metrics[t], st[t]) /\ metrics[t].op = "gamma"
          /\ stages[t][1] = On(st[t], "wait", st[t - 1])
          /\ stages[t][4] = On(st[t], "record", st[t])
          /\ \A y \in (2..m) \ {4} : OneOf(stages[t][y], st[t]) /\ stages[t][y].op # "gamma"
      BY DEF Parts
    <3>2. P[g[t]] = metrics[t] /\ \A y \in 1..m : P[a[t] + y] = stages[t][y]
      BY <1>6
    <3>3. 1 \in 1..m /\ 4 \in 1..m /\ \A y \in (2..m) \ {4} : y \in 1..m
      BY <1>0
    <3> QED BY <3>1, <3>2, <3>3
  <2>5. \A k \in 1..Len(P) :
          \/ k \in 1..3 \/ k = Len(P)
          \/ \E t \in 1..N : k = g[t] \/ k \in a[t] + 1..a[t] + m
    BY <1>8
  <2>6. \A t \in 1..N :
          /\ a[t] \in Nat /\ g[t] \in 4..a[t] /\ a[t] + m < Len(P)
          /\ \A u \in t + 1..N :
               /\ a[t] + m <= a[u]
               /\ (t - 1) % fba.depth = (u - 1) % fba.depth => a[t] + m < g[u]
    BY <1>7
  <2> HIDE DEF F, OneOf
  <2>7. P \in Seq(Cmd)
    BY <1>4
  <2> QED BY <1>0, <2>1, <2>2, <2>3, <2>4, <2>5, <2>6, <2>7 DEF IsPass
<1>10. Made(P, m, start, metrics, stages, a, g)
  BY <1>4, <1>6 DEF Made
<1> QED BY <1>9, <1>10

(***************************************************************************)
(* The local path                                                          *)
(***************************************************************************)
AlphaStreams == [t \in 0..fba.N |-> StreamOf(t)]
AlphaStart ==
  <<On(StreamOf(0), "init_alpha", 0), On(StreamOf(0), "normalize_alpha", 0),
    On(StreamOf(0), "record", StreamOf(0))>>
AlphaMetrics == [i \in 1..fba.N |-> On(StreamOf(i), "gamma", i - 1)]
AlphaStage(i) ==
  <<On(StreamOf(i), "wait", StreamOf(i - 1)), On(StreamOf(i), "alpha", i),
    On(StreamOf(i), "normalize_alpha", i), On(StreamOf(i), "record", StreamOf(i))>>
AlphaStages == [i \in 1..fba.N |-> AlphaStage(i)]

BetaStreams == [t \in 0..fba.N |-> StreamOf(fba.N - t)]
BetaStart ==
  <<On(StreamOf(fba.N), "init_beta", fba.N), On(StreamOf(fba.N), "normalize_beta", fba.N),
    On(StreamOf(fba.N), "record", StreamOf(fba.N))>>
BetaMetrics == [j \in 1..fba.N |-> On(StreamOf(fba.N - j), "gamma", fba.N - j)]
BetaStage(i) ==
  <<On(StreamOf(i), "wait", StreamOf(i + 1)), On(StreamOf(i), "beta", i),
    On(StreamOf(i), "normalize_beta", i), On(StreamOf(i), "record", StreamOf(i)),
    On(StreamOf(i), "message", i)>>
BetaStages == [j \in 1..fba.N |-> BetaStage(fba.N - j)]

(* work_alpha and work_beta_and_results are passes of this form.           *)
LEMMA LocalParts ==
  ASSUME Sizes
  PROVE  /\ Parts(AlphaStreams, 4, AlphaStart, AlphaMetrics, AlphaStages)
         /\ Parts(BetaStreams, 5, BetaStart, BetaMetrics, BetaStages)
         /\ LocalAlpha = AlphaStart \o InGroups(AlphaMetrics, AlphaStages) \o Sync
         /\ LocalBetaAndResults = BetaStart \o InGroups(BetaMetrics, BetaStages) \o Sync
<1>0. fba.N \in Nat \ {0} /\ \A i \in Nat : StreamOf(i) \in Int
  <2>1. \A i \in Nat : i % fba.depth \in 0..fba.depth - 1
    BY RestProperties DEF Sizes
  <2> QED BY <2>1 DEF Sizes, StreamOf
<1>1. \A s \in Int, i \in Int : \A op \in KernelOps \union {"wait", "record", "synchronize"} :
         On(s, op, i) \in Cmd
  BY DEF On, Cmd
<1>2. \A s, op, i : On(s, op, i).op = op /\ On(s, op, i).stream = s /\ On(s, op, i).i = i
  BY DEF On
<1>3. Parts(AlphaStreams, 4, AlphaStart, AlphaMetrics, AlphaStages)
  <2>1. AlphaStart \in Seq(Cmd) /\ Len(AlphaStart) = 3
    <3>1. On(StreamOf(0), "init_alpha", 0) \in Cmd /\ On(StreamOf(0), "normalize_alpha", 0) \in Cmd
          /\ On(StreamOf(0), "record", StreamOf(0)) \in Cmd
      BY <1>0, <1>1 DEF KernelOps
    <3> QED BY <3>1 DEF AlphaStart
  <2>2. OneOf(AlphaStart[1], StreamOf(0)) /\ OneOf(AlphaStart[2], StreamOf(0))
        /\ AlphaStart[3] = On(StreamOf(0), "record", StreamOf(0))
    BY <1>2 DEF OneOf, AlphaStart, KernelOps
  <2>3. AlphaStreams[0] = StreamOf(0)
    BY <1>0 DEF AlphaStreams
  <2>4. ASSUME NEW t \in 1..fba.N
        PROVE  /\ AlphaStreams[t] = StreamOf(t) /\ AlphaStreams[t - 1] = StreamOf(t - 1)
               /\ AlphaMetrics[t] = On(StreamOf(t), "gamma", t - 1)
               /\ AlphaStages[t] = AlphaStage(t) /\ StreamOf(t) \in Int /\ StreamOf(t - 1) \in Int
    BY <1>0 DEF AlphaStreams, AlphaMetrics, AlphaStages
  <2>5. ASSUME NEW t \in 1..fba.N
        PROVE  /\ AlphaMetrics[t] \in Cmd /\ AlphaStages[t] \in Seq(Cmd)
               /\ OneOf(AlphaMetrics[t], AlphaStreams[t]) /\ AlphaMetrics[t].op = "gamma"
               /\ Len(AlphaStages[t]) = 4
               /\ AlphaStages[t][1] = On(AlphaStreams[t], "wait", AlphaStreams[t - 1])
               /\ AlphaStages[t][4] = On(AlphaStreams[t], "record", AlphaStreams[t])
               /\ \A y \in (2..4) \ {4} : /\ OneOf(AlphaStages[t][y], AlphaStreams[t])
                                          /\ AlphaStages[t][y].op # "gamma"
    <3>1. AlphaMetrics[t] \in Cmd /\ OneOf(AlphaMetrics[t], AlphaStreams[t])
          /\ AlphaMetrics[t].op = "gamma"
      BY SMTT(40), <1>1, <1>2, <2>4 DEF OneOf, KernelOps
    <3>2. AlphaStage(t) \in Seq(Cmd) /\ Len(AlphaStage(t)) = 4
      <4>1. /\ On(StreamOf(t), "wait", StreamOf(t - 1)) \in Cmd /\ On(StreamOf(t), "alpha", t) \in Cmd
            /\ On(StreamOf(t), "normalize_alpha", t) \in Cmd
            /\ On(StreamOf(t), "record", StreamOf(t)) \in Cmd
        BY <1>0, <1>1, <2>4 DEF KernelOps
      <4> QED BY <4>1 DEF AlphaStage
    <3>3. /\ AlphaStage(t)[1] = On(StreamOf(t), "wait", StreamOf(t - 1))
          /\ AlphaStage(t)[2] = On(StreamOf(t), "alpha", t)
          /\ AlphaStage(t)[3] = On(StreamOf(t), "normalize_alpha", t)
          /\ AlphaStage(t)[4] = On(StreamOf(t), "record", StreamOf(t))
      BY DEF AlphaStage
    <3>4. \A y \in (2..4) \ {4} : y = 2 \/ y = 3
      OBVIOUS
    <3>5. \A y \in (2..4) \ {4} : OneOf(AlphaStage(t)[y], StreamOf(t)) /\ AlphaStage(t)[y].op # "gamma"
      BY <1>2, <3>3, <3>4 DEF OneOf, KernelOps
    <3> QED BY <2>4, <3>1, <3>2, <3>3, <3>5
  <2>6. AlphaMetrics \in [1..fba.N -> Cmd] /\ AlphaStages \in [1..fba.N -> Seq(Cmd)]
    <3>1. AlphaMetrics = [t \in 1..fba.N |-> AlphaMetrics[t]] /\ AlphaStages = [t \in 1..fba.N |-> AlphaStages[t]]
      BY DEF AlphaMetrics, AlphaStages
    <3> QED BY <2>5, <3>1
  <2> QED BY <2>1, <2>2, <2>3, <2>5, <2>6 DEF Parts
<1>4. Parts(BetaStreams, 5, BetaStart, BetaMetrics, BetaStages)
  <2>0. \A t \in 0..fba.N : fba.N - t \in Nat /\ StreamOf(fba.N - t) \in Int /\ fba.N - t \in Int
    <3>1. \A t \in 0..fba.N : fba.N - t \in Nat
      BY <1>0
    <3> QED BY <1>0, <3>1
  <2>n. fba.N - 0 = fba.N /\ fba.N \in Int /\ StreamOf(fba.N) \in Int
    BY <1>0
  <2>1. BetaStart \in Seq(Cmd) /\ Len(BetaStart) = 3
    <3>1. On(StreamOf(fba.N), "init_beta", fba.N) \in Cmd /\ On(StreamOf(fba.N), "normalize_beta", fba.N) \in Cmd
          /\ On(StreamOf(fba.N), "record", StreamOf(fba.N)) \in Cmd
      BY <1>1, <2>n DEF KernelOps
    <3> QED BY <3>1 DEF BetaStart
  <2>2. OneOf(BetaStart[1], StreamOf(fba.N)) /\ OneOf(BetaStart[2], StreamOf(fba.N))
        /\ BetaStart[3] = On(StreamOf(fba.N), "record", StreamOf(fba.N))
    BY <1>2 DEF OneOf, BetaStart, KernelOps
  <2>3. BetaStreams[0] = StreamOf(fba.N)
    <3>1. 0 \in 0..fba.N
      BY <1>0
    <3> QED BY <2>n, <3>1 DEF BetaStreams
  <2>4. ASSUME NEW t \in 1..fba.N
        PROVE  /\ BetaStreams[t] = StreamOf(fba.N - t) /\ BetaStreams[t - 1] = StreamOf((fba.N - t) + 1)
               /\ BetaMetrics[t] = On(StreamOf(fba.N - t), "gamma", fba.N - t)
               /\ BetaStages[t] = BetaStage(fba.N - t) /\ StreamOf(fba.N - t) \in Int
               /\ StreamOf((fba.N - t) + 1) \in Int /\ fba.N - t \in Int
    <3>1. t \in 0..fba.N /\ t - 1 \in 0..fba.N /\ fba.N - (t - 1) = (fba.N - t) + 1
      BY <1>0
    <3>2. BetaStreams[t] = StreamOf(fba.N - t) /\ BetaStreams[t - 1] = StreamOf(fba.N - (t - 1))
      BY <3>1 DEF BetaStreams
    <3>3. StreamOf(fba.N - t) \in Int /\ fba.N - t \in Int /\ StreamOf(fba.N - (t - 1)) \in Int
      BY <2>0, <3>1
    <3>4. BetaMetrics[t] = On(StreamOf(fba.N - t), "gamma", fba.N - t) /\ BetaStages[t] = BetaStage(fba.N - t)
      BY DEF BetaMetrics, BetaStages
    <3> QED BY <3>1, <3>2, <3>3, <3>4
  <2>5. ASSUME NEW t \in 1..fba.N
        PROVE  /\ BetaMetrics[t] \in Cmd /\ BetaStages[t] \in Seq(Cmd)
               /\ OneOf(BetaMetrics[t], BetaStreams[t]) /\ BetaMetrics[t].op = "gamma"
               /\ Len(BetaStages[t]) = 5
               /\ BetaStages[t][1] = On(BetaStreams[t], "wait", BetaStreams[t - 1])
               /\ BetaStages[t][4] = On(BetaStreams[t], "record", BetaStreams[t])
               /\ \A y \in (2..5) \ {4} : /\ OneOf(BetaStages[t][y], BetaStreams[t])
                                          /\ BetaStages[t][y].op # "gamma"
    <3> DEFINE i == fba.N - t
    <3>0. i \in Int /\ StreamOf(i) \in Int /\ StreamOf(i + 1) \in Int
      BY <2>4
    <3>1. BetaMetrics[t] \in Cmd /\ OneOf(BetaMetrics[t], BetaStreams[t])
          /\ BetaMetrics[t].op = "gamma"
      <4>1. "gamma" \in KernelOps /\ BetaMetrics[t] = On(StreamOf(i), "gamma", i)
            /\ BetaStreams[t] = StreamOf(i)
        BY <2>4 DEF KernelOps
      <4> HIDE DEF i
      <4> QED BY <1>1, <1>2, <3>0, <4>1 DEF OneOf
    <3> HIDE DEF i
    <3>2. BetaStage(i) \in Seq(Cmd) /\ Len(BetaStage(i)) = 5
      <4>1. /\ On(StreamOf(i), "wait", StreamOf(i + 1)) \in Cmd /\ On(StreamOf(i), "beta", i) \in Cmd
            /\ On(StreamOf(i), "normalize_beta", i) \in Cmd
            /\ On(StreamOf(i), "record", StreamOf(i)) \in Cmd
            /\ On(StreamOf(i), "message", i) \in Cmd
        BY <1>1, <3>0 DEF KernelOps
      <4> QED BY <4>1 DEF BetaStage
    <3>3. /\ BetaStage(i)[1] = On(StreamOf(i), "wait", StreamOf(i + 1))
          /\ BetaStage(i)[2] = On(StreamOf(i), "beta", i)
          /\ BetaStage(i)[3] = On(StreamOf(i), "normalize_beta", i)
          /\ BetaStage(i)[4] = On(StreamOf(i), "record", StreamOf(i))
          /\ BetaStage(i)[5] = On(StreamOf(i), "message", i)
      BY DEF BetaStage
    <3>4. \A y \in (2..5) \ {4} : y = 2 \/ y = 3 \/ y = 5
      OBVIOUS
    <3>5. \A y \in (2..5) \ {4} : OneOf(BetaStage(i)[y], StreamOf(i)) /\ BetaStage(i)[y].op # "gamma"
      BY <1>2, <3>3, <3>4 DEF OneOf, KernelOps
    <3>6. BetaStages[t] = BetaStage(i) /\ BetaStreams[t] = StreamOf(i) /\ BetaStreams[t - 1] = StreamOf(i + 1)
      BY <2>4 DEF i
    <3> QED BY <3>1, <3>2, <3>3, <3>5, <3>6
  <2>6. BetaMetrics \in [1..fba.N -> Cmd] /\ BetaStages \in [1..fba.N -> Seq(Cmd)]
    <3>1. BetaMetrics = [t \in 1..fba.N |-> BetaMetrics[t]] /\ BetaStages = [t \in 1..fba.N |-> BetaStages[t]]
      BY DEF BetaMetrics, BetaStages
    <3> QED BY <2>5, <3>1
  <2> QED BY <2>1, <2>2, <2>3, <2>5, <2>6 DEF Parts
<1>5. LocalAlpha = AlphaStart \o InGroups(AlphaMetrics, AlphaStages) \o Sync
  <2>1. StreamOf(0) = 0
    <3>1. fba.depth \in Nat \ {0} /\ 0 \in 0..fba.depth - 1
      BY DEF Sizes
    <3>2. (0 * fba.depth + 0) % fba.depth = 0
      BY <3>1, Digits
    <3>3. 0 * fba.depth + 0 = 0
      BY <3>1
    <3> QED BY <3>2, <3>3 DEF StreamOf
  <2>2. LocalAlpha = <<On(StreamOf(0), "init_alpha", 0), On(StreamOf(0), "normalize_alpha", 0),
                       On(StreamOf(0), "record", 0)>>
                     \o InGroups(AlphaMetrics, AlphaStages) \o Sync
    BY DEF LocalAlpha, AlphaMetrics, AlphaStages, AlphaStage
  <2>3. AlphaStart = <<On(StreamOf(0), "init_alpha", 0), On(StreamOf(0), "normalize_alpha", 0),
                       On(StreamOf(0), "record", 0)>>
    BY <2>1 DEF AlphaStart
  <2> QED BY <2>2, <2>3
<1>6. LocalBetaAndResults = BetaStart \o InGroups(BetaMetrics, BetaStages) \o Sync
  BY DEF LocalBetaAndResults, BetaStart, BetaMetrics, BetaStages, BetaStage
<1> QED BY <1>3, <1>4, <1>5, <1>6

(***************************************************************************)
(* Metrics and the weights of paths                                        *)
(***************************************************************************)
(* The weights of the steps of the frame, and of those that send d for     *)
(* codeword i.                                                             *)
Steps ==
  [x \in Codewords |-> [s \in States |-> [t \in States |-> Move(Metrics, x, s, t)]]]
SymbolSteps(i, d) ==
  [x \in Codewords |->
     IF x = i THEN [s \in States |-> [t \in States |-> Branch(Metrics, i, s, t, d)]]
     ELSE Steps[x]]

(* What depends on the parameters and the frame alone stays when they      *)
(* stay.                                                                   *)
LEMMA SameParameters ==
  ASSUME fba' = fba, trellis' = trellis
  PROVE  /\ States' = States /\ Codewords' = Codewords /\ Boundaries' = Boundaries
         /\ Alphabet' = Alphabet /\ Metrics' = Metrics /\ Steps' = Steps
         /\ \A i, d : SymbolSteps(i, d)' = SymbolSteps(i, d)
<1>1. States' = States /\ Codewords' = Codewords /\ Boundaries' = Boundaries
      /\ Alphabet' = Alphabet
  BY DEF States, Codewords, Boundaries, Alphabet
<1>2. \A f, i : CwLength(f, i)' = CwLength(f, i) /\ CwStart(f, i)' = CwStart(f, i)
  BY DEF CwLength, CwStart
<1>3. \A f, r, i, m : Segment(f, r, i, m)' = Segment(f, r, i, m)
  BY <1>2 DEF Segment
<1>4. \A w, g, s, t : Becomes(w, g, s, t)' = Becomes(w, g, s, t)
  BY DEF Becomes
<1>5. \A f, c, i, s : R(f, c, i, s)' = R(f, c, i, s)
  BY DEF R, States, Alphabet, Segment, Becomes, CwLength, CwStart
<1>6. Metrics' = Metrics
  BY <1>1, <1>5 DEF Metrics
<1>7. \A W, i, s, t, d : Branch(W, i, s, t, d)' = Branch(W, i, s, t, d)
  BY DEF Branch
<1>8. \A W, i, s, t : Move(W, i, s, t)' = Move(W, i, s, t)
  BY <1>1, <1>7 DEF Move
<1>9. Steps' = Steps
  BY <1>1, <1>6, <1>8 DEF Steps
<1>10. \A i, d : SymbolSteps(i, d)' = SymbolSteps(i, d)
  BY <1>1, <1>6, <1>7, <1>9 DEF SymbolSteps
<1> QED BY <1>1, <1>6, <1>9, <1>10

(* What decode() is given.                                                 *)
Ready == fba \in Decoders /\ trellis \in Frames /\ Suits(trellis)

(* What the assumption on decoders says of the decoder at hand.            *)
LEMMA Parameters ==
  ASSUME fba \in Decoders
  PROVE  /\ fba.N \in Nat \ {0} /\ fba.depth \in Nat \ {0} /\ fba.min \in Int /\ fba.max \in Int
         /\ IsFiniteSet(Alphabet) /\ IsFiniteSet(States)
         /\ \A s \in States : s[1] \in fba.min..fba.max /\ s[1] \in Int /\ s[2] \in {0, 1}
         /\ fba.fss \in BOOLEAN /\ fba.lazy \in BOOLEAN /\ fba.globalstore \in BOOLEAN
         /\ fba.thresholding \in BOOLEAN
         /\ ~fba.thresholding => fba.th_inner = 0 /\ fba.th_outer = 0 /\ fba.tp_states = 0
         /\ fba.fss => ~fba.thresholding /\ ~fba.lazy /\ fba.depth = 1
         /\ fba.th_inner \in Nat /\ fba.th_outer \in Nat /\ fba.tp_states \in Nat
<1>1. /\ fba.N \in Nat \ {0} /\ fba.depth \in Nat \ {0} /\ fba.min \in Int /\ fba.max \in Int
      /\ fba.q \in Nat \ {0}
      /\ fba.fss \in BOOLEAN /\ fba.lazy \in BOOLEAN /\ fba.globalstore \in BOOLEAN
      /\ fba.thresholding \in BOOLEAN
      /\ ~fba.thresholding => fba.th_inner = 0 /\ fba.th_outer = 0 /\ fba.tp_states = 0
      /\ fba.fss => ~fba.thresholding /\ ~fba.lazy /\ fba.depth = 1
      /\ fba.th_inner \in Nat /\ fba.th_outer \in Nat /\ fba.tp_states \in Nat
  BY DecodersAssumption
<1>2. IsFiniteSet(Alphabet)
  <2>1. 0 \in Int /\ fba.q - 1 \in Int
    BY <1>1
  <2> QED BY <2>1, FS_Interval DEF Alphabet
<1>3. IsFiniteSet(States)
  <2> DEFINE F == IF fba.fss THEN {0, 1} ELSE {0}
             D == fba.min..fba.max
  <2>1. IsFiniteSet(D)
    BY <1>1, FS_Interval
  <2>2. IsFiniteSet(F)
    <3>1. IsFiniteSet({0}) /\ IsFiniteSet({0, 1})
      <4>1. IsFiniteSet({0}) /\ IsFiniteSet({1})
        BY FS_Singleton
      <4>2. {0, 1} = {0} \cup {1}
        OBVIOUS
      <4> QED BY <4>1, <4>2, FS_Union
    <3> QED BY <3>1
  <2> HIDE DEF F, D
  <2>3. IsFiniteSet(D \X F)
    BY <2>1, <2>2, FS_Product
  <2> QED BY <2>3 DEF States, D, F
<1>4. \A s \in States : s[1] \in fba.min..fba.max /\ s[1] \in Int /\ s[2] \in {0, 1}
  BY <1>1 DEF States
<1> QED BY <1>1, <1>2, <1>3, <1>4

(* The words of a codeword, and the priors.                                *)
LEMMA Words ==
  ASSUME Ready, NEW i \in Codewords, NEW d \in Alphabet
  PROVE  /\ trellis.table[i][d] \in Seq(Nat)
         /\ Len(trellis.table[i][d]) = CwLength(trellis, i)
         /\ CwLength(trellis, i) \in Nat
         /\ trellis.app # <<>> => trellis.app[i][d] \in Nat
<1>1. DOMAIN trellis.table = Codewords /\ DOMAIN trellis.table[0] = Alphabet
  BY DEF Ready, Suits
<1>2. trellis \in Frames
  BY DEF Ready
<1>3. /\ DOMAIN trellis.table[i] = DOMAIN trellis.table[0]
      /\ \A e \in DOMAIN trellis.table[i] :
           trellis.table[i][e] \in Seq(Nat) /\ Len(trellis.table[i][e]) = Len(trellis.table[i][0])
  BY <1>1, <1>2, FramesAssumption
<1>4. trellis.app = <<>> \/ \A j \in DOMAIN trellis.table, e \in DOMAIN trellis.table[0] : trellis.app[j][e] \in Nat
  BY <1>2, FramesAssumption
<1>5. trellis.table[i][d] \in Seq(Nat) /\ Len(trellis.table[i][d]) = Len(trellis.table[i][0])
  BY <1>1, <1>3
<1>6. trellis.app # <<>> => trellis.app[i][d] \in Nat
  BY <1>1, <1>4
<1>7. Len(trellis.table[i][d]) \in Nat
  BY <1>5
<1> QED BY <1>5, <1>6, <1>7 DEF CwLength

(* The receiver's measure of a word and a segment is a natural number.     *)
LEMMA BecomesIsNumber ==
  ASSUME fba \in Decoders, NEW word \in Seq(Nat), NEW segment, NEW s \in States, NEW t \in States
  PROVE  Becomes(word, segment, s, t) \in Nat
<1> DEFINE length == Len(word) + t[1] - s[1]
           both == 1..Min({Len(word), length})
           agreeing == {k \in both : word[k] = segment[k]}
<1>1. Len(word) \in Int /\ length \in Int /\ t[2] \in {0, 1}
  BY Parameters
<1> HIDE DEF length
<1>2. Min({Len(word), length}) \in Int
  <2>1. \A x, y \in Int : Min({x, y}) \in Int
    <3>1. \A x, y \in Int : Min({x, y}) = IF x <= y THEN x ELSE y
      BY DEF Min
    <3> QED BY <3>1
  <2> QED BY <1>1, <2>1
<1>3. IsFiniteSet(both)
  <2>1. 1 \in Int
    OBVIOUS
  <2> QED BY <1>2, <2>1, FS_Interval
<1>4. agreeing \subseteq both
  OBVIOUS
<1> HIDE DEF agreeing, both
<1>5. Cardinality(agreeing) \in Nat
  <2>1. IsFiniteSet(agreeing)
    BY <1>3, <1>4, FS_Subset
  <2> QED BY <2>1, FS_CardinalityType
<1>6. 1 + Cardinality(agreeing) + t[2] \in Nat
  BY <1>1, <1>5
<1>7. Becomes(word, segment, s, t) \in {0, 1 + Cardinality(agreeing) + t[2]}
  BY DEF Becomes, agreeing, both, length
<1> QED BY <1>6, <1>7

(* Nothing moves to where a codeword does not reach.                       *)
LEMMA BecomesOutOfReach ==
  ASSUME fba \in Decoders, fba.fss, NEW i, NEW word \in Seq(Nat), Len(word) = CwLength(trellis, i),
         NEW segment, NEW s \in States, NEW t \in States, t \notin Reach(i, s)
  PROVE  Becomes(word, segment, s, t) = 0
<1>1. PICK L \in Nat : L = Len(word) /\ L = CwLength(trellis, i)
  OBVIOUS
<1>2. ~ (t[1] >= s[1] - ((L + 1) \div 2))
  BY <1>1 DEF Reach
<1>3. 2 * (s[1] - t[1]) > L + t[2] - s[2]
  <2>1. s[1] \in Int /\ t[1] \in Int /\ s[2] \in {0, 1} /\ t[2] \in {0, 1}
    BY Parameters
  <2>2. L + 1 = ((L + 1) \div 2) * 2 + ((L + 1) % 2) /\ (L + 1) % 2 \in 0..1 /\ (L + 1) \div 2 \in Nat
    <3>1. L + 1 \in Nat /\ 2 \in Nat \ {0}
      OBVIOUS
    <3>2. 2 - 1 = 1
      OBVIOUS
    <3> QED BY <3>1, <3>2, Remainders
  <2>3. PICK h \in Nat, r \in 0..1 : h = (L + 1) \div 2 /\ r = (L + 1) % 2
    BY <2>2
  <2>4. L + 1 = h * 2 + r /\ ~ (t[1] >= s[1] - h)
    BY <1>2, <2>2, <2>3
  <2>5. PICK x \in Int, y \in Int : x = s[1] /\ y = t[1]
    BY <2>1
  <2>6. PICK p \in {0, 1}, q \in {0, 1} : p = s[2] /\ q = t[2]
    BY <2>1
  <2>7. 2 * (x - y) > L + q - p
    BY SMTT(40), <2>4, <2>5
  <2> QED BY <2>5, <2>6, <2>7
<1> QED BY <1>1, <1>3 DEF Becomes

(* The metrics of the frame are natural numbers, and weigh the steps       *)
(* within reach.                                                           *)
LEMMA MetricsAreNumbers ==
  ASSUME Ready, NEW i \in Codewords, NEW s \in States, NEW t \in States, NEW d \in Alphabet
  PROVE  /\ Metrics[i][s] = R(trellis, trellis, i, s)
         /\ Metrics[i][s][d][t] \in Nat
         /\ Branch(Metrics, i, s, t, d) \in Nat
         /\ t \in Reach(i, s) => Branch(Metrics, i, s, t, d) = Metrics[i][s][d][t]
         /\ t \notin Reach(i, s) => Branch(Metrics, i, s, t, d) = 0
<1> DEFINE segment == Segment(trellis, trellis.r, i, s[1])
           b == Becomes(trellis.table[i][d], segment, s, t)
           w == IF trellis.app = <<>> THEN 1 ELSE trellis.app[i][d]
<1>0. fba \in Decoders
  BY DEF Ready
<1>1. Metrics[i][s] = R(trellis, trellis, i, s)
  BY DEF Metrics
<1>2. Metrics[i][s][d][t] = b * w
  BY <1>1 DEF R
<1>3. b \in Nat
  BY <1>0, Words, BecomesIsNumber
<1>4. w \in Nat
  BY Words
<1>5. fba.fss /\ t \notin Reach(i, s) => b = 0
  BY <1>0, Words, BecomesOutOfReach
<1> HIDE DEF b, w
<1>6. \A x, y \in Nat : x * y \in Nat /\ 0 * y = 0
  OBVIOUS
<1>7. Metrics[i][s][d][t] \in Nat
  BY <1>2, <1>3, <1>4, <1>6
<1>8. fba.fss /\ t \notin Reach(i, s) => Metrics[i][s][d][t] = 0
  BY <1>2, <1>4, <1>5, <1>6
<1>9. ~fba.fss => (t \in Reach(i, s) <=> t[1] - s[1] \in fba.nmin..fba.nmax)
  BY DEF Reach
<1>10. Branch(Metrics, i, s, t, d) =
         IF fba.fss \/ t[1] - s[1] \in fba.nmin..fba.nmax THEN Metrics[i][s][d][t] ELSE 0
  BY DEF Branch
<1> QED BY <1>1, <1>7, <1>8, <1>9, <1>10

(* Total is the sum of natural numbers.                                    *)
LEMMA TotalIsSum ==
  ASSUME NEW f, Numbers(f, DOMAIN f)
  PROVE  Total(f) = Sum(f, DOMAIN f) /\ Total(f) \in Nat
BY SumFunctionIsSum DEF Total

Row(r) == r \in [States -> Nat]

(* A step weighs what its symbols weigh together, and nothing out of       *)
(* reach.                                                                  *)
LEMMA StepsProperties ==
  ASSUME Ready, NEW i \in Codewords, NEW s \in States, NEW t \in States
  PROVE  /\ Steps[i][s][t] = Move(Metrics, i, s, t) /\ Steps[i][s][t] \in Nat
         /\ t \notin Reach(i, s) => Steps[i][s][t] = 0
         /\ t \in Reach(i, s) => Steps[i][s][t] = Total([d \in Alphabet |-> Metrics[i][s][d][t]])
         /\ \A d \in Alphabet : Branch(Metrics, i, s, t, d) > 0 => Steps[i][s][t] > 0
<1> DEFINE f == [d \in Alphabet |-> Branch(Metrics, i, s, t, d)]
<1>1. Steps[i][s][t] = Move(Metrics, i, s, t)
  BY DEF Steps
<1>2. Move(Metrics, i, s, t) = Total(f)
  BY DEF Move
<1>3. Numbers(f, Alphabet) /\ DOMAIN f = Alphabet
  <2>1. IsFiniteSet(Alphabet)
    BY Parameters DEF Ready
  <2>2. \A d \in Alphabet : Branch(Metrics, i, s, t, d) \in Nat
    BY MetricsAreNumbers
  <2> QED BY <2>1, <2>2 DEF Numbers
<1>4. \A d \in Alphabet : f[d] = Branch(Metrics, i, s, t, d)
  OBVIOUS
<1>5. t \in Reach(i, s) => f = [d \in Alphabet |-> Metrics[i][s][d][t]]
  <2>1. t \in Reach(i, s) => \A d \in Alphabet : Branch(Metrics, i, s, t, d) = Metrics[i][s][d][t]
    BY MetricsAreNumbers
  <2> QED BY <2>1
<1>6. t \notin Reach(i, s) => \A d \in Alphabet : f[d] = 0
  <2>1. t \notin Reach(i, s) => \A d \in Alphabet : Branch(Metrics, i, s, t, d) = 0
    BY MetricsAreNumbers
  <2> QED BY <2>1
<1> HIDE DEF f
<1>7. Total(f) = Sum(f, Alphabet) /\ Total(f) \in Nat
  BY <1>3, TotalIsSum
<1>8. t \notin Reach(i, s) => Total(f) = 0
  <2>1. IsFiniteSet(Alphabet)
    BY Parameters DEF Ready
  <2> QED BY <1>6, <1>7, <2>1, SumOfZeros
<1>9. \A d \in Alphabet : f[d] > 0 => Sum(f, Alphabet) > 0
  BY <1>3, SumPositive
<1> QED BY <1>1, <1>2, <1>4, <1>5, <1>7, <1>8, <1>9

(* A sum that leaves out what weighs nothing, and what is out of reach.    *)
LEMMA ForwardTotal ==
  ASSUME Ready, NEW i \in Codewords, NEW row, Row(row), NEW K, K \subseteq States,
         NEW t \in States, NEW f, DOMAIN f \subseteq K,
         \A s \in DOMAIN f : f[s] = row[s] * Steps[i][s][t],
         \A s \in K \ DOMAIN f : row[s] = 0 \/ t \notin Reach(i, s)
  PROVE  Total(f) = Sum(Ahead(States, Steps, i, row, t), K) /\ Total(f) \in Nat
<1> DEFINE g == Ahead(States, Steps, i, row, t)
<1>1. \A s \in States : row[s] \in Nat /\ Steps[i][s][t] \in Nat
  BY StepsProperties DEF Row
<1>2. \A s \in States : g[s] = row[s] * Steps[i][s][t]
  BY DEF Ahead
<1> HIDE DEF g
<1>3. \A x, y \in Nat : x * y \in Nat /\ x * 0 = 0 /\ 0 * y = 0
  OBVIOUS
<1>4. \A s \in States : g[s] \in Nat
  BY <1>1, <1>2, <1>3
<1>5. Numbers(g, K)
  <2>1. IsFiniteSet(States)
    BY Parameters DEF Ready
  <2>2. IsFiniteSet(K)
    BY <2>1, FS_Subset
  <2> QED BY <1>4, <2>2 DEF Numbers
<1>6. ASSUME NEW s \in K \ DOMAIN f PROVE g[s] = 0
  <2>1. CASE row[s] = 0
    BY <1>1, <1>2, <1>3, <2>1
  <2>2. CASE t \notin Reach(i, s)
    <3>1. Steps[i][s][t] = 0
      BY <2>2, StepsProperties
    <3> QED BY <1>1, <1>2, <1>3, <3>1
  <2> QED BY <2>1, <2>2
<1>7. Sum(g, K) = Sum(g, DOMAIN f)
  BY <1>5, <1>6, SumWhere
<1>8. Numbers(g, DOMAIN f)
  BY <1>5, NumbersSubset
<1>9. \A s \in DOMAIN f : g[s] = f[s]
  BY <1>2
<1>10. Sum(g, DOMAIN f) = Sum(f, DOMAIN f) /\ Numbers(f, DOMAIN f)
  <2>1. Numbers(f, DOMAIN f)
    BY <1>8, <1>9 DEF Numbers
  <2> QED BY <1>8, <1>9, <2>1, SumCongruent
<1>11. Total(f) = Sum(f, DOMAIN f) /\ Total(f) \in Nat
  BY <1>10, TotalIsSum
<1> QED BY <1>7, <1>10, <1>11 DEF g

(* A total over the states that a kernel or the host sums backwards is the *)
(* sum over all that are kept: the others add nothing.                     *)
LEMMA BackwardTotal ==
  ASSUME Ready, NEW i \in Codewords, NEW row, Row(row), NEW K, K \subseteq States,
         NEW s \in States, NEW M, \A t \in States : M[i][s][t] \in Nat,
         \A t \in States : t \notin Reach(i, s) => M[i][s][t] = 0,
         NEW f, DOMAIN f \subseteq K,
         \A t \in DOMAIN f : f[t] = row[t] * M[i][s][t],
         \A t \in K \ DOMAIN f : row[t] = 0 \/ t \notin Reach(i, s)
  PROVE  Total(f) = Sum(Behind(States, M, i, row, s), K) /\ Total(f) \in Nat
<1> DEFINE g == Behind(States, M, i, row, s)
<1>1. \A t \in States : row[t] \in Nat
  BY DEF Row
<1>2. \A t \in States : g[t] = M[i][s][t] * row[t]
  BY DEF Behind
<1> HIDE DEF g
<1>3. \A x, y \in Nat : x * y \in Nat /\ x * 0 = 0 /\ 0 * y = 0 /\ x * y = y * x
  OBVIOUS
<1>4. \A t \in States : g[t] \in Nat
  BY <1>1, <1>2, <1>3
<1>5. Numbers(g, K)
  <2>1. IsFiniteSet(States)
    BY Parameters DEF Ready
  <2>2. IsFiniteSet(K)
    BY <2>1, FS_Subset
  <2> QED BY <1>4, <2>2 DEF Numbers
<1>6. ASSUME NEW t \in K \ DOMAIN f PROVE g[t] = 0
  <2>1. CASE row[t] = 0
    BY <1>1, <1>2, <1>3, <2>1
  <2>2. CASE t \notin Reach(i, s)
    <3>1. M[i][s][t] = 0
      BY <2>2
    <3> QED BY <1>1, <1>2, <1>3, <3>1
  <2> QED BY <2>1, <2>2
<1>7. Sum(g, K) = Sum(g, DOMAIN f)
  BY <1>5, <1>6, SumWhere
<1>8. Numbers(g, DOMAIN f)
  BY <1>5, NumbersSubset
<1>9. \A t \in DOMAIN f : g[t] = f[t]
  <2>1. ASSUME NEW t \in DOMAIN f PROVE g[t] = f[t]
    <3>1. t \in States /\ g[t] = M[i][s][t] * row[t] /\ f[t] = row[t] * M[i][s][t]
      BY <1>2
    <3> QED BY <1>1, <1>3, <3>1
  <2> QED BY <2>1
<1>10. Sum(g, DOMAIN f) = Sum(f, DOMAIN f) /\ Numbers(f, DOMAIN f)
  <2>1. Numbers(f, DOMAIN f)
    BY <1>8, <1>9 DEF Numbers
  <2> QED BY <1>8, <1>9, <2>1, SumCongruent
<1>11. Total(f) = Sum(f, DOMAIN f) /\ Total(f) \in Nat
  BY <1>10, TotalIsSum
<1> QED BY <1>7, <1>10, <1>11 DEF g

(* Product is the product of natural numbers.                              *)
LEMMA ProductIsProd ==
  ASSUME NEW f, Numbers(f, DOMAIN f)
  PROVE  Product(f) = Prod(f, DOMAIN f) /\ Product(f) \in Nat
<1> DEFINE S == DOMAIN f
           x(s) == CHOOSE z \in s : TRUE
           Def(it) == [s \in SUBSET S |-> IF s = {} THEN 1 ELSE f[x(s)] * it[s \ {x(s)}]]
           iter == CHOOSE it : it = Def(it)
<1>1. Product(f) = iter[S]
  BY DEF Product, FoldFunction, FoldFunctionOnSet, MapThenFoldSet
<1>2. \A it : it = Def(it) <=> ProdRule(f, S, it)
  BY DEF ProdRule, AnyOf
<1>3. \E it : ProdRule(f, S, it)
  BY ProdMadeByRule
<1>4. ProdRule(f, S, iter)
  <2> HIDE DEF Def
  <2> QED BY <1>2, <1>3
<1>5. iter[S] = Prod(f, S)
  <2> HIDE DEF iter, S
  <2>1. Numbers(f, S)
    BY DEF S
  <2> QED BY <1>4, <2>1, ProdMadeByRule
<1> QED BY <1>1, <1>5, ProdProperties

(* The steps weigh walks.                                                  *)
LEMMA StepsWeigh ==
  ASSUME Ready, NEW u, Row(u)
  PROVE  /\ Weighs(States, u, Steps, fba.N)
         /\ \A i \in Codewords, d \in Alphabet : Weighs(States, u, SymbolSteps(i, d), fba.N)
<1>0. IsFiniteSet(States) /\ fba.N \in Nat /\ Codewords = 0..fba.N - 1
  BY Parameters DEF Ready, Codewords
<1>1. \A x \in 0..fba.N - 1 : \A s, t \in States : Steps[x][s][t] \in Nat
  BY <1>0, StepsProperties
<1>2. ASSUME NEW i \in Codewords, NEW d \in Alphabet, NEW x \in 0..fba.N - 1,
             NEW s \in States, NEW t \in States
      PROVE  SymbolSteps(i, d)[x][s][t] \in Nat
  <2>1. CASE x = i
    <3>1. SymbolSteps(i, d)[x][s][t] = Branch(Metrics, i, s, t, d)
      BY <1>0, <2>1 DEF SymbolSteps
    <3> QED BY <3>1, MetricsAreNumbers
  <2>2. CASE x # i
    <3>1. SymbolSteps(i, d)[x] = Steps[x]
      BY <1>0, <2>2 DEF SymbolSteps
    <3> QED BY <1>1, <3>1
  <2> QED BY <2>1, <2>2
<1>3. Weighs(States, u, Steps, fba.N)
  BY <1>0, <1>1 DEF Weighs, Row
<1>4. ASSUME NEW i \in Codewords, NEW d \in Alphabet
      PROVE  Weighs(States, u, SymbolSteps(i, d), fba.N)
  <2>1. \A x \in 0..fba.N - 1 : \A s, t \in States : SymbolSteps(i, d)[x][s][t] \in Nat
    BY <1>2
  <2> HIDE DEF SymbolSteps
  <2> QED BY <1>0, <2>1 DEF Weighs, Row
<1> QED BY <1>3, <1>4

(* One step apart from the others.                                         *)
Splits(p) ==
  \A i \in Codewords :
    /\ PathWeight(Metrics, p, Codewords \ {i}) \in Nat
    /\ PathWeight(Metrics, p, Codewords) =
         PathWeight(Metrics, p, Codewords \ {i}) * Steps[i][p[i]][p[i + 1]]

(* A path weighs what the walk along it does, in all and for one symbol of *)
(* one codeword.                                                           *)
LEMMA PathWeights ==
  ASSUME Ready, NEW u, Row(u), NEW v, Row(v), NEW p \in Paths,
         u[p[0]] = trellis.sof[p[0][1]], v[p[fba.N]] = trellis.eof[p[fba.N][1]]
  PROVE  /\ PathWeight(Metrics, p, Codewords) = WholeWalks(States, u, Steps, v, fba.N)[p]
         /\ \A i \in Codewords, d \in Alphabet :
              PathWeight(Metrics, p, Codewords \ {i}) * Branch(Metrics, i, p[i], p[i + 1], d) =
                WholeWalks(States, u, SymbolSteps(i, d), v, fba.N)[p]
         /\ PathWeight(Metrics, p, Codewords) \in Nat
         /\ Splits(p)
<1> DEFINE N == fba.N
           C == Codewords
           U == trellis.sof[p[0][1]]
           V == trellis.eof[p[fba.N][1]]
           f == StepWeights(Steps, p, N)
<1>0. N \in Nat /\ C = 0..N - 1 /\ p \in Walks(States, N)
  BY Parameters DEF Ready, Codewords, Boundaries, Paths, Walks
<1>1. /\ Numbers(f, C) /\ p[0] \in States /\ p[N] \in States
      /\ \A x \in C : p[x] \in States /\ p[x + 1] \in States /\ f[x] = Steps[x][p[x]][p[x + 1]]
  <2>1. Weighs(States, u, Steps, N)
    BY StepsWeigh
  <2> QED BY <1>0, <2>1, StepsAreNumbers
<1>2. U \in Nat /\ V \in Nat
  BY <1>1 DEF Row
<1>3. \A x \in C : Move(Metrics, x, p[x], p[x + 1]) = f[x]
  BY <1>1, StepsProperties
<1>4. ASSUME NEW S \in SUBSET C
      PROVE  PathWeight(Metrics, p, S) = U * V * Prod(f, S) /\ Prod(f, S) \in Nat
  <2> DEFINE g == [i \in S |-> Move(Metrics, i, p[i], p[i + 1])]
  <2>1. PathWeight(Metrics, p, S) = U * V * Product(g)
    BY DEF PathWeight
  <2>2. Numbers(f, S)
    BY <1>1, NumbersSubset
  <2>3. DOMAIN g = S /\ \A x \in S : g[x] = f[x]
    BY <1>3
  <2> HIDE DEF g, f
  <2>4. Numbers(g, S)
    BY <2>2, <2>3 DEF Numbers
  <2>5. Prod(g, S) = Prod(f, S)
    BY <2>3, <2>4, ProdCongruent
  <2>6. Product(g) = Prod(g, S)
    BY <2>3, <2>4, ProductIsProd
  <2>7. Prod(f, S) \in Nat
    BY <2>2, ProdProperties
  <2> QED BY <2>1, <2>5, <2>6, <2>7
<1>5. WholeWalks(States, u, Steps, v, N)[p] = (U * Prod(f, C)) * V
  BY <1>0 DEF WholeWalks, WalkWeights
<1>6. PathWeight(Metrics, p, C) = U * V * Prod(f, C) /\ Prod(f, C) \in Nat
  <2>1. C \in SUBSET C
    OBVIOUS
  <2> QED BY <1>4, <2>1
<1>7. \A x, y, z \in Nat : x * y * z = (x * z) * y /\ x * y * z \in Nat
  OBVIOUS
<1>8. PathWeight(Metrics, p, C) = WholeWalks(States, u, Steps, v, N)[p] /\ PathWeight(Metrics, p, C) \in Nat
  <2> HIDE DEF U, V, f, C, N
  <2> QED BY <1>2, <1>5, <1>6, <1>7
<1>9. ASSUME NEW i \in C
      PROVE  /\ PathWeight(Metrics, p, C \ {i}) \in Nat /\ Steps[i][p[i]][p[i + 1]] \in Nat
             /\ PathWeight(Metrics, p, C \ {i}) = U * V * Prod(f, C \ {i})
             /\ Prod(f, C \ {i}) \in Nat
             /\ PathWeight(Metrics, p, C) =
                  PathWeight(Metrics, p, C \ {i}) * Steps[i][p[i]][p[i + 1]]
  <2>1. PathWeight(Metrics, p, C \ {i}) = U * V * Prod(f, C \ {i}) /\ Prod(f, C \ {i}) \in Nat
    <3>1. C \ {i} \in SUBSET C
      OBVIOUS
    <3> HIDE DEF U, V, f, C
    <3> QED BY <1>4, <3>1
  <2>2. Prod(f, C) = f[i] * Prod(f, C \ {i})
    BY <1>1, ProdProperties
  <2>3. f[i] = Steps[i][p[i]][p[i + 1]] /\ f[i] \in Nat
    BY <1>1 DEF Numbers
  <2>4. \A x, y, z, w \in Nat : x * y * (z * w) = (x * y * w) * z
    OBVIOUS
  <2> HIDE DEF U, V, f, C
  <2>5. PathWeight(Metrics, p, C) = PathWeight(Metrics, p, C \ {i}) * f[i]
    BY <1>2, <1>6, <2>1, <2>2, <2>3, <2>4
  <2>6. PathWeight(Metrics, p, C \ {i}) \in Nat
    BY <1>2, <1>7, <2>1
  <2> QED BY <2>1, <2>3, <2>5, <2>6
<1>10. ASSUME NEW i \in C, NEW d \in Alphabet
       PROVE  PathWeight(Metrics, p, C \ {i}) * Branch(Metrics, i, p[i], p[i + 1], d) =
                WholeWalks(States, u, SymbolSteps(i, d), v, N)[p]
  <2> DEFINE g == StepWeights(SymbolSteps(i, d), p, N)
  <2>1. WholeWalks(States, u, SymbolSteps(i, d), v, N)[p] = (U * Prod(g, C)) * V
    BY <1>0 DEF WholeWalks, WalkWeights
  <2>2. Numbers(g, C) /\ \A x \in C : g[x] = SymbolSteps(i, d)[x][p[x]][p[x + 1]]
    <3>1. Weighs(States, u, SymbolSteps(i, d), N)
      BY StepsWeigh
    <3> HIDE DEF SymbolSteps
    <3> QED BY <1>0, <3>1, StepsAreNumbers
  <2>3. g[i] = Branch(Metrics, i, p[i], p[i + 1], d)
    <3>1. p[i] \in States /\ p[i + 1] \in States
      BY <1>1
    <3>2. SymbolSteps(i, d)[i][p[i]][p[i + 1]] = Branch(Metrics, i, p[i], p[i + 1], d)
      BY <3>1 DEF SymbolSteps
    <3> QED BY <2>2, <3>2
  <2>4. \A x \in C \ {i} : g[x] = f[x]
    <3>1. ASSUME NEW x \in C \ {i} PROVE g[x] = f[x]
      <4>1. SymbolSteps(i, d)[x] = Steps[x]
        BY DEF SymbolSteps
      <4>2. g[x] = SymbolSteps(i, d)[x][p[x]][p[x + 1]] /\ f[x] = Steps[x][p[x]][p[x + 1]]
        BY <1>1, <2>2
      <4> HIDE DEF g, f, SymbolSteps, Steps
      <4> QED BY <4>1, <4>2
    <3> QED BY <3>1
  <2> HIDE DEF g, f, U, V, C
  <2>5. Prod(g, C) = g[i] * Prod(g, C \ {i})
    BY <2>2, ProdProperties
  <2>6. Prod(g, C \ {i}) = Prod(f, C \ {i})
    <3>1. Numbers(g, C \ {i})
      BY <2>2, NumbersSubset
    <3> QED BY <2>4, <3>1, ProdCongruent
  <2>7. g[i] \in Nat
    BY <2>2 DEF Numbers
  <2>8. PathWeight(Metrics, p, C \ {i}) = U * V * Prod(f, C \ {i}) /\ Prod(f, C \ {i}) \in Nat
    BY <1>9
  <2>9. \A x, y, z, w \in Nat : (x * y * w) * z = (x * (z * w)) * y
    OBVIOUS
  <2>10. (U * V * Prod(f, C \ {i})) * g[i] = (U * (g[i] * Prod(f, C \ {i}))) * V
    BY <1>2, <2>7, <2>8, <2>9
  <2> QED BY <2>1, <2>3, <2>5, <2>6, <2>8, <2>10
<1>11. Splits(p)
  BY <1>9 DEF Splits
<1> QED BY <1>8, <1>10, <1>11

(***************************************************************************)
(* What the rows of the two passes give together                           *)
(***************************************************************************)
SymbolRow(i, d, b) ==
  [s \in States |-> Sum(Behind(States, SymbolSteps(i, d), i, b, s), States)]

(* The matrices of a symbol of codeword i are those of all symbols but for *)
(* that codeword.                                                          *)
LEMMA SymbolStepsAre ==
  ASSUME Ready, NEW i \in Codewords, NEW d \in Alphabet
  PROVE  /\ \A j \in Codewords \ {i} : SymbolSteps(i, d)[j] = Steps[j]
         /\ \A s, t \in States :
              /\ SymbolSteps(i, d)[i][s][t] = Branch(Metrics, i, s, t, d)
              /\ SymbolSteps(i, d)[i][s][t] \in Nat
              /\ t \notin Reach(i, s) => SymbolSteps(i, d)[i][s][t] = 0
<1>1. \A j \in Codewords \ {i} : SymbolSteps(i, d)[j] = Steps[j]
  BY DEF SymbolSteps
<1>2. \A s, t \in States : SymbolSteps(i, d)[i][s][t] = Branch(Metrics, i, s, t, d)
  BY DEF SymbolSteps
<1>3. \A s, t \in States : Branch(Metrics, i, s, t, d) \in Nat
                           /\ (t \notin Reach(i, s) => Branch(Metrics, i, s, t, d) = 0)
  BY MetricsAreNumbers
<1> QED BY <1>1, <1>2, <1>3

(* One step backwards for one symbol makes a row of weights.               *)
LEMMA SymbolRowIsRow ==
  ASSUME Ready, NEW i \in Codewords, NEW d \in Alphabet, NEW b, Row(b)
  PROVE  Row(SymbolRow(i, d, b))
<1>1. ASSUME NEW s \in States
      PROVE  Sum(Behind(States, SymbolSteps(i, d), i, b, s), States) \in Nat
  <2> DEFINE f == Behind(States, SymbolSteps(i, d), i, b, s)
  <2>1. \A t \in States : SymbolSteps(i, d)[i][s][t] \in Nat /\ b[t] \in Nat
    BY SymbolStepsAre DEF Row
  <2>2. \A t \in States : f[t] = SymbolSteps(i, d)[i][s][t] * b[t]
    BY DEF Behind
  <2> HIDE DEF f
  <2>3. \A x, y \in Nat : x * y \in Nat
    OBVIOUS
  <2>4. Numbers(f, States)
    <3>1. IsFiniteSet(States)
      BY Parameters DEF Ready
    <3>2. \A t \in States : f[t] \in Nat
      BY <2>1, <2>2, <2>3
    <3> QED BY <3>1, <3>2 DEF Numbers
  <2> QED BY <2>4, SumProperties DEF f
<1> QED BY <1>1 DEF Row, SymbolRow

(* Where the passes meet at codeword i for one symbol, they have summed    *)
(* the walks that send it.                                                 *)
LEMMA SymbolWalks ==
  ASSUME Ready, NEW u, Row(u), NEW v, Row(v), NEW i \in Codewords, NEW d \in Alphabet,
         NEW K, \A j \in Boundaries : K[j] \subseteq States, K[i + 1] = States,
         NEW A, ForwardIn(States, u, Steps, K, i, A),
         NEW B, BackwardIn(States, v, Steps, K, i + 1, fba.N, B)
  PROVE  Sum(WholeWalks(States, u, SymbolSteps(i, d), v, fba.N), Staying(States, K, fba.N)) =
           Sum(Meets(States, A[i], SymbolRow(i, d, B[i + 1])), K[i])
<1> DEFINE N == fba.N
           M == SymbolSteps(i, d)
           b == [j \in i..N |-> IF j = i THEN SymbolRow(i, d, B[i + 1]) ELSE B[j]]
<1>0. /\ N \in Nat /\ N # 0 /\ Boundaries = 0..N /\ i \in 0..N - 1 /\ i \in 0..N /\ i + 1 \in i + 1..N
      /\ i + 1 \in 0..N
  BY Parameters DEF Ready, Boundaries, Codewords
<1>m. \A j \in Codewords \ {i} : M[j] = Steps[j]
  BY SymbolStepsAre
<1>w. Weighs(States, u, M, N)
  BY StepsWeigh
<1>1. ForwardIn(States, u, M, K, i, A)
  <2>1. ASSUME NEW j \in 0..i - 1, NEW t \in K[j + 1]
        PROVE  A[j + 1][t] = Sum(Ahead(States, M, j, A[j], t), K[j])
    <3>1. A[j + 1][t] = Sum(Ahead(States, Steps, j, A[j], t), K[j])
      BY DEF ForwardIn
    <3>2. M[j] = Steps[j]
      <4>1. j \in Codewords \ {i}
        BY <1>0 DEF Codewords
      <4> QED BY <1>m, <4>1
    <3>3. Ahead(States, M, j, A[j], t) = Ahead(States, Steps, j, A[j], t)
      <4> HIDE DEF M
      <4> QED BY <3>2 DEF Ahead
    <3> QED BY <3>1, <3>3
  <2> HIDE DEF M
  <2> QED BY <2>1 DEF ForwardIn
<1>2. /\ b[i] = SymbolRow(i, d, B[i + 1]) /\ \A j \in i + 1..N : b[j] = B[j]
  BY <1>0
<1> HIDE DEF b
<1>3. BackwardIn(States, v, M, K, i, N, b)
  <2>1. \A s \in States : b[N][s] = v[s]
    <3>1. N \in i + 1..N
      BY <1>0
    <3> QED BY <1>2, <3>1 DEF BackwardIn
  <2>2. \A s \in States : b[i][s] = Sum(Behind(States, M, i, B[i + 1], s), States)
    BY <1>2 DEF SymbolRow
  <2>3. \A s \in States : b[i][s] \in Nat
    <3> DEFINE r == [s \in States |-> B[i + 1][s]]
    <3>1. \A s \in States : B[i + 1][s] \in Nat
      BY <1>0 DEF BackwardIn
    <3>2. Row(r)
      BY <3>1 DEF Row
    <3>3. Row(SymbolRow(i, d, r))
      BY <3>2, SymbolRowIsRow
    <3>4. \A s \in States : Behind(States, M, i, r, s) = Behind(States, M, i, B[i + 1], s)
      BY DEF Behind
    <3>5. \A s \in States : SymbolRow(i, d, r)[s] = Sum(Behind(States, M, i, r, s), States)
      BY DEF SymbolRow
    <3> HIDE DEF r, M
    <3>6. \A s \in States : SymbolRow(i, d, r)[s] \in Nat
      BY <3>3 DEF Row
    <3> QED BY <2>2, <3>4, <3>5, <3>6
  <2>4. ASSUME NEW j \in i..N PROVE \A s \in States : b[j][s] \in Nat
    <3>1. CASE j = i
      BY <2>3, <3>1
    <3>2. CASE j # i
      <4>1. j \in i + 1..N
        BY <1>0, <3>2
      <4> QED BY <1>2, <4>1 DEF BackwardIn
    <3> QED BY <3>1, <3>2
  <2>5. ASSUME NEW j \in i..N - 1, NEW s \in K[j]
        PROVE  b[j][s] = Sum(Behind(States, M, j, b[j + 1], s), K[j + 1])
    <3>0. j \in 0..N /\ s \in States /\ j + 1 \in i + 1..N /\ b[j + 1] = B[j + 1]
      <4>1. j \in 0..N /\ j + 1 \in i + 1..N
        BY <1>0
      <4> QED BY <1>0, <1>2, <4>1
    <3>1. CASE j = i
      BY <2>2, <3>0, <3>1
    <3>2. CASE j # i
      <4>1. j \in i + 1..N - 1 /\ j \in i + 1..N /\ j \in Codewords \ {i}
        BY <1>0, <3>2 DEF Codewords
      <4>2. B[j][s] = Sum(Behind(States, Steps, j, B[j + 1], s), K[j + 1])
        BY <4>1 DEF BackwardIn
      <4>3. M[j] = Steps[j]
        BY <1>m, <4>1
      <4>4. Behind(States, M, j, B[j + 1], s) = Behind(States, Steps, j, B[j + 1], s)
        <5> HIDE DEF M
        <5> QED BY <4>3 DEF Behind
      <4> QED BY <1>2, <3>0, <4>1, <4>2, <4>4
    <3> QED BY <3>1, <3>2
  <2> HIDE DEF M
  <2> QED BY <2>1, <2>4, <2>5 DEF BackwardIn
<1>4. v \in [States -> Nat] /\ \A j \in 0..N : K[j] \subseteq States
  BY <1>0 DEF Row
<1>5. Sum(WholeWalks(States, u, M, v, N), Staying(States, K, N)) = Sum(Meets(States, A[i], b[i]), K[i])
  <2> HIDE DEF M, N
  <2> QED BY <1>0, <1>w, <1>1, <1>3, <1>4, KeptWalks
<1> QED BY <1>2, <1>5

(* Pruning keeps states.                                                   *)
LEMMA KeptAreStates ==
  ASSUME NEW row, NEW factor
  PROVE  Kept(row, factor) \subseteq States
BY DEF Kept

(* A sum over paths that stay.                                             *)
LEMMA PathTotal ==
  ASSUME Ready, NEW u, Row(u), NEW v, Row(v), NEW M, Weighs(States, u, M, fba.N), NEW K,
         NEW f, DOMAIN f \subseteq Staying(States, K, fba.N),
         \A p \in DOMAIN f : f[p] = WholeWalks(States, u, M, v, fba.N)[p],
         \A p \in Staying(States, K, fba.N) \ DOMAIN f :
           WholeWalks(States, u, M, v, fba.N)[p] = 0
  PROVE  Total(f) = Sum(WholeWalks(States, u, M, v, fba.N), Staying(States, K, fba.N))
<1> DEFINE g == WholeWalks(States, u, M, v, fba.N)
           T == Staying(States, K, fba.N)
<1>1. Numbers(g, Walks(States, fba.N))
  <2>1. v \in [States -> Nat]
    BY DEF Row
  <2> QED BY <2>1, WalksEnd
<1>2. T \subseteq Walks(States, fba.N)
  BY DEF Staying
<1> HIDE DEF g, T
<1>3. Numbers(g, T)
  BY <1>1, <1>2, NumbersSubset
<1>4. Numbers(g, DOMAIN f)
  BY <1>3, NumbersSubset DEF T
<1>5. Sum(g, T) = Sum(g, DOMAIN f)
  BY <1>3, SumWhere DEF g, T
<1>6. Numbers(f, DOMAIN f) /\ \A p \in DOMAIN f : f[p] = g[p]
  BY <1>4 DEF Numbers, g
<1>7. Sum(f, DOMAIN f) = Sum(g, DOMAIN f)
  BY <1>6, SumCongruent
<1>8. Total(f) = Sum(f, DOMAIN f)
  BY <1>6, TotalIsSum
<1> QED BY <1>5, <1>7, <1>8 DEF g, T

(***************************************************************************)
(* What the device leaves                                                  *)
(***************************************************************************)
AlphaRow(i, row, K) == [t \in States |-> Sum(Ahead(States, Steps, i, row, t), K)]
BetaRow(i, row, K) == [s \in States |-> Sum(Behind(States, Steps, i, row, s), K)]
SymbolTable(i, a, b, K) ==
  [d \in Alphabet |-> Sum(Meets(States, a, SymbolRow(i, d, b)), K)]

RowsTyped == \A i \in Boundaries : Row(alpha[i]) /\ Row(beta[i])
DeviceComplete ==
  /\ RowsTyped
  /\ alpha[0] = Prior0(trellis.sof) /\ beta[fba.N] = Prior0(trellis.eof)
  /\ \A i \in 1..fba.N :
       alpha[i] = AlphaRow(i - 1, alpha[i - 1], Kept(alpha[i - 1], fba.th_inner))
  /\ \A i \in Codewords :
       /\ beta[i] = BetaRow(i, beta[i + 1], Kept(beta[i + 1], fba.th_inner))
       /\ ptable[i] = SymbolTable(i, alpha[i], beta[i + 1], Kept(alpha[i], fba.th_inner))

(* The device's posteriors are the sums over the paths that its pruning    *)
(* keeps, once all rows are made.                                          *)
LEMMA DeviceSums ==
  ASSUME Ready, DeviceComplete, NEW i \in Codewords, NEW d \in Alphabet, NEW kept,
         kept = {p \in Paths : /\ \A j \in 0..i : p[j] \in Kept(alpha[j], fba.th_inner)
                               /\ \A j \in i + 2..fba.N : p[j] \in Kept(beta[j], fba.th_inner)}
  PROVE  ptable[i][d] = Total([p \in kept |-> PathWeight(Metrics, p, Codewords \ {i})
                                                * Branch(Metrics, i, p[i], p[i + 1], d)])
<1> DEFINE N == fba.N
           u == alpha[0]
           v == beta[N]
           K == [j \in Boundaries |-> IF j <= i THEN Kept(alpha[j], fba.th_inner)
                                      ELSE IF j = i + 1 THEN States
                                      ELSE Kept(beta[j], fba.th_inner)]
           f == [p \in kept |-> PathWeight(Metrics, p, Codewords \ {i})
                                  * Branch(Metrics, i, p[i], p[i + 1], d)]
           W == WholeWalks(States, u, SymbolSteps(i, d), v, N)
<1>0. /\ N \in Nat /\ N # 0 /\ Boundaries = 0..N /\ i \in 0..N - 1 /\ i \in Boundaries
      /\ i + 1 \in Boundaries /\ 0 \in Boundaries /\ N \in Boundaries
  BY Parameters DEF Ready, Boundaries, Codewords
<1>1. /\ \A j \in 0..i : K[j] = Kept(alpha[j], fba.th_inner)
      /\ K[i + 1] = States /\ \A j \in i + 2..N : K[j] = Kept(beta[j], fba.th_inner)
  BY <1>0
<1>2. \A j \in Boundaries : K[j] \subseteq States
  BY <1>0, KeptAreStates
<1> HIDE DEF K
<1>3. Row(u) /\ Row(v)
  BY <1>0 DEF DeviceComplete, RowsTyped
<1>4. (\A s \in States : u[s] = trellis.sof[s[1]]) /\ \A s \in States : v[s] = trellis.eof[s[1]]
  BY DEF DeviceComplete, Prior0
<1>5. ForwardIn(States, u, Steps, K, i, alpha)
  <2>1. \A j \in 0..i : Row(alpha[j])
    BY <1>0 DEF DeviceComplete, RowsTyped
  <2>2. ASSUME NEW j \in 0..i - 1, NEW t \in K[j + 1]
        PROVE  alpha[j + 1][t] = Sum(Ahead(States, Steps, j, alpha[j], t), K[j])
    <3>1. j + 1 \in 1..N /\ (j + 1) - 1 = j /\ j \in 0..i /\ j + 1 \in Boundaries
      BY <1>0
    <3>2. t \in States
      BY <1>2, <3>1
    <3>3. alpha[j + 1] = AlphaRow(j, alpha[j], Kept(alpha[j], fba.th_inner))
      <4>1. alpha[j + 1] = AlphaRow((j + 1) - 1, alpha[(j + 1) - 1], Kept(alpha[(j + 1) - 1], fba.th_inner))
        BY <3>1 DEF DeviceComplete
      <4> QED BY <3>1, <4>1
    <3>4. alpha[j + 1] = AlphaRow(j, alpha[j], K[j])
      BY <1>1, <3>1, <3>3
    <3> QED BY <3>2, <3>4 DEF AlphaRow
  <2> QED BY <2>1, <2>2 DEF ForwardIn, Row
<1>6. BackwardIn(States, v, Steps, K, i + 1, N, beta)
  <2>1. \A j \in i + 1..N : \A s \in States : beta[j][s] \in Nat
    <3>1. \A j \in i + 1..N : j \in Boundaries
      BY <1>0
    <3> QED BY <3>1 DEF DeviceComplete, RowsTyped, Row
  <2>2. ASSUME NEW j \in i + 1..N - 1, NEW s \in K[j]
        PROVE  beta[j][s] = Sum(Behind(States, Steps, j, beta[j + 1], s), K[j + 1])
    <3>1. j \in Codewords /\ j + 1 \in i + 2..N /\ j \in Boundaries
      BY <1>0 DEF Codewords
    <3>2. s \in States
      BY <1>2, <3>1
    <3>3. beta[j] = BetaRow(j, beta[j + 1], K[j + 1])
      BY <1>1, <3>1 DEF DeviceComplete
    <3> QED BY <3>2, <3>3 DEF BetaRow
  <2> QED BY <2>1, <2>2 DEF BackwardIn
<1>7. Sum(W, Staying(States, K, N)) = Sum(Meets(States, alpha[i], SymbolRow(i, d, beta[i + 1])), K[i])
  BY <1>2, <1>1, <1>3, <1>5, <1>6, SymbolWalks
<1>8. ptable[i][d] = Sum(W, Staying(States, K, N))
  <2>1. ptable[i] = SymbolTable(i, alpha[i], beta[i + 1], K[i])
    <3>1. i \in 0..i
      BY <1>0
    <3> QED BY <1>1, <3>1 DEF DeviceComplete
  <2> QED BY <1>7, <2>1 DEF SymbolTable
<1>9. kept = Staying(States, K, N)
  <2>1. \A p \in Paths :
          (\A j \in 0..N : p[j] \in K[j]) <=>
            /\ \A j \in 0..i : p[j] \in Kept(alpha[j], fba.th_inner)
            /\ \A j \in i + 2..N : p[j] \in Kept(beta[j], fba.th_inner)
    <3>1. \A p \in Paths : p[i + 1] \in States
      BY <1>0 DEF Paths
    <3>2. \A j \in 0..N : j \in 0..i \/ j = i + 1 \/ j \in i + 2..N
      BY <1>0
    <3>3. (\A j \in 0..i : j \in 0..N) /\ \A j \in i + 2..N : j \in 0..N
      BY <1>0
    <3> QED BY <1>1, <3>1, <3>2, <3>3
  <2>2. Paths = Walks(States, N)
    BY <1>0 DEF Paths, Walks
  <2> QED BY <2>1, <2>2 DEF Staying
<1>10. \A p \in kept : f[p] = W[p]
  <2>1. ASSUME NEW p \in kept PROVE f[p] = W[p]
    <3>1. p \in Paths /\ p[0] \in States /\ p[N] \in States
      BY <1>0 DEF Paths
    <3>2. u[p[0]] = trellis.sof[p[0][1]] /\ v[p[N]] = trellis.eof[p[N][1]]
      BY <1>4, <3>1
    <3>3. PathWeight(Metrics, p, Codewords \ {i}) * Branch(Metrics, i, p[i], p[i + 1], d) = W[p]
      <4> HIDE DEF u, v
      <4> QED BY <1>3, <3>1, <3>2, PathWeights
    <3> QED BY <3>3
  <2> QED BY <2>1
<1>11. Weighs(States, u, SymbolSteps(i, d), N)
  BY <1>3, StepsWeigh
<1>12. Total(f) = Sum(W, Staying(States, K, N))
  <2>1. DOMAIN f = kept
    OBVIOUS
  <2> HIDE DEF f, u, v
  <2>2. DOMAIN f \subseteq Staying(States, K, N) /\ Staying(States, K, N) \ DOMAIN f = {}
    BY <1>9, <2>1
  <2>3. \A p \in DOMAIN f : f[p] = WholeWalks(States, u, SymbolSteps(i, d), v, fba.N)[p]
    BY <1>10, <2>1
  <2> HIDE DEF W
  <2>4. Total(f) = Sum(WholeWalks(States, u, SymbolSteps(i, d), v, fba.N), Staying(States, K, fba.N))
    BY <1>3, <1>11, <2>2, <2>3, PathTotal
  <2> QED BY <2>4 DEF W
<1> QED BY <1>8, <1>12

(***************************************************************************)
(* What the host leaves                                                    *)
(***************************************************************************)
PriorRow(weights) == [s \in States |-> IF s[2] = 0 THEN weights[s[1]] ELSE 0]
AlphaUpTo(n) ==
  /\ alpha[0] = Prior(trellis.sof)
  /\ \A j \in 0..n - 1 :
       alpha[j + 1] = Normalize(AlphaRow(j, alpha[j], Kept(alpha[j], fba.th_inner)))
BetaDownTo(n) ==
  /\ beta[fba.N] = Prior(trellis.eof)
  /\ \A j \in n..fba.N - 1 :
       beta[j] = Normalize(BetaRow(j, beta[j + 1], Kept(alpha[j + 1], fba.th_inner)))
TableFor(S) ==
  \A i \in S :
    ptable[i] = SymbolTable(i, alpha[i], beta[i + 1], Kept(alpha[i], fba.th_outer))
Whole(p) ==
  /\ p \in Paths /\ p[0][2] = 0 /\ p[fba.N][2] = 0
  /\ PathWeight(Metrics, p, Codewords) > 0

(* The priors of the ends of a frame are rows of weights.                  *)
LEMMA EndsAreNumbers ==
  ASSUME Ready
  PROVE  /\ \A s \in States : trellis.sof[s[1]] \in Nat /\ trellis.eof[s[1]] \in Nat
         /\ Row(PriorRow(trellis.sof)) /\ Row(PriorRow(trellis.eof))
         /\ Row(Prior0(trellis.sof)) /\ Row(Prior0(trellis.eof))
<1>1. DOMAIN trellis.sof = fba.min..fba.max /\ DOMAIN trellis.eof = fba.min..fba.max
  BY DEF Ready, Suits
<1>2. \A s \in States : s[1] \in fba.min..fba.max
  BY Parameters DEF Ready
<1>3. \A s \in States : trellis.sof[s[1]] \in Nat /\ trellis.eof[s[1]] \in Nat
  BY <1>1, <1>2, FramesAssumption DEF Ready
<1>4. Row(PriorRow(trellis.sof)) /\ Row(PriorRow(trellis.eof))
  BY <1>3 DEF Row, PriorRow
<1>5. Row(Prior0(trellis.sof)) /\ Row(Prior0(trellis.eof))
  BY <1>3 DEF Row, Prior0
<1> QED BY <1>3, <1>4, <1>5

(* A row with some weight is not changed by scaling.                       *)
LEMMA NormalizeProperties ==
  ASSUME NEW row, Row(row)
  PROVE  /\ Row(Normalize(row))
         /\ \A s \in States : row[s] # 0 => Normalize(row) = row
BY DEF Row, Normalize

(* One step of either pass makes a row of weights of one.                  *)
LEMMA RowsAreRows ==
  ASSUME Ready, NEW i \in Codewords, NEW row, Row(row), NEW K, K \subseteq States
  PROVE  Row(AlphaRow(i, row, K)) /\ Row(BetaRow(i, row, K))
<1>0. IsFiniteSet(K)
  <2>1. IsFiniteSet(States)
    BY Parameters DEF Ready
  <2> QED BY <2>1, FS_Subset
<1>m. \A x, y \in Nat : x * y \in Nat
  OBVIOUS
<1>1. \A s, t \in States : row[s] \in Nat /\ Steps[i][s][t] \in Nat
  BY StepsProperties DEF Row
<1>2. ASSUME NEW t \in States PROVE Sum(Ahead(States, Steps, i, row, t), K) \in Nat
  <2> DEFINE f == Ahead(States, Steps, i, row, t)
  <2>1. \A s \in K : f[s] = row[s] * Steps[i][s][t]
    BY DEF Ahead
  <2> HIDE DEF f
  <2>2. Numbers(f, K)
    BY <1>0, <1>m, <1>1, <2>1 DEF Numbers
  <2> QED BY <2>2, SumProperties DEF f
<1>3. ASSUME NEW s \in States PROVE Sum(Behind(States, Steps, i, row, s), K) \in Nat
  <2> DEFINE f == Behind(States, Steps, i, row, s)
  <2>1. \A t \in K : f[t] = Steps[i][s][t] * row[t]
    BY DEF Behind
  <2> HIDE DEF f
  <2>2. Numbers(f, K)
    BY <1>0, <1>m, <1>1, <2>1 DEF Numbers
  <2> QED BY <2>2, SumProperties DEF f
<1>4. Row(AlphaRow(i, row, K))
  BY <1>2 DEF Row, AlphaRow
<1>5. Row(BetaRow(i, row, K))
  BY <1>3 DEF Row, BetaRow
<1> QED BY <1>4, <1>5

(* A path that weighs something starts, moves and ends.                    *)
LEMMA WholeMoves ==
  ASSUME Ready, NEW p, Whole(p)
  PROVE  /\ \A j \in Boundaries : p[j] \in States
         /\ PriorRow(trellis.sof)[p[0]] > 0 /\ PriorRow(trellis.eof)[p[fba.N]] > 0
         /\ \A i \in Codewords : Steps[i][p[i]][p[i + 1]] > 0
<1> DEFINE u == PriorRow(trellis.sof)
           v == PriorRow(trellis.eof)
<1>0. p \in Paths /\ fba.N \in Nat /\ \A j \in Boundaries : p[j] \in States
  BY Parameters DEF Ready, Whole, Paths
<1>1. p[0] \in States /\ p[fba.N] \in States
  <2>1. 0 \in Boundaries /\ fba.N \in Boundaries
    BY <1>0 DEF Boundaries
  <2> QED BY <1>0, <2>1
<1>2. u[p[0]] = trellis.sof[p[0][1]] /\ v[p[fba.N]] = trellis.eof[p[fba.N][1]]
  BY <1>1 DEF PriorRow, Whole
<1>3. Row(u) /\ Row(v)
  BY EndsAreNumbers
<1> HIDE DEF u, v
<1>4. /\ PathWeight(Metrics, p, Codewords) = WholeWalks(States, u, Steps, v, fba.N)[p]
      /\ PathWeight(Metrics, p, Codewords) \in Nat
      /\ \A i \in Codewords :
           /\ PathWeight(Metrics, p, Codewords \ {i}) \in Nat
           /\ Steps[i][p[i]][p[i + 1]] \in Nat
           /\ PathWeight(Metrics, p, Codewords) =
                PathWeight(Metrics, p, Codewords \ {i}) * Steps[i][p[i]][p[i + 1]]
  <2>1. /\ PathWeight(Metrics, p, Codewords) = WholeWalks(States, u, Steps, v, fba.N)[p]
        /\ PathWeight(Metrics, p, Codewords) \in Nat
    BY <1>0, <1>2, <1>3, PathWeights
  <2>2. \A i \in Codewords :
          /\ PathWeight(Metrics, p, Codewords \ {i}) \in Nat
          /\ p[i] \in States /\ p[i + 1] \in States /\ Steps[i][p[i]][p[i + 1]] \in Nat
          /\ PathWeight(Metrics, p, Codewords) =
               PathWeight(Metrics, p, Codewords \ {i}) * Steps[i][p[i]][p[i + 1]]
    <3>1. Splits(p)
      BY <1>0, <1>2, <1>3, PathWeights
    <3>2. ASSUME NEW i \in Codewords
          PROVE  p[i] \in States /\ p[i + 1] \in States /\ Steps[i][p[i]][p[i + 1]] \in Nat
      <4>1. i \in Boundaries /\ i + 1 \in Boundaries
        BY <1>0 DEF Codewords, Boundaries
      <4>2. p[i] \in States /\ p[i + 1] \in States
        BY <1>0, <4>1
      <4> QED BY <4>2, StepsProperties
    <3> QED BY <3>1, <3>2 DEF Splits
  <2> QED BY <2>1, <2>2
<1>5. PathWeight(Metrics, p, Codewords) > 0
  BY DEF Whole
<1>6. \A i \in Codewords : Steps[i][p[i]][p[i + 1]] > 0
  <2>1. ASSUME NEW i \in Codewords PROVE Steps[i][p[i]][p[i + 1]] > 0
    <3>1. PICK x \in Nat, y \in Nat : x = PathWeight(Metrics, p, Codewords \ {i}) /\ y = Steps[i][p[i]][p[i + 1]]
      BY <1>4
    <3>2. x * y > 0
      BY <1>4, <1>5, <3>1
    <3> QED BY <3>1, <3>2, ProductPositive
  <2> QED BY <2>1
<1>7. u[p[0]] > 0 /\ v[p[fba.N]] > 0
  <2> DEFINE w == Prod(StepWeights(Steps, p, fba.N), 0..fba.N - 1)
             W == WalkWeights(States, u, Steps, fba.N)
  <2>1. p \in Walks(States, fba.N)
    BY <1>0 DEF Paths, Walks, Boundaries
  <2>2. WholeWalks(States, u, Steps, v, fba.N)[p] = (u[p[0]] * w) * v[p[fba.N]]
    BY <2>1 DEF WholeWalks, WalkWeights
  <2>3. w \in Nat
    <3>1. Weighs(States, u, Steps, fba.N)
      BY <1>3, StepsWeigh
    <3>2. Numbers(StepWeights(Steps, p, fba.N), 0..fba.N - 1)
      BY <2>1, <3>1, StepsAreNumbers
    <3> QED BY <3>2, ProdProperties
  <2>4. u[p[0]] \in Nat /\ v[p[fba.N]] \in Nat
    BY <1>1, <1>3 DEF Row
  <2> HIDE DEF w
  <2>5. (u[p[0]] * w) * v[p[fba.N]] > 0 /\ u[p[0]] * w \in Nat
    BY <1>4, <1>5, <2>2, <2>3, <2>4, ProductPositive
  <2>6. u[p[0]] * w > 0 /\ v[p[fba.N]] > 0
    BY <2>4, <2>5, ProductPositive
  <2>7. u[p[0]] > 0
    BY <2>3, <2>4, <2>6, ProductPositive
  <2> QED BY <2>6, <2>7
<1> QED BY <1>0, <1>6, <1>7 DEF u, v

(* Where it is kept, it keeps the rows from being without weight.          *)
LEMMA AlphaSurvives ==
  ASSUME Ready, NEW p, Whole(p), NEW n \in Boundaries, AlphaUpTo(n), RowsTyped,
         \A j \in 0..n - 1 : p[j] \in Kept(alpha[j], fba.th_inner)
  PROVE  \A j \in 0..n :
           /\ alpha[j][p[j]] > 0
           /\ j > 0 => AlphaRow(j - 1, alpha[j - 1], Kept(alpha[j - 1], fba.th_inner))[p[j]] > 0
<1> DEFINE G == {j \in 0..n : alpha[j][p[j]] > 0
                   /\ (j > 0 => AlphaRow(j - 1, alpha[j - 1], Kept(alpha[j - 1], fba.th_inner))[p[j]] > 0)}
<1>0. /\ fba.N \in Nat /\ n \in 0..fba.N /\ \A j \in 0..n : j \in Boundaries
      /\ \A j \in Boundaries : p[j] \in States
  BY Parameters, WholeMoves DEF Ready, Boundaries
<1>1. 0 \in G
  <2>1. Row(PriorRow(trellis.sof)) /\ PriorRow(trellis.sof)[p[0]] > 0 /\ p[0] \in States
    BY <1>0, EndsAreNumbers, WholeMoves
  <2>2. PriorRow(trellis.sof)[p[0]] # 0
    BY <2>1
  <2>3. alpha[0] = Normalize(PriorRow(trellis.sof))
    BY DEF AlphaUpTo, Prior, PriorRow
  <2>4. alpha[0] = PriorRow(trellis.sof)
    BY <2>1, <2>2, <2>3, NormalizeProperties
  <2> QED BY <1>0, <2>1, <2>4
<1>2. ASSUME NEW j \in 1..n, j - 1 \in G PROVE j \in G
  <2> DEFINE h == j - 1
             K == Kept(alpha[h], fba.th_inner)
             row == AlphaRow(h, alpha[h], K)
  <2>0. /\ h \in 0..n - 1 /\ h + 1 = j /\ h \in Codewords /\ h \in Boundaries /\ j \in Boundaries
        /\ h \in 0..fba.N - 1
    BY <1>0 DEF Codewords, Boundaries
  <2>1. alpha[h][p[h]] > 0
    BY <1>2
  <2>2. K \subseteq States /\ p[h] \in K
    BY <2>0, KeptAreStates
  <2>3. Row(alpha[h]) /\ p[h] \in States /\ p[j] \in States
    BY <1>0, <2>0 DEF RowsTyped
  <2>4. Steps[h][p[h]][p[j]] > 0 /\ Steps[h][p[h]][p[j]] \in Nat
    <3>1. Steps[h][p[h]][p[h + 1]] > 0
      BY <2>0, WholeMoves
    <3>2. Steps[h][p[h]][p[j]] \in Nat
      BY <2>0, <2>3, StepsProperties
    <3> QED BY <2>0, <3>1, <3>2
  <2> HIDE DEF h
  <2>5. row[p[j]] > 0
    <3> DEFINE f == Ahead(States, Steps, h, alpha[h], p[j])
    <3>1. \A s \in States : f[s] = alpha[h][s] * Steps[h][s][p[j]]
      BY DEF Ahead
    <3>2. \A s \in States : alpha[h][s] \in Nat /\ Steps[h][s][p[j]] \in Nat
      BY <2>0, <2>3, StepsProperties DEF Row
    <3>3. row[p[j]] = Sum(f, K)
      BY <2>3 DEF AlphaRow
    <3> HIDE DEF f, K, row
    <3>m. \A x, y \in Nat : x * y \in Nat
      OBVIOUS
    <3>4. Numbers(f, K)
      <4>1. IsFiniteSet(States)
        BY Parameters DEF Ready
      <4>2. IsFiniteSet(K)
        BY <2>2, <4>1, FS_Subset
      <4> QED BY <2>2, <3>1, <3>2, <3>m, <4>2 DEF Numbers
    <3>5. f[p[h]] > 0
      BY <2>1, <2>3, <2>4, <3>1, <3>2, ProductPositive
    <3>6. Sum(f, K) > 0
      BY <2>2, <3>4, <3>5, SumPositive
    <3> QED BY <3>3, <3>6
  <2>6. Row(row)
    <3> HIDE DEF row, K
    <3> QED BY <2>0, <2>2, <2>3, RowsAreRows DEF row
  <2>7. alpha[j] = Normalize(row)
    <3>1. alpha[h + 1] = Normalize(row)
      BY <2>0 DEF AlphaUpTo
    <3> QED BY <2>0, <3>1
  <2> HIDE DEF row
  <2>8. alpha[j] = row
    <3>1. row[p[j]] # 0
      BY <2>5
    <3> QED BY <2>3, <2>6, <2>7, <3>1, NormalizeProperties
  <2>9. j > 0 /\ j \in 0..n
    BY <1>0
  <2> QED BY <2>5, <2>8, <2>9 DEF row, h, K
<1> HIDE DEF G
<1>3. \A j \in 0..n : j \in G
  <2>1. n \in Nat
    BY <1>0
  <2> QED BY <1>1, <1>2, <2>1, IntervalInduction
<1> QED BY <1>3 DEF G

(* A path that has weight and stays in what is kept has weight in all rows *)
(* of the backward pass.                                                   *)
LEMMA BetaSurvives ==
  ASSUME Ready, NEW p, Whole(p), NEW n \in Boundaries, BetaDownTo(n), RowsTyped,
         \A j \in n + 1..fba.N : p[j] \in Kept(alpha[j], fba.th_inner)
  PROVE  \A j \in n..fba.N :
           /\ beta[j][p[j]] > 0
           /\ j < fba.N => BetaRow(j, beta[j + 1], Kept(alpha[j + 1], fba.th_inner))[p[j]] > 0
<1> DEFINE N == fba.N
           Good(j) == /\ beta[j][p[j]] > 0
                      /\ j < N => BetaRow(j, beta[j + 1], Kept(alpha[j + 1], fba.th_inner))[p[j]] > 0
           G == {k \in 0..N - n : Good(N - k)}
<1>0. /\ N \in Nat /\ n \in 0..N /\ N - n \in Nat /\ \A j \in n..N : j \in Boundaries
      /\ \A j \in Boundaries : p[j] \in States
  BY Parameters, WholeMoves DEF Ready, Boundaries
<1>1. 0 \in G
  <2>1. Row(PriorRow(trellis.eof)) /\ PriorRow(trellis.eof)[p[N]] > 0 /\ p[N] \in States
    BY <1>0, EndsAreNumbers, WholeMoves
  <2>2. PriorRow(trellis.eof)[p[N]] # 0
    BY <2>1
  <2>3. beta[N] = Normalize(PriorRow(trellis.eof))
    BY DEF BetaDownTo, Prior, PriorRow
  <2>4. beta[N] = PriorRow(trellis.eof)
    BY <2>1, <2>2, <2>3, NormalizeProperties
  <2>5. N - 0 = N /\ ~ (N < N) /\ 0 \in 0..N - n
    BY <1>0
  <2>6. Good(N)
    BY <2>1, <2>4, <2>5
  <2> HIDE DEF Good
  <2> QED BY <2>5, <2>6
<1>2. ASSUME NEW k \in 1..N - n, k - 1 \in G PROVE k \in G
  <2> DEFINE h == (N - k) + 1
             j == N - k
             K == Kept(alpha[h], fba.th_inner)
             row == BetaRow(j, beta[h], K)
  <2>0. /\ h \in n + 1..N /\ j + 1 = h /\ j \in Codewords /\ h \in Boundaries /\ j \in Boundaries
        /\ j \in n..N - 1 /\ N - (k - 1) = h /\ k \in 0..N - n /\ j < N
    BY <1>0 DEF Codewords, Boundaries
  <2>1. beta[h][p[h]] > 0
    <3>1. Good(N - (k - 1))
      <4> HIDE DEF Good
      <4> QED BY <1>2
    <3>2. beta[N - (k - 1)][p[N - (k - 1)]] > 0
      BY <3>1
    <3> HIDE DEF h
    <3> QED BY <2>0, <3>2
  <2>2. K \subseteq States /\ p[h] \in K
    BY <2>0, KeptAreStates
  <2>3. Row(beta[h]) /\ p[h] \in States /\ p[j] \in States
    BY <1>0, <2>0 DEF RowsTyped
  <2>4. Steps[j][p[j]][p[h]] > 0 /\ Steps[j][p[j]][p[h]] \in Nat
    <3>1. Steps[j][p[j]][p[j + 1]] > 0
      BY <2>0, WholeMoves
    <3>2. Steps[j][p[j]][p[h]] \in Nat
      BY <2>0, <2>3, StepsProperties
    <3> HIDE DEF h, j
    <3> QED BY <2>0, <3>1, <3>2
  <2> HIDE DEF h, j, Good
  <2>5. row[p[j]] > 0
    <3> DEFINE f == Behind(States, Steps, j, beta[h], p[j])
    <3>1. \A t \in States : f[t] = Steps[j][p[j]][t] * beta[h][t]
      BY DEF Behind
    <3>2. \A t \in States : beta[h][t] \in Nat /\ Steps[j][p[j]][t] \in Nat
      BY <2>0, <2>3, StepsProperties DEF Row
    <3>3. row[p[j]] = Sum(f, K)
      BY <2>3 DEF BetaRow
    <3> HIDE DEF f, K, row
    <3>m. \A x, y \in Nat : x * y \in Nat
      OBVIOUS
    <3>4. Numbers(f, K)
      <4>1. IsFiniteSet(States)
        BY Parameters DEF Ready
      <4>2. IsFiniteSet(K)
        BY <2>2, <4>1, FS_Subset
      <4> QED BY <2>2, <3>1, <3>2, <3>m, <4>2 DEF Numbers
    <3>5. f[p[h]] > 0
      BY <2>1, <2>3, <2>4, <3>1, <3>2, ProductPositive
    <3>6. Sum(f, K) > 0
      BY <2>2, <3>4, <3>5, SumPositive
    <3> QED BY <3>3, <3>6
  <2>6. Row(row)
    <3> HIDE DEF row, K
    <3> QED BY <2>0, <2>2, <2>3, RowsAreRows DEF row
  <2>7. beta[j] = Normalize(row)
    <3>1. beta[j] = Normalize(BetaRow(j, beta[j + 1], Kept(alpha[j + 1], fba.th_inner)))
      BY <2>0 DEF BetaDownTo
    <3> QED BY <2>0, <3>1
  <2> HIDE DEF row
  <2>8. beta[j] = row
    <3>1. row[p[j]] # 0
      BY <2>5
    <3> QED BY <2>3, <2>6, <2>7, <3>1, NormalizeProperties
  <2>9. Good(j)
    <3>1. beta[j][p[j]] > 0
      BY <2>5, <2>8
    <3>2. row = BetaRow(j, beta[j + 1], Kept(alpha[j + 1], fba.th_inner))
      BY <2>0 DEF row, K
    <3> QED BY <2>5, <3>1, <3>2 DEF Good
  <2> QED BY <2>0, <2>9 DEF j
<1> HIDE DEF G, Good
<1>3. \A k \in 0..N - n : k \in G
  BY <1>0, <1>1, <1>2, IntervalInduction
<1>4. ASSUME NEW j \in n..N PROVE Good(j)
  <2>1. N - j \in 0..N - n /\ N - (N - j) = j
    BY <1>0
  <2>2. Good(N - (N - j))
    BY <1>3, <2>1 DEF G
  <2> QED BY <2>1, <2>2
<1> QED BY <1>4 DEF Good

(* With a path that survives, no row was without weight.                   *)
PlainRows ==
  /\ alpha[0] = PriorRow(trellis.sof) /\ beta[fba.N] = PriorRow(trellis.eof)
  /\ \A j \in Codewords :
       /\ alpha[j + 1] = AlphaRow(j, alpha[j], Kept(alpha[j], fba.th_inner))
       /\ beta[j] = BetaRow(j, beta[j + 1], Kept(alpha[j + 1], fba.th_inner))

(* If some path has weight and is kept, no row was replaced for having     *)
(* none.                                                                   *)
LEMMA RowsArePlain ==
  ASSUME Ready, NEW p, Whole(p), Passes(p, Boundaries), RowsTyped,
         AlphaUpTo(fba.N), BetaDownTo(0)
  PROVE  PlainRows
<1> DEFINE N == fba.N
           a(j) == AlphaRow(j, alpha[j], Kept(alpha[j], fba.th_inner))
           b(j) == BetaRow(j, beta[j + 1], Kept(alpha[j + 1], fba.th_inner))
<1>0. /\ N \in Nat /\ Boundaries = 0..N /\ Codewords = 0..N - 1 /\ 0 \in Boundaries /\ N \in Boundaries
      /\ \A j \in Codewords : j \in Boundaries /\ j + 1 \in Boundaries
  BY Parameters DEF Ready, Boundaries, Codewords
<1>1. \A j \in Boundaries : p[j] \in Kept(alpha[j], fba.th_inner) /\ p[j] \in States
  <2>1. \A j \in Boundaries : p[j] \in Kept(alpha[j], fba.th_inner)
    BY DEF Passes, KeptInside
  <2> QED BY <2>1, WholeMoves
<1>2. \A j \in 0..N : j > 0 => a(j - 1)[p[j]] > 0
  <2>1. \A j \in 0..N - 1 : p[j] \in Kept(alpha[j], fba.th_inner)
    BY <1>0, <1>1
  <2> QED BY <1>0, <2>1, AlphaSurvives
<1>3. \A j \in 0..N : j < N => b(j)[p[j]] > 0
  <2>1. \A j \in 0 + 1..N : p[j] \in Kept(alpha[j], fba.th_inner)
    BY <1>0, <1>1
  <2> QED BY <1>0, <2>1, BetaSurvives
<1>4. ASSUME NEW j \in Codewords PROVE alpha[j + 1] = a(j)
  <2>1. alpha[j + 1] = Normalize(a(j))
    BY <1>0 DEF AlphaUpTo
  <2>2. Row(a(j))
    <3>1. Row(alpha[j])
      BY <1>0 DEF RowsTyped
    <3> QED BY <3>1, KeptAreStates, RowsAreRows
  <2>3. a(j)[p[j + 1]] # 0
    <3>1. j + 1 \in 0..N /\ j + 1 > 0 /\ (j + 1) - 1 = j
      BY <1>0
    <3>2. a((j + 1) - 1)[p[j + 1]] > 0
      <4> HIDE DEF a
      <4> QED BY <1>2, <3>1
    <3>3. a((j + 1) - 1) = a(j)
      BY <3>1
    <3>4. a(j)[p[j + 1]] > 0
      <4> HIDE DEF a
      <4> QED BY <3>2, <3>3
    <3> HIDE DEF a
    <3>5. a(j)[p[j + 1]] # 0
      <4>1. \A x : x > 0 => x # 0
        OBVIOUS
      <4> QED BY <3>4, <4>1
    <3> QED BY <3>5
  <2>4. p[j + 1] \in States
    BY <1>0, <1>1
  <2> HIDE DEF a
  <2> QED BY <2>1, <2>2, <2>3, <2>4, NormalizeProperties
<1>5. ASSUME NEW j \in Codewords PROVE beta[j] = b(j)
  <2>1. beta[j] = Normalize(b(j))
    BY <1>0 DEF BetaDownTo
  <2>2. Row(b(j))
    <3>1. Row(beta[j + 1])
      BY <1>0 DEF RowsTyped
    <3> QED BY <3>1, KeptAreStates, RowsAreRows
  <2>3. b(j)[p[j]] # 0
    <3>1. j \in 0..N /\ j < N
      BY <1>0
    <3> HIDE DEF b
    <3>2. b(j)[p[j]] > 0
      BY <1>3, <3>1
    <3>3. \A x : x > 0 => x # 0
      OBVIOUS
    <3> QED BY <3>2, <3>3
  <2>4. p[j] \in States
    BY <1>0, <1>1
  <2> HIDE DEF b
  <2> QED BY <2>1, <2>2, <2>3, <2>4, NormalizeProperties
<1>6. alpha[0] = PriorRow(trellis.sof) /\ beta[N] = PriorRow(trellis.eof)
  <2>1. /\ Row(PriorRow(trellis.sof)) /\ Row(PriorRow(trellis.eof))
        /\ PriorRow(trellis.sof)[p[0]] # 0 /\ PriorRow(trellis.eof)[p[N]] # 0
    <3>1. PriorRow(trellis.sof)[p[0]] > 0 /\ PriorRow(trellis.eof)[p[N]] > 0
      BY WholeMoves
    <3>2. \A x : x > 0 => x # 0
      OBVIOUS
    <3> QED BY <3>1, <3>2, EndsAreNumbers
  <2>2. p[0] \in States /\ p[N] \in States
    BY <1>0, <1>1
  <2>3. alpha[0] = Normalize(PriorRow(trellis.sof)) /\ beta[N] = Normalize(PriorRow(trellis.eof))
    BY DEF AlphaUpTo, BetaDownTo, Prior, PriorRow
  <2> QED BY <2>1, <2>2, <2>3, NormalizeProperties
<1> QED BY <1>4, <1>5, <1>6 DEF PlainRows

(* The rows give the sums over paths that stay within K.                   *)
LEMMA PlainForward ==
  ASSUME Ready, RowsTyped, PlainRows, NEW K, NEW i \in Boundaries,
         \A j \in 0..i - 1 : K[j] = Kept(alpha[j], fba.th_inner),
         \A j \in Boundaries : K[j] \subseteq States
  PROVE  ForwardIn(States, PriorRow(trellis.sof), Steps, K, i, alpha)
<1>0. fba.N \in Nat /\ i \in 0..fba.N
  BY Parameters DEF Ready, Boundaries
<1>1. \A s \in States : alpha[0][s] = PriorRow(trellis.sof)[s]
  BY DEF PlainRows
<1>2. \A j \in 0..i : \A s \in States : alpha[j][s] \in Nat
  <2>1. \A j \in 0..i : j \in Boundaries
    BY <1>0 DEF Boundaries
  <2> QED BY <2>1 DEF RowsTyped, Row
<1>3. ASSUME NEW j \in 0..i - 1, NEW t \in K[j + 1]
      PROVE  alpha[j + 1][t] = Sum(Ahead(States, Steps, j, alpha[j], t), K[j])
  <2>1. j \in Codewords /\ j + 1 \in Boundaries
    BY <1>0 DEF Codewords, Boundaries
  <2>2. t \in States
    BY <2>1
  <2>3. alpha[j + 1] = AlphaRow(j, alpha[j], K[j])
    BY <2>1 DEF PlainRows
  <2> QED BY <2>2, <2>3 DEF AlphaRow
<1> QED BY <1>1, <1>2, <1>3 DEF ForwardIn

(* Rows that were not replaced are a backward pass over the states that    *)
(* are kept.                                                               *)
LEMMA PlainBackward ==
  ASSUME Ready, RowsTyped, PlainRows, NEW K, NEW i \in Boundaries,
         \A j \in i + 1..fba.N : K[j] = Kept(alpha[j], fba.th_inner),
         \A j \in Boundaries : K[j] \subseteq States
  PROVE  BackwardIn(States, PriorRow(trellis.eof), Steps, K, i, fba.N, beta)
<1>0. fba.N \in Nat /\ i \in 0..fba.N
  BY Parameters DEF Ready, Boundaries
<1>1. \A s \in States : beta[fba.N][s] = PriorRow(trellis.eof)[s]
  BY DEF PlainRows
<1>2. \A j \in i..fba.N : \A s \in States : beta[j][s] \in Nat
  <2>1. \A j \in i..fba.N : j \in Boundaries
    BY <1>0 DEF Boundaries
  <2> QED BY <2>1 DEF RowsTyped, Row
<1>3. ASSUME NEW j \in i..fba.N - 1, NEW s \in K[j]
      PROVE  beta[j][s] = Sum(Behind(States, Steps, j, beta[j + 1], s), K[j + 1])
  <2>1. j \in Codewords /\ j \in Boundaries /\ j + 1 \in i + 1..fba.N
    BY <1>0 DEF Codewords, Boundaries
  <2>2. s \in States
    BY <2>1
  <2>3. beta[j] = BetaRow(j, beta[j + 1], K[j + 1])
    BY <2>1 DEF PlainRows
  <2> QED BY <2>2, <2>3 DEF BetaRow
<1> QED BY <1>1, <1>2, <1>3 DEF BackwardIn

(* A path that is not whole weighs nothing, whatever its symbol.           *)
LEMMA NotWhole ==
  ASSUME Ready, NEW p \in Paths, ~Whole(p)
  PROVE  /\ WholeWalks(States, PriorRow(trellis.sof), Steps, PriorRow(trellis.eof), fba.N)[p] = 0
         /\ \A i \in Codewords, d \in Alphabet :
              WholeWalks(States, PriorRow(trellis.sof), SymbolSteps(i, d),
                         PriorRow(trellis.eof), fba.N)[p] = 0
<1> DEFINE N == fba.N
           u == PriorRow(trellis.sof)
           v == PriorRow(trellis.eof)
<1>0. /\ N \in Nat /\ p \in Walks(States, N) /\ p[0] \in States /\ p[N] \in States
      /\ \A i \in Codewords : p[i] \in States /\ p[i + 1] \in States
  <2>1. N \in Nat
    BY Parameters DEF Ready
  <2>2. 0 \in 0..N /\ N \in 0..N /\ \A i \in 0..N - 1 : i \in 0..N /\ i + 1 \in 0..N
    BY <2>1
  <2>3. p \in [0..N -> States]
    BY DEF Paths, Boundaries
  <2> HIDE DEF N
  <2>4. \A i \in 0..N - 1 : p[i] \in States /\ p[i + 1] \in States
    BY <2>2, <2>3
  <2> QED BY <2>1, <2>2, <2>3, <2>4 DEF Walks, Codewords, N
<1>r. Row(u) /\ Row(v)
  BY EndsAreNumbers
<1>1. CASE p[0][2] # 0 \/ p[N][2] # 0
  <2>1. u[p[0]] = 0 \/ v[p[N]] = 0
    BY <1>0, <1>1 DEF PriorRow
  <2>2. u[p[0]] \in Nat /\ v[p[N]] \in Nat
    BY <1>0, <1>r DEF Row
  <2>m. \A x, y, z \in Nat : (x = 0 \/ z = 0) => (x * y) * z = 0
    OBVIOUS
  <2> HIDE DEF u, v
  <2>3. ASSUME NEW M, Weighs(States, u, M, N) PROVE WholeWalks(States, u, M, v, N)[p] = 0
    <3> DEFINE w == Prod(StepWeights(M, p, N), 0..N - 1)
    <3>1. WholeWalks(States, u, M, v, N)[p] = (u[p[0]] * w) * v[p[N]]
      BY <1>0 DEF WholeWalks, WalkWeights
    <3>2. Numbers(StepWeights(M, p, N), 0..N - 1)
      BY <1>0, <2>3, StepsAreNumbers
    <3>3. w \in Nat
      BY <3>2, ProdProperties
    <3> HIDE DEF w
    <3> QED BY <2>1, <2>2, <2>m, <3>1, <3>3
  <2>4. Weighs(States, u, Steps, N) /\ \A i \in Codewords, d \in Alphabet : Weighs(States, u, SymbolSteps(i, d), N)
    BY <1>r, StepsWeigh
  <2> QED BY <2>3, <2>4 DEF u, v
<1>2. CASE p[0][2] = 0 /\ p[N][2] = 0
  <2>1. u[p[0]] = trellis.sof[p[0][1]] /\ v[p[N]] = trellis.eof[p[N][1]]
    BY <1>0, <1>2 DEF PriorRow
  <2> HIDE DEF u, v
  <2>2. /\ PathWeight(Metrics, p, Codewords) = WholeWalks(States, u, Steps, v, N)[p]
        /\ PathWeight(Metrics, p, Codewords) \in Nat
    BY <1>r, <2>1, PathWeights
  <2>3. \A i \in Codewords, d \in Alphabet :
          PathWeight(Metrics, p, Codewords \ {i}) * Branch(Metrics, i, p[i], p[i + 1], d) =
            WholeWalks(States, u, SymbolSteps(i, d), v, N)[p]
    BY <1>r, <2>1, PathWeights
  <2>4. Splits(p)
    BY <1>r, <2>1, PathWeights
  <2>5. PathWeight(Metrics, p, Codewords) = 0
    <3>1. ~ (PathWeight(Metrics, p, Codewords) > 0)
      BY <1>2 DEF Whole
    <3> QED BY <2>2, <3>1
  <2>6. ASSUME NEW i \in Codewords, NEW d \in Alphabet
        PROVE  PathWeight(Metrics, p, Codewords \ {i}) * Branch(Metrics, i, p[i], p[i + 1], d) = 0
    <3>1. p[i] \in States /\ p[i + 1] \in States
      BY <1>0
    <3>2. Branch(Metrics, i, p[i], p[i + 1], d) \in Nat /\ Steps[i][p[i]][p[i + 1]] \in Nat
          /\ (Branch(Metrics, i, p[i], p[i + 1], d) > 0 => Steps[i][p[i]][p[i + 1]] > 0)
      BY <3>1, MetricsAreNumbers, StepsProperties
    <3>3. PathWeight(Metrics, p, Codewords \ {i}) \in Nat
          /\ PathWeight(Metrics, p, Codewords \ {i}) * Steps[i][p[i]][p[i + 1]] = 0
      BY <2>4, <2>5 DEF Splits
    <3>4. \A x, y, z \in Nat : x * y = 0 /\ (z > 0 => y > 0) => x * z = 0
      <4>1. ASSUME NEW x \in Nat, NEW y \in Nat, NEW z \in Nat, x * y = 0, z > 0 => y > 0
            PROVE  x * z = 0
        <5>1. CASE z = 0
          BY <5>1
        <5>2. CASE z # 0
          <6>1. y > 0
            BY <4>1, <5>2
          <6>2. ~ (x > 0)
            BY <4>1, <6>1, ProductPositive
          <6>3. x = 0
            BY <6>2
          <6> QED BY <6>3
        <5> QED BY <5>1, <5>2
      <4> QED BY <4>1
    <3> QED BY <3>2, <3>3, <3>4
  <2> QED BY <2>2, <2>3, <2>5, <2>6 DEF u, v
<1> QED BY <1>1, <1>2

(* The host's posteriors of symbols are the sums over the paths that are   *)
(* kept.                                                                   *)
LEMMA HostSymbols ==
  ASSUME Ready, RowsTyped, PlainRows, TableFor(Codewords),
         NEW i \in Codewords, NEW d \in Alphabet, NEW kept,
         kept = {p \in Paths : /\ Whole(p) /\ Passes(p, Boundaries \ {i, i + 1})
                               /\ p[i] \in KeptOutside[i]}
  PROVE  ptable[i][d] = Total([p \in kept |-> PathWeight(Metrics, p, Codewords \ {i})
                                                * Branch(Metrics, i, p[i], p[i + 1], d)])
<1> DEFINE N == fba.N
           u == PriorRow(trellis.sof)
           v == PriorRow(trellis.eof)
           K == [j \in Boundaries |-> IF j = i THEN Kept(alpha[j], fba.th_outer)
                                      ELSE IF j = i + 1 THEN States
                                      ELSE Kept(alpha[j], fba.th_inner)]
           f == [p \in kept |-> PathWeight(Metrics, p, Codewords \ {i})
                                  * Branch(Metrics, i, p[i], p[i + 1], d)]
           W == WholeWalks(States, u, SymbolSteps(i, d), v, N)
<1>0. /\ N \in Nat /\ N # 0 /\ Boundaries = 0..N /\ i \in 0..N - 1 /\ i \in Boundaries
      /\ i + 1 \in Boundaries /\ 0 \in Boundaries /\ N \in Boundaries /\ i # i + 1
  BY Parameters DEF Ready, Boundaries, Codewords
<1>1. /\ K[i] = Kept(alpha[i], fba.th_outer) /\ K[i + 1] = States
      /\ \A j \in Boundaries \ {i, i + 1} : K[j] = Kept(alpha[j], fba.th_inner)
  BY <1>0
<1>2. \A j \in Boundaries : K[j] \subseteq States
  BY <1>0, KeptAreStates
<1> HIDE DEF K
<1>3. Row(u) /\ Row(v)
  BY EndsAreNumbers
<1>5. ForwardIn(States, u, Steps, K, i, alpha)
  <2>1. \A j \in 0..i - 1 : K[j] = Kept(alpha[j], fba.th_inner)
    <3>1. \A j \in 0..i - 1 : j \in Boundaries \ {i, i + 1}
      BY <1>0
    <3> QED BY <1>1, <3>1
  <2> QED BY <1>0, <1>2, <2>1, PlainForward
<1>6. BackwardIn(States, v, Steps, K, i + 1, N, beta)
  <2>1. \A j \in (i + 1) + 1..N : K[j] = Kept(alpha[j], fba.th_inner)
    <3>1. \A j \in (i + 1) + 1..N : j \in Boundaries \ {i, i + 1}
      BY <1>0
    <3> QED BY <1>1, <3>1
  <2> QED BY <1>0, <1>2, <2>1, PlainBackward
<1> HIDE DEF u, v
<1>7. Sum(W, Staying(States, K, N)) = Sum(Meets(States, alpha[i], SymbolRow(i, d, beta[i + 1])), K[i])
  BY <1>1, <1>2, <1>3, <1>5, <1>6, SymbolWalks
<1>8. ptable[i][d] = Sum(W, Staying(States, K, N))
  <2>1. ptable[i] = SymbolTable(i, alpha[i], beta[i + 1], K[i])
    BY <1>1 DEF TableFor
  <2> QED BY <1>7, <2>1 DEF SymbolTable
<1>9. \A p \in Paths : p \in kept <=> Whole(p) /\ p \in Staying(States, K, N)
  <2>1. ASSUME NEW p \in Paths
        PROVE  (\A j \in 0..N : p[j] \in K[j]) <=>
                  Passes(p, Boundaries \ {i, i + 1}) /\ p[i] \in KeptOutside[i]
    <3>1. p[i + 1] \in States
      BY <1>0 DEF Paths
    <3>2. Passes(p, Boundaries \ {i, i + 1}) <=>
            \A j \in Boundaries \ {i, i + 1} : p[j] \in Kept(alpha[j], fba.th_inner)
      BY DEF Passes, KeptInside
    <3>3. KeptOutside[i] = Kept(alpha[i], fba.th_outer)
      BY <1>0 DEF KeptOutside
    <3> HIDE DEF N
    <3> QED BY <1>0, <1>1, <3>1, <3>2, <3>3
  <2>2. Paths = Walks(States, N)
    BY <1>0 DEF Paths, Walks
  <2> QED BY <2>1, <2>2 DEF Staying
<1>n. N = fba.N
  OBVIOUS
<1>10. \A p \in kept : f[p] = W[p]
  <2>1. ASSUME NEW p \in kept PROVE f[p] = W[p]
    <3>1. p \in Paths /\ p[0] \in States /\ p[N] \in States /\ Whole(p)
      BY <1>0 DEF Paths
    <3>2. u[p[0]] = trellis.sof[p[0][1]] /\ v[p[N]] = trellis.eof[p[N][1]]
      BY <3>1 DEF u, v, PriorRow, Whole
    <3>3. PathWeight(Metrics, p, Codewords \ {i}) * Branch(Metrics, i, p[i], p[i + 1], d) = W[p]
      BY <1>3, <3>1, <3>2, PathWeights
    <3> QED BY <3>3
  <2> QED BY <2>1
<1>11. Weighs(States, u, SymbolSteps(i, d), N)
  BY <1>3, StepsWeigh
<1>12. Total(f) = Sum(W, Staying(States, K, N))
  <2>1. DOMAIN f = kept /\ kept \subseteq Paths
    OBVIOUS
  <2>2. Staying(States, K, N) \subseteq Paths
    BY <1>0 DEF Staying, Paths, Walks
  <2> HIDE DEF f
  <2>3. DOMAIN f \subseteq Staying(States, K, fba.N)
    BY <1>9, <2>1
  <2>4. \A p \in DOMAIN f : f[p] = WholeWalks(States, u, SymbolSteps(i, d), v, fba.N)[p]
    BY <1>10, <2>1
  <2>5. \A p \in Staying(States, K, fba.N) \ DOMAIN f :
          WholeWalks(States, u, SymbolSteps(i, d), v, fba.N)[p] = 0
    <3>1. ASSUME NEW p \in Staying(States, K, fba.N) \ DOMAIN f
          PROVE  WholeWalks(States, u, SymbolSteps(i, d), v, fba.N)[p] = 0
      <4>1. p \in Paths /\ ~Whole(p)
        BY <1>9, <2>1, <2>2
      <4> QED BY <4>1, NotWhole DEF u, v
    <3> QED BY <3>1
  <2> HIDE DEF W
  <2>6. Total(f) = Sum(WholeWalks(States, u, SymbolSteps(i, d), v, fba.N), Staying(States, K, fba.N))
    BY <1>3, <1>11, <2>3, <2>4, <2>5, PathTotal
  <2> QED BY <2>6 DEF W
<1> QED BY <1>8, <1>12

(* The drifts of a frame that has a path.                                  *)
LEMMA HostDrifts ==
  ASSUME Ready, RowsTyped, PlainRows,
         NEW i \in Boundaries, NEW m \in fba.min..fba.max, NEW kept,
         kept = {p \in Paths : /\ Whole(p) /\ p[i][1] = m /\ Passes(p, Boundaries \ {i})}
  PROVE  DriftPdf(i)[m] = Total([p \in kept |-> PathWeight(Metrics, p, Codewords)])
<1> DEFINE N == fba.N
           u == PriorRow(trellis.sof)
           v == PriorRow(trellis.eof)
           here == {s \in States : s[1] = m}
           K == [j \in Boundaries |-> IF j = i THEN here ELSE Kept(alpha[j], fba.th_inner)]
           f == [p \in kept |-> PathWeight(Metrics, p, Codewords)]
           W == WholeWalks(States, u, Steps, v, N)
           g == [s \in here |-> alpha[i][s] * beta[i][s]]
<1>0. N \in Nat /\ N # 0 /\ Boundaries = 0..N /\ i \in 0..N
  BY Parameters DEF Ready, Boundaries
<1>1. K[i] = here /\ \A j \in Boundaries \ {i} : K[j] = Kept(alpha[j], fba.th_inner)
  OBVIOUS
<1>2. \A j \in Boundaries : K[j] \subseteq States
  BY KeptAreStates
<1> HIDE DEF K
<1>3. Row(u) /\ Row(v)
  BY EndsAreNumbers
<1>5. ForwardIn(States, u, Steps, K, i, alpha)
  <2>1. \A j \in 0..i - 1 : K[j] = Kept(alpha[j], fba.th_inner)
    <3>1. \A j \in 0..i - 1 : j \in Boundaries \ {i}
      BY <1>0
    <3> QED BY <1>1, <3>1
  <2> QED BY <1>2, <2>1, PlainForward
<1>6. BackwardIn(States, v, Steps, K, i, N, beta)
  <2>1. \A j \in i + 1..N : K[j] = Kept(alpha[j], fba.th_inner)
    <3>1. \A j \in i + 1..N : j \in Boundaries \ {i}
      BY <1>0
    <3> QED BY <1>1, <3>1
  <2> QED BY <1>2, <2>1, PlainBackward
<1> HIDE DEF u, v
<1>11. Weighs(States, u, Steps, N)
  BY <1>3, StepsWeigh
<1>7. Sum(W, Staying(States, K, N)) = Sum(Meets(States, alpha[i], beta[i]), K[i])
  <2>1. v \in [States -> Nat]
    BY <1>3 DEF Row
  <2> QED BY <1>0, <1>2, <1>5, <1>6, <1>11, <2>1, KeptWalks
<1>8. DriftPdf(i)[m] = Sum(W, Staying(States, K, N))
  <2>1. DriftPdf(i)[m] = Total(g)
    BY DEF DriftPdf
  <2>2. IsFiniteSet(States) /\ Row(alpha[i]) /\ Row(beta[i])
    BY Parameters DEF Ready, RowsTyped
  <2>3. DOMAIN g = here /\ IsFiniteSet(here) /\ here \subseteq States
    BY <2>2, FS_Subset
  <2>m. \A x, y \in Nat : x * y \in Nat
    OBVIOUS
  <2>4. \A s \in here : g[s] \in Nat /\ g[s] = Meets(States, alpha[i], beta[i])[s]
    BY <2>2, <2>m DEF Row, Meets
  <2> HIDE DEF g, here
  <2>5. Numbers(g, here)
    BY <2>3, <2>4 DEF Numbers
  <2>6. Total(g) = Sum(g, here)
    BY <2>3, <2>5, TotalIsSum
  <2>7. Sum(g, here) = Sum(Meets(States, alpha[i], beta[i]), here)
    BY <2>4, <2>5, SumCongruent
  <2> QED BY <1>1, <1>7, <2>1, <2>6, <2>7
<1>9. \A p \in Paths : p \in kept <=> Whole(p) /\ p \in Staying(States, K, N)
  <2>1. ASSUME NEW p \in Paths
        PROVE  (\A j \in 0..N : p[j] \in K[j]) <=> p[i][1] = m /\ Passes(p, Boundaries \ {i})
    <3>1. p[i] \in States
      BY DEF Paths
    <3>2. Passes(p, Boundaries \ {i}) <=>
            \A j \in Boundaries \ {i} : p[j] \in Kept(alpha[j], fba.th_inner)
      BY DEF Passes, KeptInside
    <3>3. p[i] \in K[i] <=> p[i][1] = m
      BY <1>1, <3>1
    <3> HIDE DEF N
    <3> QED BY <1>0, <1>1, <3>2, <3>3
  <2>2. Paths = Walks(States, N)
    BY <1>0 DEF Paths, Walks
  <2> QED BY <2>1, <2>2 DEF Staying
<1>n. N = fba.N
  OBVIOUS
<1>10. \A p \in kept : f[p] = W[p]
  <2>1. ASSUME NEW p \in kept PROVE f[p] = W[p]
    <3>1. p \in Paths /\ p[0] \in States /\ p[N] \in States /\ Whole(p)
      BY <1>0 DEF Paths
    <3>2. u[p[0]] = trellis.sof[p[0][1]] /\ v[p[N]] = trellis.eof[p[N][1]]
      BY <3>1 DEF u, v, PriorRow, Whole
    <3>3. PathWeight(Metrics, p, Codewords) = W[p]
      BY <1>3, <3>1, <3>2, PathWeights
    <3> QED BY <3>3
  <2> QED BY <2>1
<1>12. Total(f) = Sum(W, Staying(States, K, N))
  <2>1. DOMAIN f = kept /\ kept \subseteq Paths
    OBVIOUS
  <2>2. Staying(States, K, N) \subseteq Paths
    BY <1>0 DEF Staying, Paths, Walks
  <2> HIDE DEF f
  <2>3. DOMAIN f \subseteq Staying(States, K, fba.N)
    BY <1>9, <2>1
  <2>4. \A p \in DOMAIN f : f[p] = WholeWalks(States, u, Steps, v, fba.N)[p]
    BY <1>10, <2>1
  <2>5. \A p \in Staying(States, K, fba.N) \ DOMAIN f :
          WholeWalks(States, u, Steps, v, fba.N)[p] = 0
    <3>1. ASSUME NEW p \in Staying(States, K, fba.N) \ DOMAIN f
          PROVE  WholeWalks(States, u, Steps, v, fba.N)[p] = 0
      <4>1. p \in Paths /\ ~Whole(p)
        BY <1>9, <2>1, <2>2
      <4> QED BY <4>1, NotWhole DEF u, v
    <3> QED BY <3>1
  <2> HIDE DEF W
  <2>6. Total(f) = Sum(WholeWalks(States, u, Steps, v, fba.N), Staying(States, K, fba.N))
    BY <1>3, <1>11, <2>3, <2>4, <2>5, PathTotal
  <2> QED BY <2>6 DEF W
<1> QED BY <1>8, <1>12

(* A frame is finished, and has no path at all.                            *)
HostComplete == RowsTyped /\ AlphaUpTo(fba.N) /\ BetaDownTo(0) /\ TableFor(Codewords)
NoPath == \A p : ~Whole(p)

(* The host's part of PosteriorsExact holds once all rows and posteriors   *)
(* are made.                                                               *)
LEMMA CompleteIsExact ==
  ASSUME fba.depth = 1 /\ pass[1] \in {"done", "aborted"} => Ready,
         fba.depth = 1 /\ pass[1] = "done" => HostComplete,
         fba.depth = 1 /\ pass[1] = "aborted" => NoPath
  PROVE  HostExact
<1> DEFINE W == Metrics
           whole == {p \in Paths : /\ p[0][2] = 0 /\ p[fba.N][2] = 0
                                   /\ PathWeight(W, p, Codewords) > 0}
           symbols(i) == {p \in whole : /\ Passes(p, Boundaries \ {i, i + 1})
                                        /\ p[i] \in KeptOutside[i]}
           drifts(i, m) == {p \in whole : p[i][1] = m /\ Passes(p, Boundaries \ {i})}
<1> SUFFICES ASSUME fba.depth = 1, pass[1] \in {"done", "aborted"}
             PROVE  IF pass[1] = "aborted" THEN whole = {}
                    ELSE (\E p \in whole : Passes(p, Boundaries)) =>
                      /\ \A i \in Codewords, d \in Alphabet :
                           ptable[i][d] =
                             Total([p \in symbols(i) |-> PathWeight(W, p, Codewords \ {i})
                                                           * Branch(W, i, p[i], p[i + 1], d)])
                      /\ \A i \in Boundaries, m \in fba.min..fba.max :
                           DriftPdf(i)[m] =
                             Total([p \in drifts(i, m) |-> PathWeight(W, p, Codewords)])
  BY Zenon DEF HostExact
<1>1. \A p : p \in whole <=> Whole(p)
  BY DEF Whole
<1>s. \A i : symbols(i) = {p \in Paths : /\ Whole(p) /\ Passes(p, Boundaries \ {i, i + 1})
                                         /\ p[i] \in KeptOutside[i]}
  BY DEF Whole
<1>d. \A i, m : drifts(i, m) = {p \in Paths : Whole(p) /\ p[i][1] = m /\ Passes(p, Boundaries \ {i})}
  BY DEF Whole
<1> HIDE DEF whole, symbols, drifts
<1>2. CASE pass[1] = "aborted"
  BY <1>1, <1>2 DEF NoPath
<1>3. CASE pass[1] = "done"
  <2> SUFFICES ASSUME NEW q \in whole, Passes(q, Boundaries)
               PROVE  /\ \A i \in Codewords, d \in Alphabet :
                           ptable[i][d] =
                             Total([p \in symbols(i) |-> PathWeight(W, p, Codewords \ {i})
                                                           * Branch(W, i, p[i], p[i + 1], d)])
                      /\ \A i \in Boundaries, m \in fba.min..fba.max :
                           DriftPdf(i)[m] =
                             Total([p \in drifts(i, m) |-> PathWeight(W, p, Codewords)])
    BY <1>3
  <2>1. Ready /\ HostComplete
    BY <1>3
  <2>2. RowsTyped /\ TableFor(Codewords) /\ PlainRows
    BY <1>1, <2>1, RowsArePlain DEF HostComplete
  <2>3. ASSUME NEW i \in Codewords, NEW d \in Alphabet
        PROVE  ptable[i][d] =
                 Total([p \in symbols(i) |-> PathWeight(W, p, Codewords \ {i})
                                               * Branch(W, i, p[i], p[i + 1], d)])
    BY <1>s, <2>1, <2>2, HostSymbols
  <2>4. ASSUME NEW i \in Boundaries, NEW m \in fba.min..fba.max
        PROVE  DriftPdf(i)[m] = Total([p \in drifts(i, m) |-> PathWeight(W, p, Codewords)])
    BY <1>d, <2>1, <2>2, HostDrifts
  <2> QED BY <2>3, <2>4
<1> QED BY <1>2, <1>3

(* A row without weight that the algorithm without pruning comes to tells  *)
(* that there is no path.                                                  *)
LEMMA NoPathAhead ==
  ASSUME Ready, RowsTyped, ~fba.thresholding, NEW n \in Codewords, AlphaUpTo(n),
         \A t \in States : AlphaRow(n, alpha[n], States)[t] = 0
  PROVE  NoPath
<1>0. fba.N \in Nat /\ n \in 0..fba.N - 1 /\ n \in Boundaries /\ n + 1 \in Boundaries
  BY Parameters DEF Ready, Boundaries, Codewords
<1>k. \A j : Kept(alpha[j], fba.th_inner) = States
  <2>1. fba.th_inner = 0 /\ fba.tp_states = 0
    BY Parameters DEF Ready
  <2> QED BY <2>1 DEF Kept
<1>1. SUFFICES ASSUME NEW p, Whole(p) PROVE FALSE
  BY DEF NoPath
<1>2. /\ \A j \in Boundaries : p[j] \in States
      /\ Steps[n][p[n]][p[n + 1]] > 0
  BY <1>1, WholeMoves
<1>3. \A j \in 0..n : alpha[j][p[j]] > 0
  <2>1. \A j \in 0..n - 1 : p[j] \in Kept(alpha[j], fba.th_inner)
    <3>1. \A j \in 0..n - 1 : j \in Boundaries
      BY <1>0 DEF Boundaries
    <3> QED BY <1>2, <1>k, <3>1
  <2> QED BY <1>0, <1>1, <2>1, AlphaSurvives
<1>4. alpha[n][p[n]] > 0 /\ alpha[n][p[n]] \in Nat
  <2>1. n \in 0..n
    BY <1>0
  <2> QED BY <1>0, <1>2, <1>3, <2>1 DEF RowsTyped, Row
<1>5. Sum(Ahead(States, Steps, n, alpha[n], p[n + 1]), States) > 0
  <2>1. IsFiniteSet(States) /\ Row(alpha[n])
    BY <1>0, Parameters DEF Ready, RowsTyped
  <2>2. Numbers(alpha[n], States) /\ Weighs(States, alpha[n], Steps, fba.N)
    BY <2>1, StepsWeigh DEF Row, Numbers
  <2>3. p[n] \in States /\ p[n + 1] \in States
    BY <1>0, <1>2
  <2> QED BY <1>0, <1>2, <1>4, <2>2, <2>3, AheadPositive
<1>6. AlphaRow(n, alpha[n], States)[p[n + 1]] > 0
  BY <1>0, <1>2, <1>5 DEF AlphaRow
<1> QED BY <1>0, <1>2, <1>6

(* A row of the backward pass without weight means that no path has any.   *)
LEMMA NoPathBehind ==
  ASSUME Ready, RowsTyped, ~fba.thresholding, NEW n \in Codewords, BetaDownTo(n + 1),
         \A t \in States : BetaRow(n, beta[n + 1], States)[t] = 0
  PROVE  NoPath
<1>0. fba.N \in Nat /\ n \in 0..fba.N - 1 /\ n \in Boundaries /\ n + 1 \in Boundaries
  BY Parameters DEF Ready, Boundaries, Codewords
<1>k. \A j : Kept(alpha[j], fba.th_inner) = States
  <2>1. fba.th_inner = 0 /\ fba.tp_states = 0
    BY Parameters DEF Ready
  <2> QED BY <2>1 DEF Kept
<1>1. SUFFICES ASSUME NEW p, Whole(p) PROVE FALSE
  BY DEF NoPath
<1>2. /\ \A j \in Boundaries : p[j] \in States
      /\ Steps[n][p[n]][p[n + 1]] > 0
  BY <1>1, WholeMoves
<1>3. \A j \in n + 1..fba.N : beta[j][p[j]] > 0
  <2>1. \A j \in (n + 1) + 1..fba.N : p[j] \in Kept(alpha[j], fba.th_inner)
    <3>1. \A j \in (n + 1) + 1..fba.N : j \in Boundaries
      BY <1>0 DEF Boundaries
    <3> QED BY <1>2, <1>k, <3>1
  <2> QED BY <1>0, <1>1, <2>1, BetaSurvives
<1>4. beta[n + 1][p[n + 1]] > 0
  <2>1. n + 1 \in n + 1..fba.N
    BY <1>0
  <2> QED BY <1>3, <2>1
<1>5. Sum(Behind(States, Steps, n, beta[n + 1], p[n]), States) > 0
  <2>1. IsFiniteSet(States) /\ Row(beta[n + 1])
    BY <1>0, Parameters DEF Ready, RowsTyped
  <2>2. Numbers(beta[n + 1], States) /\ Weighs(States, beta[n + 1], Steps, fba.N)
    BY <2>1, StepsWeigh DEF Row, Numbers
  <2>3. p[n] \in States /\ p[n + 1] \in States
    BY <1>0, <1>2
  <2> QED BY <1>0, <1>2, <1>4, <2>2, <2>3, BackPositive
<1>6. BetaRow(n, beta[n + 1], States)[p[n]] > 0
  BY <1>0, <1>2, <1>5 DEF BetaRow
<1> QED BY <1>0, <1>2, <1>6

(***************************************************************************)
(* What stays when the rows that a property is about stay                  *)
(***************************************************************************)
(* The operators on rows depend on the parameters and the frame alone.     *)
LEMMA SameRows ==
  ASSUME fba' = fba, trellis' = trellis
  PROVE  /\ \A i, row, K : AlphaRow(i, row, K)' = AlphaRow(i, row, K)
         /\ \A i, row, K : BetaRow(i, row, K)' = BetaRow(i, row, K)
         /\ \A i, a, b, K : SymbolTable(i, a, b, K)' = SymbolTable(i, a, b, K)
         /\ \A row, k : Kept(row, k)' = Kept(row, k)
         /\ \A row : Normalize(row)' = Normalize(row)
         /\ \A w : Prior(w)' = Prior(w)
         /\ \A r : Row(r)' = Row(r)
<1>1. States' = States /\ Alphabet' = Alphabet /\ Steps' = Steps
      /\ \A i, d : SymbolSteps(i, d)' = SymbolSteps(i, d)
  BY SameParameters
<1>2. ASSUME NEW i, NEW d, NEW b PROVE SymbolRow(i, d, b)' = SymbolRow(i, d, b)
  BY <1>1 DEF SymbolRow
<1>3. ASSUME NEW i, NEW a, NEW b, NEW K
      PROVE  SymbolTable(i, a, b, K)' = SymbolTable(i, a, b, K)
  BY <1>1, <1>2 DEF SymbolTable
<1>4. ASSUME NEW i, NEW row, NEW K
      PROVE  AlphaRow(i, row, K)' = AlphaRow(i, row, K) /\ BetaRow(i, row, K)' = BetaRow(i, row, K)
  BY <1>1 DEF AlphaRow, BetaRow
<1>5. ASSUME NEW row, NEW k PROVE Kept(row, k)' = Kept(row, k)
  BY <1>1 DEF Kept
<1>6. ASSUME NEW row PROVE Normalize(row)' = Normalize(row) /\ Row(row)' = Row(row)
  BY <1>1 DEF Normalize, Row
<1>7. ASSUME NEW w PROVE Prior(w)' = Prior(w)
  BY <1>1 DEF Prior, Normalize
<1> QED BY <1>3, <1>4, <1>5, <1>6, <1>7

(* The rows of the forward pass stay made while they stay.                 *)
LEMMA AlphaStays ==
  ASSUME fba' = fba, trellis' = trellis, fba \in Decoders, NEW n \in Boundaries, AlphaUpTo(n),
         \A j \in 0..n : alpha'[j] = alpha[j]
  PROVE  AlphaUpTo(n)'
<1>0. n \in Nat /\ 0 \in 0..n /\ \A j \in 0..n - 1 : j \in 0..n /\ j + 1 \in 0..n
  BY Parameters DEF Boundaries
<1>1. alpha'[0] = Prior(trellis.sof)'
  BY <1>0, SameRows DEF AlphaUpTo
<1>2. ASSUME NEW j \in 0..n - 1
      PROVE  (alpha[j + 1] = Normalize(AlphaRow(j, alpha[j], Kept(alpha[j], fba.th_inner))))'
  <2>1. alpha'[j] = alpha[j] /\ alpha'[j + 1] = alpha[j + 1]
    BY <1>0
  <2>2. alpha[j + 1] = Normalize(AlphaRow(j, alpha[j], Kept(alpha[j], fba.th_inner)))
    BY DEF AlphaUpTo
  <2> QED BY <2>1, <2>2, SameParameters DEF Normalize, AlphaRow, Kept
<1> QED BY <1>1, <1>2 DEF AlphaUpTo

(* The rows of the backward pass stay made while they stay, and what       *)
(* pruning kept of those ahead.                                            *)
LEMMA BetaStays ==
  ASSUME fba' = fba, trellis' = trellis, fba \in Decoders, NEW n \in Boundaries, BetaDownTo(n),
         \A j \in n..fba.N : beta'[j] = beta[j],
         \A j \in n + 1..fba.N : Kept(alpha[j], fba.th_inner)' = Kept(alpha[j], fba.th_inner)
  PROVE  BetaDownTo(n)'
<1>0. /\ n \in Nat /\ fba.N \in Nat /\ fba.N \in n..fba.N
      /\ \A j \in n..fba.N - 1 : j \in n..fba.N /\ j + 1 \in n..fba.N /\ j + 1 \in n + 1..fba.N
  BY Parameters DEF Boundaries
<1>1. beta'[fba.N] = Prior(trellis.eof)'
  BY <1>0, SameRows DEF BetaDownTo
<1>2. ASSUME NEW j \in n..fba.N - 1
      PROVE  (beta[j] = Normalize(BetaRow(j, beta[j + 1], Kept(alpha[j + 1], fba.th_inner))))'
  <2>1. beta'[j] = beta[j] /\ beta'[j + 1] = beta[j + 1]
    BY <1>0
  <2>2. beta[j] = Normalize(BetaRow(j, beta[j + 1], Kept(alpha[j + 1], fba.th_inner)))
    BY DEF BetaDownTo
  <2>3. Kept(alpha[j + 1], fba.th_inner)' = Kept(alpha[j + 1], fba.th_inner)
    BY <1>0
  <2> QED BY <2>1, <2>2, <2>3, SameParameters DEF Normalize, BetaRow
<1>3. fba'.N = fba.N
  OBVIOUS
<1> QED BY <1>1, <1>2, <1>3 DEF BetaDownTo

(* Without pruning all states are kept.                                    *)
LEMMA AllAreKept ==
  ASSUME fba \in Decoders, ~fba.thresholding
  PROVE  \A row : Kept(row, fba.th_inner) = States /\ Kept(row, fba.th_outer) = States
BY Parameters DEF Kept

(* The posteriors stay made while the rows they are made of stay.          *)
LEMMA TableStays ==
  ASSUME fba' = fba, trellis' = trellis, NEW S, TableFor(S),
         \A i \in S : alpha'[i] = alpha[i] /\ beta'[i + 1] = beta[i + 1] /\ ptable'[i] = ptable[i]
  PROVE  TableFor(S)'
<1>1. ASSUME NEW i \in S
      PROVE  (ptable[i] = SymbolTable(i, alpha[i], beta[i + 1], Kept(alpha[i], fba.th_outer)))'
  <2>1. ptable[i] = SymbolTable(i, alpha[i], beta[i + 1], Kept(alpha[i], fba.th_outer))
    BY DEF TableFor
  <2>2. alpha'[i] = alpha[i] /\ beta'[i + 1] = beta[i + 1] /\ ptable'[i] = ptable[i]
    OBVIOUS
  <2>3. Kept(alpha[i], fba.th_outer)' = Kept(alpha[i], fba.th_outer)
    BY <2>2, SameParameters DEF Kept
  <2>4. ASSUME NEW d PROVE SymbolRow(i, d, beta[i + 1])' = SymbolRow(i, d, beta[i + 1])
    BY <2>2, SameParameters DEF SymbolRow
  <2>5. SymbolTable(i, alpha[i], beta[i + 1], Kept(alpha[i], fba.th_outer))' =
          SymbolTable(i, alpha[i], beta[i + 1], Kept(alpha[i], fba.th_outer))
    BY <2>2, <2>3, <2>4, SameParameters DEF SymbolTable
  <2> QED BY <2>1, <2>2, <2>5
<1> QED BY <1>1 DEF TableFor

(* Whether a frame has a path depends on the frame alone.                  *)
LEMMA NoPathStays ==
  ASSUME fba' = fba, trellis' = trellis
  PROVE  NoPath' <=> NoPath
<1>1. \A p : Whole(p)' <=> Whole(p)
  BY SameParameters DEF Whole, Paths, PathWeight, Move, Branch
<1> QED BY <1>1 DEF NoPath

(***************************************************************************)
(* The memory of the host's metrics                                        *)
(***************************************************************************)
(* What the decoder copied is what it received, where it works on a copy.  *)
CopiedRight ==
  fba.lazy \/ ~fba.globalstore => copied.r = trellis.r /\ copied.app = trellis.app

(* Memory m gives the metrics of codeword i, as far as they are there.     *)
There(m, i) ==
  \A s \in States :
    (fba.lazy => Slot(i, s) \in m.cached) => m.gamma[Slot(i, s)] = Metrics[i][s]
Sound(m) ==
  DOMAIN m.gamma = Slots(fba) /\ (fba.globalstore => \A i \in Codewords : There(m, i))

(* Each state of a codeword has a slot of its own, and each codeword in    *)
(* global storage.                                                         *)
LEMMA SlotsOf ==
  ASSUME fba \in Decoders, NEW i \in Codewords, NEW s \in States
  PROVE  /\ Slot(i, s) \in Slots(fba) /\ Slot(i, s)[2] = s
         /\ \A t \in States : Slot(i, s) = Slot(i, t) => s = t
         /\ fba.globalstore => \A j, t : Slot(i, s) = Slot(j, t) => i = j
BY Parameters DEF Slot, Slots, Codewords, States

(* Metrics computed from a copy of the received vector are those of the    *)
(* frame.                                                                  *)
LEMMA SameMetrics ==
  ASSUME Ready, NEW c, c.r = trellis.r, c.app = trellis.app, NEW i \in Codewords, NEW s \in States
  PROVE  R(trellis, c, i, s) = Metrics[i][s]
BY DEF Metrics, R

(* Filling in the metrics of some states of codeword i.                    *)
Filled(i, S, g, h) ==
  /\ DOMAIN h = Slots(fba)
  /\ \A s \in S : h[Slot(i, s)] = Metrics[i][s]
  /\ \A k \in Slots(fba) : (\A s \in S : k # Slot(i, s)) => h[k] = g[k]

(* Fill puts the metrics of some states in their slots and leaves the      *)
(* others.                                                                 *)
LEMMA FillMakes ==
  ASSUME Ready, NEW c, c.r = trellis.r, c.app = trellis.app, NEW i \in Codewords,
         NEW S, S \subseteq States, NEW g, DOMAIN g = Slots(fba)
  PROVE  Filled(i, S, g, Fill(trellis, c, i, S, g))
<1>1. ASSUME NEW s \in S PROVE Fill(trellis, c, i, S, g)[Slot(i, s)] = Metrics[i][s]
  <2>1. Slot(i, s) \in Slots(fba) /\ Slot(i, s)[2] = s
    BY SlotsOf DEF Ready
  <2>2. R(trellis, c, i, s) = Metrics[i][s]
    BY SameMetrics
  <2> QED BY <2>1, <2>2 DEF Fill
<1> QED BY <1>1 DEF Fill, Filled

(* fill_gamma_cache_conditional keeps memory sound, and gives what it is   *)
(* asked for.                                                              *)
LEMMA OnDemandKeeps ==
  ASSUME Ready, CopiedRight, NEW m, Sound(m), NEW i \in Codewords, There(m, i),
         NEW S, S \subseteq States
  PROVE  /\ Sound(OnDemand(m, i, S)) /\ There(OnDemand(m, i, S), i)
         /\ \A s \in S : OnDemand(m, i, S).gamma[Slot(i, s)] = Metrics[i][s]
<1>1. CASE ~fba.lazy
  BY <1>1 DEF OnDemand, There
<1>2. CASE fba.lazy
  <2> DEFINE misses == {s \in S : Slot(i, s) \notin m.cached}
             g == Fill(trellis, copied, i, misses, m.gamma)
             c == m.cached \union {Slot(i, s) : s \in misses}
             n == OnDemand(m, i, S)
  <2>1. n.gamma = g /\ n.cached = c
    BY <1>2 DEF OnDemand
  <2>2. DOMAIN m.gamma = Slots(fba) /\ copied.r = trellis.r /\ copied.app = trellis.app
    BY <1>2 DEF Sound, CopiedRight
  <2>3. misses \subseteq States /\ misses \subseteq S
    OBVIOUS
  <2>4. /\ DOMAIN g = Slots(fba)
        /\ \A s \in misses : g[Slot(i, s)] = Metrics[i][s]
        /\ \A k \in Slots(fba) : (\A s \in misses : k # Slot(i, s)) => g[k] = m.gamma[k]
    <3>1. Filled(i, misses, m.gamma, g)
      <4> HIDE DEF misses
      <4> QED BY <2>2, <2>3, FillMakes
    <3> QED BY <3>1 DEF Filled
  <2>5. ASSUME NEW j \in Codewords, There(m, j), NEW s \in States, Slot(j, s) \in c,
               i = j \/ fba.globalstore
        PROVE  g[Slot(j, s)] = Metrics[j][s]
    <3>0. Slot(j, s) \in Slots(fba)
      BY SlotsOf DEF Ready
    <3>1. CASE \A t \in misses : Slot(j, s) # Slot(i, t)
      <4>1. Slot(j, s) \in m.cached
        BY <2>5, <3>1
      <4>2. m.gamma[Slot(j, s)] = Metrics[j][s]
        BY <2>5, <4>1 DEF There
      <4> QED BY <2>4, <3>0, <3>1, <4>2
    <3>2. CASE \E t \in misses : Slot(j, s) = Slot(i, t)
      <4>1. PICK t \in misses : Slot(j, s) = Slot(i, t)
        BY <3>2
      <4>2. s = t
        <5>1. t \in States
          BY <2>3
        <5>2. Slot(j, s)[2] = s /\ Slot(i, t)[2] = t
          BY <5>1, SlotsOf DEF Ready
        <5> QED BY <4>1, <5>2
      <4>3. i = j
        <5>1. t \in States
          BY <2>3
        <5> QED BY <2>5, <4>1, <5>1, SlotsOf DEF Ready
      <4> QED BY <2>4, <4>1, <4>2, <4>3
    <3> QED BY <3>1, <3>2
  <2> HIDE DEF g, c, misses, n
  <2>6. \A j \in Codewords : There(m, j) /\ (i = j \/ fba.globalstore) => There(n, j)
    BY <1>2, <2>1, <2>5 DEF There
  <2>7. Sound(n)
    BY <2>1, <2>4, <2>6 DEF Sound
  <2>8. ASSUME NEW s \in S PROVE g[Slot(i, s)] = Metrics[i][s]
    <3>1. Slot(i, s) \in c
      BY DEF c, misses
    <3>2. s \in States
      OBVIOUS
    <3> QED BY <2>5, <3>1, <3>2
  <2> QED BY <2>1, <2>6, <2>7, <2>8 DEF n
<1> QED BY <1>1, <1>2 DEF Ready

(* What codeword i finds, whether stored for the frame or for it.          *)
LEMMA LocalMemoryIs ==
  ASSUME Ready, CopiedRight, Sound(Memory), NEW i \in Codewords
  PROVE  Sound(LocalMemory(i)) /\ There(LocalMemory(i), i)
<1>1. CASE fba.globalstore
  BY <1>1 DEF LocalMemory, Sound
<1>2. CASE ~fba.globalstore /\ fba.lazy
  BY <1>2 DEF LocalMemory, Sound, There, ResetCache, Memory
<1>3. CASE ~fba.globalstore /\ ~fba.lazy
  <2> DEFINE m == LocalMemory(i)
             g == Fill(trellis, copied, i, States, gamma)
  <2>1. m.gamma = g /\ m.cached = cached
    BY <1>3 DEF LocalMemory
  <2>2. DOMAIN gamma = Slots(fba) /\ copied.r = trellis.r /\ copied.app = trellis.app
    BY <1>3 DEF Sound, CopiedRight, Memory
  <2>3. Filled(i, States, gamma, g)
    BY <2>2, FillMakes
  <2> HIDE DEF m, g
  <2>4. Sound(m) /\ There(m, i)
    BY <1>3, <2>1, <2>3 DEF Sound, There, Filled
  <2> QED BY <2>4 DEF m
<1> QED BY <1>1, <1>2, <1>3

(* The sum of the metrics through a step, over the symbols.                *)
LEMMA ThroughIsStep ==
  ASSUME Ready, NEW i \in Codewords, NEW g, NEW s \in States, NEW t \in States,
         g[Slot(i, s)] = Metrics[i][s], t \in Reach(i, s)
  PROVE  Through(g, i, s, t) = Steps[i][s][t]
<1>1. Steps[i][s][t] = Total([d \in Alphabet |-> Metrics[i][s][d][t]])
  BY StepsProperties
<1> QED BY <1>1 DEF Through

(* work_alpha makes a row of the forward pass, however the metrics are     *)
(* stored.                                                                 *)
LEMMA WorkAlphaMakes ==
  ASSUME Ready, CopiedRight, NEW m, Sound(m), NEW i \in 1..fba.N, There(m, i - 1),
         Row(alpha[i - 1])
  PROVE  /\ WorkAlpha(m, i).row = AlphaRow(i - 1, alpha[i - 1], Kept(alpha[i - 1], fba.th_inner))
         /\ Sound(WorkAlpha(m, i).memory) /\ There(WorkAlpha(m, i).memory, i - 1)
<1> DEFINE h == i - 1
           row == alpha[h]
           K == Kept(row, fba.th_inner)
           from == {s \in K : row[s] # 0}
           now == OnDemand(m, h, from)
           f(t) == [s \in {s \in from : t \in Reach(h, s)} |-> row[s] * Through(now.gamma, h, s, t)]
<1>0. h \in Codewords
  BY Parameters DEF Ready, Codewords
<1>1. WorkAlpha(m, i) = [row |-> [t \in States |-> Total(f(t))], memory |-> now]
  BY DEF WorkAlpha
<1>2. Row(row)
  OBVIOUS
<1> HIDE DEF row
<1>3. K \subseteq States /\ from \subseteq States /\ from \subseteq K
  BY KeptAreStates
<1>h. There(m, h)
  OBVIOUS
<1> HIDE DEF h, K, from
<1>4. /\ Sound(now) /\ There(now, h)
      /\ \A s \in from : now.gamma[Slot(h, s)] = Metrics[h][s]
  BY <1>0, <1>3, <1>h, OnDemandKeeps
<1> HIDE DEF now
<1>5. ASSUME NEW t \in States PROVE Total(f(t)) = Sum(Ahead(States, Steps, h, row, t), K)
  <2>1. DOMAIN f(t) \subseteq K /\ DOMAIN f(t) = {s \in from : t \in Reach(h, s)}
    BY <1>3
  <2>2. ASSUME NEW s \in DOMAIN f(t) PROVE f(t)[s] = row[s] * Steps[h][s][t]
    <3>1. s \in States /\ s \in from /\ t \in Reach(h, s)
      BY <1>3
    <3>2. Through(now.gamma, h, s, t) = Steps[h][s][t]
      BY <1>0, <1>4, <3>1, ThroughIsStep
    <3> QED BY <3>2
  <2>3. \A s \in K \ DOMAIN f(t) : row[s] = 0 \/ t \notin Reach(h, s)
    BY <2>1 DEF from
  <2> HIDE DEF f
  <2> QED BY <1>0, <1>2, <1>3, <2>1, <2>2, <2>3, ForwardTotal
<1>6. [t \in States |-> Total(f(t))] = AlphaRow(h, row, K)
  BY <1>5 DEF AlphaRow
<1> HIDE DEF f
<1>7. WorkAlpha(m, i).row = AlphaRow(h, row, K) /\ WorkAlpha(m, i).memory = now
  BY <1>1, <1>6
<1> QED BY <1>4, <1>7 DEF K, row, h

(* work_beta makes a row of the backward pass, however the metrics are     *)
(* stored.                                                                 *)
LEMMA WorkBetaMakes ==
  ASSUME Ready, CopiedRight, NEW m, Sound(m), NEW i \in Codewords, There(m, i), Row(beta[i + 1])
  PROVE  /\ WorkBeta(m, i).row = BetaRow(i, beta[i + 1], Kept(alpha[i + 1], fba.th_inner))
         /\ Sound(WorkBeta(m, i).memory) /\ There(WorkBeta(m, i).memory, i)
<1> DEFINE row == beta[i + 1]
           K == Kept(alpha[i + 1], fba.th_inner)
           to == {t \in K : row[t] # 0}
           S == {s \in States : Reach(i, s) \intersect to # {}}
           now == OnDemand(m, i, S)
           f(s) == [t \in Reach(i, s) \intersect to |-> row[t] * Through(now.gamma, i, s, t)]
<1>1. WorkBeta(m, i) = [row |-> [s \in States |-> Total(f(s))], memory |-> now]
  BY DEF WorkBeta
<1>2. Row(row)
  OBVIOUS
<1>3. K \subseteq States /\ to \subseteq K /\ S \subseteq States
  BY KeptAreStates
<1> HIDE DEF row, K
<1>s. \A s \in States : Reach(i, s) \intersect to # {} => s \in S
  OBVIOUS
<1>k. \A t \in K : t \notin to => row[t] = 0
  OBVIOUS
<1> HIDE DEF S, to
<1>4. /\ Sound(now) /\ There(now, i)
      /\ \A s \in S : now.gamma[Slot(i, s)] = Metrics[i][s]
  BY <1>3, OnDemandKeeps
<1> HIDE DEF now
<1>p. Weighs(States, row, Steps, fba.N)
  BY <1>2, StepsWeigh
<1>5. ASSUME NEW s \in States PROVE Total(f(s)) = Sum(Behind(States, Steps, i, row, s), K)
  <2>1. DOMAIN f(s) \subseteq K /\ DOMAIN f(s) = Reach(i, s) \intersect to
    BY <1>3
  <2>2. ASSUME NEW t \in DOMAIN f(s) PROVE f(s)[t] = row[t] * Steps[i][s][t]
    <3>1. t \in States /\ t \in Reach(i, s) /\ s \in S
      BY <1>3, <1>s
    <3>2. Through(now.gamma, i, s, t) = Steps[i][s][t]
      BY <1>4, <3>1, ThroughIsStep
    <3> QED BY <3>2
  <2>3. \A t \in K \ DOMAIN f(s) : row[t] = 0 \/ t \notin Reach(i, s)
    BY <1>k, <2>1
  <2> HIDE DEF f
  <2>4. \A t \in States : Steps[i][s][t] \in Nat /\ (t \notin Reach(i, s) => Steps[i][s][t] = 0)
    BY StepsProperties
  <2> QED BY <1>2, <1>3, <2>1, <2>2, <2>3, <2>4, BackwardTotal
<1>6. [s \in States |-> Total(f(s))] = BetaRow(i, row, K)
  BY <1>5 DEF BetaRow
<1> HIDE DEF f
<1>7. WorkBeta(m, i).row = BetaRow(i, row, K) /\ WorkBeta(m, i).memory = now
  BY <1>1, <1>6
<1> QED BY <1>4, <1>7 DEF K, row

(* A message sums what the kept states before and all states after it say. *)
LEMMA MessageTotal ==
  ASSUME Ready, NEW i \in Codewords, NEW d \in Alphabet, NEW a, Row(a), NEW b, Row(b),
         NEW K, K \subseteq States, NEW F, DOMAIN F \subseteq K,
         \A s \in DOMAIN F : F[s] = a[s] * SymbolRow(i, d, b)[s],
         \A s \in K \ DOMAIN F : a[s] * SymbolRow(i, d, b)[s] = 0
  PROVE  Total(F) = Sum(Meets(States, a, SymbolRow(i, d, b)), K)
<1> DEFINE r == SymbolRow(i, d, b)
           g == Meets(States, a, r)
<1>1. Row(r)
  BY SymbolRowIsRow
<1> HIDE DEF r
<1>2. \A s \in K : g[s] = a[s] * r[s]
  BY DEF Meets
<1> HIDE DEF g
<1>m. \A x, y \in Nat : x * y \in Nat
  OBVIOUS
<1>3. IsFiniteSet(K) /\ IsFiniteSet(DOMAIN F)
  BY Parameters, FS_Subset DEF Ready
<1>4. Numbers(g, K)
  <2>1. \A s \in K : a[s] \in Nat /\ r[s] \in Nat
    BY <1>1 DEF Row
  <2> QED BY <1>2, <1>3, <1>m, <2>1 DEF Numbers
<1>5. \A s \in DOMAIN F : F[s] = g[s]
  BY <1>2 DEF r
<1>6. \A s \in K \ DOMAIN F : g[s] = 0
  BY <1>2 DEF r
<1>7. Sum(g, K) = Sum(g, DOMAIN F)
  BY <1>4, <1>6, SumWhere
<1>8. Numbers(g, DOMAIN F)
  BY <1>4, NumbersSubset
<1>9. Sum(g, DOMAIN F) = Sum(F, DOMAIN F) /\ Numbers(F, DOMAIN F)
  <2>1. Numbers(F, DOMAIN F)
    BY <1>5, <1>8 DEF Numbers
  <2> QED BY <1>5, <2>1, SumCongruent
<1>10. Total(F) = Sum(F, DOMAIN F)
  BY <1>9, TotalIsSum
<1> QED BY <1>7, <1>9, <1>10 DEF g, r

(* The sum over the states after codeword i, for one symbol of it.         *)
LEMMA SymbolTotal ==
  ASSUME Ready, NEW i \in Codewords, NEW d \in Alphabet, NEW s \in States, NEW b, Row(b),
         NEW f, DOMAIN f \subseteq Reach(i, s),
         \A t \in DOMAIN f : f[t] = b[t] * Metrics[i][s][d][t],
         \A t \in Reach(i, s) \ DOMAIN f : b[t] = 0
  PROVE  Total(f) = SymbolRow(i, d, b)[s]
<1>0. Reach(i, s) \subseteq States
  BY DEF Reach
<1>1. \A t \in States :
        /\ SymbolSteps(i, d)[i][s][t] \in Nat
        /\ t \notin Reach(i, s) => SymbolSteps(i, d)[i][s][t] = 0
        /\ t \in Reach(i, s) => SymbolSteps(i, d)[i][s][t] = Metrics[i][s][d][t]
  BY SymbolStepsAre, MetricsAreNumbers
<1>2. \A t \in DOMAIN f : f[t] = b[t] * SymbolSteps(i, d)[i][s][t]
  BY <1>0, <1>1
<1>3. \A t \in States \ DOMAIN f : b[t] = 0 \/ t \notin Reach(i, s)
  OBVIOUS
<1>4. Total(f) = Sum(Behind(States, SymbolSteps(i, d), i, b, s), States)
  BY <1>0, <1>1, <1>2, <1>3, BackwardTotal
<1> QED BY <1>4 DEF SymbolRow

(* work_message_app makes the posteriors of a codeword, however the        *)
(* metrics are stored.                                                     *)
LEMMA WorkMessageMakes ==
  ASSUME Ready, CopiedRight, NEW m, Sound(m), NEW i \in Codewords, There(m, i),
         NEW a, Row(a[i]), NEW b, Row(b[i + 1])
  PROVE  /\ WorkMessageApp(m, i, a, b).row =
              SymbolTable(i, a[i], b[i + 1], Kept(a[i], fba.th_outer))
         /\ Sound(WorkMessageApp(m, i, a, b).memory)
<1> DEFINE x == a[i]
           y == b[i + 1]
           K == Kept(x, fba.th_outer)
           from == {s \in K : x[s] # 0}
           to(s) == {t \in Reach(i, s) : y[t] # 0}
           S == {s \in from : to(s) # {}}
           now == OnDemand(m, i, S)
           f(d, s) == [t \in to(s) |-> y[t] * now.gamma[Slot(i, s)][d][t]]
           F(d) == [s \in from |-> x[s] * Total(f(d, s))]
<1>1. WorkMessageApp(m, i, a, b) = [row |-> [d \in Alphabet |-> Total(F(d))], memory |-> now]
  BY DEF WorkMessageApp
<1>2. Row(x) /\ Row(y)
  OBVIOUS
<1>3. K \subseteq States /\ from \subseteq K /\ S \subseteq States
  BY KeptAreStates
<1> HIDE DEF x, y, K
<1>s. \A s \in from : to(s) # {} => s \in S
  OBVIOUS
<1>k. \A s \in K : s \notin from => x[s] = 0
  OBVIOUS
<1> HIDE DEF S, from
<1>4. /\ Sound(now)
      /\ \A s \in S : now.gamma[Slot(i, s)] = Metrics[i][s]
  BY <1>3, OnDemandKeeps
<1> HIDE DEF now
<1>5. ASSUME NEW d \in Alphabet, NEW s \in from
      PROVE  Total(f(d, s)) = SymbolRow(i, d, y)[s]
  <2>1. DOMAIN f(d, s) \subseteq Reach(i, s) /\ DOMAIN f(d, s) = to(s)
    OBVIOUS
  <2>2. ASSUME NEW t \in DOMAIN f(d, s) PROVE f(d, s)[t] = y[t] * Metrics[i][s][d][t]
    <3>1. t \in to(s)
      OBVIOUS
    <3>2. s \in S
      BY <1>s, <3>1
    <3> QED BY <1>4, <3>1, <3>2
  <2>3. \A t \in Reach(i, s) \ DOMAIN f(d, s) : y[t] = 0
    OBVIOUS
  <2>4. s \in States
    BY <1>3
  <2> HIDE DEF f, to
  <2> QED BY <1>2, <2>1, <2>2, <2>3, <2>4, SymbolTotal
<1> HIDE DEF f
<1>m. \A z \in Nat : 0 * z = 0
  OBVIOUS
<1>6. ASSUME NEW d \in Alphabet
      PROVE  Total(F(d)) = Sum(Meets(States, x, SymbolRow(i, d, y)), K)
  <2>1. DOMAIN F(d) = from
    OBVIOUS
  <2>2. \A s \in DOMAIN F(d) : F(d)[s] = x[s] * SymbolRow(i, d, y)[s]
    BY <1>5
  <2>3. ASSUME NEW s \in K \ DOMAIN F(d) PROVE x[s] * SymbolRow(i, d, y)[s] = 0
    <3>1. x[s] = 0
      BY <1>k, <2>1
    <3>2. SymbolRow(i, d, y)[s] \in Nat
      BY <1>2, <1>3, SymbolRowIsRow DEF Row
    <3> QED BY <1>m, <3>1, <3>2
  <2> HIDE DEF F
  <2> QED BY <1>2, <1>3, <2>1, <2>2, <2>3, MessageTotal
<1>7. [d \in Alphabet |-> Total(F(d))] = SymbolTable(i, x, y, K)
  BY <1>6 DEF SymbolTable
<1> HIDE DEF F
<1>8. WorkMessageApp(m, i, a, b).row = SymbolTable(i, x, y, K)
      /\ WorkMessageApp(m, i, a, b).memory = now
  BY <1>1, <1>7
<1> QED BY <1>4, <1>8 DEF K, x, y

(***************************************************************************)
(* The host's invariant                                                    *)
(***************************************************************************)
StoredRight == Sound(Memory)
AllAlpha == AlphaUpTo(fba.N)
LastBeta == BetaDownTo(fba.N)
AllTable == TableFor(Codewords)
HostTypes ==
  /\ DOMAIN alpha = Boundaries /\ DOMAIN beta = Boundaries /\ DOMAIN ptable = Codewords
  /\ RowsTyped

(* What is computed when the pass is about to compute for index i.         *)
Stage(st, i) ==
  /\ st \in {"both", "results", "alpha", "beta", "done", "aborted"}
  /\ st = "both" =>
       /\ ~fba.thresholding /\ fba.globalstore /\ i \in 1..fba.N
       /\ AlphaUpTo(i - 1) /\ \A n \in Codewords : n = fba.N - i => BetaDownTo(n + 1)
  /\ st = "results" =>
       i \in Codewords /\ fba.globalstore /\ AllAlpha /\ BetaDownTo(0) /\ TableFor(0..i - 1)
  /\ st = "alpha" => i \in 1..fba.N /\ AlphaUpTo(i - 1) /\ LastBeta
  /\ st = "beta" =>
       /\ i \in Codewords /\ AllAlpha /\ BetaDownTo(i + 1)
       /\ \A S : S = i + 1..fba.N - 1 => TableFor(S)
  /\ st = "done" => AllAlpha /\ BetaDownTo(0) /\ AllTable
  /\ st = "aborted" => NoPath

Decoding ==
  /\ Ready /\ allocated /\ CopiedRight /\ StoredRight /\ HostTypes
  /\ \E st, i : pass = <<st, i>> /\ Stage(st, i)

HostInv ==
  /\ fba \in Decoders
  /\ fba.depth = 1 =>
       /\ allocated => DOMAIN gamma = Slots(fba)
       /\ pass = <<"idle", 0>> \/ Decoding

(* The invariant of the host says that its posteriors are exact.           *)
LEMMA HostInvExact ==
  ASSUME HostInv
  PROVE  HostExact
<1>1. CASE fba.depth = 1 /\ pass[1] \in {"done", "aborted"}
  <2>1. Decoding
    BY <1>1 DEF HostInv
  <2>2. PICK st, i : pass = <<st, i>> /\ Stage(st, i)
    BY <2>1 DEF Decoding
  <2>3. pass[1] = st
    BY <2>2
  <2>4. pass[1] = "done" => HostComplete
    BY <2>1, <2>2, <2>3 DEF Stage, HostComplete, AllAlpha, AllTable, Decoding, HostTypes
  <2>5. pass[1] = "aborted" => NoPath
    BY <2>2, <2>3 DEF Stage
  <2>6. Ready
    BY <2>1 DEF Decoding
  <2> QED BY <2>4, <2>5, <2>6, CompleteIsExact
<1>2. CASE ~ (fba.depth = 1 /\ pass[1] \in {"done", "aborted"})
  BY <1>2 DEF HostExact
<1> QED BY <1>1, <1>2

(* A row that is computed leaves those before it.                          *)
LEMMA AlphaExtends ==
  ASSUME fba' = fba, trellis' = trellis, fba \in Decoders, DOMAIN alpha = Boundaries,
         NEW n \in Codewords, AlphaUpTo(n),
         alpha' = [alpha EXCEPT ![n + 1] =
                     Normalize(AlphaRow(n, alpha[n], Kept(alpha[n], fba.th_inner)))]
  PROVE  AlphaUpTo(n + 1)'
<1>0. /\ fba.N \in Nat /\ n \in Nat /\ n + 1 \in Boundaries
      /\ \A j \in 0..n : j # n + 1 /\ j \in Boundaries
      /\ \A j \in 0..(n + 1) - 1 : j \in 0..n /\ (j \in 0..n - 1 \/ j = n)
      /\ \A j \in 0..n - 1 : j + 1 \in 0..n
      /\ 0 \in 0..n
  BY Parameters DEF Codewords, Boundaries
<1>1. \A j \in 0..n : alpha'[j] = alpha[j]
  BY <1>0
<1>2. alpha'[n + 1] = Normalize(AlphaRow(n, alpha[n], Kept(alpha[n], fba.th_inner)))
  BY <1>0
<1>3. alpha'[0] = Prior(trellis.sof)'
  BY <1>0, <1>1, SameRows DEF AlphaUpTo
<1>4. ASSUME NEW j \in 0..(n + 1) - 1
      PROVE  (alpha[j + 1] = Normalize(AlphaRow(j, alpha[j], Kept(alpha[j], fba.th_inner))))'
  <2>1. alpha'[j] = alpha[j]
    BY <1>0, <1>1
  <2>2. alpha'[j + 1] = Normalize(AlphaRow(j, alpha[j], Kept(alpha[j], fba.th_inner)))
    <3>1. CASE j \in 0..n - 1
      BY <1>0, <1>1, <3>1 DEF AlphaUpTo
    <3>2. CASE j = n
      BY <1>2, <3>2
    <3> QED BY <1>0, <3>1, <3>2
  <2> QED BY <2>1, <2>2, SameParameters DEF Normalize, AlphaRow, Kept
<1> QED BY <1>3, <1>4 DEF AlphaUpTo

(* The backward pass goes on by one row.                                   *)
LEMMA BetaExtends ==
  ASSUME fba' = fba, trellis' = trellis, fba \in Decoders, DOMAIN beta = Boundaries,
         NEW n \in Codewords, BetaDownTo(n + 1),
         beta' = [beta EXCEPT ![n] =
                    Normalize(BetaRow(n, beta[n + 1], Kept(alpha[n + 1], fba.th_inner)))],
         \A j \in n + 1..fba.N : Kept(alpha[j], fba.th_inner)' = Kept(alpha[j], fba.th_inner)
  PROVE  BetaDownTo(n)'
<1>0. /\ fba.N \in Nat /\ n \in Nat /\ n \in Boundaries
      /\ \A j \in n + 1..fba.N : j # n /\ j \in Boundaries
      /\ \A j \in n..fba.N - 1 : j + 1 \in n + 1..fba.N /\ (j \in n + 1..fba.N - 1 \/ j = n)
      /\ fba.N \in n + 1..fba.N
      /\ \A j \in n + 1..fba.N - 1 : j \in n + 1..fba.N
  BY Parameters DEF Codewords, Boundaries
<1>1. \A j \in n + 1..fba.N : beta'[j] = beta[j]
  BY <1>0
<1>2. beta'[n] = Normalize(BetaRow(n, beta[n + 1], Kept(alpha[n + 1], fba.th_inner)))
  BY <1>0
<1>3. beta'[fba.N] = Prior(trellis.eof)'
  BY <1>0, <1>1, SameRows DEF BetaDownTo
<1>4. ASSUME NEW j \in n..fba.N - 1
      PROVE  (beta[j] = Normalize(BetaRow(j, beta[j + 1], Kept(alpha[j + 1], fba.th_inner))))'
  <2>1. beta'[j + 1] = beta[j + 1]
        /\ Kept(alpha[j + 1], fba.th_inner)' = Kept(alpha[j + 1], fba.th_inner)
    BY <1>0, <1>1
  <2>2. beta'[j] = Normalize(BetaRow(j, beta[j + 1], Kept(alpha[j + 1], fba.th_inner)))
    <3>1. CASE j \in n + 1..fba.N - 1
      BY <1>0, <1>1, <3>1 DEF BetaDownTo
    <3>2. CASE j = n
      BY <1>2, <3>2
    <3> QED BY <1>0, <3>1, <3>2
  <2> QED BY <2>1, <2>2, SameParameters DEF Normalize, BetaRow
<1>5. fba'.N = fba.N
  OBVIOUS
<1> QED BY <1>3, <1>4, <1>5 DEF BetaDownTo

(* Rows stay rows when one is replaced by a row.                           *)
LEMMA TypesKept ==
  ASSUME fba' = fba, trellis' = trellis, HostTypes,
         alpha' = alpha \/ \E j, r : Row(r) /\ alpha' = [alpha EXCEPT ![j] = r],
         beta' = beta \/ \E j, r : Row(r) /\ beta' = [beta EXCEPT ![j] = r],
         ptable' = ptable \/ \E j, r : ptable' = [ptable EXCEPT ![j] = r]
  PROVE  HostTypes'
<1>1. States' = States /\ Boundaries' = Boundaries /\ Codewords' = Codewords
  BY SameParameters
<1>2. DOMAIN alpha' = Boundaries /\ \A i \in Boundaries : Row(alpha'[i])
  BY DEF HostTypes, RowsTyped
<1>3. DOMAIN beta' = Boundaries /\ \A i \in Boundaries : Row(beta'[i])
  BY DEF HostTypes, RowsTyped
<1>4. DOMAIN ptable' = Codewords
  BY DEF HostTypes
<1>5. RowsTyped'
  BY <1>1, <1>2, <1>3 DEF RowsTyped, Row
<1> QED BY <1>1, <1>2, <1>3, <1>4, <1>5 DEF HostTypes

(* Sound memory that is remembered is sound.                               *)
LEMMA StoredKept ==
  ASSUME fba' = fba, trellis' = trellis, NEW m, Sound(m), gamma' = m.gamma, cached' = m.cached
  PROVE  StoredRight'
<1>1. States' = States /\ Codewords' = Codewords /\ Metrics' = Metrics
  BY SameParameters
<1>2. \A i, s : Slot(i, s)' = Slot(i, s)
  BY DEF Slot
<1>3. ASSUME NEW i, There(m, i) PROVE There(Memory, i)'
  BY <1>1, <1>2, <1>3 DEF There, Memory
<1> QED BY <1>1, <1>3 DEF StoredRight, Sound, Memory

(* A frame goes on being decoded as the invariant says.                    *)
LEMMA DecodingKept ==
  ASSUME fba' = fba, trellis' = trellis, copied' = copied, allocated' = allocated, Decoding,
         StoredRight', HostTypes', \E st, i : pass' = <<st, i>> /\ Stage(st, i)'
  PROVE  Decoding' /\ (allocated' => (DOMAIN gamma = Slots(fba))')
<1>1. Ready'
  <2>1. Suits(trellis)'
    BY DEF Decoding, Ready, Suits, Codewords, Alphabet, FrameLength, CwStart, CwLength
  <2> QED BY <2>1 DEF Decoding, Ready
<1>2. CopiedRight'
  BY DEF Decoding, CopiedRight
<1>3. (DOMAIN gamma = Slots(fba))'
  BY DEF StoredRight, Sound, Memory
<1> QED BY <1>1, <1>2, <1>3 DEF Decoding

(* The rows of the algorithm are rows.                                     *)
LEMMA MadeRows ==
  ASSUME Ready, NEW i \in Codewords, NEW row, Row(row), NEW K, K \subseteq States
  PROVE  Row(Normalize(AlphaRow(i, row, K))) /\ Row(Normalize(BetaRow(i, row, K)))
BY RowsAreRows, NormalizeProperties

(* work_alpha keeps the invariant of the host.                             *)
LEMMA AlphaStep ==
  ASSUME HostInv, fba.depth = 1, Alpha
  PROVE  HostInv'
<1>0. Decoding /\ fba' = fba /\ trellis' = trellis /\ copied' = copied
      /\ allocated' = allocated /\ beta' = beta /\ ptable' = ptable
  BY DEF HostInv, Alpha
<1>1. PICK i : pass = <<"alpha", i>> /\ Stage("alpha", i)
  <2>1. PICK st, i : pass = <<st, i>> /\ Stage(st, i)
    BY <1>0 DEF Decoding
  <2>2. st = "alpha"
    BY <2>1 DEF Alpha
  <2> QED BY <2>1, <2>2
<1> DEFINE n == i - 1
           m == LocalMemory(n)
           a == WorkAlpha(m, i)
           K == Kept(alpha[n], fba.th_inner)
           row == AlphaRow(n, alpha[n], K)
<1>2. /\ i \in 1..fba.N /\ fba.N \in Nat /\ n \in Codewords /\ n + 1 = i /\ n \in Boundaries
      /\ AlphaUpTo(n) /\ LastBeta
  BY <1>0, <1>1, Parameters DEF Stage, Codewords, Boundaries, Decoding, Ready
<1>r. Ready /\ CopiedRight /\ Sound(Memory) /\ HostTypes /\ RowsTyped /\ DOMAIN alpha = Boundaries
  BY <1>0 DEF Decoding, StoredRight, HostTypes
<1>3. Sound(m) /\ There(m, n)
  BY <1>2, <1>r, LocalMemoryIs
<1>4. a.row = row /\ Sound(a.memory)
  <2>1. Row(alpha[i - 1]) /\ There(m, i - 1)
    BY <1>2, <1>3, <1>r DEF RowsTyped
  <2> HIDE DEF m
  <2> QED BY <1>2, <1>3, <1>r, <2>1, WorkAlphaMakes
<1>5. /\ alpha' = [alpha EXCEPT ![i] = Normalize(a.row)]
      /\ gamma' = a.memory.gamma /\ cached' = a.memory.cached
      /\ Continue({a.row}, IF i < fba.N THEN <<"alpha", i + 1>> ELSE <<"beta", fba.N - 1>>)
  <2>1. pass[2] = i
    BY <1>1
  <2> QED BY <2>1 DEF Alpha, Remember
<1> HIDE DEF m, a
<1>6. K \subseteq States /\ Row(Normalize(row))
  BY <1>2, <1>r, KeptAreStates, MadeRows DEF RowsTyped
<1>7. AlphaUpTo(n + 1)'
  BY <1>0, <1>2, <1>4, <1>5, <1>r, AlphaExtends DEF Ready
<1> HIDE DEF row
<1>8. StoredRight'
  BY <1>0, <1>4, <1>5, StoredKept
<1>9. HostTypes'
  BY <1>0, <1>4, <1>5, <1>6, <1>r, TypesKept
<1>10. LastBeta'
  BY <1>0, <1>2, SameRows DEF LastBeta, BetaDownTo, HostTypes
<1>11. \E st, j : pass' = <<st, j>> /\ Stage(st, j)'
  <2>1. CASE fba.fss /\ \A s \in States : row[s] = 0
    <3>1. pass' = <<"aborted", 0>>
      BY <1>4, <1>5, <2>1 DEF Continue
    <3>2. ~fba.thresholding
      BY <1>r, <2>1, Parameters DEF Ready
    <3>3. K = States
      BY <1>r, <3>2, AllAreKept DEF Ready
    <3>4. NoPath
      BY <1>2, <1>r, <2>1, <3>2, <3>3, NoPathAhead DEF row
    <3>5. NoPath'
      BY <1>0, <3>4, NoPathStays
    <3>6. Stage("aborted", 0)'
      BY <3>5 DEF Stage
    <3> QED BY <3>1, <3>6
  <2>2. CASE ~(fba.fss /\ \A s \in States : row[s] = 0) /\ i < fba.N
    <3>1. pass' = <<"alpha", i + 1>>
      BY <1>4, <1>5, <2>2 DEF Continue
    <3>2. i + 1 \in 1..fba'.N /\ (i + 1) - 1 = n + 1
      BY <1>0, <1>2, <2>2
    <3>3. Stage("alpha", i + 1)'
      BY <1>7, <1>10, <3>2 DEF Stage
    <3> QED BY <3>1, <3>3
  <2>3. CASE ~(fba.fss /\ \A s \in States : row[s] = 0) /\ ~(i < fba.N)
    <3>1. pass' = <<"beta", fba.N - 1>>
      BY <1>4, <1>5, <2>3 DEF Continue
    <3>2. i = fba.N /\ n = fba.N - 1 /\ n + 1 = fba'.N
      BY <1>0, <1>2, <2>3
    <3>3. AllAlpha' /\ BetaDownTo(n + 1)'
      BY <1>7, <1>10, <3>2 DEF AllAlpha, LastBeta, AlphaUpTo, BetaDownTo
    <3>4. \A S : S = n + 1..fba'.N - 1 => TableFor(S)'
      <4>1. n + 1..fba'.N - 1 = {}
        BY <1>0, <1>2, <3>2
      <4> QED BY <4>1 DEF TableFor
    <3>5. n \in Codewords'
      BY <1>0, <1>2 DEF Codewords
    <3>6. Stage("beta", n)'
      BY <3>3, <3>4, <3>5 DEF Stage
    <3> QED BY <3>1, <3>2, <3>6
  <2> QED BY <2>1, <2>2, <2>3
<1>12. Decoding' /\ (allocated' => (DOMAIN gamma = Slots(fba))')
  BY <1>0, <1>8, <1>9, <1>11, DecodingKept
<1> QED BY <1>0, <1>12, <1>r DEF HostInv, Ready

(* work_beta_and_results keeps the invariant of the host.                  *)
LEMMA BetaStep ==
  ASSUME HostInv, fba.depth = 1, BetaAndResults
  PROVE  HostInv'
<1>0. Decoding /\ fba' = fba /\ trellis' = trellis /\ copied' = copied
      /\ allocated' = allocated /\ alpha' = alpha
  BY DEF HostInv, BetaAndResults
<1>1. PICK i : pass = <<"beta", i>> /\ Stage("beta", i)
  <2>1. PICK st, i : pass = <<st, i>> /\ Stage(st, i)
    BY <1>0 DEF Decoding
  <2>2. st = "beta"
    BY <2>1 DEF BetaAndResults
  <2> QED BY <2>1, <2>2
<1> DEFINE m == LocalMemory(i)
           b == WorkBeta(m, i)
           K == Kept(alpha[i + 1], fba.th_inner)
           row == BetaRow(i, beta[i + 1], K)
           now == [beta EXCEPT ![i] = Normalize(b.row)]
           p == WorkMessageApp(b.memory, i, alpha, now)
           cells == SymbolTable(i, alpha[i], beta[i + 1], Kept(alpha[i], fba.th_outer))
<1>2. /\ fba.N \in Nat /\ i \in Codewords /\ i \in Nat /\ i \in Boundaries /\ i + 1 \in Boundaries
      /\ i \in 0..fba.N - 1 /\ AllAlpha /\ BetaDownTo(i + 1)
      /\ \A S : S = i + 1..fba.N - 1 => TableFor(S)
  BY <1>0, <1>1, Parameters DEF Stage, Codewords, Boundaries, Decoding, Ready
<1>r. /\ Ready /\ CopiedRight /\ Sound(Memory) /\ HostTypes /\ RowsTyped
      /\ DOMAIN beta = Boundaries /\ DOMAIN ptable = Codewords
  BY <1>0 DEF Decoding, StoredRight, HostTypes
<1>3. Sound(m) /\ There(m, i)
  BY <1>2, <1>r, LocalMemoryIs
<1>4. b.row = row /\ Sound(b.memory) /\ There(b.memory, i)
  <2>1. Row(beta[i + 1])
    BY <1>2, <1>r DEF RowsTyped
  <2> HIDE DEF m
  <2> QED BY <1>2, <1>3, <1>r, <2>1, WorkBetaMakes
<1>5. /\ beta' = now /\ ptable' = [ptable EXCEPT ![i] = p.row]
      /\ gamma' = p.memory.gamma /\ cached' = p.memory.cached
      /\ Continue({b.row}, IF i > 0 THEN <<"beta", i - 1>> ELSE <<"done", 0>>)
  <2>1. pass[2] = i
    BY <1>1
  <2> QED BY <2>1 DEF BetaAndResults, Remember
<1> HIDE DEF m, b
<1>6. K \subseteq States /\ Row(Normalize(row))
  BY <1>2, <1>r, KeptAreStates, MadeRows DEF RowsTyped
<1>7. BetaDownTo(i)'
  <2>1. \A j \in i + 1..fba.N : Kept(alpha[j], fba.th_inner)' = Kept(alpha[j], fba.th_inner)
    BY <1>0, SameParameters DEF Kept
  <2>2. beta' = [beta EXCEPT ![i] = Normalize(BetaRow(i, beta[i + 1], Kept(alpha[i + 1], fba.th_inner)))]
    BY <1>4, <1>5
  <2> QED BY <1>0, <1>2, <1>r, <2>1, <2>2, BetaExtends DEF Ready
<1> HIDE DEF row
<1>8. now[i + 1] = beta[i + 1] /\ i # i + 1
  BY <1>2
<1>9. p.row = cells /\ Sound(p.memory)
  <2>1. Row(alpha[i]) /\ Row(now[i + 1])
    BY <1>2, <1>8, <1>r DEF RowsTyped
  <2> HIDE DEF now
  <2>2. /\ p.row = SymbolTable(i, alpha[i], now[i + 1], Kept(alpha[i], fba.th_outer))
        /\ Sound(p.memory)
    BY <1>2, <1>4, <1>r, <2>1, WorkMessageMakes
  <2> QED BY <1>8, <2>2
<1> HIDE DEF p
<1>10. StoredRight'
  BY <1>0, <1>5, <1>9, StoredKept
<1>11. HostTypes'
  BY <1>0, <1>4, <1>5, <1>6, <1>r, TypesKept
<1>12. ASSUME NEW S, S = i..fba.N - 1
       PROVE  TableFor(S)'
  <2>1. ASSUME NEW j \in S, j # i
        PROVE  (ptable[j] = SymbolTable(j, alpha[j], beta[j + 1], Kept(alpha[j], fba.th_outer)))'
    <3> DEFINE T == {j}
    <3>1. j \in i + 1..fba.N - 1 /\ j + 1 # i /\ j + 1 \in Boundaries /\ j \in Codewords
      BY <1>2, <1>12, <2>1 DEF Boundaries, Codewords
    <3>2. TableFor(T)
      BY <1>2, <3>1 DEF TableFor
    <3>3. beta'[j + 1] = beta[j + 1] /\ ptable'[j] = ptable[j]
      BY <1>5, <1>r, <2>1, <3>1
    <3>4. \A k \in T : alpha'[k] = alpha[k] /\ beta'[k + 1] = beta[k + 1] /\ ptable'[k] = ptable[k]
      BY <1>0, <3>3
    <3>5. TableFor(T)'
      BY <1>0, <3>2, <3>4, TableStays
    <3> QED BY <3>5 DEF TableFor
  <2>2. (ptable[i] = SymbolTable(i, alpha[i], beta[i + 1], Kept(alpha[i], fba.th_outer)))'
    <3>1. ptable'[i] = cells
      BY <1>2, <1>5, <1>9, <1>r
    <3>2. beta'[i + 1] = beta[i + 1] /\ alpha'[i] = alpha[i]
      BY <1>0, <1>5, <1>8
    <3>3. Kept(alpha[i], fba.th_outer)' = Kept(alpha[i], fba.th_outer)
      BY <3>2, <1>0, SameParameters DEF Kept
    <3>4. ASSUME NEW d PROVE SymbolRow(i, d, beta[i + 1])' = SymbolRow(i, d, beta[i + 1])
      BY <1>0, <3>2, SameParameters DEF SymbolRow
    <3>5. SymbolTable(i, alpha[i], beta[i + 1], Kept(alpha[i], fba.th_outer))' = cells
      BY <1>0, <3>2, <3>3, <3>4, SameParameters DEF SymbolTable
    <3> QED BY <3>1, <3>5
  <2> QED BY <2>1, <2>2 DEF TableFor
<1>13. AllAlpha'
  <2>1. AlphaUpTo(fba.N)'
    <3>1. PICK n : n = fba.N
      OBVIOUS
    <3>2. AlphaUpTo(n)'
      BY <1>0, <1>2, <1>r, <3>1, AlphaStays DEF AllAlpha, Boundaries, Ready
    <3> QED BY <1>0, <3>1, <3>2 DEF AlphaUpTo
  <2> QED BY <2>1 DEF AllAlpha
<1>14. \E st, j : pass' = <<st, j>> /\ Stage(st, j)'
  <2>1. CASE fba.fss /\ \A s \in States : row[s] = 0
    <3>1. pass' = <<"aborted", 0>>
      BY <1>4, <1>5, <2>1 DEF Continue
    <3>2. ~fba.thresholding
      BY <1>r, <2>1, Parameters DEF Ready
    <3>3. K = States
      BY <1>r, <3>2, AllAreKept DEF Ready
    <3>4. NoPath
      BY <1>2, <1>r, <2>1, <3>2, <3>3, NoPathBehind DEF row
    <3>5. NoPath'
      BY <1>0, <3>4, NoPathStays
    <3>6. Stage("aborted", 0)'
      BY <3>5 DEF Stage
    <3> QED BY <3>1, <3>6
  <2>2. CASE ~(fba.fss /\ \A s \in States : row[s] = 0) /\ i > 0
    <3>1. pass' = <<"beta", i - 1>>
      BY <1>4, <1>5, <2>2 DEF Continue
    <3>2. PICK j : j = i - 1
      OBVIOUS
    <3>3. j + 1 = i /\ j \in Codewords'
      BY <1>0, <1>2, <2>2, <3>2 DEF Codewords
    <3>4. \A S : S = j + 1..fba'.N - 1 => TableFor(S)'
      BY <1>0, <1>12, <3>3
    <3>5. Stage("beta", j)'
      BY <1>7, <1>13, <3>3, <3>4 DEF Stage
    <3> QED BY <3>1, <3>2, <3>5
  <2>3. CASE ~(fba.fss /\ \A s \in States : row[s] = 0) /\ ~(i > 0)
    <3>1. pass' = <<"done", 0>>
      BY <1>4, <1>5, <2>3 DEF Continue
    <3>2. i = 0
      BY <1>2, <2>3
    <3>3. AllTable'
      <4>1. PICK S : S = i..fba.N - 1
        OBVIOUS
      <4>2. TableFor(S)'
        BY <1>12, <4>1
      <4>3. S = Codewords'
        BY <1>0, <3>2, <4>1 DEF Codewords
      <4> QED BY <4>2, <4>3 DEF AllTable, TableFor
    <3>4. BetaDownTo(0)'
      BY <1>7, <3>2
    <3>5. Stage("done", 0)'
      BY <1>13, <3>3, <3>4 DEF Stage
    <3> QED BY <3>1, <3>5
  <2> QED BY <2>1, <2>2, <2>3
<1>15. Decoding' /\ (allocated' => (DOMAIN gamma = Slots(fba))')
  BY <1>0, <1>10, <1>11, <1>14, DecodingKept
<1> QED BY <1>0, <1>15, <1>r DEF HostInv, Ready

(* work_alpha_and_beta keeps the invariant of the host.                    *)
LEMMA BothStep ==
  ASSUME HostInv, fba.depth = 1, AlphaAndBeta
  PROVE  HostInv'
<1>0. Decoding /\ fba' = fba /\ trellis' = trellis /\ copied' = copied
      /\ allocated' = allocated /\ ptable' = ptable
  BY DEF HostInv, AlphaAndBeta
<1>1. PICK i : pass = <<"both", i>> /\ Stage("both", i)
  <2>1. PICK st, i : pass = <<st, i>> /\ Stage(st, i)
    BY <1>0 DEF Decoding
  <2>2. st = "both"
    BY <2>1 DEF AlphaAndBeta
  <2> QED BY <2>1, <2>2
<1>n. PICK n, k : n = i - 1 /\ k = fba.N - i
  OBVIOUS
<1>2. /\ i \in 1..fba.N /\ fba.N \in Nat /\ n \in Codewords /\ n + 1 = i /\ n \in Boundaries
      /\ k \in Codewords /\ k + 1 \in Boundaries /\ k \in Nat
      /\ ~fba.thresholding /\ fba.globalstore /\ AlphaUpTo(n) /\ BetaDownTo(k + 1)
  BY SMTT(40), <1>0, <1>1, <1>n, Parameters DEF Stage, Codewords, Boundaries, Decoding, Ready
<1>r. /\ Ready /\ CopiedRight /\ Sound(Memory) /\ HostTypes /\ RowsTyped
      /\ DOMAIN alpha = Boundaries /\ DOMAIN beta = Boundaries
  BY <1>0 DEF Decoding, StoredRight, HostTypes
<1>k. /\ \A row : Kept(row, fba.th_inner) = States
      /\ \A row : Kept(row, fba.th_inner)' = Kept(row, fba.th_inner)
      /\ \A j : Kept(alpha[j], fba.th_inner)' = Kept(alpha[j], fba.th_inner)
  <2>1. \A row : Kept(row, fba.th_inner) = States
    BY <1>2, <1>r, AllAreKept DEF Ready
  <2>2. States' = States
    BY <1>0, SameParameters
  <2>3. \A row : Kept(row, fba.th_inner)' = States
    <3>1. fba.th_inner = 0 /\ fba.tp_states = 0
      BY <1>2, <1>r, Parameters DEF Ready
    <3> QED BY <1>0, <2>2, <3>1 DEF Kept
  <2>4. \A j : Kept(alpha[j], fba.th_inner)' = States
    <3>1. fba.th_inner = 0 /\ fba.tp_states = 0
      BY <1>2, <1>r, Parameters DEF Ready
    <3> QED BY <1>0, <2>2, <3>1 DEF Kept
  <2> QED BY <2>1, <2>3, <2>4
<1> DEFINE a == WorkAlpha(Memory, i)
           b == WorkBeta(a.memory, k)
           arow == AlphaRow(n, alpha[n], Kept(alpha[n], fba.th_inner))
           brow == BetaRow(k, beta[k + 1], Kept(alpha[k + 1], fba.th_inner))
<1>3. There(Memory, n) /\ There(Memory, i - 1)
  BY <1>2, <1>n, <1>r DEF Sound
<1>4. a.row = arow /\ Sound(a.memory)
  <2>1. Row(alpha[i - 1])
    BY <1>2, <1>n, <1>r DEF RowsTyped
  <2> QED BY <1>2, <1>n, <1>3, <1>r, <2>1, WorkAlphaMakes
<1>5. /\ alpha' = [alpha EXCEPT ![i] = Normalize(a.row)]
      /\ beta' = [beta EXCEPT ![k] = Normalize(b.row)]
      /\ gamma' = b.memory.gamma /\ cached' = b.memory.cached
      /\ Continue({a.row, b.row}, IF i < fba.N THEN <<"both", i + 1>> ELSE <<"results", 0>>)
  <2>1. pass[2] = i
    BY <1>1
  <2> QED BY <1>n, <2>1 DEF AlphaAndBeta, Remember
<1> HIDE DEF a
<1>6. b.row = brow /\ Sound(b.memory)
  <2>1. Row(beta[k + 1]) /\ There(a.memory, k)
    BY <1>2, <1>4, <1>r DEF RowsTyped, Sound
  <2> QED BY <1>2, <1>4, <1>r, <2>1, WorkBetaMakes
<1> HIDE DEF b
<1>7. AlphaUpTo(n + 1)'
  BY <1>0, <1>2, <1>4, <1>5, <1>r, AlphaExtends DEF Ready
<1>8. BetaDownTo(k)'
  <2>1. \A j \in k + 1..fba.N : Kept(alpha[j], fba.th_inner)' = Kept(alpha[j], fba.th_inner)
    BY <1>k
  <2>2. beta' = [beta EXCEPT ![k] = Normalize(BetaRow(k, beta[k + 1], Kept(alpha[k + 1], fba.th_inner)))]
    BY <1>5, <1>6
  <2> QED BY <1>0, <1>2, <1>r, <2>1, <2>2, BetaExtends DEF Ready
<1>9. Row(Normalize(arow)) /\ Row(Normalize(brow))
  BY <1>2, <1>r, KeptAreStates, MadeRows DEF RowsTyped
<1>10. arow = AlphaRow(n, alpha[n], States) /\ brow = BetaRow(k, beta[k + 1], States)
  BY <1>k
<1> HIDE DEF arow, brow
<1>11. StoredRight'
  BY <1>0, <1>5, <1>6, StoredKept
<1>12. HostTypes'
  BY <1>0, <1>4, <1>5, <1>6, <1>9, <1>r, TypesKept
<1>13. \E st, j : pass' = <<st, j>> /\ Stage(st, j)'
  <2> DEFINE empty == fba.fss /\ ((\A s \in States : arow[s] = 0) \/ (\A s \in States : brow[s] = 0))
  <2>1. CASE empty
    <3>1. pass' = <<"aborted", 0>>
      BY <1>4, <1>5, <1>6, <2>1 DEF Continue
    <3>2. NoPath
      <4>1. CASE \A s \in States : arow[s] = 0
        BY <1>2, <1>10, <1>r, <4>1, NoPathAhead
      <4>2. CASE \A s \in States : brow[s] = 0
        BY <1>2, <1>10, <1>r, <4>2, NoPathBehind
      <4> QED BY <2>1, <4>1, <4>2
    <3>3. NoPath'
      BY <1>0, <3>2, NoPathStays
    <3>4. Stage("aborted", 0)'
      BY <3>3 DEF Stage
    <3> QED BY <3>1, <3>4
  <2>2. CASE ~empty /\ i < fba.N
    <3>1. pass' = <<"both", i + 1>>
      BY <1>4, <1>5, <1>6, <2>2 DEF Continue
    <3>2. i + 1 \in 1..fba'.N /\ (i + 1) - 1 = n + 1
      BY <1>0, <1>2, <2>2
    <3>3. ASSUME NEW j \in Codewords', j = fba'.N - (i + 1) PROVE BetaDownTo(j + 1)'
      <4>1. j + 1 = k
        BY <1>0, <1>2, <1>n, <3>3
      <4> QED BY <1>8, <4>1
    <3>4. (~fba.thresholding /\ fba.globalstore)'
      BY <1>0, <1>2
    <3>5. Stage("both", i + 1)'
      BY <1>7, <3>2, <3>3, <3>4 DEF Stage
    <3> QED BY <3>1, <3>5
  <2>3. CASE ~empty /\ ~(i < fba.N)
    <3>1. pass' = <<"results", 0>>
      BY <1>4, <1>5, <1>6, <2>3 DEF Continue
    <3>2. n + 1 = fba'.N /\ k = 0 /\ 0 \in Codewords' /\ 0..0 - 1 = {} /\ (fba.globalstore)'
      BY <1>0, <1>2, <1>n, <2>3, SameParameters
    <3>3. AllAlpha' /\ BetaDownTo(0)'
      BY <1>7, <1>8, <3>2 DEF AllAlpha, AlphaUpTo
    <3>4. TableFor(0..0 - 1)'
      BY <3>2 DEF TableFor
    <3>5. Stage("results", 0)'
      BY <3>2, <3>3, <3>4 DEF Stage
    <3> QED BY <3>1, <3>5
  <2> QED BY <2>1, <2>2, <2>3
<1>14. Decoding' /\ (allocated' => (DOMAIN gamma = Slots(fba))')
  BY <1>0, <1>11, <1>12, <1>13, DecodingKept
<1> QED BY <1>0, <1>14, <1>r DEF HostInv, Ready

(* work_results keeps the invariant of the host.                           *)
LEMMA ResultsStep ==
  ASSUME HostInv, fba.depth = 1, Results
  PROVE  HostInv'
<1>0. Decoding /\ fba' = fba /\ trellis' = trellis /\ copied' = copied
      /\ allocated' = allocated /\ alpha' = alpha /\ beta' = beta
  BY DEF HostInv, Results
<1>1. PICK i : pass = <<"results", i>> /\ Stage("results", i)
  <2>1. PICK st, i : pass = <<st, i>> /\ Stage(st, i)
    BY <1>0 DEF Decoding
  <2>2. st = "results"
    BY <2>1 DEF Results
  <2> QED BY <2>1, <2>2
<1> DEFINE p == WorkMessageApp(Memory, i, alpha, beta)
           cells == SymbolTable(i, alpha[i], beta[i + 1], Kept(alpha[i], fba.th_outer))
<1>2. /\ fba.N \in Nat /\ i \in Codewords /\ i \in Nat /\ i \in Boundaries /\ i + 1 \in Boundaries
      /\ i \in 0..fba.N - 1 /\ fba.globalstore /\ AllAlpha /\ BetaDownTo(0) /\ TableFor(0..i - 1)
  BY <1>0, <1>1, Parameters DEF Stage, Codewords, Boundaries, Decoding, Ready
<1>r. /\ Ready /\ CopiedRight /\ Sound(Memory) /\ HostTypes /\ RowsTyped
      /\ DOMAIN ptable = Codewords
  BY <1>0 DEF Decoding, StoredRight, HostTypes
<1>3. There(Memory, i)
  BY <1>2, <1>r DEF Sound
<1>4. p.row = cells /\ Sound(p.memory)
  BY <1>2, <1>3, <1>r, WorkMessageMakes DEF RowsTyped
<1>5. /\ ptable' = [ptable EXCEPT ![i] = p.row]
      /\ gamma' = p.memory.gamma /\ cached' = p.memory.cached
      /\ pass' = IF i + 1 < fba.N THEN <<"results", i + 1>> ELSE <<"done", 0>>
  <2>1. pass[2] = i
    BY <1>1
  <2> QED BY <2>1 DEF Results, Remember
<1> HIDE DEF p
<1>6. StoredRight'
  BY <1>0, <1>4, <1>5, StoredKept
<1>7. HostTypes'
  BY <1>0, <1>5, <1>r, TypesKept
<1>8. ASSUME NEW S, S = 0..i PROVE TableFor(S)'
  <2>1. ASSUME NEW j \in S, j # i
        PROVE  (ptable[j] = SymbolTable(j, alpha[j], beta[j + 1], Kept(alpha[j], fba.th_outer)))'
    <3> DEFINE T == {j}
    <3>1. j \in 0..i - 1 /\ j \in Codewords
      BY <1>2, <1>8, <2>1 DEF Codewords
    <3>2. TableFor(T)
      BY <1>2, <3>1 DEF TableFor
    <3>3. ptable'[j] = ptable[j]
      BY <1>5, <1>r, <2>1, <3>1
    <3>4. \A k \in T : alpha'[k] = alpha[k] /\ beta'[k + 1] = beta[k + 1] /\ ptable'[k] = ptable[k]
      BY <1>0, <3>3
    <3>5. TableFor(T)'
      BY <1>0, <3>2, <3>4, TableStays
    <3> QED BY <3>5 DEF TableFor
  <2>2. (ptable[i] = SymbolTable(i, alpha[i], beta[i + 1], Kept(alpha[i], fba.th_outer)))'
    <3>1. ptable'[i] = cells
      BY <1>2, <1>4, <1>5, <1>r
    <3>2. beta'[i + 1] = beta[i + 1] /\ alpha'[i] = alpha[i]
      BY <1>0
    <3>3. Kept(alpha[i], fba.th_outer)' = Kept(alpha[i], fba.th_outer)
      BY <3>2, <1>0, SameParameters DEF Kept
    <3>4. ASSUME NEW d PROVE SymbolRow(i, d, beta[i + 1])' = SymbolRow(i, d, beta[i + 1])
      BY <1>0, <3>2, SameParameters DEF SymbolRow
    <3>5. SymbolTable(i, alpha[i], beta[i + 1], Kept(alpha[i], fba.th_outer))' = cells
      BY <1>0, <3>2, <3>3, <3>4, SameParameters DEF SymbolTable
    <3> QED BY <3>1, <3>5
  <2> QED BY <2>1, <2>2 DEF TableFor
<1>9. AllAlpha' /\ BetaDownTo(0)'
  <2>1. PICK n : n = fba.N
    OBVIOUS
  <2>2. AlphaUpTo(n)'
    BY <1>0, <1>2, <1>r, <2>1, AlphaStays DEF AllAlpha, Boundaries, Ready
  <2>3. AllAlpha'
    BY <1>0, <2>1, <2>2 DEF AlphaUpTo, AllAlpha
  <2>4. 0 \in Boundaries
    BY <1>2 DEF Boundaries
  <2>5. \A j \in 0 + 1..fba.N : Kept(alpha[j], fba.th_inner)' = Kept(alpha[j], fba.th_inner)
    BY <1>0, SameParameters DEF Kept
  <2>6. BetaDownTo(0)'
    BY <1>0, <1>2, <1>r, <2>4, <2>5, BetaStays DEF Ready
  <2> QED BY <2>3, <2>6
<1>10. \E st, j : pass' = <<st, j>> /\ Stage(st, j)'
  <2>1. CASE i + 1 < fba.N
    <3>1. pass' = <<"results", i + 1>>
      BY <1>5, <2>1
    <3>2. i + 1 \in Codewords' /\ (fba.globalstore)' /\ 0..(i + 1) - 1 = 0..i
      BY <1>0, <1>2, <2>1 DEF Codewords
    <3>3. TableFor(0..(i + 1) - 1)'
      BY <1>8, <3>2 DEF TableFor
    <3>4. Stage("results", i + 1)'
      BY <1>9, <3>2, <3>3 DEF Stage
    <3> QED BY <3>1, <3>4
  <2>2. CASE ~ (i + 1 < fba.N)
    <3>1. pass' = <<"done", 0>>
      BY <1>5, <2>2
    <3>2. 0..i = Codewords'
      BY <1>0, <1>2, <2>2 DEF Codewords
    <3>3. AllTable'
      <4>1. TableFor(0..i)'
        BY <1>8 DEF TableFor
      <4> QED BY <3>2, <4>1 DEF AllTable, TableFor
    <3>4. Stage("done", 0)'
      BY <1>9, <3>3 DEF Stage
    <3> QED BY <3>1, <3>4
  <2> QED BY <2>1, <2>2
<1>11. Decoding' /\ (allocated' => (DOMAIN gamma = Slots(fba))')
  BY <1>0, <1>6, <1>7, <1>10, DecodingKept
<1> QED BY <1>0, <1>11, <1>r DEF HostInv, Ready

(* init() keeps the invariant of the host, and the kind of decoder.        *)
LEMMA ConfigureStep ==
  ASSUME HostInv, Configure
  PROVE  HostInv' /\ fba'.depth = fba.depth
<1>1. PICK c \in Decoders :
        /\ DecoderFlags(c) = DecoderFlags(fba) /\ fba' = c
        /\ allocated' = (allocated /\ MemorySizes(c) = MemorySizes(fba))
        /\ IF allocated' THEN UNCHANGED <<gamma, cached, alpha, beta>>
           ELSE /\ gamma' = <<>> /\ cached' = {}
                /\ alpha' = <<>> /\ beta' = <<>>
  BY DEF Configure
<1>2. c.fss = fba.fss /\ c.globalstore = fba.globalstore /\ c.depth = fba.depth
  BY <1>1 DEF DecoderFlags
<1>3. ASSUME fba.depth = 1, allocated' PROVE DOMAIN gamma' = Slots(c)
  <2>1. c.N = fba.N /\ c.min = fba.min /\ c.max = fba.max
    BY <1>1, <1>3 DEF MemorySizes
  <2>2. DOMAIN gamma = Slots(fba) /\ gamma' = gamma
    BY <1>1, <1>3 DEF HostInv
  <2> QED BY <1>2, <2>1, <2>2 DEF Slots
<1>4. pass' = <<"idle", 0>>
  BY DEF Configure
<1>5. allocated' /\ fba'.depth = 1 => (DOMAIN gamma = Slots(fba))'
  <2>1. ASSUME allocated', fba'.depth = 1 PROVE (DOMAIN gamma = Slots(fba))'
    <3>1. DOMAIN gamma' = Slots(c)
      BY <1>1, <1>2, <1>3, <2>1
    <3> QED BY <1>1, <3>1 DEF Slots
  <2> QED BY <2>1
<1> QED BY <1>1, <1>2, <1>4, <1>5 DEF HostInv

(* The ends of a frame that fits are rows of weights.                      *)
LEMMA FrameEnds ==
  ASSUME fba \in Decoders, NEW f \in Frames, Suits(f)
  PROVE  Row(Prior(f.sof)) /\ Row(Prior(f.eof))
<1>1. \A s \in States : s[1] \in fba.min..fba.max
  BY Parameters
<1>2. \A s \in States : f.sof[s[1]] \in Nat /\ f.eof[s[1]] \in Nat
  BY <1>1, FramesAssumption DEF Suits
<1> QED BY <1>2 DEF Row, Prior, Normalize

(* decode() on the host keeps its invariant.                               *)
LEMMA DecodeStep ==
  ASSUME HostInv, DecodeFrame
  PROVE  HostInv'
<1>0. /\ fba \in Decoders /\ fba.depth = 1 /\ fba' = fba /\ allocated' = TRUE
      /\ (allocated => DOMAIN gamma = Slots(fba)) /\ fba.N \in Nat \ {0}
  BY Parameters DEF DecodeFrame, HostInv
<1> DEFINE held == IF allocated THEN gamma ELSE [k \in Slots(fba) |-> NoMetric]
           valid == IF allocated THEN cached ELSE {}
<1>1. PICK f \in Frames :
        /\ Suits(f) /\ trellis' = f
        /\ IF fba.globalstore /\ ~fba.lazy
             THEN /\ gamma' = [k \in DOMAIN held |-> R(f, f, k[1], k[2])]
                  /\ cached' = valid /\ UNCHANGED copied
           ELSE /\ copied' = [r |-> f.r, app |-> f.app]
                /\ IF fba.lazy THEN Remember(ResetCache(held))
                   ELSE gamma' = held /\ cached' = valid
        /\ alpha' = Rows(0, Prior(f.sof))
        /\ beta' = Rows(fba.N, Prior(f.eof))
  BY Zenon DEF DecodeFrame
<1>2. DOMAIN held = Slots(fba)
  BY <1>0
<1> HIDE DEF held, valid
<1>b. fba.globalstore \in BOOLEAN /\ fba.lazy \in BOOLEAN
  BY <1>0, Parameters
<1>s. /\ States' = States /\ Codewords' = Codewords /\ Boundaries' = Boundaries
      /\ Slots(fba)' = Slots(fba)
  BY <1>0 DEF States, Codewords, Boundaries, Slots
<1>3. Ready'
  <2>1. Suits(trellis)'
    BY <1>0, <1>1 DEF Suits, Codewords, Alphabet, FrameLength, CwStart, CwLength
  <2> QED BY <1>0, <1>1, <2>1 DEF Ready
<1>4. CopiedRight'
  BY <1>0, <1>1, <1>b DEF CopiedRight
<1>5. StoredRight'
  <2>1. CASE fba.globalstore /\ ~fba.lazy
    <3>1. gamma' = [k \in Slots(fba) |-> R(f, f, k[1], k[2])]
      BY <1>1, <1>2, <2>1
    <3>2. ASSUME NEW i \in Codewords', NEW s \in States'
          PROVE  gamma'[Slot(i, s)'] = Metrics'[i][s]
      <4>1. i \in Codewords /\ s \in States
        BY <1>s
      <4>2. Slot(i, s)' = Slot(i, s) /\ Slot(i, s) = <<i, s>>
        BY <1>0, <2>1 DEF Slot
      <4>3. Slot(i, s) \in Slots(fba)
        BY <1>0, <4>1, SlotsOf
      <4>4. gamma'[Slot(i, s)] = R(f, f, i, s)
        BY <3>1, <4>2, <4>3
      <4>5. R(f, f, i, s)' = R(f, f, i, s)
        BY <1>0 DEF R, States, Alphabet, Segment, Becomes, CwLength, CwStart
      <4>6. Metrics'[i][s] = R(trellis, trellis, i, s)'
        BY <1>s, <4>1 DEF Metrics
      <4>7. R(trellis, trellis, i, s)' = R(f, f, i, s)'
        <5>1. trellis' = f
          BY <1>1
        <5> QED BY <5>1
      <4> QED BY <4>2, <4>4, <4>5, <4>6, <4>7
    <3>3. DOMAIN gamma' = Slots(fba)
      BY <3>1
    <3> QED BY <1>0, <1>s, <2>1, <3>2, <3>3 DEF StoredRight, Sound, There, Memory
  <2>2. CASE fba.lazy
    <3>1. gamma' = [k \in DOMAIN held |-> NoMetric] /\ cached' = {}
      BY <1>1, <2>2 DEF Remember, ResetCache
    <3>2. DOMAIN gamma' = Slots(fba)
      BY <1>2, <3>1
    <3> QED BY <1>0, <1>s, <2>2, <3>1, <3>2 DEF StoredRight, Sound, There, Memory
  <2>3. CASE ~fba.globalstore /\ ~fba.lazy
    <3>1. DOMAIN gamma' = Slots(fba)
      BY <1>1, <1>2, <2>3
    <3> QED BY <1>0, <1>s, <2>3, <3>1 DEF StoredRight, Sound, Memory
  <2> QED BY <1>b, <2>1, <2>2, <2>3
<1>6. HostTypes'
  <2>1. Row(Prior(f.sof)) /\ Row(Prior(f.eof)) /\ Row(NoWeight)
    BY <1>0, <1>1, FrameEnds DEF Row, NoWeight
  <2>2. \A j \in Boundaries : Row(alpha'[j]) /\ Row(beta'[j])
    BY <1>1, <2>1 DEF Rows
  <2>3. DOMAIN alpha' = Boundaries /\ DOMAIN beta' = Boundaries
    BY <1>1 DEF Rows
  <2>4. DOMAIN ptable' = Codewords
    BY DEF DecodeFrame
  <2>5. RowsTyped'
    BY <1>s, <2>2 DEF RowsTyped, Row
  <2> QED BY <1>s, <2>3, <2>4, <2>5 DEF HostTypes
<1>7. AlphaUpTo(0)' /\ LastBeta'
  <2>1. 0 \in Boundaries /\ fba.N \in Boundaries /\ 0..0 - 1 = {} /\ fba.N..fba.N - 1 = {}
    BY <1>0 DEF Boundaries
  <2>2. alpha'[0] = Prior(f.sof) /\ beta'[fba.N] = Prior(f.eof)
    BY <1>1, <2>1 DEF Rows
  <2>3. Prior(trellis.sof)' = Prior(f.sof) /\ Prior(trellis.eof)' = Prior(f.eof)
    BY <1>1, <1>s DEF Prior, Normalize
  <2>4. AlphaUpTo(0)'
    BY <2>1, <2>2, <2>3 DEF AlphaUpTo
  <2>5. LastBeta'
    BY <1>0, <2>1, <2>2, <2>3 DEF BetaDownTo, LastBeta
  <2> QED BY <2>4, <2>5
<1>8. \E st, j : pass' = <<st, j>> /\ Stage(st, j)'
  <2>0. 1 \in 1..fba'.N /\ 1 - 1 = 0
    BY <1>0
  <2>1. CASE fba.globalstore /\ ~fba.thresholding
    <3>1. pass' = <<"both", 1>>
      BY <2>1 DEF DecodeFrame
    <3>2. (fba.globalstore /\ ~fba.thresholding)'
      BY <1>0, <2>1
    <3>3. ASSUME NEW n \in Codewords', n = fba'.N - 1 PROVE BetaDownTo(n + 1)'
      <4>1. n + 1 = fba'.N
        BY <1>0, <3>3
      <4> QED BY <1>7, <4>1 DEF LastBeta, BetaDownTo
    <3>4. AlphaUpTo(1 - 1)'
      BY <1>7, <2>0
    <3>5. Stage("both", 1)'
      BY <2>0, <3>2, <3>3, <3>4 DEF Stage
    <3> QED BY <3>1, <3>5
  <2>2. CASE ~(fba.globalstore /\ ~fba.thresholding)
    <3>1. pass' = <<"alpha", 1>>
      BY <2>2 DEF DecodeFrame
    <3>2. AlphaUpTo(1 - 1)'
      BY <1>7, <2>0
    <3>3. Stage("alpha", 1)'
      BY <1>7, <2>0, <3>2 DEF Stage
    <3> QED BY <3>1, <3>3
  <2> QED BY <2>1, <2>2
<1>9. Decoding'
  BY <1>0, <1>3, <1>4, <1>5, <1>6, <1>8 DEF Decoding
<1>10. (DOMAIN gamma = Slots(fba))'
  BY <1>5 DEF StoredRight, Sound, Memory
<1> QED BY <1>0, <1>9, <1>10 DEF HostInv

(* The invariant of the host holds at first.                               *)
LEMMA HostInitially ==
  ASSUME FbaInit
  PROVE  HostInv
BY DEF FbaInit, HostInv

(* Kernels do not run on the host.                                         *)
LEMMA HostOrDevice ==
  ASSUME HostInv, DeviceNext
  PROVE  fba' = fba /\ fba.depth # 1 /\ HostInv'
<1>1. fba' = fba
  BY DEF DeviceNext, DeviceDecode, KernelBegins, KernelEnds, Transfer, fbavars
<1>2. fba.depth # 1
  <2>1. CASE DeviceDecode
    <3>1. fba.depth > 1
      BY <2>1 DEF DeviceDecode
    <3> QED BY <3>1
  <2>2. CASE KernelBegins \/ KernelEnds \/ Transfer
    <3>1. pass[1] = "device"
      BY <2>2 DEF KernelBegins, KernelEnds, Transfer
    <3> QED BY <3>1 DEF HostInv, Decoding, Stage
  <2> QED BY <2>1, <2>2 DEF DeviceNext
<1> QED BY <1>1, <1>2 DEF HostInv

(* All steps keep the invariant of the host.                               *)
LEMMA HostKept ==
  ASSUME HostInv, [DecoderNext]_<<fbavars, devicevars>>
  PROVE  HostInv'
<1>1. CASE Configure
  BY <1>1, ConfigureStep
<1>2. CASE DecodeFrame
  BY <1>2, DecodeStep
<1>3. ASSUME AlphaAndBeta \/ Results \/ Alpha \/ BetaAndResults
      PROVE  HostInv'
  <2>1. fba' = fba
    BY <1>3 DEF AlphaAndBeta, Results, Alpha, BetaAndResults
  <2>2. CASE fba.depth = 1
    BY <1>3, <2>2, BothStep, ResultsStep, AlphaStep, BetaStep
  <2>3. CASE fba.depth # 1
    BY <2>1, <2>3 DEF HostInv
  <2> QED BY <2>2, <2>3
<1>4. CASE DeviceNext
  BY <1>4, HostOrDevice
<1>5. ASSUME UNCHANGED <<fbavars, devicevars>> PROVE HostInv'
  <2>1. /\ fba' = fba /\ trellis' = trellis /\ copied' = copied /\ allocated' = allocated
        /\ pass' = pass /\ gamma' = gamma /\ cached' = cached /\ alpha' = alpha
        /\ beta' = beta /\ ptable' = ptable
    BY <1>5 DEF fbavars
  <2>2. ASSUME fba.depth = 1, Decoding PROVE Decoding' /\ (allocated' => (DOMAIN gamma = Slots(fba))')
    <3>1. HostTypes'
      BY <2>1, <2>2, TypesKept DEF Decoding
    <3>2. StoredRight'
      <4>1. gamma' = Memory.gamma /\ cached' = Memory.cached
        BY <2>1 DEF Memory
      <4> QED BY <2>1, <2>2, <4>1, StoredKept DEF Decoding, StoredRight
    <3>3. PICK st, i : pass = <<st, i>> /\ Stage(st, i)
      BY <2>2 DEF Decoding
    <3>4. Boundaries' = Boundaries /\ Codewords' = Codewords
      BY <2>1, SameParameters
    <3>5. \A n : AlphaUpTo(n)' <=> AlphaUpTo(n)
      BY <2>1, SameParameters DEF AlphaUpTo, AlphaRow, Kept, Normalize, Prior
    <3>6. \A n : BetaDownTo(n)' <=> BetaDownTo(n)
      BY <2>1, SameParameters DEF BetaDownTo, BetaRow, Kept, Normalize, Prior
    <3>7. \A S : TableFor(S)' <=> TableFor(S)
      <4>1. ASSUME NEW j PROVE (ptable[j] = SymbolTable(j, alpha[j], beta[j + 1], Kept(alpha[j], fba.th_outer)))'
                                 <=> ptable[j] = SymbolTable(j, alpha[j], beta[j + 1], Kept(alpha[j], fba.th_outer))
        <5>1. Kept(alpha[j], fba.th_outer)' = Kept(alpha[j], fba.th_outer)
          BY <2>1, SameParameters DEF Kept
        <5>2. ASSUME NEW d PROVE SymbolRow(j, d, beta[j + 1])' = SymbolRow(j, d, beta[j + 1])
          BY <2>1, SameParameters DEF SymbolRow
        <5>3. SymbolTable(j, alpha[j], beta[j + 1], Kept(alpha[j], fba.th_outer))' =
                SymbolTable(j, alpha[j], beta[j + 1], Kept(alpha[j], fba.th_outer))
          BY <2>1, <5>1, <5>2, SameParameters DEF SymbolTable
        <5> QED BY <2>1, <5>3
      <4> QED BY <4>1 DEF TableFor
    <3>8. (AllAlpha' <=> AllAlpha) /\ (LastBeta' <=> LastBeta)
      BY <2>1, SameParameters DEF AllAlpha, LastBeta, AlphaUpTo, AlphaRow, BetaDownTo, BetaRow,
                                  Kept, Normalize, Prior
    <3>9. AllTable' <=> AllTable
      BY <2>1, <3>4, <3>7 DEF AllTable, TableFor
    <3>10. NoPath' <=> NoPath
      BY <2>1, NoPathStays
    <3>11. Stage(st, i)'
      BY <2>1, <3>3, <3>4, <3>5, <3>6, <3>7, <3>8, <3>9, <3>10 DEF Stage
    <3> QED BY <2>1, <2>2, <3>1, <3>2, <3>3, <3>11, DecodingKept
  <2>3. allocated' /\ fba.depth = 1 => (DOMAIN gamma = Slots(fba))'
    BY <2>1 DEF HostInv, Slots
  <2> QED BY <2>1, <2>2, <2>3 DEF HostInv
<1> QED BY <1>1, <1>2, <1>3, <1>4, <1>5 DEF DecoderNext, FbaNext

(***************************************************************************)
(* The turns of a pass                                                     *)
(***************************************************************************)
(* Turn t starts its row at P[t] and scales it at the next command; the    *)
(* metrics of its codeword are at G[t].  All commands are in lo + 1..hi.   *)
Turns(c, lo, hi, st, m, P, G) ==
  /\ \A t \in 0..fba.N :
       /\ P[t] \in Nat /\ P[t] > lo /\ P[t] + 1 < hi
       /\ \A x \in 0..1 : OneOf(c[P[t] + x], st[t])
       /\ \A u \in t + 1..fba.N : P[t] + 1 < P[u]
  /\ \A t \in 1..fba.N :
       /\ G[t] \in Nat /\ G[t] > lo /\ G[t] < P[t] /\ P[t] + (m - 2) < hi
       /\ OneOf(c[G[t]], st[t])
       /\ \A x \in (0..m - 2) \ {2} : OneOf(c[P[t] + x], st[t]) /\ c[P[t] + x].op # "gamma"
       /\ \A u \in t + 1..fba.N :
            /\ P[t] + (m - 2) < P[u]
            /\ (t - 1) % fba.depth = (u - 1) % fba.depth => P[t] + (m - 2) < G[u]
       /\ \A x \in 0..1, y \in 0..m - 2 : P[t - 1] + x \in After(c, P[t] + y)
  /\ \A k \in lo + 1..hi :
       c[k].op \in KernelOps =>
         \/ \E t \in 0..fba.N : k = P[t] \/ k = P[t] + 1
         \/ \E t \in 1..fba.N : k = G[t] \/ (m = 5 /\ k = P[t] + 3)

(* A pass that is part of the queue takes its turns there.                 *)
LEMMA TurnsOfPass ==
  ASSUME Sizes, NEW F, NEW st, NEW m, NEW a, NEW g, IsPass(F, st, m, a, g), m \in {4, 5},
         NEW c, NEW o \in Nat, Within(c, o, F),
         NEW P, P = [t \in 0..fba.N |-> IF t = 0 THEN o + 1 ELSE o + (a[t] + 2)],
         NEW G, G = [t \in 1..fba.N |-> o + g[t]]
  PROVE  Turns(c, o, o + Len(F), st, m, P, G)
<1> DEFINE N == fba.N
<1>0. N \in Nat \ {0} /\ Len(F) \in Nat /\ Len(F) >= 4 /\ m \in Nat /\ m \in 4..5
  BY DEF Sizes, IsPass
<1>1. \A t \in 1..N : a[t] \in Nat /\ g[t] \in Nat /\ 4 <= g[t] /\ g[t] <= a[t] /\ a[t] + m < Len(F)
  BY SMTT(40), <1>0 DEF IsPass
<1>2. \A k \in 1..Len(F) : c[o + k] = F[k]
  BY DEF Within
<1>3. /\ P[0] = o + 1 /\ \A t \in 1..N : P[t] = o + (a[t] + 2) /\ G[t] = o + g[t] /\ t # 0
  BY <1>0
<1>4. \A t \in 1..N, u \in 1..N : t < u =>
        /\ a[t] + m <= a[u]
        /\ (t - 1) % fba.depth = (u - 1) % fba.depth => a[t] + m < g[u]
  <2>1. ASSUME NEW t \in 1..N, NEW u \in 1..N, t < u
        PROVE  /\ a[t] + m <= a[u]
               /\ (t - 1) % fba.depth = (u - 1) % fba.depth => a[t] + m < g[u]
    <3>1. u \in t + 1..N
      BY <1>0, <2>1
    <3> QED BY <3>1 DEF IsPass
  <2> QED BY <2>1
<1>5. ASSUME NEW t \in 0..N
      PROVE  /\ P[t] \in Nat /\ P[t] > o /\ P[t] + 1 < o + Len(F)
             /\ \A x \in 0..1 : OneOf(c[P[t] + x], st[t])
             /\ \A u \in t + 1..N : P[t] + 1 < P[u]
  <2>1. CASE t = 0
    <3>1. OneOf(F[1], st[0]) /\ OneOf(F[2], st[0])
      BY DEF IsPass
    <3>2. c[o + 1] = F[1] /\ c[(o + 1) + 1] = F[2]
      <4>1. (o + 1) + 1 = o + 2 /\ 1 \in 1..Len(F) /\ 2 \in 1..Len(F)
        BY <1>0
      <4> QED BY <1>2, <4>1
    <3>3. \A x \in 0..1 : x = 0 \/ x = 1
      OBVIOUS
    <3>4. ASSUME NEW u \in 1..N PROVE P[0] + 1 < P[u]
      <4>1. PICK w \in Nat : w = a[u]
        BY <1>1
      <4>2. P[u] = o + (w + 2) /\ P[0] = o + 1
        BY <1>3, <4>1
      <4>3. (o + 1) + 1 < o + (w + 2)
        <5>1. w >= 4
          <6>1. PICK q \in Nat : q = g[u]
            BY <1>1
          <6> QED BY <1>1, <4>1, <6>1
        <5> QED BY <5>1
      <4> QED BY <4>2, <4>3
    <3>5. (o + 1) + 0 = o + 1
      OBVIOUS
    <3>6. P[0] \in Nat /\ P[0] > o /\ P[0] + 1 < o + Len(F)
      BY <1>0, <1>3
    <3>7. \A x \in 0..1 : OneOf(c[P[0] + x], st[0])
      BY <1>3, <3>1, <3>2, <3>3, <3>5
    <3>8. 0 + 1 = 1
      OBVIOUS
    <3> QED BY <2>1, <3>4, <3>6, <3>7, <3>8
  <2>2. CASE t # 0
    <3>1. t \in 1..N
      BY <1>0, <2>2
    <3>2. \A y \in (2..m) \ {4} : OneOf(F[a[t] + y], st[t])
      BY <3>1 DEF IsPass
    <3>3. 2 \in (2..m) \ {4} /\ 3 \in (2..m) \ {4}
      BY <1>0
    <3>4. /\ P[t] = o + (a[t] + 2) /\ P[t] + 1 = o + (a[t] + 3) /\ P[t] + 0 = P[t]
          /\ a[t] + 2 \in 1..Len(F) /\ a[t] + 3 \in 1..Len(F)
      <4>1. PICK w \in Nat, l \in Nat : w = a[t] /\ l = Len(F)
        BY <1>0, <1>1, <3>1
      <4>2. w + m < l /\ P[t] = o + (w + 2)
        BY <1>1, <1>3, <3>1, <4>1
      <4>3. /\ (o + (w + 2)) + 1 = o + (w + 3) /\ (o + (w + 2)) + 0 = o + (w + 2)
            /\ w + 2 \in 1..l /\ w + 3 \in 1..l
        BY <1>0, <4>2
      <4> QED BY <4>1, <4>2, <4>3
    <3>5. \A x \in 0..1 : x = 0 \/ x = 1
      OBVIOUS
    <3>6. OneOf(c[P[t]], st[t]) /\ OneOf(c[P[t] + 1], st[t])
      BY <1>2, <3>2, <3>3, <3>4
    <3>7. \A u \in t + 1..N : P[t] + 1 < P[u]
      <4>1. ASSUME NEW u \in t + 1..N PROVE P[t] + 1 < P[u]
        <5>1. u \in 1..N /\ t < u
          BY <1>0, <3>1
        <5>2. a[t] + m <= a[u] /\ a[t] \in Nat /\ a[u] \in Nat /\ P[u] = o + (a[u] + 2)
          BY <1>1, <1>3, <1>4, <3>1, <5>1
        <5>3. PICK w \in Nat, v \in Nat : w = a[t] /\ v = a[u]
          BY <5>2
        <5>4. P[t] + 1 = o + (w + 3) /\ P[u] = o + (v + 2) /\ w + m <= v
          BY <3>4, <5>2, <5>3
        <5>5. o + (w + 3) < o + (v + 2)
          BY <1>0, <5>4
        <5> QED BY <5>4, <5>5
      <4> QED BY <4>1
    <3>8. P[t] \in Nat /\ P[t] > o /\ P[t] + 1 < o + Len(F)
      <4>1. PICK w \in Nat, l \in Nat : w = a[t] /\ l = Len(F)
        BY <1>0, <1>1, <3>1
      <4>2. w + m < l /\ P[t] = o + (w + 2) /\ P[t] + 1 = o + (w + 3)
        BY <1>1, <3>1, <3>4, <4>1
      <4>3. o + (w + 2) \in Nat /\ o + (w + 2) > o /\ o + (w + 3) < o + l
        BY <1>0, <4>2
      <4> QED BY <4>1, <4>2, <4>3
    <3> QED BY <3>4, <3>5, <3>6, <3>7, <3>8
  <2> QED BY <2>1, <2>2
<1>6. ASSUME NEW t \in 1..N
      PROVE  /\ G[t] \in Nat /\ G[t] > o /\ G[t] < P[t] /\ P[t] + (m - 2) < o + Len(F)
             /\ OneOf(c[G[t]], st[t])
             /\ \A x \in (0..m - 2) \ {2} : OneOf(c[P[t] + x], st[t]) /\ c[P[t] + x].op # "gamma"
             /\ \A u \in t + 1..N :
                  /\ P[t] + (m - 2) < P[u]
                  /\ (t - 1) % fba.depth = (u - 1) % fba.depth => P[t] + (m - 2) < G[u]
             /\ \A x \in 0..1, y \in 0..m - 2 : P[t - 1] + x \in After(c, P[t] + y)
  <2>1. /\ G[t] = o + g[t] /\ P[t] = o + (a[t] + 2) /\ a[t] \in Nat /\ g[t] \in Nat
        /\ 4 <= g[t] /\ g[t] <= a[t] /\ a[t] + m < Len(F)
    BY <1>1, <1>3
  <2>2. G[t] \in Nat /\ G[t] > o /\ G[t] < P[t] /\ P[t] + (m - 2) < o + Len(F)
        /\ g[t] \in 1..Len(F)
    <3>1. PICK w \in Nat, q \in Nat, l \in Nat : w = a[t] /\ q = g[t] /\ l = Len(F)
      BY <1>0, <2>1
    <3>2. G[t] = o + q /\ P[t] = o + (w + 2) /\ 4 <= q /\ q <= w /\ w + m < l
      BY <2>1, <3>1
    <3>3. /\ o + q \in Nat /\ o + q > o /\ o + q < o + (w + 2)
          /\ (o + (w + 2)) + (m - 2) < o + l /\ q \in 1..l
      BY <1>0, <3>2
    <3> QED BY <3>1, <3>2, <3>3
  <2>3. OneOf(c[G[t]], st[t])
    <3>1. OneOf(F[g[t]], st[t])
      BY DEF IsPass
    <3> QED BY <1>2, <2>1, <2>2, <3>1
  <2>4. ASSUME NEW x \in (0..m - 2) \ {2}
        PROVE  OneOf(c[P[t] + x], st[t]) /\ c[P[t] + x].op # "gamma"
    <3>1. x + 2 \in (2..m) \ {4} /\ x \in Nat
      BY <1>0
    <3>2. P[t] + x = o + (a[t] + (x + 2)) /\ a[t] + (x + 2) \in 1..Len(F)
      <4>1. PICK w \in Nat, l \in Nat : w = a[t] /\ l = Len(F)
        BY <1>0, <2>1
      <4>2. P[t] = o + (w + 2) /\ w + m < l /\ x + 2 <= m
        BY <1>0, <2>1, <3>1, <4>1
      <4>3. (o + (w + 2)) + x = o + (w + (x + 2)) /\ w + (x + 2) \in 1..l
        BY <1>0, <3>1, <4>2
      <4> QED BY <4>1, <4>2, <4>3
    <3>3. OneOf(F[a[t] + (x + 2)], st[t]) /\ F[a[t] + (x + 2)].op # "gamma"
      BY <3>1 DEF IsPass
    <3> QED BY <1>2, <3>2, <3>3
  <2>5. ASSUME NEW u \in t + 1..N
        PROVE  /\ P[t] + (m - 2) < P[u]
               /\ (t - 1) % fba.depth = (u - 1) % fba.depth => P[t] + (m - 2) < G[u]
    <3>1. u \in 1..N /\ t < u
      BY <1>0
    <3>2. /\ a[t] + m <= a[u] /\ a[u] \in Nat /\ P[u] = o + (a[u] + 2)
          /\ g[u] \in Nat /\ G[u] = o + g[u]
          /\ (t - 1) % fba.depth = (u - 1) % fba.depth => a[t] + m < g[u]
      BY <1>1, <1>3, <1>4, <3>1
    <3>3. PICK w \in Nat, v \in Nat, q \in Nat : w = a[t] /\ v = a[u] /\ q = g[u]
      BY <2>1, <3>2
    <3>4. /\ P[t] = o + (w + 2) /\ P[u] = o + (v + 2) /\ G[u] = o + q /\ w + m <= v
          /\ (t - 1) % fba.depth = (u - 1) % fba.depth => w + m < q
      BY <2>1, <3>2, <3>3
    <3>5. (o + (w + 2)) + (m - 2) < o + (v + 2)
      BY <1>0, <3>4
    <3>6. w + m < q => (o + (w + 2)) + (m - 2) < o + q
      BY <1>0
    <3> QED BY <3>4, <3>5, <3>6
  <2>6. ASSUME NEW x \in 0..1, NEW y \in 0..m - 2
        PROVE  P[t - 1] + x \in After(c, P[t] + y)
    <3>1. x + 2 \in 2..3 /\ y + 2 \in 2..m
      BY <1>0
    <3>2. o + (Before(a, t) + (x + 2)) \in After(c, o + (a[t] + (y + 2)))
      BY <3>1, WaitOrders
    <3>3. P[t] + y = o + (a[t] + (y + 2))
      <4>1. PICK w \in Nat : w = a[t]
        BY <2>1
      <4>2. (o + (w + 2)) + y = o + (w + (y + 2))
        BY <1>0
      <4> QED BY <2>1, <4>1, <4>2
    <3>4. P[t - 1] + x = o + (Before(a, t) + (x + 2))
      <4>1. CASE t = 1
        <5>1. P[t - 1] = o + 1 /\ Before(a, t) = -1
          <6>1. t - 1 = 0
            BY <4>1
          <6> QED BY <1>3, <4>1, <6>1 DEF Before
        <5> QED BY <5>1
      <4>2. CASE t # 1
        <5>1. t - 1 \in 1..N
          BY <1>0, <4>2
        <5>2. P[t - 1] = o + (a[t - 1] + 2) /\ Before(a, t) = a[t - 1] /\ a[t - 1] \in Nat
          BY <1>1, <1>3, <4>2, <5>1 DEF Before
        <5> QED BY SMTT(40), <5>2
      <4> QED BY <4>1, <4>2
    <3> QED BY <3>2, <3>3, <3>4
  <2> QED BY <2>2, <2>3, <2>4, <2>5, <2>6
<1>7. ASSUME NEW k \in o + 1..o + Len(F), c[k].op \in KernelOps
      PROVE  \/ \E t \in 0..N : k = P[t] \/ k = P[t] + 1
             \/ \E t \in 1..N : k = G[t] \/ (m = 5 /\ k = P[t] + 3)
  <2>1. PICK r \in 1..Len(F) : k = o + r
    <3>1. k - o \in 1..Len(F) /\ k = o + (k - o)
      BY <1>0
    <3> QED BY <3>1
  <2>2. F[r].op \in KernelOps
    BY <1>2, <1>7, <2>1
  <2>3. \/ r \in 1..3 \/ r = Len(F)
        \/ \E t \in 1..N : r = g[t] \/ r \in a[t] + 1..a[t] + m
    BY DEF IsPass
  <2>4. F[3].op \notin KernelOps /\ F[Len(F)].op \notin KernelOps
    <3>1. F[3] = On(st[0], "record", st[0]) /\ F[Len(F)].op = "synchronize"
      BY DEF IsPass
    <3>2. F[3].op = "record"
      BY <3>1 DEF On
    <3> QED BY <3>1, <3>2 DEF KernelOps
  <2>5. CASE r \in 1..3
    <3>1. r = 1 \/ r = 2
      BY <2>2, <2>4, <2>5
    <3>2. 0 \in 0..N
      BY <1>0
    <3>3. k = P[0] \/ k = P[0] + 1
      BY <1>3, <2>1, <3>1
    <3> QED BY <3>2, <3>3
  <2>6. CASE \E t \in 1..N : r = g[t] \/ r \in a[t] + 1..a[t] + m
    <3>1. PICK t \in 1..N : r = g[t] \/ r \in a[t] + 1..a[t] + m
      BY <2>6
    <3>2. CASE r = g[t]
      BY <1>3, <2>1, <3>2
    <3>3. CASE r \in a[t] + 1..a[t] + m
      <4>0. a[t] \in Nat
        BY <1>1
      <4>1. PICK y \in 1..m : r = a[t] + y
        <5>1. r - a[t] \in 1..m /\ r = a[t] + (r - a[t])
          BY SMTT(40), <1>0, <3>3, <4>0
        <5> QED BY <5>1
      <4>2. F[a[t] + 1].op \notin KernelOps /\ F[a[t] + 4].op \notin KernelOps
        <5>1. F[a[t] + 1] = On(st[t], "wait", st[t - 1]) /\ F[a[t] + 4] = On(st[t], "record", st[t])
          BY DEF IsPass
        <5>2. F[a[t] + 1].op = "wait" /\ F[a[t] + 4].op = "record"
          BY <5>1 DEF On
        <5> QED BY <5>2 DEF KernelOps
      <4>3. y \in {2, 3} \/ (m = 5 /\ y = 5)
        BY SMTT(40), <1>0, <2>2, <4>1, <4>2
      <4>4. P[t] = o + (a[t] + 2) /\ t \in 0..N
        BY <1>0, <1>3
      <4>5. \/ k = P[t] \/ k = P[t] + 1 \/ (m = 5 /\ k = P[t] + 3)
        <5>1. PICK w \in Nat : w = a[t]
          BY <4>0
        <5>2. k = o + (w + y) /\ P[t] = o + (w + 2)
          BY <2>1, <4>1, <4>4, <5>1
        <5>3. o + (w + 3) = (o + (w + 2)) + 1 /\ o + (w + 5) = (o + (w + 2)) + 3
          OBVIOUS
        <5> QED BY <4>3, <5>2, <5>3
      <4> QED BY <4>4, <4>5
    <3> QED BY <3>1, <3>2, <3>3
  <2> QED BY <2>2, <2>3, <2>4, <2>5, <2>6
<1> QED BY <1>5, <1>6, <1>7 DEF Turns

(* What is where on the local path.                                        *)
LocalPlan(c, z, P, G, Q, H) ==
  /\ c \in Seq(Cmd) /\ Len(c) \in Nat /\ z \in Nat /\ z <= Len(c) /\ c[z].op = "synchronize"
  /\ Turns(c, 0, z, AlphaStreams, 4, P, G) /\ Turns(c, z, Len(c), BetaStreams, 5, Q, H)
  /\ \A t \in 0..fba.N :
       /\ c[P[t]] = On(StreamOf(t), IF t = 0 THEN "init_alpha" ELSE "alpha", t)
       /\ c[P[t] + 1] = On(StreamOf(t), "normalize_alpha", t)
       /\ c[Q[t]] = On(StreamOf(fba.N - t), IF t = 0 THEN "init_beta" ELSE "beta", fba.N - t)
       /\ c[Q[t] + 1] = On(StreamOf(fba.N - t), "normalize_beta", fba.N - t)
  /\ \A t \in 1..fba.N :
       /\ c[G[t]] = On(StreamOf(t), "gamma", t - 1)
       /\ c[H[t]] = On(StreamOf(fba.N - t), "gamma", fba.N - t)
       /\ c[Q[t] + 3] = On(StreamOf(fba.N - t), "message", fba.N - t)

(* The queue of the local path takes the turns of its two passes, one      *)
(* after the other.                                                        *)
LEMMA LocalPlanned ==
  ASSUME Sizes, NEW c, c = LocalAlpha \o LocalBetaAndResults
  PROVE  \E z, P, G, Q, H : LocalPlan(c, z, P, G, Q, H)
<1> DEFINE N == fba.N
           F == LocalAlpha
           B == LocalBetaAndResults
           z == Len(F)
<1>0. N \in Nat \ {0}
  BY DEF Sizes
<1>1. PICK a, g : IsPass(F, AlphaStreams, 4, a, g)
                    /\ Made(F, 4, AlphaStart, AlphaMetrics, AlphaStages, a, g)
  BY LocalParts, PassMade
<1>2. PICK b, h : IsPass(B, BetaStreams, 5, b, h)
                    /\ Made(B, 5, BetaStart, BetaMetrics, BetaStages, b, h)
  BY LocalParts, PassMade
<1> HIDE DEF F, B
<1>3. F \in Seq(Cmd) /\ B \in Seq(Cmd) /\ z \in Nat /\ z >= 4 /\ Len(B) \in Nat /\ Len(B) >= 4
  BY <1>1, <1>2 DEF IsPass
<1>4. /\ Len(c) = z + Len(B)
      /\ \A k \in 1..z : c[k] = F[k]
      /\ \A k \in 1..Len(B) : c[z + k] = B[k]
  <2>1. c = F \o B
    BY DEF F, B
  <2>2. Len(F \o B) = Len(F) + Len(B)
    BY <1>3, LenProperties
  <2>3. ASSUME NEW k \in 1..z PROVE (F \o B)[k] = F[k]
    <3>1. k \in 1..Len(F) + Len(B) /\ k <= Len(F)
      BY <1>3
    <3> QED BY <1>3, <3>1
  <2>4. ASSUME NEW k \in 1..Len(B) PROVE (F \o B)[z + k] = B[k]
    <3>1. z + k \in 1..Len(F) + Len(B) /\ ~(z + k <= Len(F)) /\ (z + k) - Len(F) = k
      BY <1>3
    <3> QED BY <1>3, <3>1
  <2> QED BY <2>1, <2>2, <2>3, <2>4
<1>5. Within(c, 0, F) /\ Within(c, z, B)
  <2>1. \A k \in 1..Len(F) : 0 + k = k
    BY <1>3
  <2> QED BY <1>4, <2>1 DEF Within
<1>6. PICK P, G :
        /\ P = [t \in 0..N |-> IF t = 0 THEN 0 + 1 ELSE 0 + (a[t] + 2)]
        /\ G = [t \in 1..N |-> 0 + g[t]]
  OBVIOUS
<1>7. PICK Q, H :
        /\ Q = [t \in 0..N |-> IF t = 0 THEN z + 1 ELSE z + (b[t] + 2)]
        /\ H = [t \in 1..N |-> z + h[t]]
  OBVIOUS
<1>8. Turns(c, 0, 0 + Len(F), AlphaStreams, 4, P, G)
  BY <1>1, <1>5, <1>6, TurnsOfPass
<1>9. Turns(c, z, z + Len(B), BetaStreams, 5, Q, H)
  BY <1>2, <1>3, <1>5, <1>7, TurnsOfPass
<1>10. c[z].op = "synchronize"
  <2>1. F[z].op = "synchronize"
    BY <1>1 DEF IsPass
  <2>2. z \in 1..z
    BY <1>3
  <2>3. c[z] = F[z]
    <3> HIDE DEF z
    <3> QED BY <1>4, <2>2
  <2> QED BY <2>1, <2>3
<1>11. \A t \in 1..N : a[t] \in Nat /\ g[t] \in 1..z /\ a[t] + 4 \in Nat /\ a[t] + 4 < z
                    /\ b[t] \in Nat /\ h[t] \in 1..Len(B) /\ b[t] + 5 < Len(B)
  <2>1. ASSUME NEW t \in 1..N
        PROVE  a[t] \in Nat /\ g[t] \in 1..z /\ a[t] + 4 \in Nat /\ a[t] + 4 < z
    <3>1. a[t] \in Nat /\ g[t] \in 4..a[t] /\ a[t] + 4 < Len(F)
      BY <1>1 DEF IsPass
    <3>2. PICK w \in Nat : w = a[t]
      BY <3>1
    <3>3. g[t] \in 4..w /\ w + 4 < z
      BY <3>1, <3>2
    <3>4. g[t] \in 1..z /\ w + 4 \in Nat
      BY <1>3, <3>3
    <3> QED BY <3>2, <3>3, <3>4
  <2>2. ASSUME NEW t \in 1..N
        PROVE  b[t] \in Nat /\ h[t] \in 1..Len(B) /\ b[t] + 5 < Len(B)
    <3>1. b[t] \in Nat /\ h[t] \in 4..b[t] /\ b[t] + 5 < Len(B)
      BY <1>2 DEF IsPass
    <3>2. PICK w \in Nat : w = b[t]
      BY <3>1
    <3>3. h[t] \in 4..w /\ w + 5 < Len(B)
      BY <3>1, <3>2
    <3>4. h[t] \in 1..Len(B)
      BY <1>3, <3>3
    <3> QED BY <3>2, <3>3, <3>4
  <2> QED BY <2>1, <2>2
<1>12. ASSUME NEW t \in 1..N
       PROVE  /\ c[P[t]] = On(StreamOf(t), "alpha", t)
              /\ c[P[t] + 1] = On(StreamOf(t), "normalize_alpha", t)
              /\ c[G[t]] = On(StreamOf(t), "gamma", t - 1)
  <2>1. PICK w \in Nat : w = a[t]
    BY <1>11
  <2>2. P[t] = w + 2 /\ P[t] + 1 = w + 3 /\ G[t] = g[t] /\ w + 2 \in 1..z /\ w + 3 \in 1..z
    <3>1. t # 0 /\ t \in 0..N /\ 0 + (w + 2) = w + 2 /\ (w + 2) + 1 = w + 3
      BY <1>0
    <3>2. P[t] = w + 2
      BY <1>6, <2>1, <3>1
    <3>3. g[t] \in Nat /\ w + 4 < z
      BY <1>3, <1>11, <2>1
    <3>4. 0 + g[t] = g[t]
      BY <3>3
    <3>5. w + 2 \in 1..z /\ w + 3 \in 1..z
      BY <1>3, <3>3
    <3> QED BY <1>6, <3>1, <3>2, <3>4, <3>5
  <2>3. /\ F[g[t]] = AlphaMetrics[t] /\ F[w + 2] = AlphaStages[t][2]
        /\ F[w + 3] = AlphaStages[t][3]
    BY SMTT(40), <1>1, <2>1 DEF Made
  <2>4. AlphaStages[t] = AlphaStage(t) /\ AlphaMetrics[t] = On(StreamOf(t), "gamma", t - 1)
    BY DEF AlphaStages, AlphaMetrics
  <2>5. /\ AlphaStage(t)[2] = On(StreamOf(t), "alpha", t)
        /\ AlphaStage(t)[3] = On(StreamOf(t), "normalize_alpha", t)
    BY DEF AlphaStage
  <2> QED BY <1>4, <1>11, <2>2, <2>3, <2>4, <2>5
<1>13. ASSUME NEW t \in 1..N
       PROVE  /\ c[Q[t]] = On(StreamOf(N - t), "beta", N - t)
              /\ c[Q[t] + 1] = On(StreamOf(N - t), "normalize_beta", N - t)
              /\ c[Q[t] + 3] = On(StreamOf(N - t), "message", N - t)
              /\ c[H[t]] = On(StreamOf(N - t), "gamma", N - t)
  <2>1. PICK w \in Nat : w = b[t]
    BY <1>11
  <2>2. /\ Q[t] = z + (w + 2) /\ Q[t] + 1 = z + (w + 3) /\ Q[t] + 3 = z + (w + 5)
        /\ H[t] = z + h[t]
        /\ w + 2 \in 1..Len(B) /\ w + 3 \in 1..Len(B) /\ w + 5 \in 1..Len(B)
    <3>1. t # 0 /\ t \in 0..N /\ (z + (w + 2)) + 1 = z + (w + 3) /\ (z + (w + 2)) + 3 = z + (w + 5)
      BY <1>0, <1>3
    <3>2. Q[t] = z + (w + 2)
      BY <1>7, <2>1, <3>1
    <3>3. w + 5 < Len(B)
      BY <1>11, <2>1
    <3>5. w + 2 \in 1..Len(B) /\ w + 3 \in 1..Len(B) /\ w + 5 \in 1..Len(B)
      BY <1>3, <3>3
    <3> QED BY <1>7, <3>1, <3>2, <3>5
  <2>3. /\ B[h[t]] = BetaMetrics[t] /\ B[w + 2] = BetaStages[t][2]
        /\ B[w + 3] = BetaStages[t][3] /\ B[w + 5] = BetaStages[t][5]
    BY <1>2, <2>1 DEF Made
  <2>4. BetaStages[t] = BetaStage(N - t) /\ BetaMetrics[t] = On(StreamOf(N - t), "gamma", N - t)
    BY DEF BetaStages, BetaMetrics
  <2>5. /\ BetaStage(N - t)[2] = On(StreamOf(N - t), "beta", N - t)
        /\ BetaStage(N - t)[3] = On(StreamOf(N - t), "normalize_beta", N - t)
        /\ BetaStage(N - t)[5] = On(StreamOf(N - t), "message", N - t)
    BY DEF BetaStage
  <2> QED BY <1>4, <1>11, <2>2, <2>3, <2>4, <2>5
<1>14. /\ c[P[0]] = On(StreamOf(0), "init_alpha", 0)
       /\ c[P[0] + 1] = On(StreamOf(0), "normalize_alpha", 0)
       /\ c[Q[0]] = On(StreamOf(N - 0), "init_beta", N - 0)
       /\ c[Q[0] + 1] = On(StreamOf(N - 0), "normalize_beta", N - 0)
  <2>1. /\ P[0] = 1 /\ P[0] + 1 = 2 /\ Q[0] = z + 1 /\ Q[0] + 1 = z + 2 /\ N - 0 = N
        /\ 1 \in 1..z /\ 2 \in 1..z /\ 1 \in 1..Len(B) /\ 2 \in 1..Len(B)
    BY <1>0, <1>3, <1>6, <1>7
  <2>2. F[1] = AlphaStart[1] /\ F[2] = AlphaStart[2] /\ B[1] = BetaStart[1] /\ B[2] = BetaStart[2]
    BY <1>1, <1>2 DEF Made
  <2>3. /\ AlphaStart[1] = On(StreamOf(0), "init_alpha", 0)
        /\ AlphaStart[2] = On(StreamOf(0), "normalize_alpha", 0)
        /\ BetaStart[1] = On(StreamOf(N), "init_beta", N)
        /\ BetaStart[2] = On(StreamOf(N), "normalize_beta", N)
    BY DEF AlphaStart, BetaStart
  <2> QED BY <1>4, <2>1, <2>2, <2>3
<1>15. \A t \in 0..N : t = 0 \/ t \in 1..N
  BY <1>0
<1>16. 0 + Len(F) = z /\ z <= Len(c) /\ Len(c) \in Nat
  BY <1>3, <1>4
<1> HIDE DEF z
<1>17. /\ Turns(c, 0, z, AlphaStreams, 4, P, G) /\ Turns(c, z, Len(c), BetaStreams, 5, Q, H)
  BY <1>4, <1>8, <1>9, <1>16
<1>18. ASSUME NEW t \in 0..N
       PROVE  /\ c[P[t]] = On(StreamOf(t), IF t = 0 THEN "init_alpha" ELSE "alpha", t)
              /\ c[P[t] + 1] = On(StreamOf(t), "normalize_alpha", t)
              /\ c[Q[t]] = On(StreamOf(N - t), IF t = 0 THEN "init_beta" ELSE "beta", N - t)
              /\ c[Q[t] + 1] = On(StreamOf(N - t), "normalize_beta", N - t)
  <2>1. CASE t = 0
    BY <1>14, <2>1
  <2>2. CASE t # 0
    <3>1. t \in 1..N
      BY <1>15, <2>2
    <3> QED BY <1>12, <1>13, <2>2, <3>1
  <2> QED BY <2>1, <2>2
<1>19. z \in Nat /\ c \in Seq(Cmd)
  <2>1. c = F \o B
    BY DEF F, B
  <2> QED BY <1>3, <2>1 DEF z
<1>20. LocalPlan(c, z, P, G, Q, H)
  BY <1>10, <1>12, <1>13, <1>16, <1>17, <1>18, <1>19 DEF LocalPlan
<1> QED BY <1>20

(***************************************************************************)
(* What the device may rely on                                             *)
(***************************************************************************)
AlphaMakers == {"init_alpha", "alpha"}
BetaMakers == {"init_beta", "beta"}
AlphaOps == {"init_alpha", "alpha", "normalize_alpha"}
BetaOps == {"init_beta", "beta", "normalize_beta"}
Users == {"alpha", "beta", "message"}

Kind(x) ==
  \/ x.op = "init_alpha" /\ x.i = 0
  \/ x.op = "init_beta" /\ x.i = fba.N
  \/ x.op = "alpha" /\ x.i \in 1..fba.N
  \/ x.op \in {"normalize_alpha", "normalize_beta"} /\ x.i \in 0..fba.N
  \/ x.op \in {"beta", "gamma", "message"} /\ x.i \in 0..fba.N - 1

(* Where the metrics of codeword i are, and of which codeword x uses them. *)
SlotOf(i) == IF fba.globalstore THEN i ELSE StreamOf(i)
Uses(x) == IF x.op = "alpha" THEN x.i - 1 ELSE x.i

(* x writes what y reads or writes.                                        *)
Clash(x, y) ==
  \/ /\ x.op \in AlphaOps
     /\ \/ y.op \in AlphaOps /\ y.i = x.i
        \/ y.op = "alpha" /\ y.i = x.i + 1
        \/ y.op = "message" /\ y.i = x.i
  \/ /\ x.op \in BetaOps
     /\ \/ y.op \in BetaOps /\ y.i = x.i
        \/ y.op \in {"beta", "message"} /\ y.i = x.i - 1
  \/ /\ x.op = "gamma"
     /\ \/ y.op = "gamma" /\ SlotOf(y.i) = SlotOf(x.i)
        \/ y.op \in Users /\ SlotOf(Uses(y)) = SlotOf(x.i)
  \/ x.op = "message" /\ y.op = "message" /\ y.i = x.i

(* Kernels that share memory which one of them writes clash.               *)
LEMMA Clashes ==
  ASSUME fba.N \in Nat, NEW x, Kind(x), NEW y, Kind(y),
         Writes(x) \intersect (Reads(y) \union Writes(y)) # {}
  PROVE  Clash(x, y)
<1>1. PICK e : e \in Writes(x) /\ (e \in Reads(y) \/ e \in Writes(y))
  OBVIOUS
<1>2. \A i : InRow(i, 0)[1] = SlotOf(i)
  BY DEF InRow, SlotOf
<1>w. \A k : /\ k.op \in AlphaOps => Writes(k) = {<<"alpha", k.i>>}
             /\ k.op \in BetaOps => Writes(k) = {<<"beta", k.i>>}
             /\ k.op = "gamma" => Writes(k) = {<<"gamma", SlotOf(k.i)>>}
             /\ k.op = "message" => Writes(k) = {<<"ptable", k.i>>}
  BY <1>2 DEF Writes, AlphaOps, BetaOps
<1>r. \A k : /\ k.op = "alpha" => Reads(k) = {<<"alpha", k.i - 1>>, <<"gamma", SlotOf(k.i - 1)>>}
             /\ k.op = "beta" => Reads(k) = {<<"beta", k.i + 1>>, <<"gamma", SlotOf(k.i)>>}
             /\ k.op = "message" => Reads(k) = {<<"alpha", k.i>>, <<"beta", k.i + 1>>,
                                                <<"gamma", SlotOf(k.i)>>}
             /\ k.op \notin Users => Reads(k) = {}
  BY <1>2 DEF Reads, Users
<1>k. /\ x.i \in Int /\ y.i \in Int
      /\ x.op \in AlphaOps \/ x.op \in BetaOps \/ x.op = "gamma" \/ x.op = "message"
      /\ y.op \in AlphaOps \/ y.op \in BetaOps \/ y.op = "gamma" \/ y.op = "message"
  BY DEF Kind, AlphaOps, BetaOps
<1>3. CASE x.op \in AlphaOps
  <2>1. e = <<"alpha", x.i>>
    BY <1>1, <1>3, <1>w
  <2>2. CASE e \in Writes(y)
    <3>1. y.op \in AlphaOps /\ y.i = x.i
      BY <1>k, <1>w, <2>1, <2>2
    <3> QED BY <1>3, <3>1 DEF Clash
  <2>3. CASE e \in Reads(y)
    <3>1. y.op \in Users
      BY <1>r, <2>3
    <3>2. \/ y.op = "alpha" /\ y.i = x.i + 1
          \/ y.op = "message" /\ y.i = x.i
      <4>1. CASE y.op = "alpha"
        <5>1. x.i = y.i - 1
          BY <1>r, <2>1, <2>3, <4>1
        <5>2. \A p, q \in Int : p = q - 1 => q = p + 1
          OBVIOUS
        <5>3. y.i = x.i + 1
          BY <1>k, <5>1, <5>2
        <5> QED BY <4>1, <5>3
      <4>2. CASE y.op = "beta"
        BY <1>r, <2>1, <2>3, <4>2
      <4>3. CASE y.op = "message"
        BY <1>r, <2>1, <2>3, <4>3
      <4> QED BY <3>1, <4>1, <4>2, <4>3 DEF Users
    <3> QED BY <1>3, <3>2 DEF Clash
  <2> QED BY <1>1, <2>2, <2>3
<1>4. CASE x.op \in BetaOps
  <2>1. e = <<"beta", x.i>>
    BY <1>1, <1>4, <1>w
  <2>2. CASE e \in Writes(y)
    <3>1. y.op \in BetaOps /\ y.i = x.i
      BY <1>k, <1>w, <2>1, <2>2
    <3> QED BY <1>4, <3>1 DEF Clash
  <2>3. CASE e \in Reads(y)
    <3>1. y.op \in Users
      BY <1>r, <2>3
    <3>2. y.op \in {"beta", "message"} /\ y.i = x.i - 1
      <4>1. CASE y.op = "alpha"
        BY <1>r, <2>1, <2>3, <4>1
      <4>2. CASE y.op \in {"beta", "message"}
        <5>1. x.i = y.i + 1
          BY <1>r, <2>1, <2>3, <4>2
        <5> QED BY <1>k, <4>2, <5>1
      <4> QED BY <3>1, <4>1, <4>2 DEF Users
    <3> QED BY <1>4, <3>2 DEF Clash
  <2> QED BY <1>1, <2>2, <2>3
<1>5. CASE x.op = "gamma"
  <2>1. e = <<"gamma", SlotOf(x.i)>>
    BY <1>1, <1>5, <1>w
  <2>2. CASE e \in Writes(y)
    <3>1. y.op = "gamma" /\ SlotOf(y.i) = SlotOf(x.i)
      BY <1>k, <1>w, <2>1, <2>2
    <3> QED BY <1>5, <3>1 DEF Clash
  <2>3. CASE e \in Reads(y)
    <3>1. y.op \in Users
      BY <1>r, <2>3
    <3>2. SlotOf(Uses(y)) = SlotOf(x.i)
      <4>1. CASE y.op = "alpha"
        BY <1>r, <2>1, <2>3, <4>1 DEF Uses
      <4>2. CASE y.op = "beta"
        BY <1>r, <2>1, <2>3, <4>2 DEF Uses
      <4>3. CASE y.op = "message"
        BY <1>r, <2>1, <2>3, <4>3 DEF Uses
      <4> QED BY <3>1, <4>1, <4>2, <4>3 DEF Users
    <3> QED BY <1>5, <3>1, <3>2 DEF Clash
  <2> QED BY <1>1, <2>2, <2>3
<1>6. CASE x.op = "message"
  <2>1. e = <<"ptable", x.i>>
    BY <1>1, <1>6, <1>w
  <2>2. e \notin Reads(y)
    <3>1. CASE y.op \in Users
      BY <1>r, <2>1, <3>1 DEF Users
    <3>2. CASE y.op \notin Users
      BY <1>r, <3>2
    <3> QED BY <3>1, <3>2
  <2>3. y.op = "message" /\ y.i = x.i
    BY <1>1, <1>k, <1>w, <2>1, <2>2
  <2> QED BY <1>6, <2>3 DEF Clash
<1> QED BY <1>3, <1>4, <1>5, <1>6, <1>k

(***************************************************************************)
(* The local path is ordered                                               *)
(***************************************************************************)
(* k is a command of turn t of the first pass, and of the second.          *)
AlphaTurn(P, G, k, t) ==
  \/ t \in 0..fba.N /\ (k = P[t] \/ k = P[t] + 1)
  \/ t \in 1..fba.N /\ k = G[t]
BetaTurn(Q, H, k, t) ==
  \/ t \in 0..fba.N /\ (k = Q[t] \/ k = Q[t] + 1)
  \/ t \in 1..fba.N /\ (k = H[t] \/ k = Q[t] + 3)

(* The kernels of work_alpha, by their turns.                              *)
LEMMA AlphaTurns ==
  ASSUME Sizes, NEW c, NEW z, NEW P, NEW G, NEW Q, NEW H, LocalPlan(c, z, P, G, Q, H)
  PROVE  /\ \A k \in 1..z : c[k].op \in KernelOps => \E t \in 0..fba.N : AlphaTurn(P, G, k, t)
         /\ \A k, t : AlphaTurn(P, G, k, t) =>
              /\ t \in 0..fba.N /\ k \in 1..z - 1 /\ c[k].stream = StreamOf(t)
              /\ \/ /\ c[k].op \in AlphaOps /\ c[k].i = t /\ (k = P[t] \/ k = P[t] + 1)
                    /\ c[k].op = "alpha" => t >= 1 /\ k = P[t]
                    /\ c[k].op \in AlphaMakers => k = P[t]
                    /\ c[k].op = "init_alpha" => t = 0
                 \/ c[k].op = "gamma" /\ c[k].i = t - 1 /\ t >= 1 /\ k = G[t]
              /\ Kind(c[k]) /\ c[k].op \in KernelOps
<1>0. fba.N \in Nat \ {0} /\ z \in Nat /\ Turns(c, 0, z, AlphaStreams, 4, P, G)
  BY DEF Sizes, LocalPlan
<1>1. ASSUME NEW k \in 1..z, c[k].op \in KernelOps
      PROVE  \E t \in 0..fba.N : AlphaTurn(P, G, k, t)
  <2>1. k \in 0 + 1..z /\ 1..fba.N \subseteq 0..fba.N /\ 4 # 5
    BY <1>0
  <2>2. \/ \E t \in 0..fba.N : k = P[t] \/ k = P[t] + 1
        \/ \E t \in 1..fba.N : k = G[t]
    BY <1>0, <1>1, <2>1 DEF Turns
  <2> QED BY <2>1, <2>2 DEF AlphaTurn
<1>2. ASSUME NEW k, NEW t \in 0..fba.N, k = P[t] \/ k = P[t] + 1
      PROVE  /\ k \in 1..z - 1 /\ c[k].stream = StreamOf(t)
             /\ c[k].op \in AlphaOps /\ c[k].i = t
             /\ c[k].op = "alpha" => t >= 1 /\ k = P[t]
             /\ c[k].op \in AlphaMakers => k = P[t]
             /\ c[k].op = "init_alpha" => t = 0
             /\ Kind(c[k]) /\ c[k].op \in KernelOps
  <2>1. P[t] \in Nat /\ P[t] > 0 /\ P[t] + 1 < z
    BY <1>0 DEF Turns
  <2>2. P[t] \in 1..z - 1 /\ P[t] + 1 \in 1..z - 1
    BY <1>0, <2>1
  <2>3. c[P[t]] = On(StreamOf(t), IF t = 0 THEN "init_alpha" ELSE "alpha", t)
        /\ c[P[t] + 1] = On(StreamOf(t), "normalize_alpha", t)
    BY DEF LocalPlan
  <2>4. /\ c[P[t]].op = (IF t = 0 THEN "init_alpha" ELSE "alpha") /\ c[P[t]].i = t
        /\ c[P[t]].stream = StreamOf(t)
        /\ c[P[t] + 1].op = "normalize_alpha" /\ c[P[t] + 1].i = t
        /\ c[P[t] + 1].stream = StreamOf(t)
    BY <2>3 DEF On
  <2>5. t # 0 => t >= 1 /\ t \in 1..fba.N
    BY <1>0
  <2>6. CASE k = P[t]
    BY <2>2, <2>4, <2>5, <2>6 DEF AlphaOps, AlphaMakers, Kind, KernelOps
  <2>7. CASE k = P[t] + 1
    BY <2>2, <2>4, <2>5, <2>7 DEF AlphaOps, AlphaMakers, Kind, KernelOps
  <2> QED BY <1>2, <2>6, <2>7
<1>3. ASSUME NEW k, NEW t \in 1..fba.N, k = G[t]
      PROVE  /\ t \in 0..fba.N /\ k \in 1..z - 1 /\ c[k].stream = StreamOf(t)
             /\ c[k].op = "gamma" /\ c[k].i = t - 1 /\ t >= 1
             /\ Kind(c[k]) /\ c[k].op \in KernelOps
  <2>1. G[t] \in Nat /\ G[t] > 0 /\ G[t] < P[t] /\ P[t] \in Nat /\ P[t] + 1 < z
    <3>1. t \in 0..fba.N
      BY <1>0
    <3> QED BY <1>0, <3>1 DEF Turns
  <2>2. G[t] \in 1..z - 1 /\ t \in 0..fba.N /\ t >= 1 /\ t - 1 \in 0..fba.N - 1
    BY <1>0, <2>1
  <2>3. c[G[t]] = On(StreamOf(t), "gamma", t - 1)
    BY DEF LocalPlan
  <2> QED BY <1>3, <2>2, <2>3 DEF On, Kind, KernelOps
<1>4. ASSUME NEW k, NEW t, AlphaTurn(P, G, k, t)
      PROVE  /\ t \in 0..fba.N /\ k \in 1..z - 1 /\ c[k].stream = StreamOf(t)
             /\ \/ /\ c[k].op \in AlphaOps /\ c[k].i = t /\ (k = P[t] \/ k = P[t] + 1)
                   /\ c[k].op = "alpha" => t >= 1 /\ k = P[t]
                   /\ c[k].op \in AlphaMakers => k = P[t]
                   /\ c[k].op = "init_alpha" => t = 0
                \/ c[k].op = "gamma" /\ c[k].i = t - 1 /\ t >= 1 /\ k = G[t]
             /\ Kind(c[k]) /\ c[k].op \in KernelOps
  <2>1. CASE t \in 0..fba.N /\ (k = P[t] \/ k = P[t] + 1)
    BY <1>2, <2>1
  <2>2. CASE t \in 1..fba.N /\ k = G[t]
    BY <1>3, <2>2
  <2> QED BY <1>4, <2>1, <2>2 DEF AlphaTurn
<1> QED BY <1>1, <1>4

(* The kernels of work_beta_and_results, by their turns.                   *)
LEMMA BetaTurns ==
  ASSUME Sizes, NEW c, NEW z, NEW P, NEW G, NEW Q, NEW H, LocalPlan(c, z, P, G, Q, H)
  PROVE  /\ \A k \in z + 1..Len(c) :
              c[k].op \in KernelOps => \E t \in 0..fba.N : BetaTurn(Q, H, k, t)
         /\ \A k, t : BetaTurn(Q, H, k, t) =>
              /\ t \in 0..fba.N /\ k \in z + 1..Len(c) /\ c[k].stream = StreamOf(fba.N - t)
              /\ c[k].i = fba.N - t
              /\ \/ /\ c[k].op \in BetaOps /\ (k = Q[t] \/ k = Q[t] + 1)
                    /\ c[k].op = "beta" => t >= 1 /\ k = Q[t]
                    /\ c[k].op \in BetaMakers => k = Q[t]
                    /\ c[k].op = "init_beta" => t = 0
                 \/ c[k].op = "gamma" /\ t >= 1 /\ k = H[t]
                 \/ c[k].op = "message" /\ t >= 1 /\ k = Q[t] + 3
              /\ Kind(c[k]) /\ c[k].op \in KernelOps
<1>0. /\ fba.N \in Nat \ {0} /\ z \in Nat /\ Len(c) \in Nat
      /\ Turns(c, z, Len(c), BetaStreams, 5, Q, H)
  BY DEF Sizes, LocalPlan
<1>1. ASSUME NEW k \in z + 1..Len(c), c[k].op \in KernelOps
      PROVE  \E t \in 0..fba.N : BetaTurn(Q, H, k, t)
  <2>1. 1..fba.N \subseteq 0..fba.N
    BY <1>0
  <2>2. \/ \E t \in 0..fba.N : k = Q[t] \/ k = Q[t] + 1
        \/ \E t \in 1..fba.N : k = H[t] \/ k = Q[t] + 3
    BY <1>0, <1>1 DEF Turns
  <2> QED BY <2>1, <2>2 DEF BetaTurn
<1>2. ASSUME NEW k, NEW t \in 0..fba.N, k = Q[t] \/ k = Q[t] + 1
      PROVE  /\ k \in z + 1..Len(c) /\ c[k].stream = StreamOf(fba.N - t) /\ c[k].i = fba.N - t
             /\ c[k].op \in BetaOps
             /\ c[k].op = "beta" => t >= 1 /\ k = Q[t]
             /\ c[k].op \in BetaMakers => k = Q[t]
             /\ c[k].op = "init_beta" => t = 0
             /\ Kind(c[k]) /\ c[k].op \in KernelOps
  <2>1. Q[t] \in Nat /\ Q[t] > z /\ Q[t] + 1 < Len(c)
    BY <1>0 DEF Turns
  <2>2. Q[t] \in z + 1..Len(c) /\ Q[t] + 1 \in z + 1..Len(c)
    BY <1>0, <2>1
  <2>3. c[Q[t]] = On(StreamOf(fba.N - t), IF t = 0 THEN "init_beta" ELSE "beta", fba.N - t)
        /\ c[Q[t] + 1] = On(StreamOf(fba.N - t), "normalize_beta", fba.N - t)
    BY DEF LocalPlan
  <2>4. /\ c[Q[t]].op = (IF t = 0 THEN "init_beta" ELSE "beta") /\ c[Q[t]].i = fba.N - t
        /\ c[Q[t]].stream = StreamOf(fba.N - t)
        /\ c[Q[t] + 1].op = "normalize_beta" /\ c[Q[t] + 1].i = fba.N - t
        /\ c[Q[t] + 1].stream = StreamOf(fba.N - t)
    BY <2>3 DEF On
  <2>5. /\ t # 0 => t >= 1 /\ fba.N - t \in 0..fba.N - 1
        /\ fba.N - t \in 0..fba.N
        /\ t = 0 => fba.N - t = fba.N
    <3>1. \A n \in Nat : \A u \in 0..n :
            /\ u # 0 => u >= 1 /\ n - u \in 0..n - 1
            /\ n - u \in 0..n
            /\ u = 0 => n - u = n
      OBVIOUS
    <3> QED BY <1>0, <3>1
  <2>6. CASE k = Q[t]
    BY <2>2, <2>4, <2>5, <2>6 DEF BetaOps, BetaMakers, Kind, KernelOps
  <2>7. CASE k = Q[t] + 1
    BY <2>2, <2>4, <2>5, <2>7 DEF BetaOps, BetaMakers, Kind, KernelOps
  <2> QED BY <1>2, <2>6, <2>7
<1>3. ASSUME NEW k, NEW t \in 1..fba.N, k = H[t] \/ k = Q[t] + 3
      PROVE  /\ t \in 0..fba.N /\ k \in z + 1..Len(c) /\ c[k].stream = StreamOf(fba.N - t)
             /\ c[k].i = fba.N - t /\ t >= 1
             /\ \/ c[k].op = "gamma" /\ k = H[t]
                \/ c[k].op = "message" /\ k = Q[t] + 3
             /\ Kind(c[k]) /\ c[k].op \in KernelOps
  <2>1. H[t] \in Nat /\ H[t] > z /\ H[t] < Q[t] /\ Q[t] \in Nat /\ Q[t] + 3 < Len(c)
    <3>1. t \in 0..fba.N /\ 5 - 2 = 3
      BY <1>0
    <3>2. Q[t] \in Nat
      BY <1>0, <3>1 DEF Turns
    <3>3. H[t] \in Nat /\ H[t] > z /\ H[t] < Q[t] /\ Q[t] + (5 - 2) < Len(c)
      BY <1>0 DEF Turns
    <3> QED BY <3>1, <3>2, <3>3
  <2>2. /\ H[t] \in z + 1..Len(c) /\ Q[t] + 3 \in z + 1..Len(c)
        /\ t \in 0..fba.N /\ t >= 1 /\ fba.N - t \in 0..fba.N - 1
    <3>1. PICK h \in Nat, q \in Nat, l \in Nat : h = H[t] /\ q = Q[t] /\ l = Len(c)
      BY <1>0, <2>1
    <3>2. h > z /\ h < q /\ q + 3 < l
      BY <2>1, <3>1
    <3>3. h \in z + 1..l /\ q + 3 \in z + 1..l
      BY <1>0, <3>2
    <3>4. \A n \in Nat : \A u \in 1..n : u \in 0..n /\ u >= 1 /\ n - u \in 0..n - 1
      OBVIOUS
    <3> QED BY <1>0, <3>1, <3>3, <3>4
  <2>3. c[H[t]] = On(StreamOf(fba.N - t), "gamma", fba.N - t)
        /\ c[Q[t] + 3] = On(StreamOf(fba.N - t), "message", fba.N - t)
    BY DEF LocalPlan
  <2>4. /\ c[H[t]].op = "gamma" /\ c[H[t]].i = fba.N - t /\ c[H[t]].stream = StreamOf(fba.N - t)
        /\ c[Q[t] + 3].op = "message" /\ c[Q[t] + 3].i = fba.N - t
        /\ c[Q[t] + 3].stream = StreamOf(fba.N - t)
    BY <2>3 DEF On
  <2>5. CASE k = H[t]
    BY <2>2, <2>4, <2>5 DEF Kind, KernelOps
  <2>6. CASE k = Q[t] + 3
    BY <2>2, <2>4, <2>6 DEF Kind, KernelOps
  <2> QED BY <1>3, <2>5, <2>6
<1>4. ASSUME NEW k, NEW t, BetaTurn(Q, H, k, t)
      PROVE  /\ t \in 0..fba.N /\ k \in z + 1..Len(c) /\ c[k].stream = StreamOf(fba.N - t)
             /\ c[k].i = fba.N - t
             /\ \/ /\ c[k].op \in BetaOps /\ (k = Q[t] \/ k = Q[t] + 1)
                   /\ c[k].op = "beta" => t >= 1 /\ k = Q[t]
                   /\ c[k].op \in BetaMakers => k = Q[t]
                   /\ c[k].op = "init_beta" => t = 0
                \/ c[k].op = "gamma" /\ t >= 1 /\ k = H[t]
                \/ c[k].op = "message" /\ t >= 1 /\ k = Q[t] + 3
             /\ Kind(c[k]) /\ c[k].op \in KernelOps
  <2>1. CASE t \in 0..fba.N /\ (k = Q[t] \/ k = Q[t] + 1)
    BY <1>2, <2>1
  <2>2. CASE t \in 1..fba.N /\ (k = H[t] \/ k = Q[t] + 3)
    BY <1>3, <2>2
  <2> QED BY <1>4, <2>1, <2>2 DEF BetaTurn
<1> QED BY <1>1, <1>4

(* Each user of metrics finds those of its codeword in their slot.         *)
Fresh(c, K) ==
  \A k \in K : c[k].op \in Users =>
    \E g \in K :
      /\ g < k /\ c[g].op = "gamma" /\ c[g].i = Uses(c[k])
      /\ \A h \in K : h < k /\ c[h].op = "gamma" /\ SlotOf(c[h].i) = SlotOf(c[g].i) => h <= g

(* A[i], B[i] and M[i] make alpha(i), beta(i) and the posteriors of        *)
(* codeword i, each once and after what it needs.                          *)
Makers(c, K, A, B, M) ==
  /\ \A i \in 0..fba.N :
       /\ A[i] \in K /\ c[A[i]].op \in AlphaMakers /\ c[A[i]].i = i
       /\ B[i] \in K /\ c[B[i]].op \in BetaMakers /\ c[B[i]].i = i
  /\ \A i \in 0..fba.N - 1 :
       /\ M[i] \in K /\ c[M[i]].op = "message" /\ c[M[i]].i = i
       /\ A[i] < A[i + 1] /\ B[i + 1] < B[i]
       /\ A[i] < M[i] /\ B[i + 1] < M[i]
  /\ \A k \in K :
       /\ c[k].op \in AlphaMakers => k = A[c[k].i]
       /\ c[k].op \in BetaMakers => k = B[c[k].i]
       /\ c[k].op = "message" => k = M[c[k].i]

Ordered(c, K) ==
  \A j, k \in K :
    j < k /\ (Clash(c[j], c[k]) \/ Clash(c[k], c[j])) => j \in After(c, k)

(* What decode() may queue.                                                *)
Queue(c) ==
  LET K == Kernels(c)
  IN  /\ K \subseteq Nat /\ \A k \in K : Kind(c[k])
      /\ Ordered(c, K) /\ Fresh(c, K) /\ \E A, B, M : Makers(c, K, A, B, M)

Contract(L) ==
  /\ DOMAIN L \subseteq Nat
  /\ \A k \in DOMAIN L : Kind(L[k]) /\ L[k].after \subseteq DOMAIN L
  /\ \A j, k \in DOMAIN L :
       j < k /\ (Clash(L[j], L[k]) \/ Clash(L[k], L[j])) => j \in L[k].after
  /\ Fresh(L, DOMAIN L)
  /\ \E A, B, M : Makers(L, DOMAIN L, A, B, M)

(* A queue whose clashing kernels are ordered gives kernels that keep the  *)
(* contract.                                                               *)
LEMMA QueueIsContract ==
  ASSUME NEW c, Queue(c)
  PROVE  Contract(Launched(c))
<1> DEFINE K == Kernels(c)
           L == Launched(c)
<1>1. DOMAIN L = K
  BY DEF Launched
<1>2. \A k \in K : L[k].op = c[k].op /\ L[k].i = c[k].i /\ L[k].after = After(c, k) \intersect K
  BY DEF Launched
<1> HIDE DEF K, L
<1>3. /\ K \subseteq Nat /\ \A k \in K : Kind(c[k])
      /\ Ordered(c, K) /\ Fresh(c, K) /\ \E A, B, M : Makers(c, K, A, B, M)
  BY DEF Queue, K
<1>4. \A k \in K : Kind(L[k]) /\ L[k].after \subseteq K
  BY <1>2, <1>3 DEF Kind
<1>5. \A j, k \in K : Clash(L[j], L[k]) => Clash(c[j], c[k])
  <2>1. ASSUME NEW j \in K, NEW k \in K, Clash(L[j], L[k]) PROVE Clash(c[j], c[k])
    <3>1. L[j].op = c[j].op /\ L[j].i = c[j].i /\ L[k].op = c[k].op /\ L[k].i = c[k].i
      BY <1>2
    <3> QED BY <2>1, <3>1 DEF Clash, Uses
  <2> QED BY <2>1
<1>6. ASSUME NEW j \in K, NEW k \in K, j < k, Clash(L[j], L[k]) \/ Clash(L[k], L[j])
      PROVE  j \in L[k].after
  <2>1. j \in After(c, k)
    BY <1>3, <1>5, <1>6 DEF Ordered
  <2> QED BY <1>2, <2>1
<1>7. Fresh(L, K)
  <2>1. ASSUME NEW k \in K, L[k].op \in Users
        PROVE  \E g \in K :
                 /\ g < k /\ L[g].op = "gamma" /\ L[g].i = Uses(L[k])
                 /\ \A h \in K :
                      h < k /\ L[h].op = "gamma" /\ SlotOf(L[h].i) = SlotOf(L[g].i) => h <= g
    <3>1. c[k].op \in Users /\ Uses(L[k]) = Uses(c[k])
      BY <1>2, <2>1 DEF Uses
    <3>2. PICK g \in K :
            /\ g < k /\ c[g].op = "gamma" /\ c[g].i = Uses(c[k])
            /\ \A h \in K : h < k /\ c[h].op = "gamma" /\ SlotOf(c[h].i) = SlotOf(c[g].i) => h <= g
      BY <1>3, <3>1 DEF Fresh
    <3>3. L[g].op = "gamma" /\ L[g].i = Uses(L[k])
      BY <1>2, <3>1, <3>2
    <3>4. \A h \in K : h < k /\ L[h].op = "gamma" /\ SlotOf(L[h].i) = SlotOf(L[g].i) => h <= g
      BY <1>2, <3>2
    <3> QED BY <3>2, <3>3, <3>4
  <2> QED BY <2>1 DEF Fresh
<1>8. \E A, B, M : Makers(L, K, A, B, M)
  <2>1. PICK A, B, M : Makers(c, K, A, B, M)
    BY <1>3
  <2>2. Makers(L, K, A, B, M)
    <3>1. \A i \in 0..fba.N :
            /\ A[i] \in K /\ L[A[i]].op \in AlphaMakers /\ L[A[i]].i = i
            /\ B[i] \in K /\ L[B[i]].op \in BetaMakers /\ L[B[i]].i = i
      BY <1>2, <2>1 DEF Makers
    <3>2. \A i \in 0..fba.N - 1 :
            /\ M[i] \in K /\ L[M[i]].op = "message" /\ L[M[i]].i = i
            /\ A[i] < A[i + 1] /\ B[i + 1] < B[i]
            /\ A[i] < M[i] /\ B[i + 1] < M[i]
      BY <1>2, <2>1 DEF Makers
    <3>3. \A k \in K :
            /\ L[k].op \in AlphaMakers => k = A[L[k].i]
            /\ L[k].op \in BetaMakers => k = B[L[k].i]
            /\ L[k].op = "message" => k = M[L[k].i]
      BY <1>2, <2>1 DEF Makers
    <3> QED BY <3>1, <3>2, <3>3 DEF Makers
  <2> QED BY <2>2
<1> QED BY <1>1, <1>3, <1>4, <1>6, <1>7, <1>8 DEF Contract, L

(* Kernels are the commands with an operation of the device.               *)
LEMMA KernelsAre ==
  ASSUME NEW c \in Seq(Cmd), NEW l \in Nat, l = Len(c)
  PROVE  Kernels(c) = {k \in 1..l : c[k].op \in KernelOps} /\ Kernels(c) \subseteq Nat
<1>1. DOMAIN c = 1..l
  OBVIOUS
<1>2. \A k \in 1..l : c[k].op \in KernelOps <=> c[k].op \notin {"wait", "record", "synchronize"}
  <2>1. \A k \in 1..l : c[k].op \in KernelOps \union {"wait", "record", "synchronize"}
    <3>1. ASSUME NEW k \in 1..l
          PROVE  c[k].op \in KernelOps \union {"wait", "record", "synchronize"}
      <4>1. c[k] \in Cmd
        BY <1>1
      <4> QED BY <4>1 DEF Cmd
    <3> QED BY <3>1
  <2> QED BY <2>1 DEF KernelOps
<1> QED BY <1>1, <1>2 DEF Kernels

Shifted(x, y, a, b, d) == x - y = a * d - b * d

(* Numbers that differ by a multiple of d have the same remainder.         *)
LEMMA RestShifted ==
  ASSUME NEW d \in Nat \ {0}, NEW a \in Nat, NEW b \in Nat, NEW x \in Nat, NEW y \in Nat,
         Shifted(x, y, a, b, d), b <= a
  PROVE  x % d = y % d
<1>0. x - y = a * d - b * d
  BY DEF Shifted
<1>1. PICK e \in Nat, s \in 0..d - 1 : y = e * d + s /\ s = y % d
  BY Remainders
<1>2. x = (e + (a - b)) * d + s /\ e + (a - b) \in Nat
  <2>1. (e + (a - b)) * d = e * d + (a * d - b * d)
    OBVIOUS
  <2>2. e * d \in Nat /\ a * d \in Nat /\ b * d \in Nat
    OBVIOUS
  <2>3. x = (e * d + s) + (a * d - b * d)
    BY <1>0, <1>1, <2>2
  <2> QED BY <2>1, <2>2, <2>3
<1>3. ((e + (a - b)) * d + s) % d = s
  BY <1>2, Digits
<1> QED BY <1>1, <1>2, <1>3

(* Indices with the same remainder from the end have the same remainder    *)
(* from the start.                                                         *)
LEMMA RestMirrored ==
  ASSUME NEW d \in Nat \ {0}, NEW n \in Nat, NEW t \in 1..n, NEW u \in 1..n,
         (n - t) % d = (n - u) % d
  PROVE  (t - 1) % d = (u - 1) % d
<1>0. n - t \in Nat /\ n - u \in Nat /\ t - 1 \in Nat /\ u - 1 \in Nat
  OBVIOUS
<1>1. PICK q \in Nat, p \in Nat, r \in 0..d - 1 : n - t = q * d + r /\ n - u = p * d + r
  <2>1. /\ n - t = ((n - t) \div d) * d + ((n - t) % d) /\ (n - t) % d \in 0..d - 1
        /\ (n - t) \div d \in Nat
    BY <1>0, Remainders
  <2>2. /\ n - u = ((n - u) \div d) * d + ((n - u) % d) /\ (n - u) \div d \in Nat
    BY <1>0, Remainders
  <2> QED BY <2>1, <2>2
<1>3. (t - 1) - (u - 1) = p * d - q * d /\ (u - 1) - (t - 1) = q * d - p * d
  <2>1. q * d \in Nat /\ p * d \in Nat
    OBVIOUS
  <2> QED BY <1>1, <2>1
<1>v. PICK v \in Nat, w \in Nat : v = t - 1 /\ w = u - 1
  BY <1>0
<1>4. CASE q <= p
  <2>1. Shifted(v, w, p, q, d)
    BY <1>3, <1>v DEF Shifted
  <2>2. v % d = w % d
    BY <1>1, <1>v, <1>4, <2>1, RestShifted
  <2> QED BY <1>v, <2>2
<1>5. CASE p <= q
  <2>1. Shifted(w, v, q, p, d)
    BY <1>3, <1>v DEF Shifted
  <2>2. w % d = v % d
    BY <1>1, <1>v, <1>5, <2>1, RestShifted
  <2> QED BY <1>v, <2>2
<1>6. q <= p \/ p <= q
  OBVIOUS
<1> QED BY <1>4, <1>5, <1>6

(* Where a kernel of the local path is.                                    *)
LocalKernel(c, z, P, G, Q, H, k) ==
  \/ k \in 1..z - 1 /\ \E t \in 0..fba.N : AlphaTurn(P, G, k, t)
  \/ k \in z + 1..Len(c) /\ \E t \in 0..fba.N : BetaTurn(Q, H, k, t)

(* The kernels of the local path are those of the turns of its passes.     *)
LEMMA LocalKernels ==
  ASSUME Sizes, NEW c, NEW z, NEW P, NEW G, NEW Q, NEW H, LocalPlan(c, z, P, G, Q, H)
  PROVE  /\ Kernels(c) = {k \in 1..Len(c) : c[k].op \in KernelOps} /\ Kernels(c) \subseteq Nat
         /\ \A k \in Kernels(c) : LocalKernel(c, z, P, G, Q, H, k) /\ Kind(c[k])
<1>0. z \in Nat /\ Len(c) \in Nat /\ c \in Seq(Cmd) /\ c[z].op = "synchronize" /\ z <= Len(c)
  BY DEF LocalPlan
<1>1. Kernels(c) = {k \in 1..Len(c) : c[k].op \in KernelOps} /\ Kernels(c) \subseteq Nat
  BY <1>0, KernelsAre
<1>2. ASSUME NEW k \in Kernels(c) PROVE LocalKernel(c, z, P, G, Q, H, k) /\ Kind(c[k])
  <2>1. k \in 1..Len(c) /\ c[k].op \in KernelOps
    BY <1>1
  <2>2. k # z
    BY <1>0, <2>1 DEF KernelOps
  <2>3. CASE k < z
    <3>1. k \in 1..z /\ k \in 1..z - 1
      BY <1>0, <2>1, <2>3
    <3>2. PICK t \in 0..fba.N : AlphaTurn(P, G, k, t)
      BY <2>1, <3>1, AlphaTurns
    <3>3. Kind(c[k])
      BY <3>2, AlphaTurns
    <3> QED BY <3>1, <3>2, <3>3 DEF LocalKernel
  <2>4. CASE k > z
    <3>1. k \in z + 1..Len(c)
      BY <1>0, <2>1, <2>4
    <3>2. PICK t \in 0..fba.N : BetaTurn(Q, H, k, t)
      BY <2>1, <3>1, BetaTurns
    <3>3. Kind(c[k])
      BY <3>2, BetaTurns
    <3> QED BY <3>1, <3>2, <3>3 DEF LocalKernel
  <2> QED BY <1>0, <2>1, <2>2, <2>3, <2>4
<1> QED BY <1>1, <1>2

(* A synchronisation orders, and so does a stream.                         *)
LEMMA SyncOrders ==
  ASSUME NEW c, NEW z \in Nat, c[z].op = "synchronize", NEW j \in Nat, NEW k \in Nat,
         1 <= j, j <= z, z < k
  PROVE  j \in After(c, k)
<1>1. j \in 1..k - 1 /\ z \in j..k
  OBVIOUS
<1> QED BY <1>1 DEF After

(* Commands of one stream are ordered.                                     *)
LEMMA StreamOrders ==
  ASSUME NEW c, NEW j \in Nat, NEW k \in Nat, 1 <= j, j < k, c[j].stream = c[k].stream
  PROVE  j \in After(c, k)
<1>1. j \in 1..k - 1
  OBVIOUS
<1> QED BY <1>1 DEF After

(* The same slot is that of the same stream.                               *)
LEMMA SameSlotAlpha ==
  ASSUME Sizes, ~fba.globalstore, NEW t \in 1..fba.N, NEW u \in 1..fba.N,
         SlotOf(t - 1) = SlotOf(u - 1)
  PROVE  (t - 1) % fba.depth = (u - 1) % fba.depth /\ StreamOf(t) = StreamOf(u)
<1>1. (t - 1) % fba.depth = (u - 1) % fba.depth
  BY DEF SlotOf, StreamOf
<1>2. PICK d \in Nat \ {0}, v \in Nat, w \in Nat :
         d = fba.depth /\ v = t - 1 /\ w = u - 1 /\ v + 1 = t /\ w + 1 = u
  BY DEF Sizes
<1>3. (v + 1) % d = (w + 1) % d
  <2>1. v % d = w % d
    BY <1>1, <1>2
  <2>2. (v + 1) % d = IF v % d = d - 1 THEN 0 ELSE (v % d) + 1
    BY <1>2, RestProperties
  <2>3. (w + 1) % d = IF w % d = d - 1 THEN 0 ELSE (w % d) + 1
    BY <1>2, RestProperties
  <2> QED BY <2>1, <2>2, <2>3
<1> QED BY <1>1, <1>2, <1>3 DEF StreamOf

(* Kernels of work_alpha that clash are ordered.                           *)
LEMMA AlphaOrdered ==
  ASSUME Sizes, ~fba.globalstore,
         NEW c, NEW z, NEW P, NEW G, NEW Q, NEW H, LocalPlan(c, z, P, G, Q, H),
         NEW j, NEW t, AlphaTurn(P, G, j, t), NEW k, NEW u, AlphaTurn(P, G, k, u),
         j < k, Clash(c[j], c[k]) \/ Clash(c[k], c[j])
  PROVE  j \in After(c, k)
<1>0. z \in Nat /\ Turns(c, 0, z, AlphaStreams, 4, P, G) /\ fba.N \in Nat
  BY DEF LocalPlan, Sizes
<1>1. /\ t \in 0..fba.N /\ j \in 1..z - 1 /\ c[j].stream = StreamOf(t)
      /\ \/ /\ c[j].op \in AlphaOps /\ c[j].i = t /\ (j = P[t] \/ j = P[t] + 1)
            /\ c[j].op = "alpha" => t >= 1 /\ j = P[t]
         \/ c[j].op = "gamma" /\ c[j].i = t - 1 /\ t >= 1
  BY AlphaTurns
<1>2. /\ u \in 0..fba.N /\ k \in 1..z - 1 /\ c[k].stream = StreamOf(u)
      /\ \/ /\ c[k].op \in AlphaOps /\ c[k].i = u /\ (k = P[u] \/ k = P[u] + 1)
            /\ c[k].op = "alpha" => u >= 1 /\ k = P[u]
         \/ c[k].op = "gamma" /\ c[k].i = u - 1 /\ u >= 1
  BY AlphaTurns
<1>s. j \in Nat /\ k \in Nat /\ 1 <= j
  BY <1>0, <1>1, <1>2
<1>3. CASE StreamOf(t) = StreamOf(u)
  BY <1>1, <1>2, <1>3, <1>s, StreamOrders
<1>4. CASE t >= 1 /\ u >= 1 /\ SlotOf(t - 1) = SlotOf(u - 1)
  <2>1. t \in 1..fba.N /\ u \in 1..fba.N
    BY <1>0, <1>1, <1>2, <1>4
  <2> QED BY <1>3, <1>4, <2>1, SameSlotAlpha
<1>5. CASE c[j].op \in AlphaOps /\ c[k].op = "alpha" /\ u = t + 1
  <2>1. u \in 1..fba.N /\ k = P[u] /\ (j = P[t] \/ j = P[t] + 1) /\ u - 1 = t
    BY <1>0, <1>1, <1>2, <1>5 DEF AlphaOps
  <2>2. \A x \in 0..1, y \in 0..4 - 2 : P[u - 1] + x \in After(c, P[u] + y)
    BY <1>0, <2>1 DEF Turns
  <2>3. t \in 0..fba.N /\ u \in 0..fba.N
    BY <1>1, <1>2
  <2>4. P[t] \in Nat /\ P[u] \in Nat
    BY <1>0, <2>3 DEF Turns
  <2>5. P[t] + 0 \in After(c, P[u] + 0) /\ P[t] + 1 \in After(c, P[u] + 0)
    BY <2>1, <2>2
  <2> QED BY <2>1, <2>4, <2>5
<1>6. CASE c[k].op \in AlphaOps /\ c[j].op = "alpha" /\ t = u + 1
  <2>1. t \in u + 1..fba.N /\ j = P[t] /\ (k = P[u] \/ k = P[u] + 1)
    BY <1>0, <1>1, <1>2, <1>6 DEF AlphaOps
  <2>2. P[u] + 1 < P[t] /\ P[u] \in Nat /\ P[t] \in Nat
    <3>1. u \in 0..fba.N /\ t \in 0..fba.N
      BY <1>1, <1>2
    <3> QED BY <1>0, <2>1, <3>1 DEF Turns
  <2>3. k < j
    BY <2>1, <2>2
  <2> QED BY <1>s, <2>3
<1>7. \/ t = u
      \/ t >= 1 /\ u >= 1 /\ SlotOf(t - 1) = SlotOf(u - 1)
      \/ c[j].op \in AlphaOps /\ c[k].op = "alpha" /\ u = t + 1
      \/ c[k].op \in AlphaOps /\ c[j].op = "alpha" /\ t = u + 1
  BY <1>1, <1>2 DEF Clash, AlphaOps, BetaOps, Users, Uses
<1> QED BY <1>3, <1>4, <1>5, <1>6, <1>7

(* Kernels of work_beta_and_results that clash are ordered.                *)
LEMMA BetaOrdered ==
  ASSUME Sizes, ~fba.globalstore,
         NEW c, NEW z, NEW P, NEW G, NEW Q, NEW H, LocalPlan(c, z, P, G, Q, H),
         NEW j, NEW t, BetaTurn(Q, H, j, t), NEW k, NEW u, BetaTurn(Q, H, k, u),
         j < k, Clash(c[j], c[k]) \/ Clash(c[k], c[j])
  PROVE  j \in After(c, k)
<1>0. /\ z \in Nat /\ Len(c) \in Nat /\ Turns(c, z, Len(c), BetaStreams, 5, Q, H)
      /\ fba.N \in Nat
  BY DEF LocalPlan, Sizes
<1>1. /\ t \in 0..fba.N /\ j \in z + 1..Len(c) /\ c[j].stream = StreamOf(fba.N - t)
      /\ c[j].i = fba.N - t
      /\ \/ /\ c[j].op \in BetaOps /\ (j = Q[t] \/ j = Q[t] + 1)
            /\ c[j].op = "beta" => t >= 1 /\ j = Q[t]
         \/ c[j].op = "gamma" /\ t >= 1
         \/ c[j].op = "message" /\ t >= 1 /\ j = Q[t] + 3
  BY BetaTurns
<1>2. /\ u \in 0..fba.N /\ k \in z + 1..Len(c) /\ c[k].stream = StreamOf(fba.N - u)
      /\ c[k].i = fba.N - u
      /\ \/ /\ c[k].op \in BetaOps /\ (k = Q[u] \/ k = Q[u] + 1)
            /\ c[k].op = "beta" => u >= 1 /\ k = Q[u]
         \/ c[k].op = "gamma" /\ u >= 1
         \/ c[k].op = "message" /\ u >= 1 /\ k = Q[u] + 3
  BY BetaTurns
<1>s. j \in Nat /\ k \in Nat /\ 1 <= j
  BY <1>0, <1>1, <1>2
<1>3. CASE StreamOf(fba.N - t) = StreamOf(fba.N - u)
  BY <1>1, <1>2, <1>3, <1>s, StreamOrders
<1>4. CASE SlotOf(fba.N - t) = SlotOf(fba.N - u)
  BY <1>3, <1>4 DEF SlotOf
<1>q. Q[t] \in Nat /\ Q[u] \in Nat
  BY <1>0, <1>1, <1>2 DEF Turns
<1>5. CASE c[j].op \in BetaOps /\ c[k].op \in {"beta", "message"} /\ u = t + 1
  <2>1. u \in 1..fba.N /\ (k = Q[u] \/ k = Q[u] + 3) /\ (j = Q[t] \/ j = Q[t] + 1) /\ u - 1 = t
    BY <1>0, <1>1, <1>2, <1>5 DEF BetaOps
  <2>2. \A x \in 0..1, y \in 0..5 - 2 : Q[u - 1] + x \in After(c, Q[u] + y)
    BY <1>0, <2>1 DEF Turns
  <2>5. /\ Q[t] + 0 \in After(c, Q[u] + 0) /\ Q[t] + 1 \in After(c, Q[u] + 0)
        /\ Q[t] + 0 \in After(c, Q[u] + 3) /\ Q[t] + 1 \in After(c, Q[u] + 3)
    BY <2>1, <2>2
  <2>6. Q[t] + 0 = Q[t] /\ Q[u] + 0 = Q[u]
    BY <1>q
  <2> QED BY <2>1, <2>5, <2>6
<1>6. CASE c[k].op \in BetaOps /\ c[j].op \in {"beta", "message"} /\ t = u + 1
  <2>1. t \in u + 1..fba.N /\ (j = Q[t] \/ j = Q[t] + 3) /\ (k = Q[u] \/ k = Q[u] + 1)
    BY <1>0, <1>1, <1>2, <1>6 DEF BetaOps
  <2>2. Q[u] + 1 < Q[t]
    BY <1>0, <1>2, <2>1 DEF Turns
  <2>3. k < j
    BY <1>q, <2>1, <2>2
  <2> QED BY <1>s, <2>3
<1>7. \/ c[j].i = c[k].i
      \/ SlotOf(c[j].i) = SlotOf(c[k].i)
      \/ c[j].op \in BetaOps /\ c[k].op \in {"beta", "message"} /\ c[k].i = c[j].i - 1
      \/ c[k].op \in BetaOps /\ c[j].op \in {"beta", "message"} /\ c[j].i = c[k].i - 1
  BY <1>1, <1>2 DEF Clash, AlphaOps, BetaOps, Users, Uses
<1>8. /\ fba.N - t = fba.N - u => t = u
      /\ fba.N - u = (fba.N - t) - 1 => u = t + 1
      /\ fba.N - t = (fba.N - u) - 1 => t = u + 1
  BY SMTT(40), <1>0, <1>1, <1>2
<1>9. \/ t = u
      \/ SlotOf(fba.N - t) = SlotOf(fba.N - u)
      \/ c[j].op \in BetaOps /\ c[k].op \in {"beta", "message"} /\ u = t + 1
      \/ c[k].op \in BetaOps /\ c[j].op \in {"beta", "message"} /\ t = u + 1
  BY <1>1, <1>2, <1>7, <1>8
<1> QED BY <1>3, <1>4, <1>5, <1>6, <1>9

(* Kernels of the local path that clash are ordered: within a pass by      *)
(* streams and events, between passes by the synchronisation.              *)
LEMMA LocalOrdered ==
  ASSUME Sizes, ~fba.globalstore,
         NEW c, NEW z, NEW P, NEW G, NEW Q, NEW H, LocalPlan(c, z, P, G, Q, H)
  PROVE  Ordered(c, Kernels(c))
<1>0. z \in Nat /\ Len(c) \in Nat /\ c[z].op = "synchronize"
  BY DEF LocalPlan
<1>1. ASSUME NEW j \in Kernels(c), NEW k \in Kernels(c), j < k,
             Clash(c[j], c[k]) \/ Clash(c[k], c[j])
      PROVE  j \in After(c, k)
  <2>1. LocalKernel(c, z, P, G, Q, H, j) /\ LocalKernel(c, z, P, G, Q, H, k)
    BY LocalKernels
  <2>2. CASE j \in 1..z - 1 /\ k \in z + 1..Len(c)
    <3>1. j \in Nat /\ k \in Nat /\ 1 <= j /\ j <= z /\ z < k
      BY <1>0, <2>2
    <3> QED BY <1>0, <3>1, SyncOrders
  <2>3. CASE j \in 1..z - 1 /\ k \in 1..z - 1
    <3>1. k \notin z + 1..Len(c) /\ j \notin z + 1..Len(c)
      BY <1>0, <2>3
    <3>2. PICK t : AlphaTurn(P, G, j, t)
      BY <2>1, <3>1 DEF LocalKernel
    <3>3. PICK u : AlphaTurn(P, G, k, u)
      BY <2>1, <3>1 DEF LocalKernel
    <3> QED BY <1>1, <3>2, <3>3, AlphaOrdered
  <2>4. CASE j \in z + 1..Len(c)
    <3>1. k \notin 1..z - 1 /\ j \notin 1..z - 1
      <4>1. j > z /\ j \in Nat
        BY <1>0, <2>4
      <4>2. k \in 1..z - 1 => FALSE
        BY <1>0, <1>1, <4>1
      <4> QED BY <1>0, <4>1, <4>2
    <3>2. PICK t : BetaTurn(Q, H, j, t)
      BY <2>1, <3>1 DEF LocalKernel
    <3>3. PICK u : BetaTurn(Q, H, k, u)
      BY <2>1, <3>1 DEF LocalKernel
    <3> QED BY <1>1, <3>2, <3>3, BetaOrdered
  <2> QED BY <2>1, <2>2, <2>3, <2>4 DEF LocalKernel
<1> QED BY <1>1 DEF Ordered

(* Where the kernels of the local path are queued.                         *)
LEMMA LocalPlaces ==
  ASSUME Sizes, NEW c, NEW z, NEW P, NEW G, NEW Q, NEW H, LocalPlan(c, z, P, G, Q, H)
  PROVE  /\ \A t \in 0..fba.N :
              /\ P[t] \in Nat /\ P[t] < z /\ Q[t] \in Nat /\ Q[t] > z
              /\ P[t] \in Kernels(c) /\ c[P[t]].op \in AlphaMakers /\ c[P[t]].i = t
              /\ Q[t] \in Kernels(c) /\ c[Q[t]].op \in BetaMakers /\ c[Q[t]].i = fba.N - t
         /\ \A t \in 1..fba.N :
              /\ G[t] \in Nat /\ G[t] < P[t] /\ H[t] \in Nat /\ z < H[t] /\ H[t] < Q[t]
              /\ G[t] \in Kernels(c) /\ c[G[t]].op = "gamma" /\ c[G[t]].i = t - 1
              /\ H[t] \in Kernels(c) /\ c[H[t]].op = "gamma" /\ c[H[t]].i = fba.N - t
              /\ Q[t] + 3 \in Kernels(c) /\ c[Q[t] + 3].op = "message"
              /\ c[Q[t] + 3].i = fba.N - t
              /\ P[t - 1] < P[t] /\ Q[t - 1] < Q[t]
<1>0. /\ z \in Nat /\ Len(c) \in Nat /\ z <= Len(c) /\ fba.N \in Nat
      /\ Turns(c, 0, z, AlphaStreams, 4, P, G)
      /\ Turns(c, z, Len(c), BetaStreams, 5, Q, H)
      /\ Kernels(c) = {k \in 1..Len(c) : c[k].op \in KernelOps}
  BY LocalKernels DEF LocalPlan, Sizes
<1>1. ASSUME NEW t \in 0..fba.N
      PROVE  /\ P[t] \in Nat /\ P[t] < z /\ Q[t] \in Nat /\ Q[t] > z
             /\ P[t] \in Kernels(c) /\ c[P[t]].op \in AlphaMakers /\ c[P[t]].i = t
             /\ Q[t] \in Kernels(c) /\ c[Q[t]].op \in BetaMakers /\ c[Q[t]].i = fba.N - t
  <2>1. /\ P[t] \in Nat /\ P[t] > 0 /\ P[t] + 1 < z
        /\ Q[t] \in Nat /\ Q[t] > z /\ Q[t] + 1 < Len(c)
    BY <1>0 DEF Turns
  <2>2. P[t] < z /\ P[t] \in 1..Len(c) /\ Q[t] \in 1..Len(c)
    BY <1>0, <2>1
  <2>3. /\ c[P[t]] = On(StreamOf(t), IF t = 0 THEN "init_alpha" ELSE "alpha", t)
        /\ c[Q[t]] = On(StreamOf(fba.N - t), IF t = 0 THEN "init_beta" ELSE "beta", fba.N - t)
    BY DEF LocalPlan
  <2>4. /\ c[P[t]].op = (IF t = 0 THEN "init_alpha" ELSE "alpha") /\ c[P[t]].i = t
        /\ c[Q[t]].op = (IF t = 0 THEN "init_beta" ELSE "beta") /\ c[Q[t]].i = fba.N - t
    BY <2>3 DEF On
  <2> QED BY <1>0, <2>1, <2>2, <2>4 DEF AlphaMakers, BetaMakers, KernelOps
<1>2. ASSUME NEW t \in 1..fba.N
      PROVE  /\ G[t] \in Nat /\ G[t] < P[t] /\ H[t] \in Nat /\ z < H[t] /\ H[t] < Q[t]
             /\ G[t] \in Kernels(c) /\ c[G[t]].op = "gamma" /\ c[G[t]].i = t - 1
             /\ H[t] \in Kernels(c) /\ c[H[t]].op = "gamma" /\ c[H[t]].i = fba.N - t
             /\ Q[t] + 3 \in Kernels(c) /\ c[Q[t] + 3].op = "message"
             /\ c[Q[t] + 3].i = fba.N - t
             /\ P[t - 1] < P[t] /\ Q[t - 1] < Q[t]
  <2>1. /\ G[t] \in Nat /\ G[t] > 0 /\ G[t] < P[t]
        /\ H[t] \in Nat /\ H[t] > z /\ H[t] < Q[t] /\ Q[t] + (5 - 2) < Len(c)
    BY <1>0 DEF Turns
  <2>2. t \in 0..fba.N /\ t - 1 \in 0..fba.N /\ t \in (t - 1) + 1..fba.N
    BY <1>0
  <2>3. P[t] \in Nat /\ P[t] < z /\ Q[t] \in Nat /\ Q[t] > z /\ P[t - 1] \in Nat /\ Q[t - 1] \in Nat
    BY <1>1, <2>2
  <2>4. P[t - 1] + 1 < P[t] /\ Q[t - 1] + 1 < Q[t]
    BY <1>0, <2>2 DEF Turns
  <2>5. G[t] \in 1..Len(c) /\ H[t] \in 1..Len(c) /\ Q[t] + 3 \in 1..Len(c)
    <3>1. PICK h \in Nat, q \in Nat, l \in Nat, g \in Nat, p \in Nat :
             h = H[t] /\ q = Q[t] /\ l = Len(c) /\ g = G[t] /\ p = P[t]
      BY <1>0, <2>1, <2>3
    <3>2. h > z /\ h < q /\ q + 3 < l /\ g > 0 /\ g < p /\ p < z /\ z <= l
      BY <1>0, <2>1, <2>3, <3>1
    <3>3. h \in 1..l /\ q + 3 \in 1..l /\ g \in 1..l
      BY <1>0, <3>2
    <3> QED BY <3>1, <3>3
  <2>6. /\ c[G[t]] = On(StreamOf(t), "gamma", t - 1)
        /\ c[H[t]] = On(StreamOf(fba.N - t), "gamma", fba.N - t)
        /\ c[Q[t] + 3] = On(StreamOf(fba.N - t), "message", fba.N - t)
    BY DEF LocalPlan
  <2>7. /\ c[G[t]].op = "gamma" /\ c[G[t]].i = t - 1
        /\ c[H[t]].op = "gamma" /\ c[H[t]].i = fba.N - t
        /\ c[Q[t] + 3].op = "message" /\ c[Q[t] + 3].i = fba.N - t
    BY <2>6 DEF On
  <2>8. P[t - 1] < P[t] /\ Q[t - 1] < Q[t] /\ z < H[t]
    <3>1. \A p, q \in Nat : p + 1 < q => p < q
      OBVIOUS
    <3>2. P[t - 1] < P[t]
      BY <2>3, <2>4, <3>1
    <3>3. Q[t - 1] < Q[t]
      BY <2>3, <2>4, <3>1
    <3>4. z < H[t]
      BY <1>0, <2>1
    <3> QED BY <3>2, <3>3, <3>4
  <2> QED BY <1>0, <2>1, <2>5, <2>7, <2>8 DEF KernelOps
<1> QED BY <1>1, <1>2

(* On the local path each row and each table is made once, after what it   *)
(* needs.                                                                  *)
LEMMA LocalMakers ==
  ASSUME Sizes, NEW c, NEW z, NEW P, NEW G, NEW Q, NEW H, LocalPlan(c, z, P, G, Q, H)
  PROVE  \E A, B, M : Makers(c, Kernels(c), A, B, M)
<1> DEFINE N == fba.N
           K == Kernels(c)
           B == [i \in 0..N |-> Q[N - i]]
           M == [i \in 0..N - 1 |-> Q[N - i] + 3]
<1>0. N \in Nat \ {0} /\ z \in Nat
  BY DEF Sizes, LocalPlan
<1>n. /\ \A i \in 0..N : N - i \in 0..N /\ N - (N - i) = i
      /\ \A i \in 0..N - 1 :
           /\ N - i \in 1..N /\ i + 1 \in 1..N /\ i + 1 \in 0..N /\ (i + 1) - 1 = i
           /\ N - (i + 1) = (N - i) - 1 /\ i \in 0..N /\ N - (N - i) = i
  BY <1>0
<1>1. ASSUME NEW i \in 0..N
      PROVE  /\ P[i] \in K /\ c[P[i]].op \in AlphaMakers /\ c[P[i]].i = i
             /\ B[i] \in K /\ c[B[i]].op \in BetaMakers /\ c[B[i]].i = i
  <2>1. B[i] = Q[N - i] /\ N - i \in 0..N /\ N - (N - i) = i
    BY <1>n
  <2>2. Q[N - i] \in K /\ c[Q[N - i]].op \in BetaMakers /\ c[Q[N - i]].i = N - (N - i)
    BY <2>1, LocalPlaces
  <2>3. P[i] \in K /\ c[P[i]].op \in AlphaMakers /\ c[P[i]].i = i
    BY LocalPlaces
  <2> QED BY <2>1, <2>2, <2>3
<1>2. ASSUME NEW i \in 0..N - 1
      PROVE  /\ M[i] \in K /\ c[M[i]].op = "message" /\ c[M[i]].i = i
             /\ P[i] < P[i + 1] /\ B[i + 1] < B[i]
             /\ P[i] < M[i] /\ B[i + 1] < M[i]
  <2>1. /\ N - i \in 1..N /\ i + 1 \in 1..N /\ i + 1 \in 0..N /\ (i + 1) - 1 = i
        /\ N - (i + 1) = (N - i) - 1 /\ i \in 0..N /\ N - (N - i) = i
        /\ N - i \in 0..N /\ N - (i + 1) \in 0..N
    BY <1>n
  <2>2. B[i + 1] = Q[(N - i) - 1] /\ B[i] = Q[N - i] /\ M[i] = Q[N - i] + 3
    BY <2>1
  <2>3. /\ Q[N - i] + 3 \in K /\ c[Q[N - i] + 3].op = "message"
        /\ c[Q[N - i] + 3].i = N - (N - i) /\ Q[(N - i) - 1] < Q[N - i]
    BY <2>1, LocalPlaces
  <2>4. P[(i + 1) - 1] < P[i + 1]
    BY <2>1, LocalPlaces
  <2>5. /\ P[i] \in Nat /\ P[i] < z /\ Q[N - i] \in Nat /\ Q[N - i] > z
        /\ Q[(N - i) - 1] \in Nat
    BY <2>1, LocalPlaces
  <2>6. P[i] < Q[N - i] + 3 /\ Q[(N - i) - 1] < Q[N - i] + 3
    BY <1>0, <2>3, <2>5
  <2> QED BY <2>1, <2>2, <2>3, <2>4, <2>6
<1>3. ASSUME NEW k \in K
      PROVE  /\ c[k].op \in AlphaMakers => k = P[c[k].i]
             /\ c[k].op \in BetaMakers => k = B[c[k].i]
             /\ c[k].op = "message" => k = M[c[k].i]
  <2>1. LocalKernel(c, z, P, G, Q, H, k)
    BY LocalKernels
  <2>2. CASE \E t \in 0..N : AlphaTurn(P, G, k, t)
    <3>1. PICK t : AlphaTurn(P, G, k, t)
      BY <2>2
    <3>2. \/ c[k].op \in AlphaOps /\ c[k].i = t /\ (c[k].op \in AlphaMakers => k = P[t])
          \/ c[k].op = "gamma"
      BY <3>1, AlphaTurns
    <3> QED BY <3>2 DEF AlphaOps, AlphaMakers, BetaMakers
  <2>3. CASE \E t \in 0..N : BetaTurn(Q, H, k, t)
    <3>1. PICK t \in 0..N : BetaTurn(Q, H, k, t)
      BY <2>3
    <3>2. /\ c[k].i = N - t
          /\ \/ c[k].op \in BetaOps /\ (c[k].op \in BetaMakers => k = Q[t])
             \/ c[k].op = "gamma"
             \/ c[k].op = "message" /\ t >= 1 /\ k = Q[t] + 3
      BY <3>1, BetaTurns
    <3>3. N - t \in 0..N /\ N - (N - t) = t /\ (t >= 1 => N - t \in 0..N - 1)
      BY <1>0, <3>1
    <3>4. B[N - t] = Q[t] /\ (t >= 1 => M[N - t] = Q[t] + 3)
      BY <3>3
    <3> QED BY <3>2, <3>4 DEF BetaOps, AlphaMakers, BetaMakers
  <2> QED BY <2>1, <2>2, <2>3 DEF LocalKernel
<1> HIDE DEF B, M
<1>4. Makers(c, K, P, B, M)
  BY <1>1, <1>2, <1>3 DEF Makers
<1> QED BY <1>4

(* On the local path each user of metrics comes after the kernel that      *)
(* computes those of its codeword, with no other for the same slot         *)
(* between.                                                                *)
LEMMA LocalFresh ==
  ASSUME Sizes, ~fba.globalstore,
         NEW c, NEW z, NEW P, NEW G, NEW Q, NEW H, LocalPlan(c, z, P, G, Q, H)
  PROVE  Fresh(c, Kernels(c))
<1> DEFINE N == fba.N
           K == Kernels(c)
<1>0. /\ z \in Nat /\ Len(c) \in Nat /\ N \in Nat
      /\ Turns(c, 0, z, AlphaStreams, 4, P, G)
      /\ Turns(c, z, Len(c), BetaStreams, 5, Q, H)
      /\ fba.depth \in Nat \ {0}
  BY DEF LocalPlan, Sizes
<1>g. \A h \in K : h \in Nat /\ LocalKernel(c, z, P, G, Q, H, h)
  BY LocalKernels
<1>1. ASSUME NEW k \in K, NEW t, AlphaTurn(P, G, k, t), c[k].op \in Users
      PROVE  \E g \in K :
               /\ g < k /\ c[g].op = "gamma" /\ c[g].i = Uses(c[k])
               /\ \A h \in K : h < k /\ c[h].op = "gamma" /\ SlotOf(c[h].i) = SlotOf(c[g].i) => h <= g
  <2>1. t \in 1..N /\ k = P[t] /\ c[k].i = t /\ c[k].op = "alpha" /\ k \in 1..z - 1
    <3>1. /\ t \in 0..N /\ k \in 1..z - 1
          /\ \/ /\ c[k].op \in AlphaOps /\ c[k].i = t
                /\ c[k].op = "alpha" => t >= 1 /\ k = P[t]
             \/ c[k].op = "gamma"
      BY <1>1, AlphaTurns
    <3> QED BY <1>0, <1>1, <3>1 DEF AlphaOps, Users
  <2>2. G[t] \in K /\ c[G[t]].op = "gamma" /\ c[G[t]].i = t - 1 /\ G[t] < P[t] /\ G[t] \in Nat
        /\ P[t] \in Nat
    <3>1. t \in 0..N
      BY <1>0, <2>1
    <3> QED BY <2>1, <3>1, LocalPlaces
  <2>3. ASSUME NEW h \in K, h < k, c[h].op = "gamma", SlotOf(c[h].i) = SlotOf(t - 1)
        PROVE  h <= G[t]
    <3>1. h \notin z + 1..Len(c)
      BY <1>0, <1>g, <2>1, <2>3
    <3>2. PICK u : AlphaTurn(P, G, h, u)
      BY <1>g, <3>1 DEF LocalKernel
    <3>3. u \in 1..N /\ h = G[u] /\ c[h].i = u - 1
      <4>1. /\ u \in 0..N
            /\ \/ c[h].op \in AlphaOps
               \/ c[h].op = "gamma" /\ c[h].i = u - 1 /\ u >= 1 /\ h = G[u]
        BY <3>2, AlphaTurns
      <4> QED BY <1>0, <2>3, <4>1 DEF AlphaOps
    <3>4. (u - 1) % fba.depth = (t - 1) % fba.depth
      BY <2>1, <2>3, <3>3, SameSlotAlpha
    <3>5. CASE u = t
      BY <2>2, <3>3, <3>5
    <3>6. CASE u < t
      <4>1. t \in u + 1..N /\ u \in 0..N
        BY <1>0, <2>1, <3>3, <3>6
      <4>2. P[u] + (4 - 2) < G[t] /\ G[u] < P[u] /\ G[u] \in Nat /\ P[u] \in Nat
        BY <1>0, <3>3, <3>4, <4>1 DEF Turns
      <4> QED BY <2>2, <3>3, <4>2
    <3>7. CASE t < u
      <4>1. u \in t + 1..N
        BY <1>0, <2>1, <3>3, <3>7
      <4>2. P[t] + (4 - 2) < G[u] /\ G[u] \in Nat
        BY <1>0, <2>1, <3>3, <3>4, <4>1 DEF Turns
      <4> QED BY <2>1, <2>2, <2>3, <3>3, <4>2
    <3> QED BY <1>0, <2>1, <3>3, <3>5, <3>6, <3>7
  <2>4. Uses(c[k]) = t - 1
    BY <2>1 DEF Uses
  <2> QED BY <2>1, <2>2, <2>3, <2>4
<1>2. ASSUME NEW k \in K, NEW t, BetaTurn(Q, H, k, t), c[k].op \in Users
      PROVE  \E g \in K :
               /\ g < k /\ c[g].op = "gamma" /\ c[g].i = Uses(c[k])
               /\ \A h \in K : h < k /\ c[h].op = "gamma" /\ SlotOf(c[h].i) = SlotOf(c[g].i) => h <= g
  <2>1. /\ t \in 1..N /\ (k = Q[t] \/ k = Q[t] + 3) /\ c[k].i = N - t
        /\ c[k].op \in {"beta", "message"}
    <3>1. /\ t \in 0..N /\ c[k].i = N - t
          /\ \/ /\ c[k].op \in BetaOps
                /\ c[k].op = "beta" => t >= 1 /\ k = Q[t]
             \/ c[k].op = "gamma"
             \/ c[k].op = "message" /\ t >= 1 /\ k = Q[t] + 3
      BY <1>2, BetaTurns
    <3> QED BY <1>0, <1>2, <3>1 DEF BetaOps, Users
  <2>2. /\ H[t] \in K /\ c[H[t]].op = "gamma" /\ c[H[t]].i = N - t /\ H[t] < Q[t]
        /\ H[t] \in Nat /\ Q[t] \in Nat /\ z < H[t]
    <3>1. t \in 0..N
      BY <1>0, <2>1
    <3> QED BY <2>1, <3>1, LocalPlaces
  <2>3. ASSUME NEW h \in K, h < k, c[h].op = "gamma", SlotOf(c[h].i) = SlotOf(N - t)
        PROVE  h <= H[t]
    <3>1. CASE h \in 1..z - 1
      BY <1>0, <2>2, <3>1
    <3>2. CASE h \notin 1..z - 1
      <4>1. PICK u : BetaTurn(Q, H, h, u)
        BY <1>g, <3>2 DEF LocalKernel
      <4>2. u \in 1..N /\ h = H[u] /\ c[h].i = N - u
        <5>1. /\ u \in 0..N /\ c[h].i = N - u
              /\ \/ c[h].op \in BetaOps
                 \/ c[h].op = "gamma" /\ u >= 1 /\ h = H[u]
                 \/ c[h].op = "message"
          BY <4>1, BetaTurns
        <5> QED BY <1>0, <2>3, <5>1 DEF BetaOps
      <4>3. (u - 1) % fba.depth = (t - 1) % fba.depth
        <5>1. (N - u) % fba.depth = (N - t) % fba.depth
          BY <2>3, <4>2 DEF SlotOf, StreamOf
        <5> QED BY <1>0, <2>1, <4>2, <5>1, RestMirrored
      <4>5. CASE u = t
        BY <2>2, <4>2, <4>5
      <4>6. CASE u < t
        <5>1. t \in u + 1..N /\ u \in 0..N
          BY <1>0, <2>1, <4>2, <4>6
        <5>2. Q[u] + (5 - 2) < H[t] /\ H[u] < Q[u] /\ H[u] \in Nat /\ Q[u] \in Nat
          BY <1>0, <4>2, <4>3, <5>1 DEF Turns
        <5> QED BY <2>2, <4>2, <5>2
      <4>7. CASE t < u
        <5>1. u \in t + 1..N
          BY <1>0, <2>1, <4>2, <4>7
        <5>2. Q[t] + (5 - 2) < H[u] /\ H[u] \in Nat
          BY <1>0, <2>1, <4>2, <4>3, <5>1 DEF Turns
        <5> QED BY <2>1, <2>2, <2>3, <4>2, <5>2
      <4> QED BY <1>0, <2>1, <4>2, <4>5, <4>6, <4>7
    <3> QED BY <3>1, <3>2
  <2>4. Uses(c[k]) = N - t
    BY <2>1 DEF Uses
  <2>5. H[t] < k
    BY <2>1, <2>2
  <2> QED BY <2>2, <2>3, <2>4, <2>5
<1>3. ASSUME NEW k \in K, c[k].op \in Users
      PROVE  \E g \in K :
               /\ g < k /\ c[g].op = "gamma" /\ c[g].i = Uses(c[k])
               /\ \A h \in K : h < k /\ c[h].op = "gamma" /\ SlotOf(c[h].i) = SlotOf(c[g].i) => h <= g
  <2>1. CASE \E t \in 0..N : AlphaTurn(P, G, k, t)
    BY <1>1, <1>3, <2>1
  <2>2. CASE \E t \in 0..N : BetaTurn(Q, H, k, t)
    BY <1>2, <1>3, <2>2
  <2> QED BY <1>g, <2>1, <2>2 DEF LocalKernel
<1> QED BY <1>3 DEF Fresh

(* The queue of the local path is one that decode() may make.              *)
LEMMA LocalQueue ==
  ASSUME Sizes, ~fba.globalstore
  PROVE  Queue(LocalAlpha \o LocalBetaAndResults)
<1>1. PICK c : c = LocalAlpha \o LocalBetaAndResults
  OBVIOUS
<1>2. PICK z, P, G, Q, H : LocalPlan(c, z, P, G, Q, H)
  BY <1>1, LocalPlanned
<1>3. Queue(c)
  BY <1>2, LocalKernels, LocalOrdered, LocalFresh, LocalMakers DEF Queue
<1> QED BY <1>1, <1>3

(***************************************************************************)
(* The global path is ordered                                              *)
(***************************************************************************)
Appended(s, q, r) ==
  /\ Len(r) = Len(s) + Len(q)
  /\ \A x \in 1..Len(s) : r[x] = s[x]
  /\ \A x \in 1..Len(q) : r[Len(s) + x] = q[x]

(* The parts of two sequences in one.                                      *)
LEMMA Appends ==
  ASSUME NEW T, NEW s \in Seq(T), NEW q \in Seq(T)
  PROVE  s \o q \in Seq(T) /\ Appended(s, q, s \o q)
<1>1. Len(s) \in Nat /\ Len(q) \in Nat
  OBVIOUS
<1>2. /\ s \o q \in Seq(T) /\ Len(s \o q) = Len(s) + Len(q)
      /\ \A x \in 1..Len(s) + Len(q) :
           (s \o q)[x] = IF x <= Len(s) THEN s[x] ELSE q[x - Len(s)]
  BY ConcatProperties
<1>3. ASSUME NEW x \in 1..Len(s) PROVE (s \o q)[x] = s[x]
  <2>1. x \in 1..Len(s) + Len(q) /\ x <= Len(s)
    BY <1>1
  <2> QED BY <1>2, <2>1
<1>4. ASSUME NEW x \in 1..Len(q) PROVE (s \o q)[Len(s) + x] = q[x]
  <2>1. Len(s) + x \in 1..Len(s) + Len(q) /\ ~(Len(s) + x <= Len(s)) /\ (Len(s) + x) - Len(s) = x
    BY <1>1
  <2> QED BY <1>2, <2>1
<1> QED BY <1>2, <1>3, <1>4 DEF Appended

(* Where the commands of the global path are.                              *)
GlobalStage(i) ==
  <<On(0, "alpha", i), On(1, "beta", fba.N - i), On(0, "normalize_alpha", i),
    On(1, "normalize_beta", fba.N - i)>>
GlobalStages == [i \in 1..fba.N |-> GlobalStage(i)]
GlobalStart ==
  <<On(0, "init_alpha", 0), On(1, "init_beta", fba.N),
    On(0, "normalize_alpha", 0), On(1, "normalize_beta", fba.N)>>
GlobalMetrics == [i \in 1..fba.N |-> On(Default, "gamma", i - 1)]
GlobalMessages == [i \in 1..fba.N |-> On(Default, "message", i - 1)]

(* The parts of the queue of the global path.                              *)
LEMMA GlobalParts ==
  ASSUME Sizes
  PROVE  /\ GlobalPath = GlobalMetrics \o Sync \o GlobalStart \o FlattenSeq(GlobalStages)
                           \o Sync \o GlobalMessages \o Sync
         /\ GlobalMetrics \in Seq(Cmd) /\ Len(GlobalMetrics) = fba.N
         /\ GlobalMessages \in Seq(Cmd) /\ Len(GlobalMessages) = fba.N
         /\ GlobalStart \in Seq(Cmd) /\ Len(GlobalStart) = 4
         /\ Sync \in Seq(Cmd) /\ Len(Sync) = 1
         /\ GlobalStages \in [1..fba.N -> Seq(Cmd)]
         /\ \A i \in 1..fba.N : Len(GlobalStages[i]) = 4
<1>0. fba.N \in Nat /\ \A i \in 1..fba.N : fba.N - i \in Int /\ i - 1 \in Int /\ i \in Int
  BY DEF Sizes
<1>1. \A s \in Int, i \in Int : \A op \in KernelOps \union {"wait", "record", "synchronize"} :
         On(s, op, i) \in Cmd
  BY DEF On, Cmd
<1>2. GlobalPath = GlobalMetrics \o Sync \o GlobalStart \o FlattenSeq(GlobalStages)
                     \o Sync \o GlobalMessages \o Sync
  BY DEF GlobalPath, GlobalMetrics, GlobalMessages, GlobalStart, GlobalStages, GlobalStage
<1>3. GlobalMetrics \in Seq(Cmd) /\ Len(GlobalMetrics) = fba.N
  <2>1. Default \in Int /\ \A i \in 1..fba.N : On(Default, "gamma", i - 1) \in Cmd
    BY <1>0, <1>1 DEF Default, KernelOps
  <2> QED BY <1>0, <2>1 DEF GlobalMetrics
<1>4. GlobalMessages \in Seq(Cmd) /\ Len(GlobalMessages) = fba.N
  <2>1. Default \in Int /\ \A i \in 1..fba.N : On(Default, "message", i - 1) \in Cmd
    BY <1>0, <1>1 DEF Default, KernelOps
  <2> QED BY <1>0, <2>1 DEF GlobalMessages
<1>5. GlobalStart \in Seq(Cmd) /\ Len(GlobalStart) = 4
  <2>1. /\ On(0, "init_alpha", 0) \in Cmd /\ On(1, "init_beta", fba.N) \in Cmd
        /\ On(0, "normalize_alpha", 0) \in Cmd /\ On(1, "normalize_beta", fba.N) \in Cmd
    BY <1>0, <1>1 DEF KernelOps
  <2> QED BY <2>1 DEF GlobalStart
<1>6. Sync \in Seq(Cmd) /\ Len(Sync) = 1
  <2>1. On(Default, "synchronize", 0) \in Cmd
    BY <1>1 DEF Default
  <2> QED BY <2>1 DEF Sync
<1>7. ASSUME NEW i \in 1..fba.N PROVE GlobalStages[i] \in Seq(Cmd) /\ Len(GlobalStages[i]) = 4
  <2>1. /\ On(0, "alpha", i) \in Cmd /\ On(1, "beta", fba.N - i) \in Cmd
        /\ On(0, "normalize_alpha", i) \in Cmd /\ On(1, "normalize_beta", fba.N - i) \in Cmd
    BY <1>0, <1>1 DEF KernelOps
  <2>2. GlobalStages[i] = GlobalStage(i)
    BY DEF GlobalStages
  <2> QED BY <2>1, <2>2 DEF GlobalStage
<1>8. GlobalStages \in [1..fba.N -> Seq(Cmd)]
  BY <1>7 DEF GlobalStages
<1> QED BY <1>2, <1>3, <1>4, <1>5, <1>6, <1>7, <1>8

(* The stages of the global path, one after the other.                     *)
LEMMA GlobalFlattened ==
  ASSUME Sizes, NEW F, F = FlattenSeq(GlobalStages)
  PROVE  /\ F \in Seq(Cmd) /\ Len(F) = 4 * fba.N
         /\ \A i \in 1..fba.N : \A y \in 1..4 : F[4 * (i - 1) + y] = GlobalStages[i][y]
<1> DEFINE N == fba.N
<1>0. N \in Nat \ {0}
  BY DEF Sizes
<1>1. GlobalStages \in [1..N -> Seq(Cmd)] /\ \A i \in 1..N : Len(GlobalStages[i]) = 4
  BY GlobalParts
<1>2. F \in Seq(Cmd) /\ \E off : Offsets(GlobalStages, N, off) /\ Flattened(GlobalStages, N, F, off)
  BY <1>0, <1>1, FlattenedParts
<1>3. PICK off : Offsets(GlobalStages, N, off) /\ Flattened(GlobalStages, N, F, off)
  BY <1>2
<1> DEFINE G == {j \in 0..N : off[j] = 4 * j}
<1>4. 0 \in G
  BY <1>0, <1>3 DEF Offsets
<1>5. ASSUME NEW j \in 1..N, j - 1 \in G PROVE j \in G
  <2>1. off[j] = off[j - 1] + Len(GlobalStages[j]) /\ off[j - 1] = 4 * (j - 1)
    BY <1>3, <1>5 DEF Offsets
  <2>2. off[j] = 4 * (j - 1) + 4
    BY <1>1, <2>1
  <2> QED BY <2>2
<1> HIDE DEF G
<1>6. \A j \in 0..N : j \in G
  BY <1>0, <1>4, <1>5, IntervalInduction
<1>7. \A j \in 0..N : off[j] = 4 * j
  BY <1>6 DEF G
<1>8. Len(F) = 4 * N
  BY SMTT(40), <1>0, <1>3, <1>7 DEF Flattened
<1>9. ASSUME NEW i \in 1..N, NEW y \in 1..4 PROVE F[4 * (i - 1) + y] = GlobalStages[i][y]
  <2>1. i - 1 \in 0..N /\ y \in 1..Len(GlobalStages[i])
    <3>1. Len(GlobalStages[i]) = 4
      BY <1>1
    <3>2. i - 1 \in 0..N
      BY <1>0
    <3> QED BY <3>1, <3>2
  <2>2. F[off[i - 1] + y] = GlobalStages[i][y]
    BY <1>3, <2>1 DEF Flattened
  <2> QED BY <1>7, <2>1, <2>2
<1> QED BY <1>2, <1>8, <1>9

GlobalPlan(c) ==
  /\ c \in Seq(Cmd) /\ Len(c) = 6 * fba.N + 7
  /\ \A i \in 1..fba.N :
       /\ c[i] = On(Default, "gamma", i - 1)
       /\ c[5 * fba.N + 6 + i] = On(Default, "message", i - 1)
  /\ \A k \in {fba.N + 1, 5 * fba.N + 6, 6 * fba.N + 7} : c[k].op = "synchronize"
  /\ \A i \in 0..fba.N :
       /\ c[fba.N + 2 + 4 * i] = On(0, IF i = 0 THEN "init_alpha" ELSE "alpha", i)
       /\ c[fba.N + 3 + 4 * i] = On(1, IF i = 0 THEN "init_beta" ELSE "beta", fba.N - i)
       /\ c[fba.N + 4 + 4 * i] = On(0, "normalize_alpha", i)
       /\ c[fba.N + 5 + 4 * i] = On(1, "normalize_beta", fba.N - i)

(* Where the commands of the global path are queued.                       *)
LEMMA GlobalPlanned ==
  ASSUME Sizes
  PROVE  GlobalPlan(GlobalPath)
<1> DEFINE N == fba.N
           F == FlattenSeq(GlobalStages)
<1>0. N \in Nat \ {0}
  BY DEF Sizes
<1>1. /\ GlobalMetrics \in Seq(Cmd) /\ Len(GlobalMetrics) = N
      /\ GlobalMessages \in Seq(Cmd) /\ Len(GlobalMessages) = N
      /\ GlobalStart \in Seq(Cmd) /\ Len(GlobalStart) = 4
      /\ Sync \in Seq(Cmd) /\ Len(Sync) = 1
  BY GlobalParts
<1>2. /\ F \in Seq(Cmd) /\ Len(F) = 4 * N
      /\ \A i \in 1..N : \A y \in 1..4 : F[4 * (i - 1) + y] = GlobalStages[i][y]
  BY GlobalFlattened
<1> HIDE DEF F
<1>3. PICK a : a = GlobalMetrics \o Sync
  OBVIOUS
<1>4. a \in Seq(Cmd) /\ Appended(GlobalMetrics, Sync, a)
  BY <1>1, <1>3, Appends
<1>5. PICK b : b = a \o GlobalStart
  OBVIOUS
<1>6. b \in Seq(Cmd) /\ Appended(a, GlobalStart, b)
  BY <1>1, <1>4, <1>5, Appends
<1>7. PICK d : d = b \o F
  OBVIOUS
<1>8. d \in Seq(Cmd) /\ Appended(b, F, d)
  BY <1>2, <1>6, <1>7, Appends
<1>9. PICK e : e = d \o Sync
  OBVIOUS
<1>10. e \in Seq(Cmd) /\ Appended(d, Sync, e)
  BY <1>1, <1>8, <1>9, Appends
<1>11. PICK f : f = e \o GlobalMessages
  OBVIOUS
<1>12. f \in Seq(Cmd) /\ Appended(e, GlobalMessages, f)
  BY <1>1, <1>10, <1>11, Appends
<1>13. PICK c : c = f \o Sync
  OBVIOUS
<1>14. c \in Seq(Cmd) /\ Appended(f, Sync, c)
  BY <1>1, <1>12, <1>13, Appends
<1>15. c = GlobalPath
  <2>1. GlobalPath = GlobalMetrics \o Sync \o GlobalStart \o F \o Sync \o GlobalMessages \o Sync
    BY GlobalParts DEF F
  <2> QED BY <1>3, <1>5, <1>7, <1>9, <1>11, <1>13, <2>1
<1>16. /\ Len(a) = N + 1 /\ Len(b) = N + 5 /\ Len(d) = 5 * N + 5
       /\ Len(e) = 5 * N + 6 /\ Len(f) = 6 * N + 6 /\ Len(c) = 6 * N + 7
  <2>1. Len(a) = N + 1
    BY <1>0, <1>1, <1>4 DEF Appended
  <2>2. Len(b) = N + 5
    BY <1>0, <1>1, <1>6, <2>1 DEF Appended
  <2>3. Len(d) = 5 * N + 5
    BY <1>0, <1>2, <1>8, <2>2 DEF Appended
  <2>4. Len(e) = 5 * N + 6
    BY <1>0, <1>1, <1>10, <2>3 DEF Appended
  <2>5. Len(f) = 6 * N + 6
    <3>1. Len(f) = Len(e) + Len(GlobalMessages)
      BY <1>12 DEF Appended
    <3>2. Len(f) = (5 * N + 6) + N
      BY <1>1, <2>4, <3>1
    <3> QED BY <1>0, <3>2
  <2>6. Len(c) = 6 * N + 7
    BY <1>0, <1>1, <1>14, <2>5 DEF Appended
  <2> QED BY <2>1, <2>2, <2>3, <2>4, <2>5, <2>6
<1>a. \A x \in 1..N : a[x] = GlobalMetrics[x]
  BY <1>1, <1>4 DEF Appended
<1>b. a[N + 1] = Sync[1]
  BY <1>0, <1>1, <1>4 DEF Appended
<1>c. /\ \A x \in 1..N + 1 : b[x] = a[x]
      /\ \A x \in 1..4 : b[N + 1 + x] = GlobalStart[x]
  BY <1>0, <1>1, <1>6, <1>16 DEF Appended
<1>d. /\ \A x \in 1..N + 5 : d[x] = b[x]
      /\ \A x \in 1..4 * N : d[N + 5 + x] = F[x]
  BY <1>0, <1>2, <1>8, <1>16 DEF Appended
<1>e. (\A x \in 1..5 * N + 5 : e[x] = d[x]) /\ e[5 * N + 6] = Sync[1]
  <2>1. /\ \A x \in 1..5 * N + 5 : e[x] = d[x]
        /\ \A x \in 1..1 : e[5 * N + 5 + x] = Sync[x]
    BY <1>0, <1>1, <1>10, <1>16 DEF Appended
  <2>2. 1 \in 1..1 /\ 5 * N + 5 + 1 = 5 * N + 6
    BY <1>0
  <2> QED BY <2>1, <2>2
<1>f. /\ \A x \in 1..5 * N + 6 : f[x] = e[x]
      /\ \A x \in 1..N : f[5 * N + 6 + x] = GlobalMessages[x]
  BY <1>0, <1>1, <1>12, <1>16 DEF Appended
<1>g. (\A x \in 1..6 * N + 6 : c[x] = f[x]) /\ c[6 * N + 7] = Sync[1]
  <2>1. /\ \A x \in 1..6 * N + 6 : c[x] = f[x]
        /\ \A x \in 1..1 : c[6 * N + 6 + x] = Sync[x]
    BY <1>0, <1>1, <1>14, <1>16 DEF Appended
  <2>2. 1 \in 1..1 /\ 6 * N + 6 + 1 = 6 * N + 7
    BY <1>0
  <2> QED BY <2>1, <2>2
<1>h. Sync[1].op = "synchronize"
  BY DEF Sync, On
<1>i. \A x \in 1..5 * N + 5 : c[x] = d[x]
  <2>1. ASSUME NEW x \in 1..5 * N + 5 PROVE c[x] = d[x]
    <3>1. x \in 1..6 * N + 6 /\ x \in 1..5 * N + 6
      BY <1>0
    <3> QED BY <1>e, <1>f, <1>g, <3>1
  <2> QED BY <2>1
<1>j. \A x \in 1..N + 5 : c[x] = b[x]
  <2>1. ASSUME NEW x \in 1..N + 5 PROVE c[x] = b[x]
    <3>1. x \in 1..5 * N + 5
      BY <1>0
    <3> QED BY <1>d, <1>i, <3>1
  <2> QED BY <2>1
<1>17. ASSUME NEW i \in 1..N
       PROVE  c[i] = On(Default, "gamma", i - 1) /\ c[5 * N + 6 + i] = On(Default, "message", i - 1)
  <2>1. c[i] = GlobalMetrics[i]
    <3>1. i \in 1..N + 5 /\ i \in 1..N + 1
      BY <1>0
    <3> QED BY <1>a, <1>c, <1>j, <3>1
  <2>2. c[5 * N + 6 + i] = GlobalMessages[i]
    <3>1. 5 * N + 6 + i \in 1..6 * N + 6
      BY <1>0
    <3> QED BY <1>f, <1>g, <3>1
  <2> QED BY <2>1, <2>2 DEF GlobalMetrics, GlobalMessages
<1>18. \A k \in {N + 1, 5 * N + 6, 6 * N + 7} : c[k].op = "synchronize"
  <2>1. c[N + 1] = Sync[1]
    <3>1. N + 1 \in 1..N + 5 /\ N + 1 \in 1..N + 1
      BY <1>0
    <3> QED BY <1>b, <1>c, <1>j, <3>1
  <2>2. c[5 * N + 6] = Sync[1]
    <3>1. 5 * N + 6 \in 1..6 * N + 6 /\ 5 * N + 6 \in 1..5 * N + 6
      BY <1>0
    <3> QED BY <1>e, <1>f, <1>g, <3>1
  <2> QED BY <1>g, <1>h, <2>1, <2>2
<1>19. ASSUME NEW i \in 0..N
       PROVE  /\ c[N + 2 + 4 * i] = On(0, IF i = 0 THEN "init_alpha" ELSE "alpha", i)
              /\ c[N + 3 + 4 * i] = On(1, IF i = 0 THEN "init_beta" ELSE "beta", N - i)
              /\ c[N + 4 + 4 * i] = On(0, "normalize_alpha", i)
              /\ c[N + 5 + 4 * i] = On(1, "normalize_beta", N - i)
  <2>1. CASE i = 0
    <3>1. \A x \in 1..4 : c[N + 1 + x] = GlobalStart[x]
      <4>1. ASSUME NEW x \in 1..4 PROVE c[N + 1 + x] = GlobalStart[x]
        <5>1. N + 1 + x \in 1..N + 5
          BY <1>0
        <5> QED BY <1>c, <1>j, <5>1
      <4> QED BY <4>1
    <3>2. /\ N + 2 + 4 * i = N + 1 + 1 /\ N + 3 + 4 * i = N + 1 + 2
          /\ N + 4 + 4 * i = N + 1 + 3 /\ N + 5 + 4 * i = N + 1 + 4 /\ N - i = N
      BY <1>0, <2>1
    <3>3. /\ c[N + 1 + 1] = GlobalStart[1] /\ c[N + 1 + 2] = GlobalStart[2]
          /\ c[N + 1 + 3] = GlobalStart[3] /\ c[N + 1 + 4] = GlobalStart[4]
      BY <3>1
    <3>4. /\ GlobalStart[1] = On(0, "init_alpha", 0) /\ GlobalStart[2] = On(1, "init_beta", N)
          /\ GlobalStart[3] = On(0, "normalize_alpha", 0)
          /\ GlobalStart[4] = On(1, "normalize_beta", N)
      BY DEF GlobalStart
    <3> QED BY <2>1, <3>2, <3>3, <3>4
  <2>2. CASE i # 0
    <3>1. i \in 1..N
      BY <1>0, <2>2
    <3>2. \A y \in 1..4 : c[N + 5 + (4 * (i - 1) + y)] = GlobalStages[i][y]
      <4>1. ASSUME NEW y \in 1..4 PROVE c[N + 5 + (4 * (i - 1) + y)] = GlobalStages[i][y]
        <5>1. 4 * (i - 1) + y \in 1..4 * N /\ N + 5 + (4 * (i - 1) + y) \in 1..5 * N + 5
          BY <1>0, <3>1
        <5> QED BY <1>2, <1>d, <1>i, <3>1, <5>1
      <4> QED BY <4>1
    <3>3. /\ N + 2 + 4 * i = N + 5 + (4 * (i - 1) + 1)
          /\ N + 3 + 4 * i = N + 5 + (4 * (i - 1) + 2)
          /\ N + 4 + 4 * i = N + 5 + (4 * (i - 1) + 3)
          /\ N + 5 + 4 * i = N + 5 + (4 * (i - 1) + 4)
      BY <1>0, <3>1
    <3>4. /\ c[N + 2 + 4 * i] = GlobalStages[i][1] /\ c[N + 3 + 4 * i] = GlobalStages[i][2]
          /\ c[N + 4 + 4 * i] = GlobalStages[i][3] /\ c[N + 5 + 4 * i] = GlobalStages[i][4]
      BY <3>2, <3>3
    <3>5. GlobalStages[i] = GlobalStage(i)
      BY <3>1 DEF GlobalStages
    <3>6. /\ GlobalStage(i)[1] = On(0, "alpha", i) /\ GlobalStage(i)[2] = On(1, "beta", N - i)
          /\ GlobalStage(i)[3] = On(0, "normalize_alpha", i)
          /\ GlobalStage(i)[4] = On(1, "normalize_beta", N - i)
      BY DEF GlobalStage
    <3> QED BY <2>2, <3>4, <3>5, <3>6
  <2> QED BY <2>1, <2>2
<1>20. GlobalPlan(c)
  BY <1>14, <1>16, <1>17, <1>18, <1>19 DEF GlobalPlan
<1> QED BY <1>15, <1>20

GlobalKernel(x, k) ==
  \/ x.op = "gamma" /\ x.stream = Default /\ k = x.i + 1
  \/ /\ x.op \in AlphaOps /\ x.stream = 0 /\ k > fba.N
     /\ x.op \in AlphaMakers => k = fba.N + 2 + 4 * x.i
  \/ /\ x.op \in BetaOps /\ x.stream = 1 /\ k > fba.N
     /\ x.op \in BetaMakers => k = fba.N + 3 + 4 * (fba.N - x.i)
  \/ x.op = "message" /\ x.stream = Default /\ k = 5 * fba.N + 7 + x.i

(* The kernels of the global path, by their places.                        *)
LEMMA GlobalKernels ==
  ASSUME Sizes, NEW c, GlobalPlan(c)
  PROVE  /\ Kernels(c) = {k \in 1..6 * fba.N + 7 : c[k].op \in KernelOps} /\ Kernels(c) \subseteq Nat
         /\ \A k \in Kernels(c) : Kind(c[k]) /\ GlobalKernel(c[k], k)
<1> DEFINE N == fba.N
<1>0. N \in Nat \ {0} /\ 6 * N + 7 \in Nat
  BY DEF Sizes
<1>1. Kernels(c) = {k \in 1..6 * N + 7 : c[k].op \in KernelOps} /\ Kernels(c) \subseteq Nat
  BY <1>0, KernelsAre DEF GlobalPlan
<1>2. ASSUME NEW k \in Kernels(c) PROVE Kind(c[k]) /\ GlobalKernel(c[k], k)
  <2>1. k \in 1..6 * N + 7 /\ c[k].op \in KernelOps
    BY <1>1
  <2>2. k \notin {N + 1, 5 * N + 6, 6 * N + 7}
    <3>1. "synchronize" \notin KernelOps
      BY DEF KernelOps
    <3> QED BY <2>1, <3>1 DEF GlobalPlan
  <2>3. \/ k \in 1..N
        \/ k \in N + 2..5 * N + 5
        \/ k \in 5 * N + 7..6 * N + 6
    BY <1>0, <2>1, <2>2
  <2>4. CASE k \in 1..N
    <3>1. c[k] = On(Default, "gamma", k - 1)
      BY <2>4 DEF GlobalPlan
    <3>2. c[k].op = "gamma" /\ c[k].i = k - 1 /\ c[k].stream = Default
      BY <3>1 DEF On
    <3>3. k - 1 \in 0..N - 1 /\ k = (k - 1) + 1
      BY <1>0, <2>4
    <3> QED BY <3>2, <3>3 DEF Kind, GlobalKernel
  <2>5. CASE k \in 5 * N + 7..6 * N + 6
    <3>1. PICK i \in 1..N : k = 5 * N + 6 + i
      <4>1. k - (5 * N + 6) \in 1..N /\ k = 5 * N + 6 + (k - (5 * N + 6))
        BY <1>0, <2>5
      <4> QED BY <4>1
    <3>2. c[k] = On(Default, "message", i - 1)
      BY <3>1 DEF GlobalPlan
    <3>3. c[k].op = "message" /\ c[k].i = i - 1 /\ c[k].stream = Default
      BY <3>2 DEF On
    <3>4. i - 1 \in 0..N - 1 /\ k = 5 * N + 7 + (i - 1)
      BY <1>0, <3>1
    <3> QED BY <3>3, <3>4 DEF Kind, GlobalKernel
  <2>6. CASE k \in N + 2..5 * N + 5
    <3>1. PICK i \in 0..N, y \in 2..5 : k = N + y + 4 * i
      <4>1. PICK m \in 0..4 * N + 3 : m = k - (N + 2)
        BY <1>0, <2>6
      <4>2. m \div 4 \in 0..N /\ m % 4 \in 0..3 /\ m = 4 * (m \div 4) + (m % 4)
        BY <1>0, <4>1
      <4>3. PICK i \in 0..N, r \in 0..3 : m = 4 * i + r
        BY <4>2
      <4>4. r + 2 \in 2..5 /\ k = N + (r + 2) + 4 * i
        BY <1>0, <2>6, <4>1, <4>3
      <4> QED BY <4>3, <4>4
    <3>2. i \in 0..N /\ N - i \in 0..N /\ k > N /\ N - (N - i) = i
          /\ (i # 0 => i \in 1..N /\ N - i \in 0..N - 1)
          /\ (i = 0 => N - i = N)
      BY <1>0, <3>1
    <3>3. CASE y = 2
      <4>1. c[k] = On(0, IF i = 0 THEN "init_alpha" ELSE "alpha", i)
        BY <3>1, <3>3 DEF GlobalPlan
      <4>2. c[k].op = (IF i = 0 THEN "init_alpha" ELSE "alpha") /\ c[k].i = i /\ c[k].stream = 0
        BY <4>1 DEF On
      <4> QED BY <3>1, <3>2, <3>3, <4>2 DEF Kind, GlobalKernel, AlphaOps, AlphaMakers
    <3>4. CASE y = 3
      <4>1. c[k] = On(1, IF i = 0 THEN "init_beta" ELSE "beta", N - i)
        BY <3>1, <3>4 DEF GlobalPlan
      <4>2. c[k].op = (IF i = 0 THEN "init_beta" ELSE "beta") /\ c[k].i = N - i /\ c[k].stream = 1
        BY <4>1 DEF On
      <4> QED BY <3>1, <3>2, <3>4, <4>2 DEF Kind, GlobalKernel, BetaOps, BetaMakers
    <3>5. CASE y = 4
      <4>1. c[k] = On(0, "normalize_alpha", i)
        BY <3>1, <3>5 DEF GlobalPlan
      <4>2. c[k].op = "normalize_alpha" /\ c[k].i = i /\ c[k].stream = 0
        BY <4>1 DEF On
      <4> QED BY <3>1, <3>2, <4>2 DEF Kind, GlobalKernel, AlphaOps, AlphaMakers
    <3>6. CASE y = 5
      <4>1. c[k] = On(1, "normalize_beta", N - i)
        BY <3>1, <3>6 DEF GlobalPlan
      <4>2. c[k].op = "normalize_beta" /\ c[k].i = N - i /\ c[k].stream = 1
        BY <4>1 DEF On
      <4> QED BY <3>1, <3>2, <4>2 DEF Kind, GlobalKernel, BetaOps, BetaMakers
    <3> QED BY <3>1, <3>3, <3>4, <3>5, <3>6
  <2> QED BY <2>3, <2>4, <2>5, <2>6
<1> QED BY <1>1, <1>2

(* Kernels of the global path that clash are ordered: by their stream, or  *)
(* by a synchronisation or the default stream.                             *)
LEMMA GlobalOrdered ==
  ASSUME Sizes, NEW c, GlobalPlan(c)
  PROVE  Ordered(c, Kernels(c))
<1>1. ASSUME NEW j \in Kernels(c), NEW k \in Kernels(c), j < k,
             Clash(c[j], c[k]) \/ Clash(c[k], c[j])
      PROVE  j \in After(c, k)
  <2>1. j \in Nat /\ k \in Nat /\ 1 <= j
    <3>1. 6 * fba.N + 7 \in Nat
      BY DEF Sizes
    <3> QED BY <3>1, GlobalKernels
  <2>2. GlobalKernel(c[j], j) /\ GlobalKernel(c[k], k)
    BY GlobalKernels
  <2>3. CASE Default \in {c[j].stream, c[k].stream}
    <3>1. j \in 1..k - 1
      BY <1>1, <2>1
    <3> QED BY <2>3, <3>1 DEF After
  <2>4. CASE c[j].stream = c[k].stream
    BY <1>1, <2>1, <2>4, StreamOrders
  <2>5. CASE c[j].op \in AlphaOps /\ c[k].op \in BetaOps
    BY <1>1, <2>5 DEF Clash, AlphaOps, BetaOps, Users
  <2>6. CASE c[j].op \in BetaOps /\ c[k].op \in AlphaOps
    BY <1>1, <2>6 DEF Clash, AlphaOps, BetaOps, Users
  <2> QED BY <2>2, <2>3, <2>4, <2>5, <2>6 DEF GlobalKernel
<1> QED BY <1>1 DEF Ordered

(* The queue of the global path is one that decode() may make.             *)
LEMMA GlobalQueue ==
  ASSUME Sizes, fba.globalstore
  PROVE  Queue(GlobalPath)
<1> DEFINE N == fba.N
           A == [i \in 0..N |-> N + 2 + 4 * i]
           B == [i \in 0..N |-> N + 3 + 4 * (N - i)]
           M == [i \in 0..N - 1 |-> 5 * N + 7 + i]
<1>0. N \in Nat \ {0}
  BY DEF Sizes
<1>1. PICK c : c = GlobalPath
  OBVIOUS
<1>2. GlobalPlan(c)
  BY <1>1, GlobalPlanned
<1> DEFINE K == Kernels(c)
<1>3. /\ K = {k \in 1..6 * N + 7 : c[k].op \in KernelOps} /\ K \subseteq Nat
      /\ \A k \in K : Kind(c[k]) /\ GlobalKernel(c[k], k)
  BY <1>2, GlobalKernels
<1> HIDE DEF K
<1>4. ASSUME NEW i \in 0..N
      PROVE  /\ A[i] \in K /\ c[A[i]].op \in AlphaMakers /\ c[A[i]].i = i
             /\ B[i] \in K /\ c[B[i]].op \in BetaMakers /\ c[B[i]].i = i
  <2>1. N - i \in 0..N /\ N - (N - i) = i
    BY <1>0
  <2>2. A[i] = N + 2 + 4 * i /\ B[i] = N + 3 + 4 * (N - i)
    OBVIOUS
  <2>3. /\ c[N + 2 + 4 * i] = On(0, IF i = 0 THEN "init_alpha" ELSE "alpha", i)
        /\ c[N + 3 + 4 * (N - i)] = On(1, IF N - i = 0 THEN "init_beta" ELSE "beta", N - (N - i))
    BY <1>2, <2>1 DEF GlobalPlan
  <2>4. /\ c[A[i]].op = (IF i = 0 THEN "init_alpha" ELSE "alpha") /\ c[A[i]].i = i
        /\ c[B[i]].op = (IF N - i = 0 THEN "init_beta" ELSE "beta") /\ c[B[i]].i = i
    BY <2>1, <2>2, <2>3 DEF On
  <2>5. A[i] \in 1..6 * N + 7 /\ B[i] \in 1..6 * N + 7
    <3>1. \A j \in 0..N : N + 2 + 4 * j \in 1..6 * N + 7 /\ N + 3 + 4 * j \in 1..6 * N + 7
      BY <1>0
    <3> HIDE DEF A, B
    <3> QED BY <2>1, <2>2, <3>1
  <2> QED BY <1>3, <2>4, <2>5 DEF KernelOps, AlphaMakers, BetaMakers
<1>5. ASSUME NEW i \in 0..N - 1
      PROVE  /\ M[i] \in K /\ c[M[i]].op = "message" /\ c[M[i]].i = i
             /\ A[i] < A[i + 1] /\ B[i + 1] < B[i]
             /\ A[i] < M[i] /\ B[i + 1] < M[i]
  <2>1. i \in 0..N /\ i + 1 \in 0..N /\ i + 1 \in 1..N
    BY <1>0
  <2>2. /\ A[i] = N + 2 + 4 * i /\ B[i] = N + 3 + 4 * (N - i) /\ M[i] = 5 * N + 7 + i
        /\ A[i + 1] = N + 2 + 4 * (i + 1) /\ B[i + 1] = N + 3 + 4 * (N - (i + 1))
    BY <2>1
  <2>3. c[5 * N + 6 + (i + 1)] = On(Default, "message", (i + 1) - 1)
    BY <1>2, <2>1 DEF GlobalPlan
  <2>4. 5 * N + 6 + (i + 1) = M[i] /\ (i + 1) - 1 = i /\ M[i] \in 1..6 * N + 7
    <3>1. /\ 5 * N + 6 + (i + 1) = 5 * N + 7 + i /\ (i + 1) - 1 = i
          /\ 5 * N + 7 + i \in 1..6 * N + 7
      BY <1>0
    <3> HIDE DEF M
    <3> QED BY <2>2, <3>1
  <2>5. c[M[i]].op = "message" /\ c[M[i]].i = i
    BY <2>3, <2>4 DEF On
  <2>6. A[i] < A[i + 1] /\ B[i + 1] < B[i] /\ A[i] < M[i] /\ B[i + 1] < M[i]
    <3>1. /\ N + 2 + 4 * i < N + 2 + 4 * (i + 1)
          /\ N + 3 + 4 * (N - (i + 1)) < N + 3 + 4 * (N - i)
          /\ N + 2 + 4 * i < 5 * N + 7 + i
          /\ N + 3 + 4 * (N - (i + 1)) < 5 * N + 7 + i
      BY <1>0
    <3> HIDE DEF A, B, M
    <3> QED BY <2>2, <3>1
  <2> QED BY <1>3, <2>4, <2>5, <2>6 DEF KernelOps
<1>6. ASSUME NEW k \in K
      PROVE  /\ c[k].op \in AlphaMakers => k = A[c[k].i]
             /\ c[k].op \in BetaMakers => k = B[c[k].i]
             /\ c[k].op = "message" => k = M[c[k].i]
  <2>1. Kind(c[k]) /\ GlobalKernel(c[k], k)
    BY <1>3
  <2>2. /\ c[k].op \in AlphaMakers => c[k].i \in 0..N
        /\ c[k].op \in BetaMakers => c[k].i \in 0..N
        /\ c[k].op = "message" => c[k].i \in 0..N - 1
    BY <1>0, <2>1 DEF Kind, AlphaMakers, BetaMakers
  <2>3. /\ c[k].op \in AlphaMakers => k = N + 2 + 4 * c[k].i
        /\ c[k].op \in BetaMakers => k = N + 3 + 4 * (N - c[k].i)
        /\ c[k].op = "message" => k = 5 * N + 7 + c[k].i
    BY <2>1 DEF GlobalKernel, AlphaMakers, BetaMakers, AlphaOps, BetaOps
  <2> QED BY <2>2, <2>3
<1>7. Makers(c, K, A, B, M)
  <2> HIDE DEF A, B, M
  <2> QED BY <1>4, <1>5, <1>6 DEF Makers
<1>8. ASSUME NEW k \in K, c[k].op \in Users
      PROVE  \E g \in K :
               /\ g < k /\ c[g].op = "gamma" /\ c[g].i = Uses(c[k])
               /\ \A h \in K : h < k /\ c[h].op = "gamma" /\ SlotOf(c[h].i) = SlotOf(c[g].i) => h <= g
  <2>1. Kind(c[k]) /\ GlobalKernel(c[k], k)
    BY <1>3
  <2>2. Uses(c[k]) \in 0..N - 1
    BY <1>0, <1>8, <2>1 DEF Kind, Users, Uses
  <2>3. k > N
    <3>1. CASE c[k].op = "message"
      <4>1. k = 5 * N + 7 + c[k].i /\ c[k].i \in 0..N - 1
        BY <2>1, <3>1 DEF Kind, GlobalKernel, AlphaOps, BetaOps
      <4>2. \A i \in 0..N - 1 : 5 * N + 7 + i > N
        BY <1>0
      <4> QED BY <4>1, <4>2
    <3>2. CASE c[k].op # "message"
      BY <1>8, <2>1, <3>2 DEF GlobalKernel, Users
    <3> QED BY <3>1, <3>2
  <2>4. PICK g \in 1..N : g - 1 = Uses(c[k])
    <3>1. Uses(c[k]) + 1 \in 1..N /\ (Uses(c[k]) + 1) - 1 = Uses(c[k])
      BY <1>0, <2>2
    <3> QED BY <3>1
  <2>5. c[g] = On(Default, "gamma", g - 1)
    BY <1>2 DEF GlobalPlan
  <2>6. c[g].op = "gamma" /\ c[g].i = g - 1
    BY <2>5 DEF On
  <2>7. g \in K
    <3>1. g \in 1..6 * N + 7
      BY <1>0, <2>4
    <3> QED BY <1>3, <2>6, <3>1 DEF KernelOps
  <2>8. g < k
    BY <1>0, <1>3, <2>3, <2>4
  <2>9. ASSUME NEW h \in K, c[h].op = "gamma", SlotOf(c[h].i) = SlotOf(c[g].i) PROVE h <= g
    <3>1. c[h].i = g - 1
      BY <2>6, <2>9 DEF SlotOf
    <3>2. h = c[h].i + 1
      <4>1. GlobalKernel(c[h], h)
        BY <1>3
      <4> QED BY <2>9, <4>1 DEF GlobalKernel, AlphaOps, BetaOps
    <3>3. g \in Nat
      BY <1>0, <2>4
    <3> QED BY <3>1, <3>2, <3>3
  <2> QED BY <2>4, <2>6, <2>7, <2>8, <2>9
<1>9. Fresh(c, K)
  BY <1>8 DEF Fresh
<1>10. Ordered(c, K)
  BY <1>2, GlobalOrdered DEF K
<1>11. Queue(c)
  BY <1>3, <1>7, <1>9, <1>10 DEF Queue, K
<1> QED BY <1>1, <1>11

(* What decode() queues is what the device relies on.                      *)
LEMMA CommandsContract ==
  ASSUME Sizes, fba.globalstore \in BOOLEAN
  PROVE  Contract(Launched(Commands))
<1>1. Queue(Commands)
  <2>1. CASE fba.globalstore
    BY <2>1, GlobalQueue DEF Commands
  <2>2. CASE ~fba.globalstore
    BY <2>2, LocalQueue DEF Commands
  <2> QED BY <2>1, <2>2
<1> QED BY <1>1, QueueIsContract

(***************************************************************************)
(* What kernels compute                                                    *)
(***************************************************************************)
(* The metrics of codeword i are in their slot.                            *)
InPlace(i) == \A s \in States : gamma[InRow(i, s)] = Metrics[i][s]

AlphaMade(i) ==
  alpha[i] = IF i = 0 THEN Prior0(trellis.sof)
             ELSE AlphaRow(i - 1, alpha[i - 1], Kept(alpha[i - 1], fba.th_inner))
BetaMade(i) ==
  beta[i] = IF i = fba.N THEN Prior0(trellis.eof)
            ELSE BetaRow(i, beta[i + 1], Kept(beta[i + 1], fba.th_inner))
SymbolMade(i) ==
  ptable[i] = SymbolTable(i, alpha[i], beta[i + 1], Kept(alpha[i], fba.th_inner))

(* With the metrics in place, a kernel reads the weight of a step.         *)
LEMMA MetricIsStep ==
  ASSUME Ready, NEW i \in Codewords, InPlace(i), NEW s \in States, NEW t \in States,
         t \in Reach(i, s)
  PROVE  Metric(i, s, t) = Steps[i][s][t]
<1>1. Steps[i][s][t] = Total([d \in Alphabet |-> Metrics[i][s][d][t]])
  BY StepsProperties
<1>2. gamma[InRow(i, s)] = Metrics[i][s]
  BY DEF InPlace
<1> QED BY <1>1, <1>2 DEF Metric

(* The alpha kernel makes a row of the forward pass.                       *)
LEMMA ForwardMakes ==
  ASSUME Ready, NEW i \in 1..fba.N, InPlace(i - 1), Row(alpha[i - 1])
  PROVE  Forward(i) = AlphaRow(i - 1, alpha[i - 1], Kept(alpha[i - 1], fba.th_inner))
<1> DEFINE h == i - 1
           row == alpha[h]
           K == Kept(row, fba.th_inner)
           f(t) == [s \in {s \in K : t \in Reach(h, s)} |-> row[s] * Metric(h, s, t)]
<1>0. h \in Codewords
  BY Parameters DEF Ready, Codewords
<1>1. Forward(i) = [t \in States |-> Total(f(t))]
  BY DEF Forward
<1>2. Row(row) /\ InPlace(h)
  OBVIOUS
<1> HIDE DEF row
<1>3. K \subseteq States
  BY KeptAreStates
<1> HIDE DEF h, K
<1>5. ASSUME NEW t \in States PROVE Total(f(t)) = Sum(Ahead(States, Steps, h, row, t), K)
  <2>1. DOMAIN f(t) \subseteq K /\ DOMAIN f(t) = {s \in K : t \in Reach(h, s)}
    BY <1>3
  <2>2. ASSUME NEW s \in DOMAIN f(t) PROVE f(t)[s] = row[s] * Steps[h][s][t]
    <3>1. s \in States /\ s \in K /\ t \in Reach(h, s)
      BY <1>3
    <3>2. Metric(h, s, t) = Steps[h][s][t]
      BY <1>0, <1>2, <3>1, MetricIsStep
    <3> QED BY <3>2
  <2>3. \A s \in K \ DOMAIN f(t) : row[s] = 0 \/ t \notin Reach(h, s)
    BY <2>1
  <2> HIDE DEF f
  <2> QED BY <1>0, <1>2, <1>3, <2>1, <2>2, <2>3, ForwardTotal
<1>6. [t \in States |-> Total(f(t))] = AlphaRow(h, row, K)
  BY <1>5 DEF AlphaRow
<1> HIDE DEF f
<1> QED BY <1>1, <1>6 DEF K, row, h

(* The beta kernel makes a row of the backward pass.                       *)
LEMMA BackwardMakes ==
  ASSUME Ready, NEW i \in Codewords, InPlace(i), Row(beta[i + 1])
  PROVE  Backward(i) = BetaRow(i, beta[i + 1], Kept(beta[i + 1], fba.th_inner))
<1> DEFINE row == beta[i + 1]
           K == Kept(row, fba.th_inner)
           f(s) == [t \in Reach(i, s) \intersect K |-> row[t] * Metric(i, s, t)]
<1>1. Backward(i) = [s \in States |-> Total(f(s))]
  BY DEF Backward
<1>2. Row(row)
  OBVIOUS
<1> HIDE DEF row
<1>3. K \subseteq States
  BY KeptAreStates
<1> HIDE DEF K
<1>5. ASSUME NEW s \in States PROVE Total(f(s)) = Sum(Behind(States, Steps, i, row, s), K)
  <2>1. DOMAIN f(s) \subseteq K /\ DOMAIN f(s) = Reach(i, s) \intersect K
    OBVIOUS
  <2>2. ASSUME NEW t \in DOMAIN f(s) PROVE f(s)[t] = row[t] * Steps[i][s][t]
    <3>1. t \in States /\ t \in Reach(i, s)
      BY <1>3
    <3>2. Metric(i, s, t) = Steps[i][s][t]
      BY <3>1, MetricIsStep
    <3> QED BY <3>2
  <2>3. \A t \in K \ DOMAIN f(s) : row[t] = 0 \/ t \notin Reach(i, s)
    BY <2>1
  <2> HIDE DEF f
  <2>4. \A t \in States : Steps[i][s][t] \in Nat /\ (t \notin Reach(i, s) => Steps[i][s][t] = 0)
    BY StepsProperties
  <2> QED BY <1>2, <1>3, <2>1, <2>2, <2>3, <2>4, BackwardTotal
<1>6. [s \in States |-> Total(f(s))] = BetaRow(i, row, K)
  BY <1>5 DEF BetaRow
<1> HIDE DEF f
<1> QED BY <1>1, <1>6 DEF K, row

(* The message kernel makes the posteriors of its codeword.                *)
LEMMA MessageMakes ==
  ASSUME Ready, NEW i \in Codewords, InPlace(i), Row(alpha[i]), Row(beta[i + 1])
  PROVE  Message(i) = SymbolTable(i, alpha[i], beta[i + 1], Kept(alpha[i], fba.th_inner))
<1> DEFINE x == alpha[i]
           y == beta[i + 1]
           K == Kept(x, fba.th_inner)
           f(d, s) == [t \in Reach(i, s) |-> y[t] * gamma[InRow(i, s)][d][t]]
           F(d) == [s \in K |-> x[s] * Total(f(d, s))]
<1>1. Message(i) = [d \in Alphabet |-> Total(F(d))]
  BY DEF Message
<1>2. Row(x) /\ Row(y)
  OBVIOUS
<1>3. K \subseteq States
  BY KeptAreStates
<1> HIDE DEF x, y, K
<1>5. ASSUME NEW d \in Alphabet, NEW s \in K
      PROVE  Total(f(d, s)) = SymbolRow(i, d, y)[s]
  <2>1. DOMAIN f(d, s) = Reach(i, s)
    OBVIOUS
  <2>2. ASSUME NEW t \in DOMAIN f(d, s) PROVE f(d, s)[t] = y[t] * Metrics[i][s][d][t]
    BY <1>3 DEF InPlace
  <2>3. s \in States
    BY <1>3
  <2> HIDE DEF f
  <2> QED BY <1>2, <2>1, <2>2, <2>3, SymbolTotal
<1> HIDE DEF f
<1>6. ASSUME NEW d \in Alphabet
      PROVE  Total(F(d)) = Sum(Meets(States, x, SymbolRow(i, d, y)), K)
  <2>1. DOMAIN F(d) = K
    OBVIOUS
  <2>2. \A s \in DOMAIN F(d) : F(d)[s] = x[s] * SymbolRow(i, d, y)[s]
    BY <1>5
  <2> HIDE DEF F
  <2> QED BY <1>2, <1>3, <2>1, <2>2, MessageTotal
<1>7. [d \in Alphabet |-> Total(F(d))] = SymbolTable(i, x, y, K)
  BY <1>6 DEF SymbolTable
<1> HIDE DEF F
<1> QED BY <1>1, <1>7 DEF K, x, y

(* The rows that initialisation makes are rows of weights.                 *)
LEMMA MessagesAreRows ==
  ASSUME Ready
  PROVE  Row(Prior0(trellis.sof)) /\ Row(Prior0(trellis.eof)) /\ Row(NoWeight)
BY EndsAreNumbers DEF Row, NoWeight

(* What is made, of what stays.                                            *)
LEMMA MadeNow ==
  ASSUME fba' = fba, trellis' = trellis, NEW i
  PROVE  /\ (/\ alpha'[i] = IF i = 0 THEN Prior0(trellis.sof)
                           ELSE AlphaRow(i - 1, alpha[i - 1], Kept(alpha[i - 1], fba.th_inner))
             /\ i = 0 \/ alpha'[i - 1] = alpha[i - 1]) => AlphaMade(i)'
         /\ (/\ beta'[i] = IF i = fba.N THEN Prior0(trellis.eof)
                          ELSE BetaRow(i, beta[i + 1], Kept(beta[i + 1], fba.th_inner))
             /\ i = fba.N \/ beta'[i + 1] = beta[i + 1]) => BetaMade(i)'
         /\ (/\ ptable'[i] = SymbolTable(i, alpha[i], beta[i + 1], Kept(alpha[i], fba.th_inner))
             /\ alpha'[i] = alpha[i] /\ beta'[i + 1] = beta[i + 1]) => SymbolMade(i)'
<1>p. States' = States /\ Prior0(trellis.sof)' = Prior0(trellis.sof)
      /\ Prior0(trellis.eof)' = Prior0(trellis.eof)
  BY SameParameters DEF Prior0
<1>1. ASSUME alpha'[i] = IF i = 0 THEN Prior0(trellis.sof)
                         ELSE AlphaRow(i - 1, alpha[i - 1], Kept(alpha[i - 1], fba.th_inner)),
             i = 0 \/ alpha'[i - 1] = alpha[i - 1]
      PROVE  AlphaMade(i)'
  <2>1. CASE i = 0
    BY <1>1, <1>p, <2>1 DEF AlphaMade
  <2>2. CASE i # 0
    <3>1. alpha'[i - 1] = alpha[i - 1]
      BY <1>1, <2>2
    <3>2. alpha'[i] = AlphaRow(i - 1, alpha[i - 1], Kept(alpha[i - 1], fba.th_inner))
      BY <1>1, <2>2
    <3>3. AlphaRow(i - 1, alpha[i - 1], Kept(alpha[i - 1], fba.th_inner))' =
            AlphaRow(i - 1, alpha[i - 1], Kept(alpha[i - 1], fba.th_inner))
      BY <3>1, SameParameters DEF AlphaRow, Kept
    <3> QED BY <2>2, <3>2, <3>3 DEF AlphaMade
  <2> QED BY <2>1, <2>2
<1>2. ASSUME beta'[i] = IF i = fba.N THEN Prior0(trellis.eof)
                        ELSE BetaRow(i, beta[i + 1], Kept(beta[i + 1], fba.th_inner)),
             i = fba.N \/ beta'[i + 1] = beta[i + 1]
      PROVE  BetaMade(i)'
  <2>1. CASE i = fba.N
    BY <1>2, <1>p, <2>1 DEF BetaMade
  <2>2. CASE i # fba.N
    <3>1. beta'[i + 1] = beta[i + 1]
      BY <1>2, <2>2
    <3>2. beta'[i] = BetaRow(i, beta[i + 1], Kept(beta[i + 1], fba.th_inner))
      BY <1>2, <2>2
    <3>3. BetaRow(i, beta[i + 1], Kept(beta[i + 1], fba.th_inner))' =
            BetaRow(i, beta[i + 1], Kept(beta[i + 1], fba.th_inner))
      BY <3>1, SameParameters DEF BetaRow, Kept
    <3> QED BY <2>2, <3>2, <3>3 DEF BetaMade
  <2> QED BY <2>1, <2>2
<1>3. ASSUME ptable'[i] = SymbolTable(i, alpha[i], beta[i + 1], Kept(alpha[i], fba.th_inner)),
             alpha'[i] = alpha[i], beta'[i + 1] = beta[i + 1]
      PROVE  SymbolMade(i)'
  <2>3. Kept(alpha[i], fba.th_inner)' = Kept(alpha[i], fba.th_inner)
    BY <1>3, SameParameters DEF Kept
  <2>4. ASSUME NEW d PROVE SymbolRow(i, d, beta[i + 1])' = SymbolRow(i, d, beta[i + 1])
    BY <1>3, SameParameters DEF SymbolRow
  <2>5. SymbolTable(i, alpha[i], beta[i + 1], Kept(alpha[i], fba.th_inner))' =
          SymbolTable(i, alpha[i], beta[i + 1], Kept(alpha[i], fba.th_inner))
    BY <1>3, <2>3, <2>4, SameParameters DEF SymbolTable
  <2> QED BY <1>3, <2>5 DEF SymbolMade
<1> QED BY <1>1, <1>2, <1>3

(* What is made stays, while what it is made of stays.                     *)
LEMMA MadeStays ==
  ASSUME fba' = fba, trellis' = trellis, NEW i
  PROVE  /\ (/\ AlphaMade(i) /\ alpha'[i] = alpha[i]
             /\ i = 0 \/ alpha'[i - 1] = alpha[i - 1]) => AlphaMade(i)'
         /\ (/\ BetaMade(i) /\ beta'[i] = beta[i]
             /\ i = fba.N \/ beta'[i + 1] = beta[i + 1]) => BetaMade(i)'
         /\ (/\ SymbolMade(i) /\ ptable'[i] = ptable[i]
             /\ alpha'[i] = alpha[i] /\ beta'[i + 1] = beta[i + 1]) => SymbolMade(i)'
<1>1. ASSUME AlphaMade(i), alpha'[i] = alpha[i], i = 0 \/ alpha'[i - 1] = alpha[i - 1]
      PROVE  AlphaMade(i)'
  <2>1. alpha'[i] = IF i = 0 THEN Prior0(trellis.sof)
                    ELSE AlphaRow(i - 1, alpha[i - 1], Kept(alpha[i - 1], fba.th_inner))
    BY <1>1 DEF AlphaMade
  <2> QED BY <1>1, <2>1, MadeNow
<1>2. ASSUME BetaMade(i), beta'[i] = beta[i], i = fba.N \/ beta'[i + 1] = beta[i + 1]
      PROVE  BetaMade(i)'
  <2>1. beta'[i] = IF i = fba.N THEN Prior0(trellis.eof)
                   ELSE BetaRow(i, beta[i + 1], Kept(beta[i + 1], fba.th_inner))
    BY <1>2 DEF BetaMade
  <2> QED BY <1>2, <2>1, MadeNow
<1>3. ASSUME SymbolMade(i), ptable'[i] = ptable[i], alpha'[i] = alpha[i],
             beta'[i + 1] = beta[i + 1]
      PROVE  SymbolMade(i)'
  <2>1. ptable'[i] = SymbolTable(i, alpha[i], beta[i + 1], Kept(alpha[i], fba.th_inner))
    BY <1>3 DEF SymbolMade
  <2> QED BY <1>3, <2>1, MadeNow
<1> QED BY <1>1, <1>2, <1>3

(* Of what the device makes everything is known in the end.                *)
LEMMA AllMade ==
  ASSUME fba \in Decoders, RowsTyped, \A i \in Boundaries : AlphaMade(i) /\ BetaMade(i),
         \A i \in Codewords : SymbolMade(i)
  PROVE  DeviceComplete
<1>0. fba.N \in Nat \ {0}
  BY Parameters
<1>1. alpha[0] = Prior0(trellis.sof) /\ beta[fba.N] = Prior0(trellis.eof)
  <2>1. 0 \in Boundaries /\ fba.N \in Boundaries
    BY <1>0 DEF Boundaries
  <2> QED BY <2>1 DEF AlphaMade, BetaMade
<1>2. ASSUME NEW i \in 1..fba.N
      PROVE  alpha[i] = AlphaRow(i - 1, alpha[i - 1], Kept(alpha[i - 1], fba.th_inner))
  <2>1. i \in Boundaries /\ i # 0
    BY <1>0 DEF Boundaries
  <2> QED BY <2>1 DEF AlphaMade
<1>3. ASSUME NEW i \in Codewords
      PROVE  /\ beta[i] = BetaRow(i, beta[i + 1], Kept(beta[i + 1], fba.th_inner))
             /\ ptable[i] = SymbolTable(i, alpha[i], beta[i + 1], Kept(alpha[i], fba.th_inner))
  <2>1. i \in Boundaries /\ i # fba.N
    BY <1>0 DEF Boundaries, Codewords
  <2> QED BY <2>1 DEF BetaMade, SymbolMade
<1> QED BY <1>1, <1>2, <1>3 DEF DeviceComplete

(***************************************************************************)
(* The device invariant                                                    *)
(***************************************************************************)
(* What runs or has ended has waited for all it had to; L are the kernels. *)
Progress(L, run, ended) ==
  /\ run \intersect ended = {} /\ run \union ended \subseteq DOMAIN L
  /\ \A k \in run \union ended : L[k].after \subseteq ended

(* What the kernels that have ended made is still there.                   *)
Values(L, ended) ==
  \A k \in ended :
    /\ L[k].op \in AlphaMakers => AlphaMade(L[k].i)
    /\ L[k].op \in BetaMakers => BetaMade(L[k].i)
    /\ L[k].op = "message" => SymbolMade(L[k].i)

(* Each slot has the metrics of the last kernel that filled it.            *)
InSlots(L, ended) ==
  \A g \in ended :
    /\ L[g].op = "gamma"
    /\ \A h \in ended : L[h].op = "gamma" /\ SlotOf(L[h].i) = SlotOf(L[g].i) => h <= g
    => InPlace(L[g].i)

DeviceMemory ==
  allocated => /\ DOMAIN gamma = DeviceRows
               /\ DOMAIN alpha = Boundaries /\ DOMAIN beta = Boundaries /\ RowsTyped

Working ==
  /\ Ready /\ allocated /\ DOMAIN ptable = Codewords
  /\ copied.r = trellis.r /\ copied.app = trellis.app
  /\ \E L : L = launched /\ Contract(L)
  /\ Progress(launched, running, finished)
  /\ Values(launched, finished) /\ InSlots(launched, finished)

DeviceStage ==
  \/ pass[1] = "idle" /\ running = {}
  \/ pass[1] = "done" /\ running = {} /\ Ready /\ DeviceComplete
  \/ pass[1] \in {"device", "aborted"} /\ Working

DeviceInv == fba.depth > 1 => DeviceMemory /\ DeviceStage

(* The contract of kernels is about the decoder's parameters only.         *)
LEMMA ContractStays ==
  ASSUME fba' = fba, NEW L, Contract(L)
  PROVE  Contract(L)'
<1>1. ASSUME NEW i PROVE SlotOf(i)' = SlotOf(i)
  BY DEF SlotOf, StreamOf
<1>2. ASSUME NEW x PROVE (Kind(x)' <=> Kind(x)) /\ Uses(x)' = Uses(x)
  BY DEF Kind, Uses
<1>3. ASSUME NEW x, NEW y PROVE Clash(x, y)' <=> Clash(x, y)
  BY DEF Clash, SlotOf, StreamOf, Uses
<1>4. ASSUME NEW c, NEW K PROVE Fresh(c, K)' <=> Fresh(c, K)
  BY DEF Fresh, SlotOf, StreamOf, Uses
<1>5. ASSUME NEW c, NEW K, NEW A, NEW B, NEW M
      PROVE  Makers(c, K, A, B, M)' <=> Makers(c, K, A, B, M)
  BY DEF Makers
<1>6. /\ DOMAIN L \subseteq Nat
      /\ \A k \in DOMAIN L : Kind(L[k])' /\ L[k].after \subseteq DOMAIN L
  BY <1>2 DEF Contract
<1>7. \A j, k \in DOMAIN L :
        j < k /\ (Clash(L[j], L[k])' \/ Clash(L[k], L[j])') => j \in L[k].after
  BY <1>3 DEF Contract
<1>8. Fresh(L, DOMAIN L)'
  BY <1>4 DEF Contract
<1>9. \E A, B, M : Makers(L, DOMAIN L, A, B, M)'
  <2>1. PICK A, B, M : Makers(L, DOMAIN L, A, B, M)
    BY DEF Contract
  <2>2. Makers(L, DOMAIN L, A, B, M)'
    BY <2>1, <1>5
  <2> QED BY <2>2
<1> QED BY <1>6, <1>7, <1>8, <1>9 DEF Contract

(* What clashes with a kernel that began, and is before it, has ended.     *)
LEMMA FinishedBefore ==
  ASSUME NEW L, Contract(L), NEW run, NEW ended, Progress(L, run, ended),
         NEW j \in run \union ended, NEW m \in DOMAIN L, m < j,
         Clash(L[m], L[j]) \/ Clash(L[j], L[m])
  PROVE  m \in ended
<1>1. j \in DOMAIN L /\ L[j].after \subseteq ended
  BY DEF Progress
<1>2. m \in L[j].after
  BY <1>1 DEF Contract
<1> QED BY <1>1, <1>2

(* A kernel that runs finds the metrics it uses in their slot.             *)
LEMMA UserFinds ==
  ASSUME NEW L, Contract(L), NEW run, NEW ended, Progress(L, run, ended),
         InSlots(L, ended), NEW k \in run, L[k].op \in Users
  PROVE  InPlace(Uses(L[k]))
<1>0. k \in DOMAIN L /\ DOMAIN L \subseteq Nat /\ ended \subseteq DOMAIN L /\ k \notin ended
  BY DEF Progress, Contract
<1>1. PICK g \in DOMAIN L :
        /\ g < k /\ L[g].op = "gamma" /\ L[g].i = Uses(L[k])
        /\ \A h \in DOMAIN L :
             h < k /\ L[h].op = "gamma" /\ SlotOf(L[h].i) = SlotOf(L[g].i) => h <= g
  BY <1>0 DEF Contract, Fresh
<1>2. g \in ended
  <2>1. Clash(L[g], L[k])
    BY <1>1 DEF Clash
  <2> QED BY <1>1, <2>1, FinishedBefore
<1>3. ASSUME NEW h \in ended, L[h].op = "gamma", SlotOf(L[h].i) = SlotOf(L[g].i)
      PROVE  h <= g
  <2>1. h \in DOMAIN L /\ h \in Nat /\ k \in Nat
    BY <1>0
  <2>2. CASE h < k
    BY <1>1, <1>3, <2>1, <2>2
  <2>3. CASE h = k
    BY <1>0, <2>3
  <2>4. CASE k < h
    <3>1. Clash(L[h], L[k])
      BY <1>1, <1>3 DEF Clash
    <3>2. k \in ended
      BY <1>0, <2>1, <2>4, <3>1, FinishedBefore
    <3> QED BY <1>0, <3>2
  <2> QED BY <2>1, <2>2, <2>3, <2>4
<1> QED BY <1>1, <1>2, <1>3 DEF InSlots

(* Kernels that run at the same time have nothing to do with each other.   *)
LEMMA RunningApart ==
  ASSUME NEW L, Contract(L), NEW run, NEW ended, Progress(L, run, ended),
         NEW j \in run, NEW k \in run, j # k
  PROVE  ~Clash(L[j], L[k])
<1>0. /\ j \in DOMAIN L /\ k \in DOMAIN L /\ DOMAIN L \subseteq Nat
      /\ j \notin ended /\ k \notin ended
  BY DEF Progress, Contract
<1>1. SUFFICES ASSUME Clash(L[j], L[k]) PROVE FALSE
  OBVIOUS
<1>2. CASE j < k
  BY <1>0, <1>1, <1>2, FinishedBefore
<1>3. CASE k < j
  BY <1>0, <1>1, <1>3, FinishedBefore
<1>4. j < k \/ k < j
  BY <1>0
<1> QED BY <1>2, <1>3, <1>4

(***************************************************************************)
(* A kernel ends                                                           *)
(***************************************************************************)
(* A kernel that has not ended made nothing that one that has ended made,  *)
(* or used.                                                                *)
Others(L, k, ended) ==
  \A j \in ended :
    /\ L[k].op \in AlphaMakers =>
         /\ L[j].op \in AlphaMakers => L[j].i # L[k].i /\ (L[j].i = 0 \/ L[j].i - 1 # L[k].i)
         /\ L[j].op = "message" => L[j].i # L[k].i
    /\ L[k].op \in BetaMakers =>
         /\ L[j].op \in BetaMakers =>
              L[j].i # L[k].i /\ (L[j].i = fba.N \/ L[j].i + 1 # L[k].i)
         /\ L[j].op = "message" => L[j].i + 1 # L[k].i
    /\ L[k].op = "message" /\ L[j].op = "message" => L[j].i # L[k].i
    /\ L[k].op = "gamma" /\ L[j].op = "gamma" /\ SlotOf(L[j].i) = SlotOf(L[k].i) => j < k

(* A kernel that runs leaves what has ended as it is: whatever clashes     *)
(* with it waits.                                                          *)
LEMMA OthersStay ==
  ASSUME NEW L, Contract(L), NEW run, NEW ended, Progress(L, run, ended),
         fba.N \in Nat, NEW k \in run
  PROVE  Others(L, k, ended)
<1>0. /\ k \in DOMAIN L /\ DOMAIN L \subseteq Nat /\ ended \subseteq DOMAIN L /\ k \notin ended
      /\ \A x \in DOMAIN L : Kind(L[x])
  BY DEF Progress, Contract
<1>1. PICK A, B, M : Makers(L, DOMAIN L, A, B, M)
  BY DEF Contract
<1>2. ASSUME NEW j \in ended, k < j PROVE ~Clash(L[k], L[j]) /\ ~Clash(L[j], L[k])
  BY <1>0, <1>2, FinishedBefore
<1>3. ASSUME NEW j \in ended, L[k].op \in AlphaMakers, L[j].op \in AlphaMakers
      PROVE  L[j].i # L[k].i /\ (L[j].i = 0 \/ L[j].i - 1 # L[k].i)
  <2>1. k = A[L[k].i] /\ j = A[L[j].i] /\ k # j
    BY <1>0, <1>1, <1>3 DEF Makers
  <2>2. ASSUME L[j].i # 0, L[j].i - 1 = L[k].i PROVE FALSE
    <3>1. Kind(L[j]) /\ Kind(L[k])
      BY <1>0
    <3>2. L[j].op = "alpha" /\ L[j].i \in 1..fba.N
      BY <1>3, <2>2, <3>1 DEF Kind, AlphaMakers
    <3>3. L[k].i \in 0..fba.N - 1 /\ L[j].i = L[k].i + 1
      BY <2>2, <3>2
    <3>4. A[L[k].i] < A[L[k].i + 1]
      BY <1>1, <3>3 DEF Makers
    <3>5. Clash(L[k], L[j])
      BY <1>3, <3>2, <3>3 DEF Clash, AlphaMakers, AlphaOps
    <3> QED BY <1>2, <2>1, <3>3, <3>4, <3>5
  <2> QED BY <2>1, <2>2
<1>4. ASSUME NEW j \in ended, L[k].op \in AlphaMakers, L[j].op = "message"
      PROVE  L[j].i # L[k].i
  <2>1. k = A[L[k].i] /\ j = M[L[j].i]
    BY <1>0, <1>1, <1>4 DEF Makers
  <2>2. ASSUME L[j].i = L[k].i PROVE FALSE
    <3>1. Kind(L[j])
      BY <1>0
    <3>2. L[j].i \in 0..fba.N - 1
      BY <1>4, <3>1 DEF Kind
    <3>3. A[L[j].i] < M[L[j].i]
      BY <1>1, <3>2 DEF Makers
    <3>4. Clash(L[k], L[j])
      BY <1>4, <2>2 DEF Clash, AlphaMakers, AlphaOps
    <3> QED BY <1>2, <2>1, <2>2, <3>3, <3>4
  <2> QED BY <2>2
<1>5. ASSUME NEW j \in ended, L[k].op \in BetaMakers, L[j].op \in BetaMakers
      PROVE  L[j].i # L[k].i /\ (L[j].i = fba.N \/ L[j].i + 1 # L[k].i)
  <2>1. k = B[L[k].i] /\ j = B[L[j].i] /\ k # j
    BY <1>0, <1>1, <1>5 DEF Makers
  <2>2. ASSUME L[j].i # fba.N, L[j].i + 1 = L[k].i PROVE FALSE
    <3>1. Kind(L[j]) /\ Kind(L[k])
      BY <1>0
    <3>2. L[j].op = "beta" /\ L[j].i \in 0..fba.N - 1
      BY <1>5, <2>2, <3>1 DEF Kind, BetaMakers
    <3>3. L[j].i = L[k].i - 1
      BY <2>2, <3>2
    <3>4. B[L[j].i + 1] < B[L[j].i]
      BY <1>1, <3>2 DEF Makers
    <3>5. Clash(L[k], L[j])
      BY <1>5, <3>2, <3>3 DEF Clash, BetaMakers, BetaOps
    <3> QED BY <1>2, <2>1, <2>2, <3>4, <3>5
  <2> QED BY <2>1, <2>2
<1>6. ASSUME NEW j \in ended, L[k].op \in BetaMakers, L[j].op = "message"
      PROVE  L[j].i + 1 # L[k].i
  <2>1. k = B[L[k].i] /\ j = M[L[j].i]
    BY <1>0, <1>1, <1>6 DEF Makers
  <2>2. ASSUME L[j].i + 1 = L[k].i PROVE FALSE
    <3>1. Kind(L[j])
      BY <1>0
    <3>2. L[j].i \in 0..fba.N - 1
      BY <1>6, <3>1 DEF Kind
    <3>3. B[L[j].i + 1] < M[L[j].i]
      BY <1>1, <3>2 DEF Makers
    <3>4. L[j].i = L[k].i - 1
      BY <2>2, <3>2
    <3>5. Clash(L[k], L[j])
      BY <1>6, <3>4 DEF Clash, BetaMakers, BetaOps
    <3> QED BY <1>2, <2>1, <2>2, <3>3, <3>5
  <2> QED BY <2>2
<1>7. ASSUME NEW j \in ended, L[k].op = "message", L[j].op = "message"
      PROVE  L[j].i # L[k].i
  <2>1. k = M[L[k].i] /\ j = M[L[j].i] /\ k # j
    BY <1>0, <1>1, <1>7 DEF Makers
  <2> QED BY <2>1
<1>8. ASSUME NEW j \in ended, L[k].op = "gamma", L[j].op = "gamma",
             SlotOf(L[j].i) = SlotOf(L[k].i)
      PROVE  j < k
  <2>1. Clash(L[k], L[j])
    BY <1>8 DEF Clash
  <2>2. j \in Nat /\ k \in Nat /\ j # k
    BY <1>0
  <2> QED BY <1>2, <2>1, <2>2
<1> QED BY <1>3, <1>4, <1>5, <1>6, <1>7, <1>8 DEF Others

Between == fba' = fba /\ trellis' = trellis

(* What a kernel does to memory, by its operation.                         *)
LEMMA Effects ==
  ASSUME NEW k, Kind(k), Effect(k)
  PROVE  /\ k.op \in AlphaMakers =>
              /\ alpha' = [alpha EXCEPT ![k.i] = IF k.i = 0 THEN Prior0(trellis.sof)
                                                 ELSE Forward(k.i)]
              /\ beta' = beta /\ gamma' = gamma /\ ptable' = ptable
         /\ k.op \in BetaMakers =>
              /\ beta' = [beta EXCEPT ![k.i] = IF k.i = fba.N THEN Prior0(trellis.eof)
                                               ELSE Backward(k.i)]
              /\ alpha' = alpha /\ gamma' = gamma /\ ptable' = ptable
         /\ k.op = "message" =>
              /\ ptable' = [ptable EXCEPT ![k.i] = Message(k.i)]
              /\ alpha' = alpha /\ beta' = beta /\ gamma' = gamma
         /\ k.op = "gamma" =>
              /\ gamma' = [x \in DeviceRows |->
                             IF x[1] = SlotOf(k.i) THEN R(trellis, copied, k.i, x[2])
                             ELSE gamma[x]]
              /\ alpha' = alpha /\ beta' = beta /\ ptable' = ptable
         /\ k.op \notin AlphaMakers \union BetaMakers \union {"message", "gamma"} =>
              alpha' = alpha /\ beta' = beta /\ gamma' = gamma /\ ptable' = ptable
<1>0. /\ alpha' = CASE k.op = "init_alpha" -> [alpha EXCEPT ![0] = Prior0(trellis.sof)]
                    [] k.op = "alpha" -> [alpha EXCEPT ![k.i] = Forward(k.i)]
                    [] OTHER -> alpha
      /\ beta' = CASE k.op = "init_beta" -> [beta EXCEPT ![fba.N] = Prior0(trellis.eof)]
                   [] k.op = "beta" -> [beta EXCEPT ![k.i] = Backward(k.i)]
                   [] OTHER -> beta
      /\ gamma' = IF k.op # "gamma" THEN gamma
                  ELSE [x \in DeviceRows |->
                          IF x[1] = SlotOf(k.i) THEN R(trellis, copied, k.i, x[2])
                          ELSE gamma[x]]
      /\ ptable' = IF k.op = "message" THEN [ptable EXCEPT ![k.i] = Message(k.i)]
                   ELSE ptable
  <2>1. InRow(k.i, 0)[1] = SlotOf(k.i)
    BY DEF InRow, SlotOf
  <2> QED BY <2>1 DEF Effect
<1>1. /\ k.op = "init_alpha" => k.i = 0
      /\ k.op = "alpha" => k.i # 0
      /\ k.op = "init_beta" => k.i = fba.N
      /\ k.op = "beta" => k.i # fba.N
  <2>1. fba.N \notin 0..fba.N - 1 /\ 0 \notin 1..fba.N
    OBVIOUS
  <2> QED BY <2>1 DEF Kind
<1>2. ASSUME k.op \in AlphaMakers
      PROVE  /\ alpha' = [alpha EXCEPT ![k.i] = IF k.i = 0 THEN Prior0(trellis.sof)
                                                ELSE Forward(k.i)]
             /\ beta' = beta /\ gamma' = gamma /\ ptable' = ptable
  <2>1. CASE k.op = "init_alpha"
    BY <1>0, <1>1, <2>1
  <2>2. CASE k.op = "alpha"
    BY <1>0, <1>1, <2>2
  <2> QED BY <1>2, <2>1, <2>2 DEF AlphaMakers
<1>3. ASSUME k.op \in BetaMakers
      PROVE  /\ beta' = [beta EXCEPT ![k.i] = IF k.i = fba.N THEN Prior0(trellis.eof)
                                              ELSE Backward(k.i)]
             /\ alpha' = alpha /\ gamma' = gamma /\ ptable' = ptable
  <2>1. CASE k.op = "init_beta"
    BY <1>0, <1>1, <2>1
  <2>2. CASE k.op = "beta"
    BY <1>0, <1>1, <2>2
  <2> QED BY <1>3, <2>1, <2>2 DEF BetaMakers
<1>4. k.op = "message" =>
        /\ ptable' = [ptable EXCEPT ![k.i] = Message(k.i)]
        /\ alpha' = alpha /\ beta' = beta /\ gamma' = gamma
  BY <1>0
<1>5. k.op = "gamma" =>
        /\ gamma' = [x \in DeviceRows |->
                       IF x[1] = SlotOf(k.i) THEN R(trellis, copied, k.i, x[2])
                       ELSE gamma[x]]
        /\ alpha' = alpha /\ beta' = beta /\ ptable' = ptable
  BY <1>0
<1>6. k.op \notin AlphaMakers \union BetaMakers \union {"message", "gamma"} =>
        alpha' = alpha /\ beta' = beta /\ gamma' = gamma /\ ptable' = ptable
  BY <1>0 DEF AlphaMakers, BetaMakers
<1> QED BY <1>2, <1>3, <1>4, <1>5, <1>6

(* The memory of the device when rows of weights are made.                 *)
LEMMA RowsStay ==
  ASSUME Between, DeviceMemory, allocated, allocated', NEW i \in Boundaries, NEW row, Row(row),
         \/ alpha' = [alpha EXCEPT ![i] = row] /\ beta' = beta
         \/ alpha' = alpha /\ beta' = [beta EXCEPT ![i] = row]
         \/ alpha' = alpha /\ beta' = beta,
         DOMAIN gamma' = DeviceRows
  PROVE  DeviceMemory'
<1>1. Boundaries' = Boundaries /\ DeviceRows' = DeviceRows /\ States' = States
  BY SameParameters DEF Between, DeviceRows
<1>2. DOMAIN alpha = Boundaries /\ DOMAIN beta = Boundaries
      /\ \A j \in Boundaries : Row(alpha[j]) /\ Row(beta[j])
  BY DEF DeviceMemory, RowsTyped
<1>3. DOMAIN alpha' = Boundaries /\ DOMAIN beta' = Boundaries
  BY <1>2
<1>4. \A j \in Boundaries : Row(alpha'[j]) /\ Row(beta'[j])
  BY <1>2
<1>5. \A j \in Boundaries : Row(alpha[j])' /\ Row(beta[j])'
  BY <1>1, <1>4 DEF Row
<1> QED BY <1>1, <1>3, <1>5 DEF DeviceMemory, RowsTyped

(* The metrics that a kernel computes are in place, and those in other     *)
(* slots stay.                                                             *)
LEMMA GammaMakes ==
  ASSUME Between, Ready, copied.r = trellis.r, copied.app = trellis.app, NEW i \in Codewords,
         gamma' = [x \in DeviceRows |->
                     IF x[1] = SlotOf(i) THEN R(trellis, copied, i, x[2]) ELSE gamma[x]]
  PROVE  /\ InPlace(i)'
         /\ \A j \in Codewords : SlotOf(j) # SlotOf(i) /\ InPlace(j) => InPlace(j)'
<1>0. fba.depth \in Nat \ {0} /\ fba.N \in Nat /\ fba.globalstore \in BOOLEAN
  BY Parameters DEF Ready
<1>1. ASSUME NEW j \in Codewords, NEW s \in States
      PROVE  InRow(j, s) \in DeviceRows /\ InRow(j, s)[1] = SlotOf(j) /\ InRow(j, s)[2] = s
  <2>1. SlotOf(j) \in (IF fba.globalstore THEN Codewords ELSE 0..fba.depth - 1)
    BY <1>0 DEF SlotOf, StreamOf, Codewords
  <2> QED BY <2>1 DEF InRow, SlotOf, DeviceRows
<1>2. States' = States /\ Metrics' = Metrics
  BY SameParameters DEF Between
<1>3. ASSUME NEW j, NEW s PROVE InRow(j, s)' = InRow(j, s)
  BY DEF Between, InRow, StreamOf
<1>4. ASSUME NEW s \in States PROVE gamma'[InRow(i, s)] = Metrics[i][s]
  <2>1. R(trellis, copied, i, s) = Metrics[i][s]
    BY SameMetrics
  <2> QED BY <1>1, <2>1
<1>5. ASSUME NEW j \in Codewords, SlotOf(j) # SlotOf(i), InPlace(j), NEW s \in States
      PROVE  gamma'[InRow(j, s)] = Metrics[j][s]
  <2>1. gamma'[InRow(j, s)] = gamma[InRow(j, s)]
    BY <1>1, <1>5
  <2> QED BY <1>5, <2>1 DEF InPlace
<1>6. InPlace(i)'
  <2>1. ASSUME NEW s \in States' PROVE (gamma[InRow(i, s)] = Metrics[i][s])'
    BY <1>2, <1>3, <1>4
  <2> QED BY <2>1 DEF InPlace
<1>7. ASSUME NEW j \in Codewords, SlotOf(j) # SlotOf(i), InPlace(j) PROVE InPlace(j)'
  <2>1. ASSUME NEW s \in States' PROVE (gamma[InRow(j, s)] = Metrics[j][s])'
    BY <1>2, <1>3, <1>5, <1>7
  <2> QED BY <2>1 DEF InPlace
<1> QED BY <1>6, <1>7

(* Where metrics stay, they stay in place.                                 *)
LEMMA InPlaceStays ==
  ASSUME Between, gamma' = gamma, NEW i
  PROVE  InPlace(i)' <=> InPlace(i)
<1>1. States' = States /\ Metrics' = Metrics
  BY SameParameters DEF Between
<1>2. ASSUME NEW s PROVE InRow(i, s)' = InRow(i, s)
  BY DEF Between, InRow, StreamOf
<1> QED BY <1>1, <1>2 DEF InPlace

(* Metrics are placed when a kernel ends.                                  *)
LEMMA InSlotsStep ==
  ASSUME Between, Ready, copied.r = trellis.r, copied.app = trellis.app,
         NEW L, Contract(L), NEW run, NEW ended, Progress(L, run, ended), InSlots(L, ended),
         NEW k \in run, Effect(L[k])
  PROVE  InSlots(L, ended \union {k})'
<1>0. /\ k \in DOMAIN L /\ DOMAIN L \subseteq Nat /\ ended \subseteq DOMAIN L
      /\ fba.N \in Nat /\ \A x \in DOMAIN L : Kind(L[x])
      /\ Others(L, k, ended)
  <2>1. k \in DOMAIN L /\ DOMAIN L \subseteq Nat /\ ended \subseteq DOMAIN L
        /\ \A x \in DOMAIN L : Kind(L[x])
    BY DEF Progress, Contract
  <2>2. fba.N \in Nat
    BY Parameters DEF Ready
  <2> QED BY <2>1, <2>2, OthersStay
<1>1. ASSUME NEW i PROVE SlotOf(i)' = SlotOf(i)
  BY DEF Between, SlotOf, StreamOf
<1>2. ASSUME NEW g \in ended \union {k}, L[g].op = "gamma",
             \A h \in ended \union {k} :
               L[h].op = "gamma" /\ SlotOf(L[h].i) = SlotOf(L[g].i) => h <= g
      PROVE  InPlace(L[g].i)'
  <2>0. L[g].i \in Codewords
    <3>1. Kind(L[g])
      BY <1>0
    <3> QED BY <1>2, <3>1 DEF Kind, Codewords
  <2>1. CASE L[k].op # "gamma"
    <3>1. gamma' = gamma
      BY <2>1, <1>0, Effects
    <3>2. g \in ended
      BY <1>2, <2>1
    <3>3. InPlace(L[g].i)
      BY <1>2, <3>2 DEF InSlots
    <3> QED BY <3>1, <3>3, InPlaceStays
  <2>2. CASE L[k].op = "gamma"
    <3>0. L[k].i \in Codewords
      <4>1. Kind(L[k])
        BY <1>0
      <4> QED BY <2>2, <4>1 DEF Kind, Codewords
    <3>1. gamma' = [x \in DeviceRows |->
                      IF x[1] = SlotOf(L[k].i) THEN R(trellis, copied, L[k].i, x[2])
                      ELSE gamma[x]]
      BY <2>2, <1>0, Effects
    <3>2. CASE g = k
      BY <3>0, <3>1, <3>2, GammaMakes
    <3>3. CASE g # k
      <4>1. g \in ended
        BY <1>2, <3>3
      <4>2. SlotOf(L[g].i) # SlotOf(L[k].i)
        <5>1. SUFFICES ASSUME SlotOf(L[g].i) = SlotOf(L[k].i) PROVE FALSE
          OBVIOUS
        <5>2. k <= g
          BY <1>2, <2>2, <5>1
        <5>3. g < k
          BY <1>0, <1>2, <2>2, <4>1, <5>1 DEF Others
        <5>4. g \in Nat /\ k \in Nat
          BY <1>0, <4>1
        <5> QED BY <5>2, <5>3, <5>4
      <4>3. InPlace(L[g].i)
        BY <1>2, <4>1 DEF InSlots
      <4> QED BY <2>0, <3>0, <3>1, <4>2, <4>3, GammaMakes
    <3> QED BY <3>2, <3>3
  <2> QED BY <2>1, <2>2
<1> QED BY <1>1, <1>2 DEF InSlots

(* What ended kernels made stays when others are the ones that end.        *)
LEMMA ValuesStay ==
  ASSUME Between, fba.N \in Nat, DOMAIN alpha = Boundaries, DOMAIN beta = Boundaries,
         DOMAIN ptable = Codewords, NEW L, NEW ended, Values(L, ended), NEW k,
         Others(L, k, ended), Kind(L[k]), \A x \in ended : Kind(L[x]), Effect(L[k])
  PROVE  Values(L, ended)'
<1>a. /\ \A x \in Boundaries :
           \/ alpha'[x] = alpha[x]
           \/ L[k].op \in AlphaMakers /\ x = L[k].i
      /\ \A x \in Boundaries :
           \/ beta'[x] = beta[x]
           \/ L[k].op \in BetaMakers /\ x = L[k].i
      /\ \A x \in Codewords :
           \/ ptable'[x] = ptable[x]
           \/ L[k].op = "message" /\ x = L[k].i
  BY Effects
<1>k. ASSUME NEW j \in ended
      PROVE  /\ L[j].op \in AlphaMakers =>
                  L[j].i \in Boundaries /\ (L[j].i = 0 \/ L[j].i - 1 \in Boundaries)
             /\ L[j].op \in BetaMakers =>
                  L[j].i \in Boundaries /\ (L[j].i = fba.N \/ L[j].i + 1 \in Boundaries)
             /\ L[j].op = "message" =>
                  /\ L[j].i \in Codewords /\ L[j].i \in Boundaries /\ L[j].i + 1 \in Boundaries
  <2>1. Kind(L[j])
    OBVIOUS
  <2>2. L[j].op \in AlphaMakers => L[j].i = 0 \/ L[j].i \in 1..fba.N
    BY <2>1 DEF Kind, AlphaMakers
  <2>3. L[j].op \in BetaMakers => L[j].i = fba.N \/ L[j].i \in 0..fba.N - 1
    BY <2>1 DEF Kind, BetaMakers
  <2>4. L[j].op = "message" => L[j].i \in 0..fba.N - 1
    BY <2>1 DEF Kind
  <2>5. \A n \in Nat :
          /\ 0 \in 0..n /\ n \in 0..n
          /\ \A x \in 1..n : x \in 0..n /\ x - 1 \in 0..n
          /\ \A x \in 0..n - 1 : x \in 0..n /\ x + 1 \in 0..n
    OBVIOUS
  <2> QED BY <2>2, <2>3, <2>4, <2>5 DEF Boundaries, Codewords
<1>1. ASSUME NEW j \in ended, L[j].op \in AlphaMakers PROVE AlphaMade(L[j].i)'
  <2> DEFINE i == L[j].i
  <2>1. AlphaMade(i)
    BY <1>1 DEF Values
  <2>2. alpha'[i] = alpha[i] /\ (i = 0 \/ alpha'[i - 1] = alpha[i - 1])
    BY <1>1, <1>a, <1>k DEF Others
  <2> QED BY <2>1, <2>2, MadeStays DEF Between
<1>2. ASSUME NEW j \in ended, L[j].op \in BetaMakers PROVE BetaMade(L[j].i)'
  <2> DEFINE i == L[j].i
  <2>1. BetaMade(i)
    BY <1>2 DEF Values
  <2>2. beta'[i] = beta[i] /\ (i = fba.N \/ beta'[i + 1] = beta[i + 1])
    BY <1>2, <1>a, <1>k DEF Others
  <2> QED BY <2>1, <2>2, MadeStays DEF Between
<1>3. ASSUME NEW j \in ended, L[j].op = "message" PROVE SymbolMade(L[j].i)'
  <2> DEFINE i == L[j].i
  <2>1. SymbolMade(i)
    BY <1>3 DEF Values
  <2>2. ptable'[i] = ptable[i] /\ alpha'[i] = alpha[i] /\ beta'[i + 1] = beta[i + 1]
    BY <1>3, <1>a, <1>k DEF Others
  <2> QED BY <2>1, <2>2, MadeStays DEF Between
<1> QED BY <1>1, <1>2, <1>3 DEF Values

(* A kernel makes what the properties are about.                           *)
LEMMA KernelMakes ==
  ASSUME Between, Ready, DeviceMemory, allocated, DOMAIN ptable = Codewords,
         NEW x, Kind(x), Effect(x), x.op \in Users => InPlace(Uses(x))
  PROVE  /\ x.op \in AlphaMakers => x.i \in Boundaries /\ AlphaMade(x.i)'
              /\ \E row : Row(row) /\ alpha' = [alpha EXCEPT ![x.i] = row] /\ beta' = beta
         /\ x.op \in BetaMakers => x.i \in Boundaries /\ BetaMade(x.i)'
              /\ \E row : Row(row) /\ beta' = [beta EXCEPT ![x.i] = row] /\ alpha' = alpha
         /\ x.op = "message" => SymbolMade(x.i)' /\ DOMAIN ptable' = Codewords
<1>0. /\ fba.N \in Nat /\ DOMAIN alpha = Boundaries /\ DOMAIN beta = Boundaries
      /\ \A j \in Boundaries : Row(alpha[j]) /\ Row(beta[j])
  BY Parameters DEF Ready, DeviceMemory, RowsTyped
<1>n. \A n \in Nat :
        /\ 0 \in 0..n /\ n \in 0..n
        /\ \A i \in 1..n : i \in 0..n /\ i - 1 \in 0..n /\ i - 1 \in 0..n - 1 /\ i # 0 /\ i - 1 # i
        /\ \A i \in 0..n - 1 : i \in 0..n /\ i + 1 \in 0..n /\ i # n /\ i + 1 # i
  OBVIOUS
<1>1. ASSUME x.op = "init_alpha"
      PROVE  /\ x.i \in Boundaries /\ AlphaMade(x.i)'
             /\ \E row : Row(row) /\ alpha' = [alpha EXCEPT ![x.i] = row] /\ beta' = beta
  <2>1. x.i = 0 /\ x.i \in Boundaries
    BY <1>0, <1>1, <1>n DEF Kind, Boundaries
  <2>2. alpha' = [alpha EXCEPT ![x.i] = Prior0(trellis.sof)] /\ beta' = beta
    BY <1>1, <2>1, Effects DEF AlphaMakers
  <2>3. alpha'[x.i] = Prior0(trellis.sof)
    BY <1>0, <2>1, <2>2
  <2>4. AlphaMade(x.i)'
    BY <2>1, <2>3, MadeNow DEF Between
  <2>5. Row(Prior0(trellis.sof))
    BY MessagesAreRows
  <2> QED BY <2>1, <2>2, <2>4, <2>5
<1>2. ASSUME x.op = "alpha"
      PROVE  /\ x.i \in Boundaries /\ AlphaMade(x.i)'
             /\ \E row : Row(row) /\ alpha' = [alpha EXCEPT ![x.i] = row] /\ beta' = beta
  <2> DEFINE i == x.i
             row == AlphaRow(i - 1, alpha[i - 1], Kept(alpha[i - 1], fba.th_inner))
  <2>1. /\ i \in 1..fba.N /\ i # 0 /\ i \in Boundaries /\ i - 1 \in Boundaries
        /\ i - 1 \in Codewords /\ i - 1 # i
    BY <1>0, <1>2, <1>n DEF Kind, Boundaries, Codewords
  <2>2. alpha' = [alpha EXCEPT ![i] = Forward(i)] /\ beta' = beta
    BY <1>2, <2>1, Effects DEF AlphaMakers
  <2>3. InPlace(i - 1)
    BY <1>2 DEF Users, Uses
  <2>4. Row(alpha[i - 1])
    BY <1>0, <2>1
  <2>5. Forward(i) = row
    BY <2>1, <2>3, <2>4, ForwardMakes
  <2>6. Row(row)
    BY <2>1, <2>4, RowsAreRows, KeptAreStates
  <2>7. alpha'[i] = row /\ alpha'[i - 1] = alpha[i - 1]
    BY <1>0, <2>1, <2>2, <2>5
  <2>8. AlphaMade(i)'
    <3> HIDE DEF i
    <3> QED BY <2>1, <2>7, MadeNow DEF Between
  <2> QED BY <2>1, <2>2, <2>5, <2>6, <2>8
<1>3. ASSUME x.op = "init_beta"
      PROVE  /\ x.i \in Boundaries /\ BetaMade(x.i)'
             /\ \E row : Row(row) /\ beta' = [beta EXCEPT ![x.i] = row] /\ alpha' = alpha
  <2>1. x.i = fba.N /\ x.i \in Boundaries
    BY <1>0, <1>3, <1>n DEF Kind, Boundaries
  <2>2. beta' = [beta EXCEPT ![x.i] = Prior0(trellis.eof)] /\ alpha' = alpha
    BY <1>3, <2>1, Effects DEF BetaMakers
  <2>3. beta'[x.i] = Prior0(trellis.eof)
    BY <1>0, <2>1, <2>2
  <2>4. BetaMade(x.i)'
    BY <2>1, <2>3, MadeNow DEF Between
  <2>5. Row(Prior0(trellis.eof))
    BY MessagesAreRows
  <2> QED BY <2>1, <2>2, <2>4, <2>5
<1>4. ASSUME x.op = "beta"
      PROVE  /\ x.i \in Boundaries /\ BetaMade(x.i)'
             /\ \E row : Row(row) /\ beta' = [beta EXCEPT ![x.i] = row] /\ alpha' = alpha
  <2> DEFINE i == x.i
             row == BetaRow(i, beta[i + 1], Kept(beta[i + 1], fba.th_inner))
  <2>1. i \in Codewords /\ i # fba.N /\ i \in Boundaries /\ i + 1 \in Boundaries /\ i + 1 # i
    BY <1>0, <1>4, <1>n DEF Kind, Boundaries, Codewords
  <2>2. beta' = [beta EXCEPT ![i] = Backward(i)] /\ alpha' = alpha
    BY <1>4, <2>1, Effects DEF BetaMakers
  <2>3. InPlace(i)
    BY <1>4 DEF Users, Uses
  <2>4. Row(beta[i + 1])
    BY <1>0, <2>1
  <2>5. Backward(i) = row
    BY <2>1, <2>3, <2>4, BackwardMakes
  <2>6. Row(row)
    BY <2>1, <2>4, RowsAreRows, KeptAreStates
  <2>7. beta'[i] = row /\ beta'[i + 1] = beta[i + 1]
    BY <1>0, <2>1, <2>2, <2>5
  <2>8. BetaMade(i)'
    <3> HIDE DEF i
    <3> QED BY <2>1, <2>7, MadeNow DEF Between
  <2> QED BY <2>1, <2>2, <2>5, <2>6, <2>8
<1>5. ASSUME x.op = "message"
      PROVE  SymbolMade(x.i)' /\ DOMAIN ptable' = Codewords
  <2> DEFINE i == x.i
  <2>1. i \in Codewords /\ i \in Boundaries /\ i + 1 \in Boundaries
    BY <1>0, <1>5, <1>n DEF Kind, Boundaries, Codewords
  <2>2. ptable' = [ptable EXCEPT ![i] = Message(i)] /\ alpha' = alpha /\ beta' = beta
    BY <1>5, Effects
  <2>3. InPlace(i)
    BY <1>5 DEF Users, Uses
  <2>4. Message(i) = SymbolTable(i, alpha[i], beta[i + 1], Kept(alpha[i], fba.th_inner))
    BY <1>0, <2>1, <2>3, MessageMakes
  <2>5. ptable'[i] = SymbolTable(i, alpha[i], beta[i + 1], Kept(alpha[i], fba.th_inner))
    BY <2>1, <2>2, <2>4
  <2>6. SymbolMade(i)'
    <3> HIDE DEF i
    <3> QED BY <2>2, <2>5, MadeNow DEF Between
  <2> QED BY <2>2, <2>6
<1> QED BY <1>1, <1>2, <1>3, <1>4, <1>5 DEF AlphaMakers, BetaMakers

(***************************************************************************)
(* The steps of the device                                                 *)
(***************************************************************************)
(* init() keeps the invariant of the device.                               *)
LEMMA DeviceConfigures ==
  ASSUME HostInv, DeviceInv, fba.depth > 1, Configure, UNCHANGED devicevars
  PROVE  DeviceInv'
<1>1. PICK c \in Decoders :
        /\ DecoderFlags(c) = DecoderFlags(fba) /\ fba' = c
        /\ allocated' = (allocated /\ MemorySizes(c) = MemorySizes(fba))
        /\ IF allocated' THEN UNCHANGED <<gamma, cached, alpha, beta>>
           ELSE /\ gamma' = <<>> /\ cached' = {}
                /\ alpha' = <<>> /\ beta' = <<>>
  BY DEF Configure
<1>2. c.fss = fba.fss /\ c.globalstore = fba.globalstore /\ c.depth = fba.depth
  BY <1>1 DEF DecoderFlags
<1>3. ASSUME allocated'
      PROVE  /\ (DOMAIN gamma = DeviceRows)' /\ (DOMAIN alpha = Boundaries)'
             /\ (DOMAIN beta = Boundaries)' /\ RowsTyped'
  <2>1. allocated /\ c.N = fba.N /\ c.min = fba.min /\ c.max = fba.max
    BY <1>1, <1>3 DEF MemorySizes
  <2>2. gamma' = gamma /\ alpha' = alpha /\ beta' = beta
    BY <1>1, <1>3
  <2>3. States' = States /\ Boundaries' = Boundaries /\ Codewords' = Codewords
    BY <1>1, <1>2, <2>1 DEF States, Boundaries, Codewords
  <2>4. DeviceRows' = DeviceRows
    BY <1>1, <1>2, <2>3 DEF DeviceRows
  <2>5. /\ DOMAIN gamma = DeviceRows /\ DOMAIN alpha = Boundaries /\ DOMAIN beta = Boundaries
        /\ RowsTyped
    BY <2>1 DEF DeviceInv, DeviceMemory
  <2>6. RowsTyped'
    BY <2>2, <2>3, <2>5 DEF RowsTyped, Row
  <2> QED BY <2>2, <2>3, <2>4, <2>5, <2>6
<1>4. DeviceMemory'
  BY <1>3 DEF DeviceMemory
<1>5. running = {}
  BY DEF DeviceInv, DeviceStage, Configure, Resting
<1>6. pass'[1] = "idle" /\ running' = {}
  BY <1>5 DEF Configure, devicevars
<1> QED BY <1>4, <1>6 DEF DeviceInv, DeviceStage

(* decode() on the device keeps its invariant.                             *)
LEMMA DeviceDecodes ==
  ASSUME HostInv, DeviceInv, fba.depth > 1, DeviceDecode
  PROVE  DeviceInv'
<1>0. fba \in Decoders
  BY DEF HostInv
<1>1. PICK f \in Frames : Suits(f) /\ trellis' = f /\ copied' = [r |-> f.r, app |-> f.app]
  BY DEF DeviceDecode
<1>2. /\ fba' = fba /\ allocated' = TRUE /\ pass'[1] = "device"
      /\ running' = {} /\ finished' = {} /\ launched' = Launched(Commands)
      /\ ptable' = [i \in Codewords |-> [d \in Alphabet |-> 0]]
      /\ IF allocated THEN UNCHANGED <<gamma, alpha, beta>>
         ELSE /\ gamma' = [x \in DeviceRows |-> NoMetric]
              /\ alpha' = [i \in Boundaries |-> NoWeight]
              /\ beta' = [i \in Boundaries |-> NoWeight]
  BY DEF DeviceDecode
<1>3. States' = States /\ Boundaries' = Boundaries /\ Codewords' = Codewords
      /\ DeviceRows' = DeviceRows
  BY <1>2 DEF States, Boundaries, Codewords, DeviceRows
<1>4. Ready'
  <2>1. Suits(f)'
    BY <1>1, <1>2 DEF Suits, FrameLength, CwStart, CwLength, Codewords, Alphabet
  <2> QED BY <1>0, <1>1, <1>2, <2>1 DEF Ready
<1>5. DeviceMemory'
  <2>1. /\ DOMAIN gamma' = DeviceRows /\ DOMAIN alpha' = Boundaries /\ DOMAIN beta' = Boundaries
        /\ \A i \in Boundaries : Row(alpha'[i]) /\ Row(beta'[i])
    <3>1. CASE allocated
      BY <1>2, <3>1 DEF DeviceInv, DeviceMemory, RowsTyped
    <3>2. CASE ~allocated
      <4>1. Row(NoWeight)
        BY DEF Row, NoWeight
      <4> QED BY <1>2, <3>2, <4>1
    <3> QED BY <3>1, <3>2
  <2>2. \A i \in Boundaries : Row(alpha[i])' /\ Row(beta[i])'
    BY <1>3, <2>1 DEF Row
  <2> QED BY <1>3, <2>1, <2>2 DEF DeviceMemory, RowsTyped
<1>6. \E L : L = launched' /\ Contract(L)'
  <2>1. Sizes /\ fba.globalstore \in BOOLEAN
    BY <1>0, Parameters DEF Sizes
  <2>2. PICK L : L = Launched(Commands)
    OBVIOUS
  <2>3. Contract(L)
    BY <2>1, <2>2, CommandsContract
  <2>4. Contract(L)'
    BY <1>2, <2>3, ContractStays
  <2> QED BY <1>2, <2>2, <2>4
<1>8. Working'
  <2>1. DOMAIN ptable' = Codewords'
    BY <1>2, <1>3
  <2>2. copied'.r = trellis'.r /\ copied'.app = trellis'.app
    BY <1>1
  <2>3. Progress(launched, running, finished)'
    BY <1>2 DEF Progress
  <2>4. Values(launched, finished)' /\ InSlots(launched, finished)'
    BY <1>2 DEF Values, InSlots
  <2> QED BY <1>2, <1>4, <1>6, <2>1, <2>2, <2>3, <2>4 DEF Working
<1> QED BY <1>2, <1>5, <1>8 DEF DeviceInv, DeviceStage

Still ==
  /\ fba' = fba /\ allocated' = allocated /\ trellis' = trellis /\ copied' = copied
  /\ gamma' = gamma /\ alpha' = alpha /\ beta' = beta /\ ptable' = ptable

(* What stays when the frame and the memory stay.                          *)
LEMMA MemoryStays ==
  ASSUME Still
  PROVE  /\ Codewords' = Codewords
         /\ DeviceMemory => DeviceMemory'
         /\ Ready => Ready'
         /\ DeviceComplete => DeviceComplete'
<1>0. fba' = fba /\ trellis' = trellis
  BY DEF Still
<1>1. /\ Boundaries' = Boundaries /\ Codewords' = Codewords /\ States' = States
      /\ Steps' = Steps /\ \A i, d : SymbolSteps(i, d)' = SymbolSteps(i, d)
  BY <1>0, SameParameters
<1>2. DeviceRows' = DeviceRows
  BY <1>0, <1>1 DEF DeviceRows
<1>3. RowsTyped => RowsTyped'
  BY <1>1 DEF Still, RowsTyped, Row
<1>4. DeviceMemory => DeviceMemory'
  BY <1>1, <1>2, <1>3 DEF Still, DeviceMemory
<1>5. Ready => Ready'
  BY DEF Still, Ready, Suits, FrameLength, CwStart, CwLength, Codewords, Alphabet
<1>6. ASSUME DeviceComplete PROVE DeviceComplete'
  <2>2. RowsTyped' /\ Prior0(trellis.sof)' = Prior0(trellis.sof)
        /\ Prior0(trellis.eof)' = Prior0(trellis.eof)
    BY <1>0, <1>1, <1>3, <1>6 DEF DeviceComplete, Prior0
  <2>3. ASSUME NEW i \in 1..fba.N
        PROVE  (alpha[i] = AlphaRow(i - 1, alpha[i - 1], Kept(alpha[i - 1], fba.th_inner)))'
    <3>1. alpha[i] = AlphaRow(i - 1, alpha[i - 1], Kept(alpha[i - 1], fba.th_inner))
      BY <1>6 DEF DeviceComplete
    <3> QED BY <1>1, <3>1 DEF Still, AlphaRow, Kept
  <2>4. ASSUME NEW i \in Codewords
        PROVE  /\ (beta[i] = BetaRow(i, beta[i + 1], Kept(beta[i + 1], fba.th_inner)))'
               /\ (ptable[i] = SymbolTable(i, alpha[i], beta[i + 1],
                                            Kept(alpha[i], fba.th_inner)))'
    <3>1. /\ beta[i] = BetaRow(i, beta[i + 1], Kept(beta[i + 1], fba.th_inner))
          /\ ptable[i] = SymbolTable(i, alpha[i], beta[i + 1], Kept(alpha[i], fba.th_inner))
      BY <1>6 DEF DeviceComplete
    <3>2. (beta[i] = BetaRow(i, beta[i + 1], Kept(beta[i + 1], fba.th_inner)))'
      BY <1>1, <3>1 DEF Still, BetaRow, Kept
    <3>4. SymbolMade(i)
      BY <3>1 DEF SymbolMade
    <3>5. SymbolMade(i)'
      BY <3>4, MadeStays DEF Still
    <3> QED BY <3>2, <3>5 DEF SymbolMade
  <2>5. alpha[0] = Prior0(trellis.sof) /\ beta[fba.N] = Prior0(trellis.eof)
    BY <1>6 DEF DeviceComplete
  <2> QED BY <1>1, <2>2, <2>3, <2>4, <2>5 DEF Still, DeviceComplete
<1> QED BY <1>1, <1>4, <1>5, <1>6

(* Working goes on when no kernel ends.                                    *)
LEMMA WorkingStays ==
  ASSUME Still, Working, launched' = launched, finished' = finished,
         Progress(launched, running', finished)
  PROVE  Working'
<1>1. PICK L, ended : L = launched /\ ended = finished /\ Contract(L)
  BY DEF Working
<1>2. Contract(L)'
  BY <1>1, ContractStays DEF Still
<1>3. Values(L, ended) /\ InSlots(L, ended)
  BY <1>1 DEF Working
<1>4. ASSUME NEW i PROVE SlotOf(i)' = SlotOf(i)
  BY DEF Still, SlotOf, StreamOf
<1>5. ASSUME NEW k \in ended
      PROVE  /\ L[k].op \in AlphaMakers => AlphaMade(L[k].i)'
             /\ L[k].op \in BetaMakers => BetaMade(L[k].i)'
             /\ L[k].op = "message" => SymbolMade(L[k].i)'
  <2>1. /\ L[k].op \in AlphaMakers => AlphaMade(L[k].i)
        /\ L[k].op \in BetaMakers => BetaMade(L[k].i)
        /\ L[k].op = "message" => SymbolMade(L[k].i)
    BY <1>3 DEF Values
  <2> QED BY <2>1, MadeStays DEF Still
<1>6. Values(L, ended)'
  BY <1>5 DEF Values
<1>7. InSlots(L, ended)'
  <2>1. ASSUME NEW g \in ended, L[g].op = "gamma",
               \A h \in ended : L[h].op = "gamma" /\ SlotOf(L[h].i) = SlotOf(L[g].i) => h <= g
        PROVE  InPlace(L[g].i)'
    <3>1. InPlace(L[g].i)
      BY <1>3, <2>1 DEF InSlots
    <3> QED BY <3>1, InPlaceStays DEF Still, Between
  <2> QED BY <1>4, <2>1 DEF InSlots
<1>8. Values(launched, finished)' /\ InSlots(launched, finished)'
  <2>1. launched' = L /\ finished' = ended
    BY <1>1
  <2> QED BY <1>6, <1>7, <2>1 DEF Values, InSlots
<1>9. Progress(launched, running, finished)'
  BY DEF Progress
<1>10. \E X : X = launched' /\ Contract(X)'
  BY <1>1, <1>2
<1>11. Ready' /\ DOMAIN ptable' = Codewords'
  BY MemoryStays DEF Working, Still
<1> QED BY <1>8, <1>9, <1>10, <1>11 DEF Working, Still

(* A kernel that begins keeps the invariant of the device.                 *)
LEMMA DeviceBegins ==
  ASSUME DeviceInv, fba.depth > 1, KernelBegins
  PROVE  DeviceInv'
<1>1. /\ Still /\ pass' = pass /\ pass[1] = "device"
      /\ launched' = launched /\ finished' = finished
  BY DEF KernelBegins, fbavars, Still
<1>2. PICK k \in DOMAIN launched \ (running \union finished) :
        launched[k].after \subseteq finished /\ running' = running \union {k}
  BY DEF KernelBegins
<1>3. Working /\ DeviceMemory
  BY <1>1 DEF DeviceInv, DeviceStage
<1>4. Progress(launched, running', finished)
  BY <1>2, <1>3 DEF Working, Progress
<1>5. Working' /\ DeviceMemory'
  BY <1>1, <1>3, <1>4, WorkingStays, MemoryStays
<1> QED BY <1>1, <1>5 DEF DeviceInv, DeviceStage

(* A kernel that ends keeps the invariant of the device.                   *)
LEMMA DeviceEnds ==
  ASSUME DeviceInv, fba.depth > 1, KernelEnds
  PROVE  DeviceInv'
<1>1. /\ fba' = fba /\ allocated' = allocated /\ trellis' = trellis /\ copied' = copied
      /\ launched' = launched /\ pass[1] = "device"
  BY DEF KernelEnds
<1>2. PICK k \in running :
        /\ Effect(launched[k])
        /\ running' = running \ {k} /\ finished' = finished \union {k}
        /\ IF Underflows(launched[k]) THEN pass' = <<"aborted", 0>> ELSE UNCHANGED pass
  BY DEF KernelEnds
<1>3. pass'[1] \in {"device", "aborted"}
  BY <1>1, <1>2
<1>4. Working /\ DeviceMemory
  BY <1>1 DEF DeviceInv, DeviceStage
<1>5. PICK L : L = launched /\ Contract(L)
  BY <1>4 DEF Working
<1>r. PICK run, ended : run = running /\ ended = finished
  OBVIOUS
<1>6. /\ Between /\ Ready /\ allocated /\ DOMAIN ptable = Codewords
      /\ copied.r = trellis.r /\ copied.app = trellis.app
      /\ Progress(L, run, ended) /\ Values(L, ended) /\ InSlots(L, ended)
  BY <1>1, <1>4, <1>5, <1>r DEF Working, Between
<1>7. /\ fba.N \in Nat /\ k \in run /\ k \in DOMAIN L /\ k \notin ended
      /\ ended \subseteq DOMAIN L /\ Effect(L[k])
      /\ DOMAIN alpha = Boundaries /\ DOMAIN beta = Boundaries /\ DOMAIN gamma = DeviceRows
      /\ \A x \in DOMAIN L : Kind(L[x])
  <2>1. fba.N \in Nat
    BY <1>6, Parameters DEF Ready
  <2>2. DOMAIN alpha = Boundaries /\ DOMAIN beta = Boundaries /\ DOMAIN gamma = DeviceRows
    BY <1>4, <1>6 DEF DeviceMemory
  <2>3. k \in run /\ Effect(L[k])
    BY <1>2, <1>5, <1>r
  <2>4. k \in DOMAIN L /\ k \notin ended /\ ended \subseteq DOMAIN L
        /\ \A x \in DOMAIN L : Kind(L[x])
    BY <1>5, <1>6, <2>3 DEF Progress, Contract
  <2> QED BY <2>1, <2>2, <2>3, <2>4
<1>8. L[k].op \in Users => InPlace(Uses(L[k]))
  BY <1>5, <1>6, <1>7, UserFinds
<1>9. Others(L, k, ended)
  BY <1>5, <1>6, <1>7, OthersStay
<1>10. Kind(L[k]) /\ \A x \in ended : Kind(L[x])
  BY <1>7
<1>11. /\ L[k].op \in AlphaMakers => L[k].i \in Boundaries /\ AlphaMade(L[k].i)'
            /\ \E row : Row(row) /\ alpha' = [alpha EXCEPT ![L[k].i] = row] /\ beta' = beta
       /\ L[k].op \in BetaMakers => L[k].i \in Boundaries /\ BetaMade(L[k].i)'
            /\ \E row : Row(row) /\ beta' = [beta EXCEPT ![L[k].i] = row] /\ alpha' = alpha
       /\ L[k].op = "message" => SymbolMade(L[k].i)' /\ DOMAIN ptable' = Codewords
  BY <1>4, <1>6, <1>7, <1>8, <1>10, KernelMakes
<1>12. Values(L, ended \union {k})'
  <2>1. Values(L, ended)'
    BY <1>6, <1>7, <1>9, <1>10, ValuesStay
  <2> QED BY <1>11, <2>1 DEF Values
<1>13. InSlots(L, ended \union {k})'
  BY <1>5, <1>6, <1>7, InSlotsStep
<1>14. Progress(L, run \ {k}, ended \union {k})
  BY <1>6, <1>7 DEF Progress
<1>15. DOMAIN ptable' = Codewords /\ DOMAIN gamma' = DeviceRows
  <2>1. L[k].op # "message" => ptable' = ptable
    BY <1>7, <1>10, Effects DEF AlphaMakers, BetaMakers
  <2>2. L[k].op # "gamma" => gamma' = gamma
    BY <1>7, <1>10, Effects
  <2>3. L[k].op = "gamma" => DOMAIN gamma' = DeviceRows
    BY <1>7, <1>10, Effects
  <2> QED BY <1>6, <1>7, <1>11, <2>1, <2>2, <2>3
<1>16. DeviceMemory'
  <2>0. allocated' /\ Row(NoWeight) /\ 0 \in Boundaries
    BY <1>1, <1>6, <1>7 DEF Row, NoWeight, Boundaries
  <2>1. CASE L[k].op \in AlphaMakers
    BY <1>4, <1>6, <1>11, <1>15, <2>0, <2>1, RowsStay
  <2>2. CASE L[k].op \in BetaMakers
    BY <1>4, <1>6, <1>11, <1>15, <2>0, <2>2, RowsStay
  <2>3. CASE L[k].op \notin AlphaMakers \union BetaMakers
    <3>1. alpha' = alpha /\ beta' = beta
      BY <1>7, <1>10, <2>3, Effects
    <3> QED BY <1>4, <1>6, <1>15, <2>0, <3>1, RowsStay
  <2> QED BY <2>1, <2>2, <2>3
<1>17. Ready' /\ Codewords' = Codewords
  BY <1>1, <1>6 DEF Ready, Suits, FrameLength, CwStart, CwLength, Codewords, Alphabet
<1>18. \E X : X = launched' /\ Contract(X)'
  <2>1. Contract(L)'
    BY <1>1, <1>5, ContractStays
  <2> QED BY <1>1, <1>5, <2>1
<1>19. Working'
  <2>1. launched' = L /\ running' = run \ {k} /\ finished' = ended \union {k}
    BY <1>1, <1>2, <1>5, <1>r
  <2>2. Progress(launched, running, finished)'
    BY <1>14, <2>1 DEF Progress
  <2>3. Values(launched, finished)'
    BY <1>12, <2>1 DEF Values
  <2>4. InSlots(launched, finished)'
    BY <1>13, <2>1 DEF InSlots
  <2> QED BY <1>1, <1>6, <1>15, <1>17, <1>18, <2>2, <2>3, <2>4 DEF Working
<1> QED BY <1>3, <1>16, <1>19 DEF DeviceInv, DeviceStage

(* The transfer of the results keeps the invariant of the device: by then  *)
(* every kernel has ended.                                                 *)
LEMMA DeviceTransfers ==
  ASSUME DeviceInv, fba.depth > 1, Transfer
  PROVE  DeviceInv'
<1>1. /\ fba' = fba /\ allocated' = allocated /\ trellis' = trellis /\ copied' = copied
      /\ gamma' = gamma /\ alpha' = alpha /\ beta' = beta /\ ptable' = ptable
      /\ running' = running /\ pass[1] = "device" /\ pass'[1] = "done"
      /\ finished = DOMAIN launched
  BY DEF Transfer, devicevars
<1>2. Working /\ DeviceMemory
  BY <1>1 DEF DeviceInv, DeviceStage
<1>3. PICK L : L = launched /\ Contract(L)
  BY <1>2 DEF Working
<1>4. /\ Ready /\ allocated /\ running = {} /\ Values(L, DOMAIN L) /\ RowsTyped
  BY <1>1, <1>2, <1>3 DEF Working, DeviceMemory, Progress
<1>5. PICK A, B, M : Makers(L, DOMAIN L, A, B, M)
  BY <1>3 DEF Contract
<1>6. ASSUME NEW i \in Boundaries PROVE AlphaMade(i) /\ BetaMade(i)
  <2>1. /\ A[i] \in DOMAIN L /\ L[A[i]].op \in AlphaMakers /\ L[A[i]].i = i
        /\ B[i] \in DOMAIN L /\ L[B[i]].op \in BetaMakers /\ L[B[i]].i = i
    BY <1>5 DEF Makers, Boundaries
  <2> QED BY <1>4, <2>1 DEF Values
<1>7. ASSUME NEW i \in Codewords PROVE SymbolMade(i)
  <2>1. M[i] \in DOMAIN L /\ L[M[i]].op = "message" /\ L[M[i]].i = i
    BY <1>5 DEF Makers, Codewords
  <2> QED BY <1>4, <2>1 DEF Values
<1>8. DeviceComplete
  BY <1>4, <1>6, <1>7, AllMade DEF Ready
<1>9. Still
  BY <1>1 DEF Still
<1>10. DeviceMemory' /\ Ready' /\ DeviceComplete'
  BY <1>2, <1>4, <1>8, <1>9, MemoryStays
<1> QED BY <1>1, <1>4, <1>10 DEF DeviceInv, DeviceStage

(* A step that changes nothing keeps the invariant of the device.          *)
LEMMA DeviceStutters ==
  ASSUME DeviceInv, UNCHANGED <<fbavars, devicevars>>
  PROVE  DeviceInv'
<1>1. /\ Still /\ pass' = pass /\ launched' = launched /\ running' = running
      /\ finished' = finished /\ fba' = fba
  BY DEF fbavars, devicevars, Still
<1>2. DeviceMemory => DeviceMemory'
  BY <1>1, MemoryStays
<1>3. DeviceStage => DeviceStage'
  <2>1. Working => Working'
    BY <1>1, WorkingStays DEF Working
  <2>2. Ready /\ DeviceComplete => Ready' /\ DeviceComplete'
    BY <1>1, MemoryStays
  <2> QED BY <1>1, <2>1, <2>2 DEF DeviceStage
<1> QED BY <1>1, <1>2, <1>3 DEF DeviceInv

(* All steps keep the invariant of the device.                             *)
LEMMA DeviceKept ==
  ASSUME HostInv, DeviceInv, [DecoderNext]_<<fbavars, devicevars>>
  PROVE  DeviceInv'
<1>1. CASE fba.depth > 1
  <2>1. CASE Configure /\ UNCHANGED devicevars
    BY <1>1, <2>1, DeviceConfigures
  <2>2. ASSUME DecodeFrame \/ AlphaAndBeta \/ Results \/ Alpha \/ BetaAndResults
        PROVE  FALSE
    <3>1. pass[1] \in {"idle", "done", "device", "aborted"}
      BY <1>1 DEF DeviceInv, DeviceStage
    <3> QED BY <1>1, <2>2, <3>1 DEF DecodeFrame, AlphaAndBeta, Results, Alpha, BetaAndResults
  <2>3. CASE DeviceDecode
    BY <1>1, <2>3, DeviceDecodes
  <2>4. CASE KernelBegins
    BY <1>1, <2>4, DeviceBegins
  <2>5. CASE KernelEnds
    BY <1>1, <2>5, DeviceEnds
  <2>6. CASE Transfer
    BY <1>1, <2>6, DeviceTransfers
  <2>7. CASE UNCHANGED <<fbavars, devicevars>>
    BY <2>7, DeviceStutters
  <2> QED BY <2>1, <2>2, <2>3, <2>4, <2>5, <2>6, <2>7 DEF DecoderNext, FbaNext, DeviceNext
<1>2. CASE ~(fba.depth > 1)
  <2>1. fba'.depth = fba.depth
    <3>1. CASE Configure
      BY <3>1, ConfigureStep
    <3>2. CASE DecodeFrame \/ AlphaAndBeta \/ Results \/ Alpha \/ BetaAndResults
      BY <3>2 DEF DecodeFrame, AlphaAndBeta, Results, Alpha, BetaAndResults
    <3>3. CASE DeviceNext
      BY <3>3, HostOrDevice
    <3>4. CASE UNCHANGED <<fbavars, devicevars>>
      BY <3>4 DEF fbavars
    <3> QED BY <3>1, <3>2, <3>3, <3>4 DEF DecoderNext, FbaNext
  <2> QED BY <1>2, <2>1 DEF DeviceInv
<1> QED BY <1>1, <1>2

(* The invariant of the device says that kernels do not race, and that its *)
(* posteriors are exact.                                                   *)
LEMMA DeviceInvExact ==
  ASSUME HostInv, DeviceInv
  PROVE  DeviceExact
<1>1. SUFFICES ASSUME fba.depth > 1
      PROVE  /\ \A j, k \in running :
                  j # k => Writes(launched[j])
                             \intersect (Reads(launched[k]) \union Writes(launched[k])) = {}
             /\ pass[1] = "done" =>
                  \A i \in Codewords :
                    LET kept == {p \in Paths :
                                   /\ \A j \in 0..i : p[j] \in Kept(alpha[j], fba.th_inner)
                                   /\ \A j \in i + 2..fba.N : p[j] \in Kept(beta[j], fba.th_inner)}
                    IN  \A d \in Alphabet :
                          ptable[i][d] =
                            Total([p \in kept |-> PathWeight(Metrics, p, Codewords \ {i})
                                                     * Branch(Metrics, i, p[i], p[i + 1], d)])
  <2>1. fba.N \in Nat
    BY Parameters DEF HostInv
  <2>2. ASSUME NEW i \in Codewords
        PROVE  {p \in Paths :
                  /\ \A j \in 0..i : p[j] \in [x \in Boundaries |-> Kept(alpha[x], fba.th_inner)][j]
                  /\ \A j \in i + 2..fba.N :
                       p[j] \in [x \in Boundaries |-> Kept(beta[x], fba.th_inner)][j]}
               = {p \in Paths : /\ \A j \in 0..i : p[j] \in Kept(alpha[j], fba.th_inner)
                                /\ \A j \in i + 2..fba.N : p[j] \in Kept(beta[j], fba.th_inner)}
    <3>1. 0..i \subseteq Boundaries /\ i + 2..fba.N \subseteq Boundaries
      BY <2>1 DEF Boundaries, Codewords
    <3> QED BY <3>1
  <2> QED BY <2>2 DEF DeviceExact
<1>2. DeviceStage /\ fba \in Decoders
  BY <1>1 DEF DeviceInv, HostInv
<1>3. ASSUME NEW j \in running, NEW k \in running, j # k
      PROVE  Writes(launched[j]) \intersect (Reads(launched[k]) \union Writes(launched[k])) = {}
  <2>1. Working
    BY <1>2 DEF DeviceStage
  <2>2. PICK L : L = launched /\ Contract(L)
    BY <2>1 DEF Working
  <2>3. Progress(L, running, finished)
    BY <2>1, <2>2 DEF Working
  <2>4. ~Clash(L[j], L[k])
    BY <1>3, <2>2, <2>3, RunningApart
  <2>5. Kind(L[j]) /\ Kind(L[k])
    BY <2>2, <2>3 DEF Progress, Contract
  <2>6. fba.N \in Nat
    BY <1>2, Parameters
  <2> QED BY <2>2, <2>4, <2>5, <2>6, Clashes
<1>4. ASSUME pass[1] = "done", NEW i \in Codewords, NEW d \in Alphabet, NEW kept,
             kept = {p \in Paths : /\ \A j \in 0..i : p[j] \in Kept(alpha[j], fba.th_inner)
                                   /\ \A j \in i + 2..fba.N : p[j] \in Kept(beta[j], fba.th_inner)}
      PROVE  ptable[i][d] = Total([p \in kept |-> PathWeight(Metrics, p, Codewords \ {i})
                                                     * Branch(Metrics, i, p[i], p[i + 1], d)])
  <2>1. Ready /\ DeviceComplete
    BY <1>2, <1>4 DEF DeviceStage
  <2> QED BY <1>4, <2>1, DeviceSums
<1> QED BY <1>3, <1>4

(* fba2 and fba2_fss on the host and fba2 on a graphics processor, for all *)
(* parameters and frames: the posteriors of a frame are the sums over its  *)
(* paths through the states that pruning keeps, whatever was decoded       *)
(* before and however the metrics are stored, a frame is given up only if  *)
(* it has no path, and kernels that run at the same time touch no memory   *)
(* that one of them writes.                                                *)
THEOREM PosteriorsAlwaysExact == DecoderSpec => []PosteriorsExact
<1>1. DecoderInit => HostInv /\ DeviceInv
  <2>1. DecoderInit => HostInv
    BY HostInitially DEF DecoderInit
  <2>2. DecoderInit => DeviceInv
    BY DEF DecoderInit, FbaInit, DeviceInit, DeviceInv, DeviceMemory, DeviceStage
  <2> QED BY <2>1, <2>2
<1>2. HostInv /\ DeviceInv /\ [DecoderNext]_<<fbavars, devicevars>> => (HostInv /\ DeviceInv)'
  BY HostKept, DeviceKept
<1>3. HostInv /\ DeviceInv => PosteriorsExact
  BY HostInvExact, DeviceInvExact DEF PosteriorsExact
<1> QED BY <1>1, <1>2, <1>3, PTL DEF DecoderSpec
=============================================================================
