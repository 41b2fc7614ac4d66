--------------------------- MODULE DataInduction ---------------------------
(***************************************************************************)
(* Induction over data for the other proof modules.  An induction          *)
(* principle with an operator as a parameter cannot be instantiated by the *)
(* provers; the well-foundedness of the numbers gives it for sets, which   *)
(* they can.  From it follow the equations of recursive functions on an    *)
(* interval.                                                               *)
(***************************************************************************)
EXTENDS SequencesExt, SequenceTheorems, FiniteSetTheorems, WellFoundedInduction, TLAPS

(* A set of numbers that is not empty has a least element.                 *)
LEMMA LeastElement ==
  ASSUME NEW S \in SUBSET Nat, S # {}
  PROVE  \E x \in S : \A y \in S : x <= y
<1>1. IsWellFoundedOn(OpToRel(<, Nat), Nat)
  BY NatLessThanWellFounded
<1>2. PICK x \in S : \A y \in S : ~(<<y, x>> \in OpToRel(<, Nat))
  BY <1>1, WFMin, Zenon
<1>3. \A y \in S : ~(y < x)
  BY <1>2 DEF OpToRel
<1> QED
  BY <1>3

(* Induction: the set of the n for which a formula holds.                  *)
LEMMA SetInduction ==
  ASSUME NEW S, 0 \in S, \A n \in Nat : n \in S => n + 1 \in S
  PROVE  Nat \subseteq S
<1> DEFINE Others == Nat \ S
<1> SUFFICES ASSUME Others # {} PROVE FALSE
  OBVIOUS
<1>1. PICK x \in Others : \A y \in Others : x <= y
  BY LeastElement
<1>2. x - 1 \in Nat /\ x - 1 \in S
  BY <1>1
<1> QED
  BY <1>1, <1>2

-----------------------------------------------------------------------------
(* Iterating a function.                                                   *)

Iterates(P, a, g) == P[0] = a /\ \A k \in Nat : P[k + 1] = g[P[k]]

(* A finite part of an iteration is what the iteration is there.           *)
LEMMA IterateUnique ==
  ASSUME NEW P, NEW a, NEW g, Iterates(P, a, g), NEW N \in Nat,
         NEW f, f[0] = a, \A k \in 0..(N - 1) : f[k + 1] = g[f[k]]
  PROVE  \A k \in 0..N : f[k] = P[k]
<1> DEFINE S == {k \in Nat : k <= N => f[k] = P[k]}
<1>1. 0 \in S
  BY DEF Iterates
<1>2. ASSUME NEW k \in Nat, k \in S
      PROVE  k + 1 \in S
  <2> SUFFICES ASSUME k + 1 <= N PROVE f[k + 1] = P[k + 1]
    OBVIOUS
  <2>1. k \in 0..(N - 1) /\ f[k] = P[k]
    BY <1>2
  <2> QED
    BY <2>1 DEF Iterates
<1>3. Nat \subseteq S
  <2> HIDE DEF S
  <2> QED
    BY <1>1, <1>2, SetInduction
<1> QED
  BY <1>3

LEMMA IterateExists ==
  ASSUME NEW D, NEW a \in D, NEW g \in [D -> D]
  PROVE  \E P \in [Nat -> D] : Iterates(P, a, g)
<1> DEFINE Part(f, n) == /\ f \in [0..n -> D] /\ f[0] = a
                         /\ \A k \in 0..(n - 1) : f[k + 1] = g[f[k]]
           S == {n \in Nat : \E f : Part(f, n)}
<1>1. 0 \in S
  <2> DEFINE f == [i \in 0..0 |-> a]
  <2>1. f \in [0..0 -> D] /\ f[0] = a
    OBVIOUS
  <2> HIDE DEF f
  <2>2. Part(f, 0)
    BY <2>1
  <2> HIDE DEF Part
  <2> QED
    BY <2>2
<1>2. ASSUME NEW n \in Nat, n \in S
      PROVE  n + 1 \in S
  <2>1. PICK f : Part(f, n)
    BY <1>2
  <2> DEFINE h == [i \in 0..(n + 1) |-> IF i <= n THEN f[i] ELSE g[f[n]]]
  <2>2. h \in [0..(n + 1) -> D] /\ h[0] = a
    BY <2>1
  <2>3. ASSUME NEW k \in 0..n
        PROVE  h[k + 1] = g[h[k]]
    <3>1. h[k] = f[k]
      OBVIOUS
    <3>2. CASE k = n
      BY <3>1, <3>2
    <3>3. CASE k # n
      <4>1. k \in 0..(n - 1) /\ h[k + 1] = f[k + 1]
        BY <3>3
      <4> QED
        BY <2>1, <3>1, <4>1
    <3> QED
      BY <3>2, <3>3
  <2> HIDE DEF h
  <2>4. Part(h, n + 1)
    BY <2>2, <2>3
  <2> HIDE DEF Part
  <2> QED
    BY <2>4
<1>3. Nat \subseteq S
  <2> HIDE DEF S
  <2> QED
    BY <1>1, <1>2, SetInduction
<1> DEFINE F == [n \in Nat |-> CHOOSE f : Part(f, n)]
<1>4. ASSUME NEW n \in Nat
      PROVE  Part(F[n], n)
  <2>1. \E f : Part(f, n)
    BY <1>3
  <2>2. F[n] = CHOOSE f : Part(f, n)
    OBVIOUS
  <2> HIDE DEF F, Part
  <2> QED
    BY <2>1, <2>2, Zenon
<1> HIDE DEF F, S
<1> DEFINE P == [n \in Nat |-> F[n][n]]
<1>5. P \in [Nat -> D]
  <2>1. \A n \in Nat : F[n][n] \in D
    BY <1>4
  <2> QED
    BY <2>1
<1>6. P[0] = a
  BY <1>4
<1>7. ASSUME NEW k \in Nat
      PROVE  P[k + 1] = g[P[k]]
  <2>1. Part(F[k + 1], k + 1) /\ Part(F[k], k)
    BY <1>4
  <2> DEFINE E == {i \in Nat : i <= k => F[k + 1][i] = F[k][i]}
  <2>2. 0 \in E
    BY <2>1
  <2>3. ASSUME NEW i \in Nat, i \in E
        PROVE  i + 1 \in E
    <3> SUFFICES ASSUME i + 1 <= k PROVE F[k + 1][i + 1] = F[k][i + 1]
      OBVIOUS
    <3>1. F[k + 1][i] = F[k][i] /\ i \in 0..(k - 1) /\ i \in 0..((k + 1) - 1)
      BY <2>3
    <3>2. F[k + 1][i + 1] = g[F[k + 1][i]]
      BY <2>1, <3>1
    <3>3. F[k][i + 1] = g[F[k][i]]
      BY <2>1, <3>1
    <3> QED
      BY <3>1, <3>2, <3>3
  <2>4. Nat \subseteq E
    <3> HIDE DEF E
    <3> QED
      BY <2>2, <2>3, SetInduction
  <2>5. F[k + 1][k] = F[k][k]
    BY <2>4
  <2>6. F[k + 1][k + 1] = g[F[k + 1][k]]
    <3>1. k \in 0..((k + 1) - 1)
      OBVIOUS
    <3> QED
      BY <2>1, <3>1
  <2> QED
    BY <2>5, <2>6
<1> HIDE DEF P
<1> QED
  BY <1>5, <1>6, <1>7 DEF Iterates

(* What comes twice comes again and again.                                 *)
LEMMA IterateRepeats ==
  ASSUME NEW P, NEW a, NEW g, Iterates(P, a, g), NEW i \in Nat, NEW j \in Nat, P[i] = P[j]
  PROVE  \A d \in Nat : P[i + d] = P[j + d]
<1> DEFINE S == {d \in Nat : P[i + d] = P[j + d]}
<1>1. 0 \in S
  OBVIOUS
<1>2. ASSUME NEW d \in Nat, d \in S
      PROVE  d + 1 \in S
  <2>1. P[i + d] = P[j + d] /\ i + d \in Nat /\ j + d \in Nat
    BY <1>2
  <2>2. P[(i + d) + 1] = P[(j + d) + 1]
    BY <2>1 DEF Iterates
  <2>3. (i + d) + 1 = i + (d + 1) /\ (j + d) + 1 = j + (d + 1)
    OBVIOUS
  <2> QED
    BY <2>2, <2>3
<1>3. Nat \subseteq S
  <2> HIDE DEF S
  <2> QED
    BY <1>1, <1>2, SetInduction
<1> QED
  BY <1>3

(* From where it stops on it stays.                                        *)
LEMMA IterateStops ==
  ASSUME NEW P, NEW a, NEW g, Iterates(P, a, g), NEW k \in Nat, g[P[k]] = P[k]
  PROVE  \A j \in Nat : j >= k => P[j] = P[k]
<1>1. P[k] = P[k + 1]
  BY DEF Iterates
<1>2. \A d \in Nat : P[k + d] = P[(k + 1) + d]
  BY <1>1, IterateRepeats
<1> DEFINE S == {d \in Nat : P[k + d] = P[k]}
<1>3. 0 \in S
  OBVIOUS
<1>4. ASSUME NEW d \in Nat, d \in S
      PROVE  d + 1 \in S
  <2>1. (k + 1) + d = k + (d + 1)
    OBVIOUS
  <2> QED
    BY <1>2, <1>4, <2>1
<1>5. Nat \subseteq S
  <2> HIDE DEF S
  <2> QED
    BY <1>3, <1>4, SetInduction
<1>6. ASSUME NEW j \in Nat, j >= k
      PROVE  P[j] = P[k]
  <2>1. j - k \in S /\ k + (j - k) = j
    BY <1>5, <1>6
  <2> QED
    BY <2>1
<1> QED
  BY <1>6

(* An iteration that stops at 0 after numbers of 1..N only does so by step *)
(* N: before that it would have to repeat itself.                          *)
LEMMA IterateShort ==
  ASSUME NEW N \in Nat, NEW P \in [Nat -> 0..N], NEW a, NEW g, Iterates(P, a, g), g[0] = 0,
         NEW m \in Nat, P[m] = 0
  PROVE  P[N] = 0
<1> DEFINE Z == {k \in Nat : P[k] = 0}
<1>1. PICK k \in Z : \A j \in Z : k <= j
  <2>1. Z \in SUBSET Nat /\ Z # {}
    OBVIOUS
  <2> HIDE DEF Z
  <2> QED
    BY <2>1, LeastElement
<1>2. k \in Nat /\ P[k] = 0 /\ \A j \in Nat : j < k => P[j] \in 1..N
  BY <1>1
<1>3. CASE k <= N
  BY <1>2, <1>3, IterateStops
<1>4. CASE k > N
  <2> DEFINE f == [i \in 0..N |-> P[i]]
  <2>1. f \in [0..N -> 1..N]
    BY <1>2, <1>4
  <2>2. /\ IsFiniteSet(0..N) /\ IsFiniteSet(1..N)
        /\ Cardinality(0..N) = N + 1 /\ Cardinality(1..N) = N
    BY FS_Interval, SMTT(30)
  <2> HIDE DEF f
  <2>3. \E i, j \in 0..N : i # j /\ f[i] = f[j]
    <3>1. Cardinality(1..N) < Cardinality(0..N)
      BY <2>2
    <3> DEFINE A == 0..N
               B == 1..N
    <3>2. IsFiniteSet(A) /\ IsFiniteSet(B) /\ Cardinality(B) < Cardinality(A) /\ f \in [A -> B]
      BY <2>1, <2>2, <3>1
    <3> HIDE DEF A, B
    <3>3. \E x, y \in A : x # y /\ f[x] = f[y]
      BY <3>2, FS_PigeonHole
    <3> QED
      BY <3>3 DEF A
  <2>4. PICK i, j \in 0..N : i < j /\ f[i] = f[j]
    BY <2>3
  <2>5. P[i] = P[j] /\ i \in Nat /\ j \in Nat /\ k - j \in Nat
    BY <1>2, <1>4, <2>4 DEF f
  <2>6. P[i + (k - j)] = P[j + (k - j)]
    <3>1. \A d \in Nat : P[i + d] = P[j + d]
      BY <2>5, IterateRepeats
    <3> QED
      BY <2>5, <3>1
  <2>7. j + (k - j) = k /\ i + (k - j) < k /\ i + (k - j) \in Nat
    BY <1>2, <2>4, <2>5
  <2> QED
    BY <1>2, <2>6, <2>7
<1> QED
  BY <1>2, <1>3, <1>4

-----------------------------------------------------------------------------
(* Sequences.                                                              *)

LEMMA Associative ==
  ASSUME NEW T, NEW u \in Seq(T), NEW v \in Seq(T), NEW w \in Seq(T)
  PROVE  (u \o v) \o w = u \o (v \o w)
BY ConcatAssociative

LEMMA AssociativeNat ==
  \A u, v, w \in Seq(Nat) : (u \o v) \o w = u \o (v \o w)
BY ONLY Associative, SMTT(30)

(* A sequence is what its first k elements and the rest give.              *)
LEMMA SplitSeq ==
  ASSUME NEW T, NEW s, s \in Seq(T), NEW k \in Nat, k <= Len(s)
  PROVE  /\ SubSeq(s, 1, k) \in Seq(T) /\ Len(SubSeq(s, 1, k)) = k
         /\ SubSeq(s, k + 1, Len(s)) \in Seq(T)
         /\ Len(SubSeq(s, k + 1, Len(s))) = Len(s) - k
         /\ s = SubSeq(s, 1, k) \o SubSeq(s, k + 1, Len(s))
<1>1. Len(s) \in Nat /\ \A i \in 1..Len(s) : s[i] \in T
  BY LenProperties, ElementOfSeq
<1>2. /\ 1 \in 1..(Len(s) + 1) /\ k \in (1 - 1)..Len(s) /\ Len(s) \in k..Len(s)
      /\ \A i \in 1..k : i \in 1..Len(s)
      /\ \A i \in (k + 1)..Len(s) : i \in 1..Len(s)
  BY <1>1
<1>3. SubSeq(s, 1, k) \in Seq(T) /\ Len(SubSeq(s, 1, k)) = k
  BY <1>1, <1>2, SubSeqProperties
<1>4. /\ SubSeq(s, k + 1, Len(s)) \in Seq(T)
      /\ Len(SubSeq(s, k + 1, Len(s))) = IF k + 1 <= Len(s) THEN Len(s) - (k + 1) + 1 ELSE 0
  BY <1>1, <1>2, SubSeqProperties
<1>5. SubSeq(s, 1, k) \o SubSeq(s, k + 1, Len(s)) = SubSeq(s, 1, Len(s))
  BY <1>2, ConcatAdjacentSubSeq
<1>6. SubSeq(s, 1, Len(s)) = s
  BY SubSeqFull
<1>7. Len(SubSeq(s, k + 1, Len(s))) = Len(s) - k
  BY <1>1, <1>4
<1> QED
  BY <1>3, <1>4, <1>5, <1>6, <1>7, Zenon

LEMMA ConcatSplits ==
  ASSUME NEW T, NEW u, u \in Seq(T), NEW v, v \in Seq(T), NEW k, k = Len(u)
  PROVE  /\ k \in 0..Len(u \o v) /\ SubSeq(u \o v, 1, k) = u
         /\ SubSeq(u \o v, k + 1, Len(u \o v)) = v
<1>1. Len(u) \in Nat /\ Len(v) \in Nat
  BY LenProperties
<1> DEFINE w == u \o v
<1>2. /\ w \in Seq(T) /\ Len(w) = k + Len(v)
      /\ \A i \in 1..(k + Len(v)) : w[i] = IF i <= k THEN u[i] ELSE v[i - k]
  BY ConcatProperties
<1> HIDE DEF w
<1>3. k <= Len(w)
  BY <1>1, <1>2
<1> DEFINE a == SubSeq(w, 1, k)
           b == SubSeq(w, k + 1, Len(w))
<1>4. a \in Seq(T) /\ Len(a) = k /\ b \in Seq(T) /\ Len(b) = Len(v)
  <2>1. Len(w) - k = Len(v)
    BY <1>1, <1>2
  <2> QED
    BY <1>1, <1>2, <1>3, <2>1, SplitSeq
<1>5. \A i \in 1..k : a[i] = u[i]
  BY <1>1, <1>2
<1>6. \A i \in 1..Len(v) : b[i] = v[i]
  BY <1>1, <1>2, SMTT(30)
<1> HIDE DEF a, b
<1>7. a = u
  BY <1>4, <1>5, SeqEqual
<1>8. b = v
  BY <1>4, <1>6, SeqEqual
<1> QED
  BY <1>1, <1>3, <1>7, <1>8 DEF a, b, w

-----------------------------------------------------------------------------
(* FlattenSeq, by the partial results it goes through.                     *)

(* f[k] is what the first k of the sequences s give.                       *)
Flattens(f, s) ==
  /\ f[0] = <<>>
  /\ \A i \in 1..Len(s) : f[i] = f[i - 1] \o s[i]

(* The recursive definition inside FlattenSeq has a solution.              *)
LEMMA FlattenEquation ==
  ASSUME NEW T, NEW s \in Seq(Seq(T)), Len(s) # 0
  PROVE  \E f : /\ f = [i \in 1..Len(s) |-> IF i = 1 THEN s[i] ELSE f[i - 1] \o s[i]]
                /\ FlattenSeq(s) = f[Len(s)]
<1> DEFINE Eq(f, n) == f = [i \in 1..n |-> IF i = 1 THEN s[i] ELSE f[i - 1] \o s[i]]
           S == {n \in Nat : \E f : Eq(f, n)}
<1>1. 0 \in S
  <2>1. Eq([i \in 1..0 |-> <<>>], 0)
    OBVIOUS
  <2> QED
    BY <2>1
<1>2. ASSUME NEW n \in Nat, n \in S
      PROVE  n + 1 \in S
  <2>1. PICK f : Eq(f, n)
    BY <1>2
  <2> DEFINE g == [i \in 1..(n + 1) |->
                     IF i <= n THEN f[i] ELSE IF i = 1 THEN s[i] ELSE f[n] \o s[i]]
  <2>2. \A i \in 1..(n + 1) : g[i] = IF i = 1 THEN s[i] ELSE g[i - 1] \o s[i]
    <3> SUFFICES ASSUME NEW i \in 1..(n + 1)
                 PROVE  g[i] = IF i = 1 THEN s[i] ELSE g[i - 1] \o s[i]
      OBVIOUS
    <3>1. CASE i <= n
      <4>1. f[i] = IF i = 1 THEN s[i] ELSE f[i - 1] \o s[i]
        <5>1. i \in 1..n
          BY <3>1
        <5> QED
          BY <2>1, <5>1, Zenon
      <4>2. i # 1 => g[i - 1] = f[i - 1]
        BY <3>1
      <4> QED
        BY <3>1, <4>1, <4>2
    <3>2. CASE i = n + 1
      <4>1. i # 1 => g[i - 1] = f[n]
        BY <3>2
      <4> QED
        BY <3>2, <4>1
    <3> QED
      BY <3>1, <3>2
  <2>3. Eq(g, n + 1)
    BY <2>2, Zenon
  <2>4. n + 1 \in Nat
    OBVIOUS
  <2> HIDE DEF Eq, g
  <2> QED
    BY <2>3, <2>4
<1>3. Len(s) \in S
  <2> HIDE DEF S
  <2> QED
    BY <1>1, <1>2, SetInduction, SMTT(30)
<1>4. \E f : Eq(f, Len(s))
  BY <1>3
<1> DEFINE F == CHOOSE f : Eq(f, Len(s))
<1>5. Eq(F, Len(s))
  BY <1>4, Zenon
<1>6. FlattenSeq(s) = F[Len(s)]
  BY Zenon DEF FlattenSeq
<1> QED
  BY <1>5, <1>6, Zenon

(* There are partial results, and the last one is the flattened sequence.  *)
LEMMA FlattenPartial ==
  ASSUME NEW T, NEW s \in Seq(Seq(T))
  PROVE  \E f \in [0..Len(s) -> Seq(T)] : Flattens(f, s) /\ FlattenSeq(s) = f[Len(s)]
<1>1. CASE Len(s) = 0
  <2>1. s = <<>> /\ FlattenSeq(s) = <<>>
    BY <1>1 DEF FlattenSeq
  <2> DEFINE f == [i \in 0..0 |-> <<>>]
  <2>2. f \in [0..Len(s) -> Seq(T)]
    BY <1>1, EmptySeq
  <2>3. Flattens(f, s)
    BY <1>1 DEF Flattens
  <2>4. FlattenSeq(s) = f[Len(s)]
    BY <1>1, <2>1
  <2> HIDE DEF f
  <2> QED
    BY <2>2, <2>3, <2>4
<1>2. CASE Len(s) # 0
  <2>1. PICK f : /\ f = [i \in 1..Len(s) |-> IF i = 1 THEN s[i] ELSE f[i - 1] \o s[i]]
                 /\ FlattenSeq(s) = f[Len(s)]
    BY <1>2, FlattenEquation, Zenon
  <2>2. Len(s) \in Nat /\ Len(s) \in 1..Len(s) /\ \A i \in 1..Len(s) : s[i] \in Seq(T)
    BY <1>2
  <2>3. \A i \in 1..Len(s) : f[i] = IF i = 1 THEN s[i] ELSE f[i - 1] \o s[i]
    BY <2>1, Zenon
  <2> DEFINE S == {n \in Nat : n \in 1..Len(s) => f[n] \in Seq(T)}
  <2>4. Nat \subseteq S
    <3>1. 0 \in S
      OBVIOUS
    <3>2. ASSUME NEW n \in Nat, n \in S
          PROVE  n + 1 \in S
      <4> SUFFICES ASSUME n + 1 \in 1..Len(s) PROVE f[n + 1] \in Seq(T)
        OBVIOUS
      <4>1. CASE n = 0
        BY <2>2, <2>3, <4>1
      <4>2. CASE n # 0
        <5>1. n \in 1..Len(s) /\ f[n] \in Seq(T)
          BY <2>2, <3>2, <4>2
        <5>2. n + 1 # 1 /\ (n + 1) - 1 = n
          BY <4>2
        <5>3. f[n + 1] = f[n] \o s[n + 1]
          BY <2>3, <5>2, Zenon
        <5>4. s[n + 1] \in Seq(T)
          BY <2>2
        <5> QED
          BY <5>1, <5>3, <5>4, ConcatProperties
      <4> QED
        BY <4>1, <4>2
    <3> HIDE DEF S
    <3> QED
      BY <3>1, <3>2, SetInduction
  <2>5. \A i \in 1..Len(s) : f[i] \in Seq(T)
    BY <2>4
  <2> DEFINE g == [i \in 0..Len(s) |-> IF i = 0 THEN <<>> ELSE f[i]]
  <2>6. g \in [0..Len(s) -> Seq(T)]
    BY <2>2, <2>5, EmptySeq
  <2>7. g[0] = <<>> /\ g[Len(s)] = f[Len(s)]
    BY <1>2, <2>2
  <2>8. ASSUME NEW i \in 1..Len(s)
        PROVE  g[i] = g[i - 1] \o s[i]
    <3>1. CASE i = 1
      <4>1. g[i] = s[i] /\ g[i - 1] = <<>>
        BY <2>2, <2>3, <3>1
      <4> QED
        BY <2>2, <4>1, ConcatEmptySeq
    <3>2. CASE i # 1
      <4>1. g[i] = f[i] /\ g[i - 1] = f[i - 1]
        BY <2>2, <3>2
      <4> QED
        BY <2>3, <3>2, <4>1
    <3> QED
      BY <3>1, <3>2
  <2> HIDE DEF g
  <2> QED
    BY <2>1, <2>6, <2>7, <2>8 DEF Flattens
<1> QED
  BY <1>1, <1>2

(* Partial results are determined by their equations.                      *)
LEMMA FlattenUnique ==
  ASSUME NEW T, NEW s \in Seq(Seq(T)), NEW g, Flattens(g, s)
  PROVE  FlattenSeq(s) = g[Len(s)]
<1>1. PICK f \in [0..Len(s) -> Seq(T)] : Flattens(f, s) /\ FlattenSeq(s) = f[Len(s)]
  BY FlattenPartial
<1> DEFINE S == {n \in Nat : n <= Len(s) => f[n] = g[n]}
<1>2. 0 \in S
  BY <1>1 DEF Flattens
<1>3. ASSUME NEW n \in Nat, n \in S
      PROVE  n + 1 \in S
  <2> SUFFICES ASSUME n + 1 <= Len(s) PROVE f[n + 1] = g[n + 1]
    OBVIOUS
  <2>1. n + 1 \in 1..Len(s) /\ n <= Len(s) /\ (n + 1) - 1 = n
    OBVIOUS
  <2>2. f[n] = g[n]
    BY <1>3, <2>1
  <2> QED
    BY <1>1, <2>1, <2>2 DEF Flattens
<1>4. Nat \subseteq S
  <2> HIDE DEF S
  <2> QED
    BY <1>2, <1>3, SetInduction
<1> QED
  BY <1>1, <1>4

LEMMA FlattenType ==
  ASSUME NEW T, NEW s \in Seq(Seq(T))
  PROVE  FlattenSeq(s) \in Seq(T)
<1>1. PICK f \in [0..Len(s) -> Seq(T)] : FlattenSeq(s) = f[Len(s)]
  BY FlattenPartial
<1>2. Len(s) \in 0..Len(s)
  BY LenProperties
<1> QED
  BY <1>1, <1>2

LEMMA FlattenEmpty == FlattenSeq(<<>>) = <<>>
BY DEF FlattenSeq

(* What is appended comes last.                                            *)
LEMMA FlattenAppend ==
  ASSUME NEW T, NEW s \in Seq(Seq(T)), NEW x \in Seq(T)
  PROVE  FlattenSeq(Append(s, x)) = FlattenSeq(s) \o x
<1> DEFINE n == Len(s)
           t == Append(s, x)
<1>1. PICK f \in [0..n -> Seq(T)] : Flattens(f, s) /\ FlattenSeq(s) = f[n]
  BY FlattenPartial
<1>2. /\ n \in Nat /\ t \in Seq(Seq(T)) /\ Len(t) = n + 1
      /\ t[n + 1] = x /\ \A i \in 1..n : t[i] = s[i]
  BY AppendProperties
<1> HIDE DEF n, t
<1> DEFINE g == [i \in 0..(n + 1) |-> IF i <= n THEN f[i] ELSE f[n] \o x]
<1>3. g[0] = <<>> /\ g[n] = f[n] /\ g[n + 1] = f[n] \o x
  <2>1. 0 \in 0..(n + 1) /\ n \in 0..(n + 1) /\ n + 1 \in 0..(n + 1) /\ ~(n + 1 <= n)
    BY <1>2
  <2>2. f[0] = <<>> /\ 0 <= n
    BY <1>1, <1>2 DEF Flattens
  <2> QED
    BY <2>1, <2>2
<1>4. ASSUME NEW i \in 1..(n + 1)
      PROVE  g[i] = g[i - 1] \o t[i]
  <2>1. CASE i = n + 1
    <3>1. i - 1 = n
      BY <1>2, <2>1
    <3> HIDE DEF g
    <3> QED
      BY <1>2, <1>3, <2>1, <3>1
  <2>2. CASE i <= n
    <3>1. i \in 1..n /\ g[i] = f[i] /\ g[i - 1] = f[i - 1]
      BY <1>2, <2>2
    <3>2. f[i] = f[i - 1] \o s[i]
      BY <1>1, <3>1 DEF Flattens, n
    <3> QED
      BY <1>2, <3>1, <3>2
  <2>3. i = n + 1 \/ i <= n
    BY <1>2
  <2> QED
    BY <2>1, <2>2, <2>3
<1>5. Flattens(g, t)
  <2> HIDE DEF g
  <2> QED
    BY <1>2, <1>3, <1>4 DEF Flattens
<1>6. FlattenSeq(t) = g[n + 1]
  <2> HIDE DEF g
  <2> QED
    BY <1>2, <1>5, FlattenUnique
<1> QED
  BY <1>1, <1>3, <1>6 DEF t

(* The elements x are missing from part i of t, and the parts of s and t   *)
(* before it are empty.                                                    *)
TakenInFront(T, s, t, i, x) ==
  /\ s \in Seq(Seq(T)) /\ t \in Seq(Seq(T)) /\ Len(t) = Len(s)
  /\ i \in 1..Len(s) /\ x \in Seq(T) /\ s[i] = x \o t[i]
  /\ \A j \in 1..(i - 1) : s[j] = <<>> /\ t[j] = <<>>
  /\ \A j \in (i + 1)..Len(s) : s[j] = t[j]

(* Then x is what is missing at the front of the flattened sequence.       *)
LEMMA FlattenFront ==
  ASSUME NEW T, NEW s, NEW t, NEW i, NEW x, TakenInFront(T, s, t, i, x)
  PROVE  FlattenSeq(s) = x \o FlattenSeq(t)
<1> USE DEF TakenInFront
<1>b. \A u, v, w \in Seq(T) : (u \o v) \o w = u \o (v \o w)
  BY ONLY Associative
<1>1. PICK g \in [0..Len(s) -> Seq(T)] : Flattens(g, t) /\ FlattenSeq(t) = g[Len(s)]
  BY FlattenPartial
<1>2. PICK f \in [0..Len(s) -> Seq(T)] : Flattens(f, s) /\ FlattenSeq(s) = f[Len(s)]
  BY FlattenPartial
<1>a. Len(s) \in Nat /\ \A j \in 1..Len(s) : s[j] \in Seq(T) /\ t[j] \in Seq(T)
  BY LenProperties, ElementOfSeq
<1> DEFINE S == {n \in Nat : n <= Len(s) =>
                    IF n < i THEN f[n] = <<>> /\ g[n] = <<>> ELSE f[n] = x \o g[n]}
<1>3. 0 \in S
  BY <1>1, <1>2 DEF Flattens
<1>4. ASSUME NEW n \in Nat, n \in S
      PROVE  n + 1 \in S
  <2> SUFFICES ASSUME n + 1 <= Len(s)
               PROVE  IF n + 1 < i THEN f[n + 1] = <<>> /\ g[n + 1] = <<>>
                      ELSE f[n + 1] = x \o g[n + 1]
    OBVIOUS
  <2>1. n + 1 \in 1..Len(s) /\ n <= Len(s) /\ (n + 1) - 1 = n /\ n \in 0..Len(s)
    BY <1>a
  <2>2. f[n + 1] = f[n] \o s[n + 1] /\ g[n + 1] = g[n] \o t[n + 1]
    BY <1>1, <1>2, <2>1 DEF Flattens
  <2>3. f[n] \in Seq(T) /\ g[n] \in Seq(T) /\ s[n + 1] \in Seq(T) /\ t[n + 1] \in Seq(T)
    BY <1>a, <2>1
  <2>4. IF n < i THEN f[n] = <<>> /\ g[n] = <<>> ELSE f[n] = x \o g[n]
    BY <1>4, <2>1
  <2> HIDE DEF S
  <2>5. CASE n + 1 < i
    <3>1. s[n + 1] = <<>> /\ t[n + 1] = <<>> /\ f[n] = <<>> /\ g[n] = <<>>
      BY <2>4, <2>5
    <3> QED
      BY <2>2, <2>5, <3>1, EmptySeq, ConcatEmptySeq
  <2>6. CASE n + 1 = i
    <3>1. s[n + 1] = x \o t[n + 1] /\ f[n] = <<>> /\ g[n] = <<>>
      <4>1. n < i /\ s[n + 1] = s[i] /\ t[n + 1] = t[i]
        <5>1. n < n + 1
          OBVIOUS
        <5> QED
          BY <2>6, <5>1, Zenon
      <4>2. f[n] = <<>> /\ g[n] = <<>>
        BY <2>4, <4>1
      <4>3. s[n + 1] = x \o t[n + 1]
        BY <4>1, Zenon
      <4> QED
        BY <4>2, <4>3, Zenon
    <3>2. f[n + 1] = s[n + 1] /\ g[n + 1] = t[n + 1]
      BY <2>2, <2>3, <3>1, ConcatEmptySeq
    <3> QED
      BY <2>6, <3>1, <3>2
  <2>7. CASE n + 1 > i
    <3>1. s[n + 1] = t[n + 1] /\ f[n] = x \o g[n]
      <4>1. n + 1 \in (i + 1)..Len(s) /\ ~(n < i)
        BY <1>a, <2>1, <2>7
      <4> QED
        BY <2>4, <4>1
    <3>2. (x \o g[n]) \o t[n + 1] = x \o (g[n] \o t[n + 1])
      BY <1>b, <2>3, Zenon
    <3> QED
      BY <2>2, <2>7, <3>1, <3>2
  <2> QED
    BY <2>5, <2>6, <2>7
<1>5. Nat \subseteq S
  <2> HIDE DEF S
  <2> QED
    BY <1>3, <1>4, SetInduction
<1>6. f[Len(s)] = x \o g[Len(s)]
  <2>1. Len(s) \in S
    <3> HIDE DEF S
    <3> QED
      BY <1>a, <1>5
  <2>2. ~(Len(s) < i) /\ Len(s) <= Len(s)
    BY <1>a
  <2> QED
    BY <2>1, <2>2, Zenon
<1> QED
  BY <1>1, <1>2, <1>6

-----------------------------------------------------------------------------
(* Folding over a set of numbers, the greatest last.                       *)

LEMMA GreatestElement ==
  ASSUME NEW n \in Nat, NEW u \in SUBSET (1..n), u # {}
  PROVE  Max(u) \in u /\ \A y \in u : Max(u) >= y
<1> DEFINE S == {k \in Nat : \E x \in u : k = n - x}
<1>1. S \in SUBSET Nat /\ S # {}
  <2>1. PICK x \in u : TRUE
    OBVIOUS
  <2>2. n - x \in S
    BY <2>1
  <2> QED
    BY <2>2
<1>2. PICK k \in S : \A j \in S : k <= j
  <2> HIDE DEF S
  <2> QED
    BY <1>1, LeastElement
<1>3. PICK x \in u : k = n - x
  BY <1>2
<1>4. ASSUME NEW y \in u
      PROVE  x >= y
  <2>1. n - y \in S
    OBVIOUS
  <2> QED
    BY <1>2, <1>3, <2>1
<1> QED
  BY <1>3, <1>4 DEF Max

(* P[k] is what the members of u up to k give.                             *)
FoldsUp(P, D, a, g, u) ==
  /\ P \in [Nat -> D] /\ P[0] = a
  /\ \A k \in Nat : P[k + 1] = IF k + 1 \in u THEN g[k + 1][P[k]] ELSE P[k]

LEMMA FoldsUpExists ==
  ASSUME NEW D, NEW a \in D, NEW g \in [Nat -> [D -> D]], NEW u
  PROVE  \E P : FoldsUp(P, D, a, g, u)
<1> DEFINE h == [q \in Nat \X D |->
                   <<q[1] + 1, IF q[1] + 1 \in u THEN g[q[1] + 1][q[2]] ELSE q[2]>>]
<1>1. h \in [Nat \X D -> Nat \X D] /\ <<0, a>> \in Nat \X D
  OBVIOUS
<1>2. \A k \in Nat, d \in D :
        h[<<k, d>>] = <<k + 1, IF k + 1 \in u THEN g[k + 1][d] ELSE d>>
  OBVIOUS
<1> HIDE DEF h
<1>3. PICK Q \in [Nat -> Nat \X D] : Iterates(Q, <<0, a>>, h)
  BY <1>1, IterateExists
<1> DEFINE S == {k \in Nat : Q[k][1] = k}
<1>4. Nat \subseteq S
  <2>1. 0 \in S
    BY <1>3 DEF Iterates
  <2>2. ASSUME NEW k \in Nat, k \in S
        PROVE  k + 1 \in S
    <3>1. PICK d \in D : Q[k] = <<k, d>>
      BY <2>2, <1>3
    <3>2. Q[k + 1] = h[<<k, d>>]
      BY <1>3, <3>1 DEF Iterates
    <3>3. Q[k + 1] = <<k + 1, IF k + 1 \in u THEN g[k + 1][d] ELSE d>>
      BY <1>2, <3>2
    <3> QED
      BY <3>3
  <2> HIDE DEF S
  <2> QED
    BY <2>1, <2>2, SetInduction
<1> DEFINE P == [k \in Nat |-> Q[k][2]]
<1>5. P \in [Nat -> D] /\ P[0] = a
  BY <1>3, SMTT(30) DEF Iterates
<1>6. ASSUME NEW k \in Nat
      PROVE  P[k + 1] = IF k + 1 \in u THEN g[k + 1][P[k]] ELSE P[k]
  <2>1. PICK d \in D : Q[k] = <<k, d>>
    BY <1>3, <1>4
  <2>2. Q[k + 1] = h[<<k, d>>]
    BY <1>3, <2>1 DEF Iterates
  <2>3. Q[k + 1] = <<k + 1, IF k + 1 \in u THEN g[k + 1][d] ELSE d>>
    BY <1>2, <2>2
  <2>4. P[k] = d /\ P[k + 1] = IF k + 1 \in u THEN g[k + 1][d] ELSE d
    BY <2>1, <2>3
  <2> HIDE DEF P
  <2> QED
    BY <2>4
<1> HIDE DEF P
<1> QED
  BY <1>5, <1>6 DEF FoldsUp

(* Two of them agree as far as their sets do.                              *)
LEMMA FoldsUpAgree ==
  ASSUME NEW D, NEW a, NEW g, NEW u, NEW v, NEW P, NEW Q,
         FoldsUp(P, D, a, g, u), FoldsUp(Q, D, a, g, v),
         NEW m \in Nat, \A k \in 1..m : k \in u <=> k \in v
  PROVE  P[m] = Q[m]
<1> DEFINE S == {k \in Nat : k <= m => P[k] = Q[k]}
<1>1. 0 \in S
  BY DEF FoldsUp
<1>2. ASSUME NEW k \in Nat, k \in S
      PROVE  k + 1 \in S
  <2> SUFFICES ASSUME k + 1 <= m PROVE P[k + 1] = Q[k + 1]
    OBVIOUS
  <2>1. P[k] = Q[k] /\ k + 1 \in 1..m
    BY <1>2
  <2> QED
    BY <2>1 DEF FoldsUp
<1>3. Nat \subseteq S
  <2> HIDE DEF S
  <2> QED
    BY <1>1, <1>2, SetInduction
<1> QED
  BY <1>3

(* ... and change no more behind the last member.                          *)
LEMMA FoldsUpEnds ==
  ASSUME NEW D, NEW a, NEW g, NEW u, NEW P, FoldsUp(P, D, a, g, u),
         NEW m \in Nat, NEW n \in Nat, m <= n, \A k \in (m + 1)..n : k \notin u
  PROVE  P[n] = P[m]
<1> DEFINE S == {k \in Nat : m <= k /\ k <= n => P[k] = P[m]}
<1>1. 0 \in S
  OBVIOUS
<1>2. ASSUME NEW k \in Nat, k \in S
      PROVE  k + 1 \in S
  <2> SUFFICES ASSUME m <= k + 1, k + 1 <= n PROVE P[k + 1] = P[m]
    OBVIOUS
  <2>1. CASE k + 1 = m
    BY <2>1
  <2>2. CASE k + 1 # m
    <3>1. P[k] = P[m] /\ k + 1 \in (m + 1)..n
      BY <1>2, <2>2
    <3> QED
      BY <3>1 DEF FoldsUp
  <2> QED
    BY <2>1, <2>2
<1>3. Nat \subseteq S
  <2> HIDE DEF S
  <2> QED
    BY <1>1, <1>2, SetInduction
<1> QED
  BY <1>3

(* F[u] is what all members of u give.                                     *)
Folds(F, D, a, g, n) ==
  /\ F \in [SUBSET (1..n) -> D]
  /\ \A u \in SUBSET (1..n) :
       F[u] = IF u = {} THEN a ELSE g[Max(u)][F[u \ {Max(u)}]]

(* The recursive definition inside MapThenFoldSet has a solution.          *)
LEMMA FoldExists ==
  ASSUME NEW D, NEW a \in D, NEW g \in [Nat -> [D -> D]], NEW n \in Nat
  PROVE  \E F : Folds(F, D, a, g, n)
<1> DEFINE R == [u \in SUBSET (1..n) |-> CHOOSE P : FoldsUp(P, D, a, g, u)]
<1>1. ASSUME NEW u \in SUBSET (1..n)
      PROVE  FoldsUp(R[u], D, a, g, u)
  <2>1. \E P : FoldsUp(P, D, a, g, u)
    BY FoldsUpExists
  <2>2. R[u] = CHOOSE P : FoldsUp(P, D, a, g, u)
    OBVIOUS
  <2> HIDE DEF R
  <2> QED
    BY <2>1, <2>2, Zenon
<1> HIDE DEF R
<1> DEFINE F == [u \in SUBSET (1..n) |-> R[u][n]]
<1>2. F \in [SUBSET (1..n) -> D]
  <2>1. \A u \in SUBSET (1..n) : R[u][n] \in D
    BY <1>1 DEF FoldsUp
  <2> QED
    BY <2>1
<1>3. ASSUME NEW u \in SUBSET (1..n), u = {}
      PROVE  F[u] = a
  <2>1. FoldsUp(R[u], D, a, g, u)
    BY <1>1
  <2>2. R[u][n] = R[u][0]
    BY <1>3, <2>1, FoldsUpEnds
  <2> QED
    BY <2>1, <2>2 DEF FoldsUp
<1>4. ASSUME NEW u \in SUBSET (1..n), u # {}
      PROVE  F[u] = g[Max(u)][F[u \ {Max(u)}]]
  <2>1. PICK m : m = Max(u)
    OBVIOUS
  <2>2. m \in u /\ m \in 1..n /\ \A y \in u : m >= y
    BY <1>4, <2>1, GreatestElement
  <2>3. PICK v : v = u \ {m}
    OBVIOUS
  <2>4. v \in SUBSET (1..n) /\ F[u] = R[u][n] /\ F[v] = R[v][n]
    BY <2>3
  <2>5. FoldsUp(R[u], D, a, g, u) /\ FoldsUp(R[v], D, a, g, v)
    BY <1>1, <2>4
  <2>6. R[u][n] = R[u][m]
    <3>1. \A k \in (m + 1)..n : k \notin u
      BY <2>2
    <3> QED
      BY <2>2, <2>5, <3>1, FoldsUpEnds
  <2>7. R[u][m] = g[m][R[u][m - 1]]
    <3>1. m - 1 \in Nat /\ (m - 1) + 1 = m
      BY <2>2
    <3> QED
      BY <2>2, <2>5, <3>1 DEF FoldsUp
  <2>8. R[v][n] = R[v][m - 1]
    <3>1. \A k \in ((m - 1) + 1)..n : k \notin v
      BY <2>2, <2>3
    <3>2. m - 1 \in Nat /\ m - 1 <= n
      BY <2>2
    <3> QED
      BY <2>5, <3>1, <3>2, FoldsUpEnds
  <2>9. R[v][m - 1] = R[u][m - 1]
    <3>1. \A k \in 1..(m - 1) : k \in v <=> k \in u
      BY <2>2, <2>3
    <3>2. m - 1 \in Nat
      BY <2>2
    <3> QED
      BY <2>5, <3>1, <3>2, FoldsUpAgree
  <2> HIDE DEF F
  <2> QED
    BY <2>1, <2>3, <2>4, <2>6, <2>7, <2>8, <2>9
<1> HIDE DEF F
<1> QED
  BY <1>2, <1>3, <1>4 DEF Folds
=============================================================================
