------------------------- MODULE ArduinoStoreProofs -------------------------
(***************************************************************************)
(* Proofs about $RW and $RR, for every message, every sector number and    *)
(* every chunking of the characters between the waits: the types, that the *)
(* data reaches flash_sector_write as the sketch meant it, that nothing of *)
(* a command is left that could begin another, and that it is the sector   *)
(* asked for that is written or read.                                      *)
(*                                                                         *)
(* The inductive invariant is Types /\ Control: what has arrived and was   *)
(* not taken, and what is still on the line, are together (Rest) the text  *)
(* of the command from some character on, and each place of the            *)
(* interpreter tells from which.  It needs to know the text only by what   *)
(* is at which position (TextFacts, PutFacts).                             *)
(***************************************************************************)
EXTENDS ArduinoStore, DataInduction, TLAPS

-----------------------------------------------------------------------------
(* The number made of the digits of a piece of text.                       *)

IsDigit(c) == c \in Digit(0)..Digit(9)
NextValue(n, c) == IF IsDigit(c) THEN 10 * n + (c - Digit(0)) ELSE n

(* f[i] is the number in the first i characters.                           *)
Values(f, s) ==
  /\ f \in [0..Len(s) -> Nat] /\ f[0] = 0
  /\ \A i \in 1..Len(s) : f[i] = NextValue(f[i - 1], s[i])

LEMMA NextValueType ==
  ASSUME NEW n \in Nat, NEW c
  PROVE  NextValue(n, c) \in Nat
BY DEF NextValue, IsDigit, Digit

LEMMA NumberValues ==
  ASSUME NEW s \in Seq(Nat)
  PROVE  \E f : Values(f, s) /\ Number(s) = f[Len(s)]
<1> DEFINE n == Len(s)
           D == SUBSET (1..n)
           Eq(F) == F = [u \in D |-> IF u = {} THEN 0 ELSE
                                       NextValue(F[u \ {Max(u)}], s[Max(u)])]
           I == CHOOSE F : Eq(F)
<1>1. n \in Nat /\ DOMAIN s = 1..n
  BY LenProperties
<1>2. Number(s) = I[1..n]
  BY <1>1, Zenon DEF Number, FoldLeft, MapThenFoldSet, NextValue, IsDigit
<1>3. \E F : Eq(F)
  <2> DEFINE g == [i \in Nat |-> [d \in Nat |-> NextValue(d, s[i])]]
  <2>1. g \in [Nat -> [Nat -> Nat]]
    BY NextValueType
  <2>2. \A i \in Nat, d \in Nat : g[i][d] = NextValue(d, s[i])
    OBVIOUS
  <2> HIDE DEF g, n
  <2>3. PICK F : Folds(F, Nat, 0, g, n)
    <3>1. 0 \in Nat /\ n \in Nat
      BY <1>1
    <3> QED
      BY <2>1, <3>1, FoldExists
  <2>4. ASSUME NEW u \in D
        PROVE  F[u] = IF u = {} THEN 0 ELSE NextValue(F[u \ {Max(u)}], s[Max(u)])
    <3>1. CASE u = {}
      BY <2>3, <3>1 DEF Folds
    <3>2. CASE u # {}
      <4>1. Max(u) \in Nat
        <5>1. Max(u) \in u
          BY <1>1, <3>2, GreatestElement, Zenon
        <5>2. \A x \in u : x \in Nat
          BY <1>1
        <5> QED
          BY <5>1, <5>2, Zenon
      <4>2. F[u \ {Max(u)}] \in Nat
        BY <2>3 DEF Folds
      <4> QED
        BY <2>2, <2>3, <3>2, <4>1, <4>2 DEF Folds
    <3> QED
      BY <3>1, <3>2
  <2>5. F = [u \in D |-> F[u]]
    BY <2>3 DEF Folds
  <2> QED
    BY <2>4, <2>5, Zenon
<1>4. Eq(I)
  BY <1>3, Zenon
<1>5. \A u \in D : I[u] = IF u = {} THEN 0 ELSE NextValue(I[u \ {Max(u)}], s[Max(u)])
  BY <1>4, Zenon
<1> HIDE DEF I, Eq
<1> DEFINE f == [i \in 0..n |-> I[1..i]]
<1>6. f[0] = 0 /\ f[n] = Number(s)
  <2>1. 1..0 = {} /\ 1..0 \in D /\ 0 \in 0..n /\ n \in 0..n
    BY <1>1
  <2>2. I[1..0] = 0
    BY <1>5, <2>1
  <2> QED
    BY <1>2, <2>1, <2>2
<1>7. ASSUME NEW i \in 1..n
      PROVE  f[i] = NextValue(f[i - 1], s[i])
  <2>1. 1..i \in D /\ 1..i # {} /\ i \in Nat
    <3>1. i \in Nat /\ i \in 1..i /\ \A x \in 1..i : x \in 1..n
      BY <1>1
    <3> QED
      BY <3>1, Zenon
  <2>2. Max(1..i) = i
    <3>1. Max(1..i) \in 1..i /\ \A y \in 1..i : Max(1..i) >= y
      BY <1>1, <2>1, GreatestElement
    <3>2. Max(1..i) >= i
      BY <2>1, <3>1
    <3> QED
      BY <3>1, <3>2
  <2>3. (1..i) \ {i} = 1..(i - 1) /\ i - 1 \in 0..n /\ i \in 0..n
    BY <1>1
  <2>4. I[1..i] = NextValue(I[(1..i) \ {Max(1..i)}], s[Max(1..i)])
    BY <1>5, <2>1, Zenon
  <2>5. I[1..i] = NextValue(I[1..(i - 1)], s[i])
    BY <2>2, <2>3, <2>4, Zenon
  <2> QED
    BY <2>3, <2>5
<1> HIDE DEF f
<1> DEFINE S == {i \in Nat : i <= n => f[i] \in Nat}
<1>8. Nat \subseteq S
  <2>1. 0 \in S
    BY <1>6
  <2>2. ASSUME NEW i \in Nat, i \in S
        PROVE  i + 1 \in S
    <3> SUFFICES ASSUME i + 1 <= n PROVE f[i + 1] \in Nat
      OBVIOUS
    <3>1. i + 1 \in 1..n /\ (i + 1) - 1 = i /\ f[i] \in Nat
      BY <1>1, <2>2
    <3>2. f[i + 1] = NextValue(f[i], s[i + 1])
      BY <1>7, <3>1, Zenon
    <3> QED
      BY <3>1, <3>2, NextValueType
  <2> HIDE DEF S
  <2> QED
    BY <2>1, <2>2, SetInduction
<1>9. f \in [0..n -> Nat]
  <2>1. \A i \in 0..n : f[i] \in Nat
    BY <1>1, <1>8
  <2>2. f = [i \in 0..n |-> f[i]]
    BY DEF f
  <2> QED
    BY <2>1, <2>2
<1> QED
  BY <1>6, <1>7, <1>9 DEF Values

LEMMA NumberType ==
  ASSUME NEW s \in Seq(Nat)
  PROVE  Number(s) \in Nat
<1>1. PICK f : Values(f, s) /\ Number(s) = f[Len(s)]
  BY NumberValues
<1>2. Len(s) \in 0..Len(s)
  BY LenProperties
<1> QED
  BY <1>1, <1>2 DEF Values

-----------------------------------------------------------------------------
(* What the sketch sends.                                                  *)

(* The characters of the data, and the first j bytes of d as they are sent.*)
Letters == 0..5
Enc(d, j) == FlattenSeq([i \in 1..j |-> Escaped(d[i])])

LEMMA EscapedIs ==
  /\ Escaped(Nul) = <<Dollar, X, Hex(0), Hex(0)>> /\ Escaped(Quote) = <<Dollar, Quote>>
  /\ Escaped(Dollar) = <<Dollar, Dollar>> /\ Escaped(3) = <<3>>
  /\ \A v \in Bytes : /\ Escaped(v) \in Seq(Letters) /\ Len(Escaped(v)) \in 1..4
                      /\ v \in {Nul, Quote, Dollar, 3}
<1>1. Nul = 0 /\ Quote = 1 /\ Dollar = 2 /\ X = 4 /\ Hex(0) = 5
  BY DEF Nul, Quote, Dollar, X, Hex
<1>2. /\ Escaped(0) = <<2, 4, 5, 5>> /\ Escaped(1) = <<2, 1>>
      /\ Escaped(2) = <<2, 2>> /\ Escaped(3) = <<3>>
  BY <1>1 DEF Escaped
<1>3. /\ <<2, 4, 5, 5>> \in Seq(Letters) /\ Len(<<2, 4, 5, 5>>) = 4
      /\ <<2, 1>> \in Seq(Letters) /\ Len(<<2, 1>>) = 2
      /\ <<2, 2>> \in Seq(Letters) /\ Len(<<2, 2>>) = 2
      /\ <<3>> \in Seq(Letters) /\ Len(<<3>>) = 1
  BY DEF Letters
<1>4. \A v \in Bytes : v \in {0, 1, 2, 3}
  BY DEF Bytes
<1>5. \A v \in Bytes : Escaped(v) \in Seq(Letters) /\ Len(Escaped(v)) \in 1..4
  <2>1. 4 \in 1..4 /\ 2 \in 1..4 /\ 1 \in 1..4
    OBVIOUS
  <2> SUFFICES ASSUME NEW v \in Bytes
               PROVE  Escaped(v) \in Seq(Letters) /\ Len(Escaped(v)) \in 1..4
    OBVIOUS
  <2>2. v = 0 \/ v = 1 \/ v = 2 \/ v = 3
    BY <1>4
  <2> QED
    BY <1>2, <1>3, <2>1, <2>2, Zenon
<1> QED
  BY <1>1, <1>2, <1>4, <1>5

LEMMA PartsType ==
  ASSUME NEW d \in Seq(Bytes), NEW j \in 0..Len(d)
  PROVE  /\ [i \in 1..j |-> Escaped(d[i])] \in Seq(Seq(Letters))
         /\ Len([i \in 1..j |-> Escaped(d[i])]) = j
<1>1. Len(d) \in Nat /\ j \in Nat
  BY LenProperties
<1>2. \A i \in 1..j : Escaped(d[i]) \in Seq(Letters)
  <2>1. \A i \in 1..j : d[i] \in Bytes
    BY <1>1
  <2> QED
    BY <2>1, EscapedIs
<1> QED
  BY <1>1, <1>2

LEMMA EncType ==
  ASSUME NEW d \in Seq(Bytes), NEW j \in 0..Len(d)
  PROVE  Enc(d, j) \in Seq(Letters) /\ Len(Enc(d, j)) \in Nat
<1>1. Enc(d, j) \in Seq(Letters)
  BY PartsType, FlattenType DEF Enc
<1> QED
  BY <1>1, LenProperties

LEMMA EncStep ==
  ASSUME NEW d \in Seq(Bytes), NEW j \in 0..(Len(d) - 1)
  PROVE  Enc(d, j + 1) = Enc(d, j) \o Escaped(d[j + 1])
<1> DEFINE s == [i \in 1..j |-> Escaped(d[i])]
           t == [i \in 1..(j + 1) |-> Escaped(d[i])]
           x == Escaped(d[j + 1])
<1>1. Len(d) \in Nat /\ j \in Nat /\ j \in 0..Len(d) /\ j + 1 \in 0..Len(d)
  BY LenProperties
<1>2. s \in Seq(Seq(Letters)) /\ Len(s) = j /\ t \in Seq(Seq(Letters)) /\ Len(t) = j + 1
  BY <1>1, PartsType
<1>3. x \in Seq(Letters)
  <2>1. d[j + 1] \in Bytes
    BY <1>1
  <2> QED
    BY <2>1, EscapedIs
<1>4. \A i \in 1..(j + 1) : t[i] = IF i <= j THEN s[i] ELSE x
  BY <1>1
<1> HIDE DEF s, t, x
<1>5. /\ Append(s, x) \in Seq(Seq(Letters)) /\ Len(Append(s, x)) = j + 1
      /\ \A i \in 1..(j + 1) : Append(s, x)[i] = IF i <= j THEN s[i] ELSE x
  BY <1>1, <1>2, <1>3
<1>6. t = Append(s, x)
  BY <1>2, <1>4, <1>5, SeqEqual
<1>7. FlattenSeq(t) = FlattenSeq(s) \o x
  BY <1>2, <1>3, <1>6, FlattenAppend
<1> QED
  BY <1>7 DEF Enc, s, t, x

(* The bytes before the j-th are a prefix of all, and none of the bytes    *)
(* behind it that needs no escape is sent with a dollar sign.              *)
LEMMA EncGrows ==
  ASSUME NEW d \in Seq(Bytes), NEW j \in 0..Len(d), NEW k \in j..Len(d)
  PROVE  /\ Len(Enc(d, j)) <= Len(Enc(d, k))
         /\ \A i \in 1..Len(Enc(d, j)) : Enc(d, k)[i] = Enc(d, j)[i]
         /\ (\A i \in (j + 1)..Len(d) : d[i] = 3) =>
              \A i \in (Len(Enc(d, j)) + 1)..Len(Enc(d, k)) : Enc(d, k)[i] = 3
<1> DEFINE n == Len(Enc(d, j))
           Grown(m) == /\ n <= Len(Enc(d, m))
                       /\ \A i \in 1..n : Enc(d, m)[i] = Enc(d, j)[i]
                       /\ (\A i \in (j + 1)..Len(d) : d[i] = 3) =>
                            \A i \in (n + 1)..Len(Enc(d, m)) : Enc(d, m)[i] = 3
           S == {m \in Nat : j <= m /\ m <= Len(d) => Grown(m)}
<1>1. Len(d) \in Nat /\ j \in Nat /\ k \in Nat /\ n \in Nat /\ Enc(d, j) \in Seq(Letters)
  BY LenProperties, EncType
<1>2. Grown(j)
  BY <1>1
<1>3. ASSUME NEW m \in Nat, m + 1 <= Len(d), j <= m, Grown(m)
      PROVE  Grown(m + 1)
  <2>1. m \in 0..(Len(d) - 1) /\ m \in 0..Len(d) /\ m + 1 \in 1..Len(d) /\ m + 1 \in (j + 1)..Len(d)
    BY <1>1, <1>3
  <2>2. PICK a : a = Enc(d, m)
    OBVIOUS
  <2>3. PICK x : x = Escaped(d[m + 1])
    OBVIOUS
  <2>4. PICK b : b = Enc(d, m + 1)
    OBVIOUS
  <2>5. a \in Seq(Letters) /\ Len(a) \in Nat
    BY <2>1, <2>2, EncType
  <2>6. b = a \o x
    BY <2>1, <2>2, <2>3, <2>4, EncStep
  <2>7. x \in Seq(Letters) /\ Len(x) \in 1..4
    <3>1. d[m + 1] \in Bytes
      BY <2>1
    <3> QED
      BY <2>3, <3>1, EscapedIs
  <2>8. /\ Len(b) = Len(a) + Len(x)
        /\ \A i \in 1..(Len(a) + Len(x)) : b[i] = IF i <= Len(a) THEN a[i] ELSE x[i - Len(a)]
    BY <2>5, <2>6, <2>7, ConcatProperties
  <2>9. n <= Len(a) /\ \A i \in 1..n : a[i] = Enc(d, j)[i]
    BY <1>3, <2>2
  <2>10. n <= Len(b) /\ \A i \in 1..n : b[i] = Enc(d, j)[i]
    BY <1>1, <2>5, <2>7, <2>8, <2>9
  <2>11. ASSUME \A i \in (j + 1)..Len(d) : d[i] = 3
         PROVE  \A i \in (n + 1)..Len(b) : b[i] = 3
    <3>1. d[m + 1] = 3 /\ \A i \in (n + 1)..Len(a) : a[i] = 3
      BY <1>3, <2>1, <2>2, <2>11
    <3>2. Len(x) = 1 /\ x[1] = 3
      BY <2>3, <3>1, EscapedIs
    <3>3. ASSUME NEW i \in (n + 1)..Len(b)
          PROVE  b[i] = 3
      <4>1. i \in 1..(Len(a) + Len(x))
        BY <1>1, <2>8
      <4>2. CASE i <= Len(a)
        BY <1>1, <2>5, <2>8, <3>1, <4>1, <4>2
      <4>3. CASE ~(i <= Len(a))
        <5>1. i - Len(a) = 1
          BY <2>5, <3>2, <4>1, <4>3
        <5> QED
          BY <2>8, <3>2, <4>1, <4>3, <5>1
      <4> QED
        BY <4>2, <4>3
    <3> QED
      BY <3>3
  <2> QED
    BY <2>4, <2>10, <2>11
<1>4. Nat \subseteq S
  <2> HIDE DEF Grown
  <2>1. 0 \in S
    BY <1>1, <1>2
  <2>2. ASSUME NEW m \in Nat, m \in S
        PROVE  m + 1 \in S
    <3> SUFFICES ASSUME j <= m + 1, m + 1 <= Len(d) PROVE Grown(m + 1)
      OBVIOUS
    <3>1. CASE j = m + 1
      BY <1>2, <3>1
    <3>2. CASE j # m + 1
      <4>1. j <= m /\ Grown(m)
        BY <1>1, <2>2, <3>2
      <4> QED
        BY <1>3, <4>1
    <3> QED
      BY <3>1, <3>2
  <2> HIDE DEF S
  <2> QED
    BY <2>1, <2>2, SetInduction
<1>5. Grown(k)
  <2> HIDE DEF Grown
  <2> QED
    BY <1>1, <1>4
<1> QED
  BY <1>5

LEMMA Chars ==
  /\ Nul = 0 /\ Quote = 1 /\ Dollar = 2 /\ X = 4 /\ Hex(0) = 5 /\ Space = 9
  /\ Newline = 10 /\ R = 11 /\ W = 12 /\ Digit(0) = 20 /\ Digit(9) = 29
BY DEF Nul, Quote, Dollar, X, Hex, Space, Newline, R, W, Digit

LEMMA DecimalIs ==
  ASSUME NEW n \in 0..999
  PROVE  LET d == Decimal(n)
         IN  /\ d \in Seq(20..29) /\ Len(d) \in 1..3
             /\ n < 10 => d = <<20 + n>>
             /\ n \in 10..99 => d = <<20 + (n \div 10), 20 + (n % 10)>>
             /\ n >= 100 => d = <<20 + (n \div 100), 20 + ((n \div 10) % 10), 20 + (n % 10)>>
<1>1. CASE n < 10
  BY <1>1 DEF Decimal, Digit
<1>2. CASE n \in 10..99
  <2>1. Decimal(n) = <<20 + (n \div 10), 20 + (n % 10)>>
    BY <1>2 DEF Decimal, Digit
  <2>2. 20 + (n \div 10) \in 20..29 /\ 20 + (n % 10) \in 20..29
    BY <1>2
  <2> QED
    BY <1>2, <2>1, <2>2
<1>3. CASE n >= 100
  <2>1. Decimal(n) = <<20 + (n \div 100), 20 + ((n \div 10) % 10), 20 + (n % 10)>>
    BY <1>3 DEF Decimal, Digit
  <2>2. 20 + (n \div 100) \in 20..29 /\ 20 + ((n \div 10) % 10) \in 20..29 /\ 20 + (n % 10) \in 20..29
    BY <1>3
  <2> QED
    BY <1>3, <2>1, <2>2
<1> QED
  BY <1>1, <1>2, <1>3

LEMMA CommandType ==
  ASSUME NEW c \in Commands
  PROVE  /\ c.put \in BOOLEAN /\ c.sector \in 0..999 /\ c.data \in Seq(Bytes)
         /\ c.put => c.data \in Messages
<1>1. \/ /\ c.put = TRUE /\ c.sector \in Asked /\ c.data \in Messages
      \/ c.put = FALSE /\ c.sector \in Asked /\ c.data = <<>>
  BY DEF Commands
<1>2. <<>> \in Seq(Bytes)
  BY EmptySeq
<1>3. \A n \in Asked : n \in 0..999
  BY StoreAssumption
<1>4. \A d \in Messages : d \in Seq(Bytes)
  BY StoreAssumption
<1>5. c.sector \in 0..999
  <2>1. c.sector \in Asked
    BY <1>1, ZenonT(30)
  <2> QED
    BY <1>3, <2>1, ZenonT(30)
<1>6. CASE c.put = TRUE /\ c.data \in Messages
  BY <1>4, <1>5, <1>6, Zenon
<1>7. CASE c.put = FALSE /\ c.data = <<>>
  BY <1>2, <1>5, <1>7, Zenon
<1> QED
  BY <1>1, <1>6, <1>7

(* Where the characters of the j-th byte end.                              *)
Pos(c, j) == 6 + Len(Decimal(c.sector)) + Len(Enc(c.data, j))

(* The text w is u, of length k, and behind it v, of length m.             *)
Join(w, u, k, v, m) ==
  /\ w \in Seq(Nat) /\ Len(w) = k + m /\ k \in Nat /\ m \in Nat
  /\ \A i \in 1..k : w[i] = u[i]
  /\ \A i \in 1..m : w[k + i] = v[i]

LEMMA Joined ==
  ASSUME NEW u \in Seq(Nat), NEW v \in Seq(Nat)
  PROVE  Join(u \o v, u, Len(u), v, Len(v))
<1> DEFINE w == u \o v
           k == Len(u)
           m == Len(v)
<1>1. k \in Nat /\ m \in Nat
  BY LenProperties
<1>2. /\ w \in Seq(Nat) /\ Len(w) = k + m
      /\ \A i \in 1..(k + m) : w[i] = IF i <= k THEN u[i] ELSE v[i - k]
  BY ConcatProperties
<1> HIDE DEF w, k, m
<1>3. \A i \in 1..k : w[i] = u[i]
  BY <1>1, <1>2
<1>4. ASSUME NEW i \in 1..m
      PROVE  w[k + i] = v[i]
  <2>1. k + i \in 1..(k + m) /\ ~(k + i <= k) /\ (k + i) - k = i
    BY <1>1
  <2> QED
    BY <1>2, <2>1
<1>5. Join(w, u, k, v, m)
  BY <1>1, <1>2, <1>3, <1>4 DEF Join
<1> QED
  BY <1>5 DEF w, k, m

PutText(t, c) ==
  LET l == Len(Decimal(c.sector))
      n == Len(c.data)
      e == Enc(c.data, n)
  IN  /\ t \in Seq(Nat) /\ Len(t) = Pos(c, n) + 2
      /\ t[1] = Dollar /\ t[2] = R /\ t[3] = W /\ t[4] = Space
      /\ \A i \in 1..l : t[4 + i] = Decimal(c.sector)[i]
      /\ t[5 + l] = Space /\ t[6 + l] = Quote
      /\ \A i \in 1..Len(e) : t[6 + l + i] = e[i]
      /\ t[7 + l + Len(e)] = Quote /\ t[8 + l + Len(e)] = Newline

LEMMA PutTextIs ==
  ASSUME NEW c \in Commands, c.put
  PROVE  PutText(Text(c), c)
<1> DEFINE a == <<Dollar, R, W, Space>>
           d == Decimal(c.sector)
           q == <<Space, Quote>>
           e == Enc(c.data, Len(c.data))
           l == Len(d)
           m == Len(e)
<1>1. Text(c) = ((a \o d) \o ((q \o e) \o <<Quote>>)) \o <<Newline>>
  BY DEF Text, Enc
<1>2. a \in Seq(Nat) /\ q \in Seq(Nat) /\ <<Quote>> \in Seq(Nat) /\ <<Newline>> \in Seq(Nat)
  BY Chars
<1>3. d \in Seq(Nat) /\ l \in 1..3
  <2>1. d \in Seq(20..29) /\ l \in 1..3
    <3>1. c.sector \in 0..999
      BY CommandType
    <3> QED
      BY <3>1, DecimalIs, ZenonT(60)
  <2>2. 20..29 \subseteq Nat
    OBVIOUS
  <2> QED
    BY <2>1, <2>2, SeqMonotonic
<1>4. e \in Seq(Nat) /\ m \in Nat
  <2>1. Len(c.data) \in 0..Len(c.data)
    BY CommandType, LenProperties
  <2>2. e \in Seq(Letters) /\ m \in Nat
    BY <2>1, CommandType, EncType
  <2>3. Letters \subseteq Nat
    BY DEF Letters
  <2> QED
    BY <2>2, <2>3, SeqMonotonic
<1>5. /\ Len(a) = 4 /\ a[1] = Dollar /\ a[2] = R /\ a[3] = W /\ a[4] = Space
      /\ Len(q) = 2 /\ q[1] = Space /\ q[2] = Quote
  OBVIOUS
<1>6. Pos(c, Len(c.data)) + 2 = 8 + l + m /\ Len(d) = l /\ Len(e) = m
  BY <1>3, <1>4 DEF Pos
<1>7. Len(<<Quote>>) = 1 /\ <<Quote>>[1] = Quote /\ Len(<<Newline>>) = 1 /\ <<Newline>>[1] = Newline
  OBVIOUS
<1> HIDE DEF a, d, q, e, l, m
<1>8. PICK u : u = a \o d
  OBVIOUS
<1>9. PICK v : v = q \o e
  OBVIOUS
<1>10. PICK w : w = v \o <<Quote>>
  OBVIOUS
<1>11. PICK z : z = u \o w
  OBVIOUS
<1>12. PICK t : t = z \o <<Newline>>
  OBVIOUS
<1>13. t = Text(c)
  BY <1>1, <1>8, <1>9, <1>10, <1>11, <1>12
<1>14. Join(u, a, 4, d, l)
  BY <1>2, <1>3, <1>5, <1>6, <1>8, Joined, Zenon
<1>15. Join(v, q, 2, e, m)
  BY <1>2, <1>4, <1>5, <1>6, <1>9, Joined, Zenon
<1>a. u \in Seq(Nat) /\ Len(u) = 4 + l /\ v \in Seq(Nat) /\ Len(v) = 2 + m
  BY <1>14, <1>15, Zenon DEF Join
<1>16. Join(w, v, 2 + m, <<Quote>>, 1)
  BY <1>2, <1>7, <1>10, <1>a, Joined, Zenon
<1>b. w \in Seq(Nat) /\ Len(w) = (2 + m) + 1
  BY <1>16, Zenon DEF Join
<1>17. Join(z, u, 4 + l, w, (2 + m) + 1)
  BY <1>11, <1>a, <1>b, Joined, Zenon
<1>c. z \in Seq(Nat) /\ Len(z) = (4 + l) + ((2 + m) + 1)
  BY <1>17, Zenon DEF Join
<1>18. Join(t, z, (4 + l) + ((2 + m) + 1), <<Newline>>, 1)
  BY <1>2, <1>7, <1>12, <1>c, Joined, Zenon
<1>19. Len(t) = 8 + l + m
  BY <1>3, <1>4, <1>18 DEF Join
<1>20. \A i \in 1..(4 + l) : t[i] = u[i]
  BY <1>3, <1>4, <1>17, <1>18 DEF Join
<1>d. \A i \in 1..4 : u[i] = a[i]
  BY <1>14, Zenon DEF Join
<1>e. \A i \in 1..l : u[4 + i] = d[i]
  BY <1>14, Zenon DEF Join
<1>f. (\A i \in 1..m : v[2 + i] = e[i]) /\ \A i \in 1..2 : v[i] = q[i]
  BY <1>15, Zenon DEF Join
<1>g. (\A i \in 1..(2 + m) : w[i] = v[i]) /\ \A i \in 1..1 : w[(2 + m) + i] = <<Quote>>[i]
  BY <1>16, Zenon DEF Join
<1>21. t[1] = Dollar /\ t[2] = R /\ t[3] = W /\ t[4] = Space
  BY <1>3, <1>5, <1>20, <1>d
<1>22. \A i \in 1..l : t[4 + i] = d[i]
  BY <1>3, <1>20, <1>e
<1>23. \A i \in 1..((2 + m) + 1) : t[(4 + l) + i] = w[i]
  BY <1>3, <1>4, <1>17, <1>18 DEF Join
<1>24. t[5 + l] = Space /\ t[6 + l] = Quote
  <2>1. w[1] = Space /\ w[2] = Quote
    BY <1>4, <1>5, <1>f, <1>g
  <2>2. t[(4 + l) + 1] = w[1] /\ t[(4 + l) + 2] = w[2]
    BY <1>4, <1>23
  <2>3. 5 + l = (4 + l) + 1 /\ 6 + l = (4 + l) + 2
    BY <1>3
  <2> QED
    BY <2>1, <2>2, <2>3
<1>25. ASSUME NEW i \in 1..m
       PROVE  t[6 + l + i] = e[i]
  <2>1. w[2 + i] = e[i]
    BY <1>4, <1>f, <1>g
  <2>2. t[(4 + l) + (2 + i)] = w[2 + i]
    BY <1>4, <1>23
  <2>3. 6 + l + i = (4 + l) + (2 + i)
    BY <1>3
  <2> QED
    BY <2>1, <2>2, <2>3
<1>26. t[7 + l + m] = Quote /\ t[8 + l + m] = Newline
  <2>1. w[(2 + m) + 1] = Quote
    BY <1>7, <1>16 DEF Join
  <2>2. t[(4 + l) + ((2 + m) + 1)] = w[(2 + m) + 1]
    BY <1>4, <1>23
  <2>3. t[((4 + l) + ((2 + m) + 1)) + 1] = Newline
    BY <1>7, <1>18 DEF Join
  <2>4. 7 + l + m = (4 + l) + ((2 + m) + 1) /\ 8 + l + m = ((4 + l) + ((2 + m) + 1)) + 1
    BY <1>3, <1>4
  <2> QED
    BY <2>1, <2>2, <2>3, <2>4
<1> QED
  BY <1>6, <1>13, <1>18, <1>19, <1>21, <1>22, <1>24, <1>25, <1>26 DEF PutText, d, e, l, m, Join

GetText(t, c) ==
  LET l == Len(Decimal(c.sector))
  IN  /\ t \in Seq(Nat) /\ Len(t) = 5 + l
      /\ t[1] = Dollar /\ t[2] = R /\ t[3] = R /\ t[4] = Space
      /\ \A i \in 1..l : t[4 + i] = Decimal(c.sector)[i]
      /\ t[5 + l] = Newline

LEMMA GetTextIs ==
  ASSUME NEW c \in Commands, ~c.put
  PROVE  GetText(Text(c), c)
<1> DEFINE a == <<Dollar, R, R, Space>>
           d == Decimal(c.sector)
           l == Len(d)
<1>1. Text(c) = ((a \o d) \o <<>>) \o <<Newline>>
  BY DEF Text
<1>2. a \in Seq(Nat) /\ <<Newline>> \in Seq(Nat)
  BY Chars
<1>3. d \in Seq(Nat) /\ l \in 1..3
  <2>1. d \in Seq(20..29) /\ l \in 1..3
    <3>1. c.sector \in 0..999
      BY CommandType
    <3> QED
      BY <3>1, DecimalIs, ZenonT(60)
  <2>2. 20..29 \subseteq Nat
    OBVIOUS
  <2> QED
    BY <2>1, <2>2, SeqMonotonic
<1>4. /\ Len(a) = 4 /\ a[1] = Dollar /\ a[2] = R /\ a[3] = R /\ a[4] = Space
      /\ Len(d) = l /\ Len(<<Newline>>) = 1 /\ <<Newline>>[1] = Newline
  OBVIOUS
<1> HIDE DEF a, d, l
<1>5. PICK u : u = a \o d
  OBVIOUS
<1>6. Join(u, a, 4, d, l)
  BY <1>2, <1>3, <1>4, <1>5, Joined, Zenon
<1>a. u \in Seq(Nat) /\ Len(u) = 4 + l
  BY <1>6, Zenon DEF Join
<1>7. u \o <<>> = u
  BY <1>6, ConcatEmptySeq DEF Join
<1>8. PICK t : t = u \o <<Newline>>
  OBVIOUS
<1>9. t = Text(c)
  BY <1>1, <1>5, <1>7, <1>8
<1>10. Join(t, u, 4 + l, <<Newline>>, 1)
  BY <1>2, <1>4, <1>8, <1>a, Joined, Zenon
<1>11. Len(t) = 5 + l /\ t[5 + l] = Newline
  <2>1. 5 + l = (4 + l) + 1
    BY <1>3
  <2> QED
    BY <1>4, <1>10, <2>1 DEF Join
<1>b. (\A i \in 1..4 : u[i] = a[i]) /\ \A i \in 1..l : u[4 + i] = d[i]
  BY <1>6, Zenon DEF Join
<1>c. \A i \in 1..(4 + l) : t[i] = u[i]
  BY <1>10, Zenon DEF Join
<1>12. t[1] = Dollar /\ t[2] = R /\ t[3] = R /\ t[4] = Space
  BY <1>3, <1>4, <1>b, <1>c
<1>13. \A i \in 1..l : t[4 + i] = d[i]
  BY <1>3, <1>b, <1>c
<1> QED
  BY <1>9, <1>10, <1>11, <1>12, <1>13 DEF GetText, d, l, Join

(* What the proofs use of the text of a command.                           *)
TextFacts(t, c) ==
  LET l == Len(Decimal(c.sector))
      n == Len(c.data)
  IN  /\ t \in Seq(Nat) /\ Len(t) \in Nat /\ Len(t) >= 5 + l /\ l \in 1..3 /\ n \in Nat
      /\ t[1] = Dollar /\ t[2] = R /\ t[3] = (IF c.put THEN W ELSE R) /\ t[4] = Space
      /\ \A i \in 1..l : t[4 + i] = Decimal(c.sector)[i]
      /\ \A i \in 4..Len(t) : t[i] # R
      /\ t[Len(t)] # Dollar /\ t[Len(t) - 1] # Dollar

LEMMA DigitIs ==
  ASSUME NEW c \in Commands
  PROVE  /\ Len(Decimal(c.sector)) \in 1..3
         /\ \A i \in 1..Len(Decimal(c.sector)) : Decimal(c.sector)[i] \in 20..29
<1>1. c.sector \in 0..999
  BY CommandType
<1>2. Decimal(c.sector) \in Seq(20..29) /\ Len(Decimal(c.sector)) \in 1..3
  BY <1>1, DecimalIs, ZenonT(60)
<1> QED
  BY <1>2, ElementOfSeq

LEMMA DataIs ==
  ASSUME NEW c \in Commands
  PROVE  LET n == Len(c.data)
             e == Enc(c.data, n)
         IN  /\ n \in Nat /\ Len(e) \in Nat /\ e \in Seq(Letters)
             /\ \A i \in 1..Len(e) : e[i] \in Letters
<1> DEFINE n == Len(c.data)
           e == Enc(c.data, n)
<1>1. n \in Nat /\ n \in 0..n
  BY CommandType, LenProperties
<1>2. e \in Seq(Letters) /\ Len(e) \in Nat
  BY <1>1, CommandType, EncType
<1>3. \A i \in 1..Len(e) : e[i] \in Letters
  BY <1>2, ElementOfSeq, Zenon
<1> QED
  BY <1>1, <1>2, <1>3

LEMMA TextIs ==
  ASSUME NEW c \in Commands
  PROVE  TextFacts(Text(c), c)
<1>1. PICK t : t = Text(c)
  OBVIOUS
<1>2. PICK l : l = Len(Decimal(c.sector))
  OBVIOUS
<1>3. PICK m : m = Len(Enc(c.data, Len(c.data)))
  OBVIOUS
<1>4. l \in 1..3 /\ \A i \in 1..l : Decimal(c.sector)[i] \in 20..29
  BY <1>2, DigitIs
<1>5. Len(c.data) \in Nat /\ m \in Nat /\ \A i \in 1..m : Enc(c.data, Len(c.data))[i] \in 0..5
  BY <1>3, DataIs DEF Letters
<1>6. CASE c.put = TRUE
  <2>1. PutText(t, c)
    BY <1>1, <1>6, PutTextIs
  <2>2. Len(t) = 8 + l + m
    <3>1. Len(t) = Pos(c, Len(c.data)) + 2
      BY <2>1 DEF PutText
    <3> QED
      BY <1>2, <1>3, <1>4, <1>5, <3>1 DEF Pos
  <2>3. /\ t \in Seq(Nat) /\ t[1] = Dollar /\ t[2] = R /\ t[3] = W /\ t[4] = Space
        /\ \A i \in 1..l : t[4 + i] = Decimal(c.sector)[i]
        /\ t[5 + l] = Space /\ t[6 + l] = Quote
    BY <1>2, <2>1 DEF PutText
  <2>4. /\ \A i \in 1..m : t[6 + l + i] = Enc(c.data, Len(c.data))[i]
        /\ t[7 + l + m] = Quote /\ t[8 + l + m] = Newline
    BY <1>2, <1>3, <2>1 DEF PutText
  <2>5. ASSUME NEW i \in 4..Len(t)
        PROVE  t[i] # R
    <3>1. \/ i = 4 \/ i = 5 + l \/ i = 6 + l \/ i = 7 + l + m \/ i = 8 + l + m
          \/ i - 4 \in 1..l \/ i - (6 + l) \in 1..m
      BY <1>4, <1>5, <2>2
    <3>2. CASE i - 4 \in 1..l
      <4>1. t[4 + (i - 4)] \in 20..29
        BY <1>4, <2>3, <3>2
      <4> QED
        BY <4>1, Chars
    <3>3. CASE i - (6 + l) \in 1..m
      <4>1. PICK q \in 1..m : i = 6 + l + q
        BY <1>4, <1>5, <3>3
      <4>2. t[i] \in 0..5
        BY <1>5, <2>4, <4>1
      <4> QED
        BY <4>2, Chars
    <3>4. CASE i = 4 \/ i = 5 + l \/ i = 6 + l
      BY <2>3, <3>4, Chars, SMTT(30)
    <3>5. CASE i = 7 + l + m \/ i = 8 + l + m
      BY <2>4, <3>5, Chars
    <3> QED
      BY <3>1, <3>2, <3>3, <3>4, <3>5
  <2>6. t[Len(t)] # Dollar /\ t[Len(t) - 1] # Dollar
    <3>1. Len(t) - 1 = 7 + l + m
      BY <1>4, <1>5, <2>2
    <3> QED
      BY <2>2, <2>4, <3>1, Chars
  <2>7. Len(t) \in Nat /\ Len(t) >= 5 + l
    BY <1>4, <1>5, <2>2
  <2> QED
    BY <1>1, <1>2, <1>4, <1>5, <1>6, <2>3, <2>5, <2>6, <2>7 DEF TextFacts
<1>7. CASE c.put = FALSE
  <2>1. GetText(t, c)
    BY <1>1, <1>7, GetTextIs
  <2>2. /\ t \in Seq(Nat) /\ t[1] = Dollar /\ t[2] = R /\ t[3] = R /\ t[4] = Space
        /\ \A i \in 1..l : t[4 + i] = Decimal(c.sector)[i]
        /\ t[5 + l] = Newline /\ Len(t) = 5 + l
    BY <1>2, <2>1 DEF GetText
  <2>3. ASSUME NEW i \in 4..Len(t)
        PROVE  t[i] # R /\ t[i] # Dollar
    <3>1. i = 4 \/ i = 5 + l \/ i - 4 \in 1..l
      BY <1>4, <2>2
    <3>2. CASE i - 4 \in 1..l
      <4>1. t[4 + (i - 4)] \in 20..29
        BY <1>4, <2>2, <3>2
      <4> QED
        BY <4>1, Chars
    <3> QED
      BY <2>2, <3>1, <3>2, Chars
  <2>4. Len(t) \in 4..Len(t) /\ Len(t) - 1 \in 4..Len(t)
    BY <1>4, <2>2
  <2> QED
    BY <1>1, <1>2, <1>4, <1>5, <1>7, <2>2, <2>3, <2>4 DEF TextFacts
<1> QED
  BY <1>6, <1>7, CommandType, ZenonT(60)

LEMMA TextLength ==
  ASSUME NEW c \in Commands
  PROVE  Text(c) \in Seq(Nat) /\ Len(Text(c)) \in Nat /\ Len(Text(c)) >= 6
<1>1. PICK n : n = Len(Text(c))
  OBVIOUS
<1>2. PICK l : l = Len(Decimal(c.sector))
  OBVIOUS
<1>3. Text(c) \in Seq(Nat) /\ n \in Nat /\ n >= 5 + l /\ l \in 1..3
  BY <1>1, <1>2, TextIs DEF TextFacts
<1> QED
  BY <1>1, <1>3

(* After the first character there is no dollar sign in $RR.               *)
LEMMA GetPlain ==
  ASSUME NEW c \in Commands, ~c.put
  PROVE  LET t == Text(c)
             l == Len(Decimal(c.sector))
         IN  /\ Len(t) = 5 + l /\ t[5 + l] = Newline
             /\ \A i \in 2..Len(t) : t[i] # Dollar
<1>1. PICK t : t = Text(c)
  OBVIOUS
<1>2. PICK l : l = Len(Decimal(c.sector))
  OBVIOUS
<1>3. l \in 1..3 /\ \A i \in 1..l : Decimal(c.sector)[i] \in 20..29
  BY <1>2, DigitIs
<1>4. /\ t[2] = R /\ t[3] = R /\ t[4] = Space /\ t[5 + l] = Newline /\ Len(t) = 5 + l
      /\ \A i \in 1..l : t[4 + i] = Decimal(c.sector)[i]
  BY <1>1, <1>2, GetTextIs DEF GetText
<1>5. ASSUME NEW i \in 2..Len(t)
      PROVE  t[i] # Dollar
  <2>1. i = 2 \/ i = 3 \/ i = 4 \/ i = 5 + l \/ i - 4 \in 1..l
    BY <1>3, <1>4
  <2>2. CASE i - 4 \in 1..l
    <3>1. t[4 + (i - 4)] \in 20..29
      BY <1>3, <1>4, <2>2
    <3> QED
      BY <3>1, Chars
  <2> QED
    BY <1>4, <2>1, <2>2, Chars
<1> QED
  BY <1>1, <1>2, <1>4, <1>5

(* In $RW the j-th byte is behind the opening quote and the bytes before   *)
(* it, and the last byte is followed by the closing quote and a newline.   *)
PutFacts(t, c) ==
  LET l == Len(Decimal(c.sector))
      n == Len(c.data)
  IN  /\ t[5 + l] = Space /\ t[6 + l] = Quote /\ Pos(c, 0) = 6 + l
      /\ Len(t) = Pos(c, n) + 2 /\ t[Pos(c, n) + 1] = Quote /\ t[Pos(c, n) + 2] = Newline
      /\ \A j \in 0..n : Pos(c, j) \in 0..Pos(c, n)
      /\ \A j \in 0..(n - 1) :
           LET x == Escaped(c.data[j + 1])
           IN  /\ Pos(c, j + 1) = Pos(c, j) + Len(x)
               /\ \A i \in 1..Len(x) : t[Pos(c, j) + i] = x[i]
      /\ \A j \in 0..n : (\A i \in (j + 1)..n : c.data[i] = 3) =>
           \A i \in (Pos(c, j) + 1)..Len(t) : t[i] # Dollar

LEMMA PutIs ==
  ASSUME NEW c \in Commands, c.put
  PROVE  PutFacts(Text(c), c)
<1>1. PICK t : t = Text(c)
  OBVIOUS
<1>2. PICK l : l = Len(Decimal(c.sector))
  OBVIOUS
<1>3. PICK d : d = c.data
  OBVIOUS
<1>4. PICK n : n = Len(d)
  OBVIOUS
<1>5. PICK e : e = Enc(d, n)
  OBVIOUS
<1>6. l \in 1..3 /\ d \in Seq(Bytes)
  BY <1>2, <1>3, DigitIs, CommandType
<1>7. n \in Nat /\ Len(e) \in Nat
  BY <1>3, <1>4, <1>5, DataIs
<1>8. /\ t[5 + l] = Space /\ t[6 + l] = Quote /\ Len(t) = Pos(c, n) + 2
      /\ t[7 + l + Len(e)] = Quote /\ t[8 + l + Len(e)] = Newline
      /\ \A i \in 1..Len(e) : t[6 + l + i] = e[i]
  BY <1>1, <1>2, <1>3, <1>4, <1>5, PutTextIs DEF PutText
<1>9. \A j : Pos(c, j) = 6 + l + Len(Enc(d, j))
  BY <1>2, <1>3 DEF Pos
<1>10. /\ \A j \in 0..n : Len(Enc(d, j)) \in Nat /\ Enc(d, j) \in Seq(Letters)
  BY <1>4, <1>6, EncType
<1>11. \A j \in 0..n, k \in 0..n : j <= k =>
         /\ Len(Enc(d, j)) <= Len(Enc(d, k))
         /\ \A i \in 1..Len(Enc(d, j)) : Enc(d, k)[i] = Enc(d, j)[i]
         /\ (\A i \in (j + 1)..n : d[i] = 3) =>
              \A i \in (Len(Enc(d, j)) + 1)..Len(Enc(d, k)) : Enc(d, k)[i] = 3
  BY <1>4, <1>6, <1>7, EncGrows
<1>12. Pos(c, 0) = 6 + l
  <2>2. [i \in 1..0 |-> Escaped(d[i])] = <<>>
    OBVIOUS
  <2>3. Enc(d, 0) = <<>>
    BY <2>2, FlattenEmpty DEF Enc
  <2> QED
    BY <1>6, <1>9, <2>3
<1>13. Pos(c, n) = 6 + l + Len(e) /\ Pos(c, n) + 1 = 7 + l + Len(e) /\ Pos(c, n) + 2 = 8 + l + Len(e)
  BY <1>5, <1>6, <1>7, <1>9
<1>14. \A j \in 0..n : Pos(c, j) \in 0..Pos(c, n)
  <2> SUFFICES ASSUME NEW j \in 0..n PROVE Pos(c, j) \in 0..Pos(c, n)
    OBVIOUS
  <2>1. n \in 0..n /\ j <= n
    BY <1>7
  <2>2. Len(Enc(d, j)) <= Len(Enc(d, n)) /\ Len(Enc(d, j)) \in Nat /\ Len(Enc(d, n)) \in Nat
    BY <1>10, <1>11, <2>1
  <2> QED
    BY <1>6, <1>9, <2>2
<1>15. ASSUME NEW j \in 0..(n - 1)
       PROVE  LET x == Escaped(d[j + 1])
              IN  /\ Pos(c, j + 1) = Pos(c, j) + Len(x)
                  /\ \A i \in 1..Len(x) : t[Pos(c, j) + i] = x[i]
  <2>1. PICK x : x = Escaped(d[j + 1])
    OBVIOUS
  <2>2. j \in 0..n /\ j + 1 \in 0..n /\ j + 1 \in 1..n /\ n \in 0..n /\ j + 1 <= n
    BY <1>7
  <2>3. x \in Seq(Letters) /\ Len(x) \in 1..4
    <3>1. d[j + 1] \in Bytes
      BY <1>4, <1>6, <2>2, ElementOfSeq
    <3> QED
      BY <2>1, <3>1, EscapedIs
  <2>4. PICK a : a = Enc(d, j)
    OBVIOUS
  <2>5. PICK b : b = Enc(d, j + 1)
    OBVIOUS
  <2>6. b = a \o x
    BY <1>4, <1>6, <2>1, <2>4, <2>5, EncStep
  <2>7. a \in Seq(Letters) /\ Len(a) \in Nat
    BY <1>10, <2>2, <2>4
  <2>8. /\ Len(b) = Len(a) + Len(x)
        /\ \A i \in 1..(Len(a) + Len(x)) : b[i] = IF i <= Len(a) THEN a[i] ELSE x[i - Len(a)]
    BY <2>3, <2>6, <2>7, ConcatProperties
  <2>9. Len(b) <= Len(e) /\ \A i \in 1..Len(b) : e[i] = b[i]
    BY <1>5, <1>11, <2>2, <2>5
  <2>10. Pos(c, j + 1) = Pos(c, j) + Len(x)
    BY <1>6, <1>9, <2>3, <2>4, <2>5, <2>7, <2>8
  <2>11. ASSUME NEW i \in 1..Len(x)
         PROVE  t[Pos(c, j) + i] = x[i]
    <3>1. Len(a) + i \in 1..(Len(a) + Len(x)) /\ ~(Len(a) + i <= Len(a)) /\ (Len(a) + i) - Len(a) = i
      BY <2>3, <2>7
    <3>2. b[Len(a) + i] = x[i]
      BY <2>8, <3>1
    <3>3. e[Len(a) + i] = x[i] /\ Len(a) + i \in 1..Len(e)
      BY <1>7, <2>8, <2>9, <3>1, <3>2
    <3>4. Pos(c, j) + i = 6 + l + (Len(a) + i)
      BY <1>6, <1>9, <2>3, <2>4, <2>7
    <3>5. t[6 + l + (Len(a) + i)] = x[i]
      BY <1>8, <3>3
    <3> QED
      BY <3>4, <3>5
  <2> QED
    BY <2>1, <2>10, <2>11
<1>16. ASSUME NEW j \in 0..n, \A i \in (j + 1)..n : d[i] = 3,
              NEW i \in (Pos(c, j) + 1)..Len(t)
       PROVE  t[i] # Dollar
  <2>1. n \in 0..n /\ j <= n
    BY <1>7
  <2>2. PICK k : k = Len(Enc(d, j))
    OBVIOUS
  <2>3. k \in Nat /\ \A q \in (k + 1)..Len(e) : e[q] = 3
    BY <1>5, <1>10, <1>11, <1>16, <2>1, <2>2
  <2>4. \/ i - (6 + l) \in (k + 1)..Len(e) \/ i = 7 + l + Len(e) \/ i = 8 + l + Len(e)
    BY <1>6, <1>7, <1>8, <1>9, <1>13, <2>2, <2>3, SMTT(30)
  <2>5. CASE i - (6 + l) \in (k + 1)..Len(e)
    <3>1. PICK q \in (k + 1)..Len(e) : i = 6 + l + q
      BY <1>6, <1>7, <2>3, <2>5
    <3>2. e[q] = 3 /\ q \in 1..Len(e)
      BY <1>7, <2>3
    <3>3. t[i] = 3
      BY <1>8, <3>1, <3>2
    <3> QED
      BY <3>3, Chars
  <2> QED
    BY <1>8, <2>4, <2>5, Chars
<1> QED
  BY <1>1, <1>2, <1>3, <1>4, <1>8, <1>12, <1>13, <1>14, <1>15, <1>16 DEF PutFacts

-----------------------------------------------------------------------------
(* Reading the number back.                                                *)

(* s has the number n behind one character, and no other digits.           *)
Numeral(s, n) ==
  LET l == Len(Decimal(n))
  IN  /\ s \in Seq(Nat) /\ Len(s) \in (1 + l)..6 /\ ~IsDigit(s[1])
      /\ \A i \in 1..l : s[1 + i] = Decimal(n)[i]
      /\ \A i \in (2 + l)..Len(s) : ~IsDigit(s[i])

LEMMA DigitValue ==
  ASSUME NEW v \in Nat, NEW d \in 0..9
  PROVE  NextValue(v, 20 + d) = 10 * v + d /\ NextValue(0, 20 + d) = d
BY DEF NextValue, IsDigit, Digit

LEMMA NumberIs ==
  ASSUME NEW n \in 0..999, NEW s, Numeral(s, n)
  PROVE  Number(s) = n
<1>1. PICK l : l = Len(Decimal(n))
  OBVIOUS
<1>2. /\ s \in Seq(Nat) /\ Len(s) \in (1 + l)..6 /\ ~IsDigit(s[1])
      /\ \A i \in 1..l : s[1 + i] = Decimal(n)[i]
      /\ \A i \in (2 + l)..Len(s) : ~IsDigit(s[i])
  BY <1>1 DEF Numeral
<1>3. PICK f : Values(f, s) /\ Number(s) = f[Len(s)]
  BY <1>2, NumberValues
<1>4. l \in 1..3
  BY <1>1, DecimalIs, ZenonT(60)
<1>5. f[0] = 0 /\ \A i \in 1..Len(s) : f[i] = NextValue(f[i - 1], s[i])
  BY <1>3 DEF Values
<1>6. \A v, x : ~IsDigit(x) => NextValue(v, x) = v
  BY DEF NextValue
<1>7. f[1] = 0
  <2>1. 1 \in 1..Len(s) /\ 1 - 1 = 0
    BY <1>2, <1>4
  <2>2. f[1] = NextValue(f[0], s[1])
    BY <1>5, <2>1
  <2> QED
    BY <1>2, <1>5, <1>6, <2>2
<1>8. f[1 + l] = n
  <2>1. CASE n < 10
    <3>1. Decimal(n) = <<20 + n>>
      BY <2>1, DecimalIs, ZenonT(60)
    <3>2. l = 1 /\ Decimal(n)[1] = 20 + n
      BY <1>1, <3>1
    <3>3. 2 \in 1..Len(s) /\ 2 - 1 = 1 /\ s[2] = 20 + n
      BY <1>2, <3>2
    <3>4. f[2] = NextValue(0, 20 + n)
      BY <1>5, <1>7, <3>3
    <3>5. NextValue(0, 20 + n) = n
      <4>1. n \in 0..9
        BY <2>1
      <4> QED
        BY <4>1, DigitValue
    <3> QED
      BY <3>2, <3>4, <3>5
  <2>2. CASE n \in 10..99
    <3>1. Decimal(n) = <<20 + (n \div 10), 20 + (n % 10)>>
      BY <2>2, DecimalIs, ZenonT(60)
    <3>2. PICK a : a = n \div 10
      OBVIOUS
    <3>3. PICK b : b = n % 10
      OBVIOUS
    <3>4. a \in 0..9 /\ b \in 0..9 /\ n = 10 * a + b
      BY <2>2, <3>2, <3>3
    <3>5. l = 2 /\ Decimal(n)[1] = 20 + a /\ Decimal(n)[2] = 20 + b
      BY <1>1, <3>1, <3>2, <3>3
    <3>6. /\ 2 \in 1..Len(s) /\ 2 - 1 = 1 /\ s[2] = 20 + a
          /\ 3 \in 1..Len(s) /\ 3 - 1 = 2 /\ s[3] = 20 + b
      BY <1>2, <3>5
    <3>7. f[2] = NextValue(0, 20 + a) /\ f[3] = NextValue(f[2], 20 + b)
      BY <1>5, <1>7, <3>6
    <3>8. NextValue(0, 20 + a) = a /\ NextValue(a, 20 + b) = 10 * a + b
      <4>1. a \in Nat
        BY <3>4
      <4> QED
        BY <3>4, <4>1, DigitValue, ZenonT(60)
    <3> QED
      BY <3>4, <3>5, <3>7, <3>8
  <2>3. CASE n >= 100
    <3>1. Decimal(n) = <<20 + (n \div 100), 20 + ((n \div 10) % 10), 20 + (n % 10)>>
      BY <2>3, DecimalIs, ZenonT(60)
    <3>2. PICK a : a = n \div 100
      OBVIOUS
    <3>3. PICK b : b = (n \div 10) % 10
      OBVIOUS
    <3>4. PICK c : c = n % 10
      OBVIOUS
    <3>5. a \in 0..9 /\ b \in 0..9 /\ c \in 0..9 /\ n = 10 * (10 * a + b) + c
      BY <2>3, <3>2, <3>3, <3>4
    <3>6. l = 3 /\ Decimal(n)[1] = 20 + a /\ Decimal(n)[2] = 20 + b /\ Decimal(n)[3] = 20 + c
      BY <1>1, <3>1, <3>2, <3>3, <3>4
    <3>7. /\ 2 \in 1..Len(s) /\ 2 - 1 = 1 /\ s[2] = 20 + a
          /\ 3 \in 1..Len(s) /\ 3 - 1 = 2 /\ s[3] = 20 + b
          /\ 4 \in 1..Len(s) /\ 4 - 1 = 3 /\ s[4] = 20 + c
      BY <1>2, <3>6
    <3>8. f[2] = NextValue(0, 20 + a) /\ f[3] = NextValue(f[2], 20 + b) /\ f[4] = NextValue(f[3], 20 + c)
      BY <1>5, <1>7, <3>7
    <3>9. NextValue(0, 20 + a) = a /\ NextValue(a, 20 + b) = 10 * a + b
      <4>1. a \in Nat
        BY <3>5
      <4> QED
        BY <3>5, <4>1, DigitValue, ZenonT(60)
    <3>10. NextValue(10 * a + b, 20 + c) = 10 * (10 * a + b) + c
      <4>1. 10 * a + b \in Nat
        BY <3>5
      <4> QED
        BY <3>5, <4>1, DigitValue, ZenonT(60)
    <3> QED
      BY <3>5, <3>6, <3>8, <3>9, <3>10
  <2> QED
    BY <2>1, <2>2, <2>3
<1>9. \A i \in (2 + l)..Len(s) : f[i] = f[i - 1]
  <2> SUFFICES ASSUME NEW i \in (2 + l)..Len(s) PROVE f[i] = f[i - 1]
    OBVIOUS
  <2>1. i \in 1..Len(s) /\ ~IsDigit(s[i])
    BY <1>2, <1>4
  <2> QED
    BY <1>5, <1>6, <2>1
<1>10. \A i \in (1 + l)..Len(s) : f[i] = n
  <2> DEFINE S == {k \in Nat : 1 + l + k <= Len(s) => f[1 + l + k] = n}
  <2>1. 0 \in S
    BY <1>4, <1>8
  <2>2. ASSUME NEW k \in Nat, k \in S
        PROVE  k + 1 \in S
    <3> SUFFICES ASSUME 1 + l + (k + 1) <= Len(s) PROVE f[1 + l + (k + 1)] = n
      OBVIOUS
    <3>1. 1 + l + (k + 1) \in (2 + l)..Len(s) /\ (1 + l + (k + 1)) - 1 = 1 + l + k /\ 1 + l + k <= Len(s)
      BY <1>2, <1>4
    <3> QED
      BY <1>9, <2>2, <3>1
  <2> HIDE DEF S
  <2>3. Nat \subseteq S
    BY <2>1, <2>2, SetInduction
  <2> USE DEF S
  <2> SUFFICES ASSUME NEW i \in (1 + l)..Len(s) PROVE f[i] = n
    OBVIOUS
  <2>4. i - (1 + l) \in S /\ i = 1 + l + (i - (1 + l)) /\ i <= Len(s)
    <3>1. i - (1 + l) \in Nat /\ i = 1 + l + (i - (1 + l)) /\ i <= Len(s)
      BY <1>2, <1>4
    <3> QED
      BY <2>3, <3>1
  <2> QED
    BY <2>4
<1> QED
  <2>1. Len(s) \in (1 + l)..Len(s)
    BY <1>2, <1>4
  <2> QED
    BY <1>3, <1>10, <2>1

-----------------------------------------------------------------------------
(* What of the text is still to be taken.                                  *)

Rest == fifo \o line

(* w is r without its first m characters.                                  *)
Cut(w, r, m) ==
  /\ w \in Seq(Nat) /\ r \in Seq(Nat) /\ m \in Nat /\ m <= Len(r) /\ Len(w) = Len(r) - m
  /\ \A i \in 1..Len(w) : w[i] = r[i + m]

(* r is the text t from the character behind off on, or all of it and      *)
(* before it characters in which no command can begin to be read.          *)
Shift(r, t, off) ==
  /\ r \in Seq(Nat) /\ off \in Int /\ Len(r) = Len(t) - off
  /\ \A i \in 1..Len(r) : IF i + off >= 1 THEN r[i] = t[i + off] ELSE r[i] # R

NoR(r) == \A i \in 1..Len(r) : r[i] # R
NoDollar(r) == \A i \in 1..Len(r) : r[i] # Dollar

LEMMA RestIs ==
  ASSUME NEW f \in Seq(Nat), NEW g \in Seq(Nat)
  PROVE  /\ f \o g \in Seq(Nat) /\ Len(f \o g) = Len(f) + Len(g)
         /\ Len(f) \in Nat /\ Len(g) \in Nat
         /\ \A i \in 1..Len(f) : (f \o g)[i] = f[i] /\ f[i] \in Nat
         /\ g = <<>> => f \o g = f
         /\ g = <<>> <=> Len(g) = 0
<1>1. Len(f) \in Nat /\ Len(g) \in Nat
  BY LenProperties
<1>2. /\ f \o g \in Seq(Nat) /\ Len(f \o g) = Len(f) + Len(g)
      /\ \A i \in 1..(Len(f) + Len(g)) : (f \o g)[i] = IF i <= Len(f) THEN f[i] ELSE g[i - Len(f)]
  BY ConcatProperties
<1>3. \A i \in 1..Len(f) : (f \o g)[i] = f[i] /\ f[i] \in Nat
  BY <1>1, <1>2, ElementOfSeq
<1>4. g = <<>> <=> Len(g) = 0
  BY EmptySeq
<1>5. g = <<>> => f \o g = f
  BY ConcatEmptySeq
<1> QED
  BY <1>1, <1>2, <1>3, <1>4, <1>5

LEMMA CutFront ==
  ASSUME NEW f \in Seq(Nat), NEW g \in Seq(Nat), NEW k \in Nat
  PROVE  LET h == SubSeq(f, k + 1, Len(f))
             m == IF k <= Len(f) THEN k ELSE Len(f)
         IN  h \in Seq(Nat) /\ Len(h) = Len(f) - m /\ Cut(h \o g, f \o g, m)
<1> DEFINE h == SubSeq(f, k + 1, Len(f))
           m == IF k <= Len(f) THEN k ELSE Len(f)
<1>1. Len(f) \in Nat /\ Len(g) \in Nat /\ m \in Nat /\ m <= Len(f)
  BY LenProperties
<1>2. h \in Seq(Nat) /\ Len(h) = Len(f) - m /\ \A i \in 1..Len(h) : h[i] = f[i + m]
  <2>1. h \in Seq(Nat)
    BY <1>1
  <2>2. Len(h) = Len(f) - m
    <3>1. Len(h) = IF k + 1 <= Len(f) THEN Len(f) - (k + 1) + 1 ELSE 0
      BY <1>1
    <3> HIDE DEF h
    <3>2. CASE k + 1 <= Len(f)
      BY <1>1, <3>1, <3>2
    <3>3. CASE ~(k + 1 <= Len(f))
      BY <1>1, <3>1, <3>3
    <3> QED
      BY <3>2, <3>3
  <2>3. \A i \in 1..Len(h) : h[i] = f[i + m]
    BY <1>1
  <2> QED
    BY <2>1, <2>2, <2>3
<1> HIDE DEF h, m
<1>3. /\ f \o g \in Seq(Nat) /\ Len(f \o g) = Len(f) + Len(g)
      /\ \A i \in 1..(Len(f) + Len(g)) : (f \o g)[i] = IF i <= Len(f) THEN f[i] ELSE g[i - Len(f)]
  BY ConcatProperties
<1>4. /\ h \o g \in Seq(Nat) /\ Len(h \o g) = Len(h) + Len(g)
      /\ \A i \in 1..(Len(h) + Len(g)) : (h \o g)[i] = IF i <= Len(h) THEN h[i] ELSE g[i - Len(h)]
  BY <1>2, ConcatProperties
<1>5. ASSUME NEW i \in 1..(Len(h) + Len(g))
      PROVE  (h \o g)[i] = (f \o g)[i + m]
  <2>1. i + m \in 1..(Len(f) + Len(g))
    BY <1>1, <1>2
  <2>2. CASE i <= Len(h)
    <3>1. i \in 1..Len(h) /\ i + m <= Len(f)
      BY <1>1, <1>2, <2>2
    <3> QED
      BY <1>2, <1>3, <1>4, <2>1, <2>2, <3>1
  <2>3. CASE ~(i <= Len(h))
    <3>1. ~(i + m <= Len(f)) /\ (i + m) - Len(f) = i - Len(h)
      BY <1>1, <1>2, <2>3
    <3> QED
      BY <1>3, <1>4, <2>1, <2>3, <3>1
  <2> QED
    BY <2>2, <2>3
<1>6. Cut(h \o g, f \o g, m)
  BY <1>1, <1>2, <1>3, <1>4, <1>5 DEF Cut
<1> QED
  BY <1>2, <1>6 DEF h, m

LEMMA CutKeeps ==
  ASSUME NEW w, NEW r, NEW m, Cut(w, r, m)
  PROVE  /\ NoR(r) => NoR(w)
         /\ NoDollar(r) => NoDollar(w)
         /\ \A t, off : t \in Seq(Nat) /\ Shift(r, t, off) => Shift(w, t, off + m)
<1>1. /\ w \in Seq(Nat) /\ r \in Seq(Nat) /\ m \in Nat /\ m <= Len(r) /\ Len(w) = Len(r) - m
      /\ \A i \in 1..Len(w) : w[i] = r[i + m]
  BY DEF Cut
<1>2. \A i \in 1..Len(w) : i + m \in 1..Len(r)
  BY <1>1
<1>3. NoR(r) => NoR(w)
  BY <1>1, <1>2 DEF NoR
<1>4. NoDollar(r) => NoDollar(w)
  BY <1>1, <1>2 DEF NoDollar
<1>5. ASSUME NEW t \in Seq(Nat), NEW off, Shift(r, t, off)
      PROVE  Shift(w, t, off + m)
  <2>1. off \in Int /\ Len(r) = Len(t) - off /\ Len(t) \in Nat
    BY <1>5 DEF Shift
  <2>2. \A i \in 1..Len(r) : IF i + off >= 1 THEN r[i] = t[i + off] ELSE r[i] # R
    BY <1>5 DEF Shift
  <2>3. ASSUME NEW i \in 1..Len(w)
        PROVE  IF i + (off + m) >= 1 THEN w[i] = t[i + (off + m)] ELSE w[i] # R
    <3>1. i + (off + m) = (i + m) + off
      BY <1>1, <2>1
    <3>2. IF (i + m) + off >= 1 THEN r[i + m] = t[(i + m) + off] ELSE r[i + m] # R
      BY <1>2, <2>2
    <3> QED
      BY <1>1, <3>1, <3>2
  <2>4. off + m \in Int /\ Len(w) = Len(t) - (off + m)
    BY <1>1, <2>1
  <2> QED
    BY <1>1, <2>3, <2>4 DEF Shift
<1> QED
  BY <1>3, <1>4, <1>5

-----------------------------------------------------------------------------
(* The flash.                                                              *)

Memories == [Regions -> [1..SectorBytes -> Bytes]]

LEMMA WordBefore ==
  ASSUME NEW i \in Nat \ {0}, NEW k \in Nat \ {0}, i <= (k - 1) * WordBytes
  PROVE  WordOf(i) \in 1..(k - 1)
<1>1. WordBytes \in Nat \ {0}
  BY FlashAssumption
<1>2. PICK q : q = (i - 1) \div WordBytes
  OBVIOUS
<1>3. PICK b : b = WordBytes
  OBVIOUS
<1>4. q \in Nat /\ b * q <= i - 1 /\ b \in Nat \ {0}
  BY <1>1, <1>2, <1>3
<1>5. i <= (k - 1) * b
  BY <1>3
<1>6. q <= k - 2
  <2> SUFFICES ASSUME q >= k - 1 PROVE FALSE
    BY <1>4
  <2>1. PICK e \in Nat : q = (k - 1) + e
    BY <1>4
  <2>2. b * q = b * (k - 1) + b * e /\ b * e \in Nat /\ b * (k - 1) = (k - 1) * b
    BY <1>4, <2>1
  <2> QED
    BY <1>4, <1>5, <2>2
<1> QED
  BY <1>2, <1>4, <1>6 DEF WordOf

LEMMA AndType ==
  ASSUME NEW a \in Bytes, NEW b \in Bytes
  PROVE  And(a, b) \in Bytes
BY DEF And, Bytes, Ones

(* What programming the words of ws does.                                  *)
LEMMA ProgrammedIs ==
  ASSUME NEW m \in Memories, NEW r, NEW data, NEW ws,
         \A i \in 1..SectorBytes : data[i] \in Bytes
  PROVE  LET p == Programmed(m, r, data, ws)
         IN  /\ p \in Memories
             /\ \A q \in Regions : q # r => p[q] = m[q]
             /\ r \in Regions =>
                  \A i \in 1..SectorBytes :
                    p[r][i] = IF WordOf(i) \in ws THEN And(m[r][i], data[i]) ELSE m[r][i]
<1> DEFINE s == [i \in 1..SectorBytes |->
                   IF WordOf(i) \in ws THEN And(m[r][i], data[i]) ELSE m[r][i]]
           p == [m EXCEPT ![r] = s]
<1>1. Programmed(m, r, data, ws) = p
  BY DEF Programmed
<1>2. DOMAIN m = Regions /\ \A q \in Regions : m[q] \in [1..SectorBytes -> Bytes]
  BY DEF Memories
<1>3. CASE r \in Regions
  <2>1. \A i \in 1..SectorBytes : m[r][i] \in Bytes
    BY <1>2, <1>3
  <2>2. s \in [1..SectorBytes -> Bytes]
    BY <2>1, AndType
  <2>3. \A i \in 1..SectorBytes :
          s[i] = IF WordOf(i) \in ws THEN And(m[r][i], data[i]) ELSE m[r][i]
    OBVIOUS
  <2> HIDE DEF s
  <2>4. p \in Memories /\ p[r] = s /\ \A q \in Regions : q # r => p[q] = m[q]
    BY <1>2, <1>3, <2>2 DEF Memories
  <2> QED
    BY <1>1, <2>3, <2>4
<1>4. CASE r \notin Regions
  <2> HIDE DEF s
  <2>1. p \in Memories /\ \A q \in Regions : p[q] = m[q]
    BY <1>2, <1>4 DEF Memories
  <2> QED
    BY <1>1, <1>4, <2>1
<1> QED
  BY <1>3, <1>4

(* The outcome o of writing n bytes of data to sector s.                   *)
Outcome(o, m, s, data, n) ==
  /\ o.mem \in Memories /\ o.n \in Nat
  /\ \A r \in Regions : o.mem[r] # m[r] =>
       r = s \/ (s = 0 /\ n = Len(EraseText) /\ SubSeq(data, 1, n) = EraseText)
  /\ o.status = 0 => s <= MaxSector /\ n <= SectorBytes
  /\ o.status = 0 /\ s \in Regions /\ s # 0 =>
       /\ \/ o.n <= n /\ \A i \in 1..o.n : o.mem[s][i] = data[i]
          \/ o.n = n /\ \A i \in 1..SectorBytes : WordOf(i) > 1 => o.mem[s][i] = m[s][i]

LEMMA CountIs ==
  ASSUME NEW n \in Nat, NEW k \in Nat \ {0}
  PROVE  /\ Count(n, k) \in Nat /\ Count(n, k) <= n
         /\ k = 1 => Count(n, k) = n
         /\ k # 1 => \A i \in 1..Count(n, k) : WordOf(i) \in 1..(k - 1)
<1>1. WordBytes \in Nat \ {0}
  BY FlashAssumption
<1>2. PICK p : p = (k - 1) * WordBytes
  OBVIOUS
<1>3. p \in Nat
  BY <1>1, <1>2
<1>4. Count(n, k) = IF k = 1 \/ p > n THEN n ELSE p
  BY <1>2 DEF Count
<1>5. ASSUME k # 1, NEW i \in 1..Count(n, k)
      PROVE  WordOf(i) \in 1..(k - 1)
  <2>1. i \in Nat \ {0} /\ i <= p
    BY <1>3, <1>4, <1>5
  <2> QED
    BY <1>2, <2>1, WordBefore
<1> QED
  BY <1>3, <1>4, <1>5

LEMMA WrittenIs ==
  ASSUME NEW m \in Memories, NEW s \in Nat, NEW data, NEW n \in Nat, n <= SectorBytes,
         s <= MaxSector,
         \A i \in 1..SectorBytes : data[i] \in Bytes,
         NEW o \in Written(m, s, data, n)
  PROVE  Outcome(o, m, s, data, n)
<1>0. PICK k \in Nat \ {0} : \E ws :
        /\ o.n = Count(n, k) /\ o.mem = Programmed(m, s, data, ws)
        /\ ws = 1..(k - 1) \/ ws = 1..k
        /\ \A i \in 1..(k - 1) : Verified(m, s, data, i)
  <2>1. WordBytes \in Nat \ {0} /\ Words(n) \in Nat
    <3>1. WordBytes \in Nat \ {0}
      BY FlashAssumption
    <3> QED
      BY <3>1 DEF Words
  <2>2. CASE \E k \in {j \in 1..(Words(n) + 1) : \A i \in 1..(j - 1) : Verified(m, s, data, i)} :
               o = [status |-> 0, n |-> Count(n, k), mem |-> Programmed(m, s, data, 1..(k - 1))]
    BY <2>1, <2>2
  <2>3. CASE \E k \in {j \in 1..Words(n) : /\ \A i \in 1..(j - 1) : Verified(m, s, data, i)
                                           /\ ~Verified(m, s, data, j)} :
               o = [status |-> 0, n |-> Count(n, k), mem |-> Programmed(m, s, data, 1..k)]
    BY <2>1, <2>3
  <2> QED
    BY <2>2, <2>3 DEF Written
<1>1. PICK ws :
        /\ k \in Nat \ {0}
        /\ o.n = Count(n, k) /\ o.mem = Programmed(m, s, data, ws)
        /\ ws = 1..(k - 1) \/ ws = 1..k
        /\ \A i \in 1..(k - 1) : Verified(m, s, data, i)
  BY <1>0
<1>2. /\ o.mem \in Memories
      /\ \A q \in Regions : q # s => o.mem[q] = m[q]
      /\ s \in Regions =>
           \A i \in 1..SectorBytes :
             o.mem[s][i] = IF WordOf(i) \in ws THEN And(m[s][i], data[i]) ELSE m[s][i]
  BY <1>1, ProgrammedIs
<1>3. o.n \in Nat /\ o.n <= n
  BY <1>1, CountIs
<1>4. ASSUME s \in Regions, k # 1
      PROVE  \A i \in 1..o.n : o.mem[s][i] = data[i]
  <2> SUFFICES ASSUME NEW i \in 1..o.n PROVE o.mem[s][i] = data[i]
    OBVIOUS
  <2>1. i \in 1..SectorBytes
    BY <1>3, FlashAssumption
  <2>2. WordOf(i) \in 1..(k - 1)
    BY <1>1, <1>4, CountIs
  <2>3. WordOf(i) \in ws
    BY <1>1, <2>2
  <2>4. Verified(m, s, data, WordOf(i))
    BY <1>1, <2>2
  <2>5. And(m[s][i], data[i]) = data[i]
    BY <2>1, <2>4 DEF Verified
  <2> QED
    BY <1>2, <1>4, <2>1, <2>3, <2>5
<1>5. ASSUME s \in Regions, k = 1
      PROVE  o.n = n /\ \A i \in 1..SectorBytes : WordOf(i) > 1 => o.mem[s][i] = m[s][i]
  <2>1. o.n = n
    BY <1>1, <1>5, CountIs
  <2>2. ASSUME NEW i \in 1..SectorBytes, WordOf(i) > 1
        PROVE  o.mem[s][i] = m[s][i]
    <3>1. WordOf(i) \notin ws
      BY <1>1, <1>5, <2>2
    <3> QED
      BY <1>2, <1>5, <3>1
  <2> QED
    BY <2>1, <2>2
<1> QED
  BY <1>2, <1>3, <1>4, <1>5 DEF Outcome

LEMMA RefusedIs ==
  ASSUME NEW m \in Memories, NEW s, NEW data, NEW n \in Nat, NEW code \in Nat \ {0},
         NEW o \in Refused(m, code, n)
  PROVE  Outcome(o, m, s, data, n)
BY DEF Refused, Outcome

LEMMA SectorWriteIs ==
  ASSUME NEW m \in Memories, NEW s \in Nat, NEW data, NEW n \in Nat,
         \A i \in 1..SectorBytes : data[i] \in Bytes,
         NEW o \in SectorWrite(m, s, data, n)
  PROVE  Outcome(o, m, s, data, n)
<1>1. CASE n > SectorBytes
  <2>1. o \in Refused(m, 2, n)
    BY <1>1 DEF SectorWrite
  <2> QED
    BY <2>1, RefusedIs
<1>2. CASE ~(n > SectorBytes) /\ s > MaxSector
  <2>1. o \in Refused(m, 3, n)
    BY <1>2 DEF SectorWrite
  <2> QED
    BY <2>1, RefusedIs
<1>3. CASE ~(n > SectorBytes) /\ ~(s > MaxSector) /\ s = 0 /\ n = Len(EraseText)
  <2>1. CASE SubSeq(data, 1, n) # EraseText
    <3>1. o \in Refused(m, 4, n)
      BY <1>3, <2>1 DEF SectorWrite
    <3> QED
      BY <3>1, RefusedIs
  <2>2. CASE SubSeq(data, 1, n) = EraseText
    <3> DEFINE e == [r \in Regions |-> IF r = 0 THEN m[0] ELSE Erased[r]]
    <3>1. \/ o = [status |-> 0, n |-> n, mem |-> e]
          \/ o = [status |-> 1, n |-> n, mem |-> m]
      BY <1>3, <2>2 DEF SectorWrite
    <3>2. e \in Memories
      <4>1. \A r \in Regions : Erased[r] \in [1..SectorBytes -> Bytes]
        BY DEF Erased, Ones, Bytes
      <4>2. 0 \in Regions => m[0] \in [1..SectorBytes -> Bytes]
        BY DEF Memories
      <4> QED
        BY <4>1, <4>2 DEF Memories
    <3> HIDE DEF e
    <3>3. o.mem \in Memories /\ o.n \in Nat
      BY <3>1, <3>2
    <3>4. s <= MaxSector /\ n <= SectorBytes
      BY <1>3, FlashAssumption
    <3> QED
      BY <1>3, <2>2, <3>3, <3>4 DEF Outcome
  <2> QED
    BY <2>1, <2>2
<1>4. CASE ~(n > SectorBytes) /\ ~(s > MaxSector) /\ ~(s = 0 /\ n = Len(EraseText))
  <2>1. o \in Written(m, s, data, n) /\ n <= SectorBytes /\ s <= MaxSector
    <3>1. SectorBytes \in Nat /\ MaxSector \in Nat
      BY FlashAssumption
    <3> QED
      BY <1>4, <3>1 DEF SectorWrite
  <2> QED
    BY <2>1, WrittenIs
<1> QED
  BY <1>1, <1>2, <1>3, <1>4

-----------------------------------------------------------------------------
(* Types.                                                                  *)

Types == TypeOK /\ (pc \in {"save", "saveWait"} => Len(buf) <= BufSize)

Numbers ==
  /\ CountMod \in Nat \ {0} /\ NumberMod \in Nat \ {0}
  /\ PutWait \in Nat /\ GetWait \in Nat /\ Burst \in Nat /\ BufSize \in Nat /\ MaxCmd \in Nat

LEMMA NumbersOK == Numbers
BY StoreAssumption DEF Numbers

LEMMA CharType ==
  ASSUME fifo \in Seq(Nat), NEW k \in Nat \ {0}
  PROVE  Char(k) \in Nat
<1>1. \A i \in 1..Len(fifo) : fifo[i] \in Nat
  BY ElementOfSeq
<1> QED
  BY <1>1, Chars, LenProperties DEF Char

LEMMA AfterIs ==
  ASSUME fifo \in Seq(Nat), line \in Seq(Nat), NEW k \in Nat
  PROVE  LET m == IF k <= Len(fifo) THEN k ELSE Len(fifo)
         IN  After(k) \in Seq(Nat) /\ Len(After(k)) = Len(fifo) - m /\ Cut(After(k) \o line, Rest, m)
BY CutFront DEF After, Rest

LEMMA LessType ==
  ASSUME NEW n \in Nat, NEW k \in Nat
  PROVE  Less(n, k) \in 0..(CountMod - 1)
BY NumbersOK DEF Less, Numbers

LEMMA OneType ==
  ASSUME NEW x \in Nat
  PROVE  <<x>> \in Seq(Nat) /\ Len(<<x>>) = 1
OBVIOUS

LEMMA TakenType ==
  ASSUME fifo \in Seq(Nat)
  PROVE  /\ Taken.n \in 1..4 /\ Taken.count \in 1..4
         /\ Taken.data \in Seq(Nat) /\ Len(Taken.data) <= 1
<1>1. HexValue \in Nat
  BY Chars DEF HexValue, Ones, Hex
<1>2. Char(1) \in Nat /\ Char(2) \in Nat
  BY CharType
<1>3. /\ <<>> \in Seq(Nat) /\ Len(<<>>) <= 1
      /\ \A x \in Nat : <<x>> \in Seq(Nat) /\ Len(<<x>>) <= 1
  <2>1. \A x \in Nat : <<x>> \in Seq(Nat) /\ Len(<<x>>) = 1
    BY OneType
  <2>2. <<>> \in Seq(Nat) /\ Len(<<>>) = 0
    BY EmptySeq
  <2> QED
    BY <2>1, <2>2
<1>4. PICK a, b, v : a = Char(1) /\ b = Char(2) /\ v = HexValue
  OBVIOUS
<1>5. a \in Nat /\ b \in Nat /\ v \in Nat
  BY <1>1, <1>2, <1>4
<1>6. Taken = CASE a # Dollar -> [n |-> 1, count |-> 1, data |-> <<a>>]
                [] a = Dollar /\ b = X -> [n |-> 4, count |-> 4, data |-> <<v>>]
                [] a = Dollar /\ b \in {Quote, Dollar} -> [n |-> 2, count |-> 2, data |-> <<b>>]
                [] OTHER -> [n |-> 2, count |-> 2, data |-> <<>>]
  BY <1>4, Zenon DEF Taken
<1>7. Quote # X /\ Dollar # X
  BY Chars
<1>8. \/ Taken = [n |-> 1, count |-> 1, data |-> <<a>>]
      \/ Taken = [n |-> 4, count |-> 4, data |-> <<v>>]
      \/ Taken = [n |-> 2, count |-> 2, data |-> <<b>>]
      \/ Taken = [n |-> 2, count |-> 2, data |-> <<>>]
  <2>1. CASE a # Dollar
    BY <1>6, <2>1
  <2>2. CASE a = Dollar /\ b = X
    BY <1>6, <1>7, <2>2
  <2>3. CASE a = Dollar /\ b # X /\ b \in {Quote, Dollar}
    BY <1>6, <1>7, <2>3
  <2>4. CASE a = Dollar /\ b # X /\ b \notin {Quote, Dollar}
    BY <1>6, <1>7, <2>4
  <2> QED
    BY <2>1, <2>2, <2>3, <2>4
<1>9. PICK k, d : Taken = [n |-> k, count |-> k, data |-> d] /\ k \in {1, 2, 4}
                  /\ d \in {<<a>>, <<v>>, <<b>>, <<>>}
  BY <1>8
<1>10. d \in Seq(Nat) /\ Len(d) <= 1
  BY <1>3, <1>5, <1>9, Zenon
<1>11. Taken.n = k /\ Taken.count = k /\ Taken.data = d /\ k \in 1..4
  BY <1>9
<1> QED
  BY <1>10, <1>11

LEMMA TakeByteType ==
  ASSUME fifo \in Seq(Nat), line \in Seq(Nat), buf \in Seq(Nat), Len(buf) <= BufSize,
         NEW n \in Nat, TakeByte(n)
  PROVE  /\ fifo' \in Seq(Nat) /\ rb' \in 0..(CountMod - 1)
         /\ pc' \in {"write", "save"} /\ buf' \in Seq(Nat) /\ Len(buf') <= BufSize + 1
         /\ pc' = "save" => Len(buf') <= BufSize
<1>1. BufSize \in Nat /\ Len(buf) \in Nat
  BY NumbersOK, LenProperties DEF Numbers
<1>2. CASE Char(1) = Quote
  <2>1. fifo' = After(1) /\ rb' = Less(n, 1) /\ pc' = "write" /\ buf' = buf
    BY <1>2 DEF TakeByte
  <2> QED
    BY <1>1, <2>1, AfterIs, LessType
<1>3. CASE Char(1) # Quote
  <2>1. /\ fifo' = After(Taken.n) /\ rb' = Less(n, Taken.count) /\ buf' = buf \o Taken.data
        /\ pc' = IF Full(Len(buf')) \/ rb' = 0 THEN "write" ELSE "save"
    BY <1>3 DEF TakeByte
  <2>2. PICK k : k = Taken.n
    OBVIOUS
  <2>3. PICK q : q = Taken.count
    OBVIOUS
  <2>4. PICK d : d = Taken.data
    OBVIOUS
  <2>5. k \in Nat /\ q \in Nat /\ d \in Seq(Nat) /\ Len(d) <= 1
    BY <2>2, <2>3, <2>4, TakenType
  <2>6. fifo' \in Seq(Nat) /\ rb' \in 0..(CountMod - 1)
    BY <2>1, <2>2, <2>3, <2>5, AfterIs, LessType
  <2>7. buf' \in Seq(Nat) /\ Len(buf') = Len(buf) + Len(d) /\ Len(d) \in Nat
    BY <2>1, <2>4, <2>5, ConcatProperties
  <2>8. Len(buf') <= BufSize + 1 /\ (~Full(Len(buf')) => Len(buf') <= BufSize)
    BY <1>1, <2>5, <2>7 DEF Full
  <2> QED
    BY <2>1, <2>6, <2>7, <2>8
<1> QED
  BY <1>2, <1>3

(* The buffer of flash_sector_write.                                       *)
PutData(rest) == [i \in 1..Len(buf) |-> Code(buf[i])] \o [i \in 1..SectorBytes |-> rest]

LEMMA PutDataIs ==
  ASSUME buf \in Seq(Nat), NEW rest \in Bytes
  PROVE  /\ \A i \in 1..SectorBytes : PutData(rest)[i] \in Bytes
         /\ \A i \in 1..Len(buf) : PutData(rest)[i] = Code(buf[i])
         /\ SubSeq(PutData(rest), 1, Len(buf)) = [i \in 1..Len(buf) |-> Code(buf[i])]
<1> DEFINE n == Len(buf)
           a == [i \in 1..n |-> Code(buf[i])]
           b == [i \in 1..SectorBytes |-> rest]
<1>1. n \in Nat /\ SectorBytes \in Nat
  BY LenProperties, FlashAssumption
<1>2. \A x : Code(x) \in Bytes
  BY Chars DEF Code, Bytes
<1>3. a \in Seq(Bytes) /\ Len(a) = n /\ \A i \in 1..n : a[i] = Code(buf[i])
  BY <1>1, <1>2
<1>4. b \in Seq(Bytes) /\ Len(b) = SectorBytes
  BY <1>1
<1>5. PutData(rest) = a \o b
  BY DEF PutData
<1> HIDE DEF a, b, n
<1>6. /\ a \o b \in Seq(Bytes) /\ Len(a \o b) = n + SectorBytes
      /\ \A i \in 1..(n + SectorBytes) : (a \o b)[i] = IF i <= n THEN a[i] ELSE b[i - n]
  BY <1>3, <1>4, ConcatProperties
<1>7. \A i \in 1..SectorBytes : (a \o b)[i] \in Bytes
  <2>1. \A i \in 1..SectorBytes : i \in 1..Len(a \o b)
    BY <1>1, <1>6
  <2> QED
    BY <1>6, <2>1, ElementOfSeq
<1>8. \A i \in 1..n : (a \o b)[i] = a[i]
  BY <1>1, <1>6
<1>9. SubSeq(a \o b, 1, n) = a
  <2>1. PICK w : w = a \o b
    OBVIOUS
  <2>2. w \in Seq(Bytes) /\ Len(w) = n + SectorBytes /\ \A i \in 1..n : w[i] = a[i]
    BY <1>6, <1>8, <2>1
  <2>3. SubSeq(w, 1, n) \in Seq(Bytes) /\ Len(SubSeq(w, 1, n)) = n
    BY <1>1, <2>2
  <2>4. \A i \in 1..n : SubSeq(w, 1, n)[i] = w[i]
    BY <1>1, <2>2
  <2>5. SubSeq(w, 1, n) = a
    BY <1>3, <2>2, <2>3, <2>4, SeqEqual
  <2> QED
    BY <2>1, <2>5
<1> QED
  BY <1>3, <1>5, <1>7, <1>8, <1>9 DEF a, n

LEMMA PutWriteIs ==
  ASSUME buf \in Seq(Nat), sector \in Nat, mem \in Memories, PutWrite
  PROVE  \E rest \in Bytes : \E o :
           /\ Outcome(o, mem, sector, PutData(rest), Len(buf))
           /\ mem' = o.mem
           /\ Reply(IF o.status = 0 THEN Ok(o.n, sector) ELSE Ng)
<1>0. PICK rest \in Bytes : \E o \in SectorWrite(mem, sector, PutData(rest), Len(buf)) :
        mem' = o.mem /\ Reply(IF o.status = 0 THEN Ok(o.n, sector) ELSE Ng)
  BY DEF PutWrite, PutData
<1>1. PICK o \in SectorWrite(mem, sector, PutData(rest), Len(buf)) :
        mem' = o.mem /\ Reply(IF o.status = 0 THEN Ok(o.n, sector) ELSE Ng)
  BY <1>0
<1>2. Len(buf) \in Nat /\ \A i \in 1..SectorBytes : PutData(rest)[i] \in Bytes
  BY PutDataIs, LenProperties
<1>3. Outcome(o, mem, sector, PutData(rest), Len(buf))
  BY <1>1, <1>2, SectorWriteIs
<1> QED
  BY <1>1, <1>3

LEMMA InitTypes == Init => Types
<1> SUFFICES ASSUME Init PROVE Types
  OBVIOUS
<1>1. <<>> \in Seq(Nat) /\ Len(<<>>) = 0
  BY EmptySeq
<1>2. Erased \in Memories
  BY DEF Erased, Memories, Ones, Bytes
<1>3. 0 \in 0..(CountMod - 1) /\ 0 \in 0..(NumberMod - 1) /\ 0 \in 0..MaxCmd /\ 0 <= BufSize + 1
  BY NumbersOK DEF Numbers
<1> QED
  BY <1>1, <1>2, <1>3 DEF Init, Types, TypeOK, Memories, Ng

LEMMA ReplyType ==
  ASSUME NEW a, Reply(a), a.kind \in {"none", "OK", "NG"}
  PROVE  /\ pc' = "idle" /\ rb' \in 0..(CountMod - 1) /\ sector' \in 0..(NumberMod - 1)
         /\ buf' \in Seq(Nat) /\ Len(buf') <= BufSize + 1
         /\ ans' = a /\ ans'.kind \in {"none", "OK", "NG"}
<1>1. <<>> \in Seq(Nat) /\ Len(<<>>) = 0
  BY EmptySeq
<1>2. 0 \in 0..(CountMod - 1) /\ 0 \in 0..(NumberMod - 1) /\ 0 <= BufSize + 1
  BY NumbersOK DEF Numbers
<1> QED
  BY <1>1, <1>2 DEF Reply

LEMMA NextTypes == Types /\ [Next]_vars => Types'
<1> SUFFICES ASSUME Types, [Next]_vars PROVE Types'
  OBVIOUS
<1>1. /\ line \in Seq(Nat) /\ fifo \in Seq(Nat) /\ need \in Nat /\ late \in BOOLEAN
      /\ pc \in {"idle", "putWait", "getWait", "save", "saveWait", "write"}
      /\ rb \in 0..(CountMod - 1) /\ sector \in 0..(NumberMod - 1)
      /\ buf \in Seq(Nat) /\ Len(buf) <= BufSize + 1
      /\ mem \in Memories
      /\ cmd \in Commands \cup {[put |-> FALSE, sector |-> 0, data |-> <<>>]}
      /\ ans.kind \in {"none", "OK", "NG"} /\ cmds \in 0..MaxCmd
      /\ pc \in {"save", "saveWait"} => Len(buf) <= BufSize
  BY DEF Types, TypeOK, Memories
<1>2. /\ None.kind \in {"none", "OK", "NG"} /\ Ng.kind \in {"none", "OK", "NG"}
      /\ \A n, s : Ok(n, s).kind \in {"none", "OK", "NG"}
  BY DEF None, Ng, Ok
<1>3. CASE UNCHANGED vars
  BY <1>1, <1>3 DEF Types, TypeOK, vars, uart, parser, sketch, Memories
<1>4. ASSUME NEW c \in Commands, Issue(c)
      PROVE  Types'
  <2>1. line' \in Seq(Nat)
    BY <1>4, TextIs DEF Issue, TextFacts
  <2>2. cmds' \in 0..MaxCmd
    BY <1>1, <1>4, NumbersOK DEF Issue, Numbers
  <2>3. cmd' = c /\ ans' = None /\ late' = FALSE /\ UNCHANGED <<fifo, need, pc, rb, sector, buf, mem>>
    BY <1>4 DEF Issue, parser
  <2> QED
    BY <1>1, <1>2, <2>1, <2>2, <2>3 DEF Types, TypeOK, Memories
<1>5. CASE GiveUp
  <2>1. ans' = Ng /\ UNCHANGED <<line, fifo, need, late, pc, rb, sector, buf, mem, cmd, cmds>>
    BY <1>5 DEF GiveUp, uart, parser, sketch
  <2> QED
    BY <1>1, <1>2, <2>1 DEF Types, TypeOK, Memories
<1>6. CASE Arrive
  <2>1. /\ line' = Tail(line) /\ fifo' = Append(fifo, Head(line)) /\ line # <<>>
        /\ need' = (IF need = 0 THEN 0 ELSE need - 1)
        /\ UNCHANGED <<late, pc, rb, sector, buf, mem, ans, cmd, cmds>>
    BY <1>6 DEF Arrive, parser, sketch
  <2>2. line' \in Seq(Nat) /\ fifo' \in Seq(Nat) /\ need' \in Nat
    BY <1>1, <2>1
  <2> QED
    BY <1>1, <2>1, <2>2 DEF Types, TypeOK, Memories
<1>7. CASE Dispatch
  <2>1. UNCHANGED <<line, late, rb, sector, buf, mem, ans, cmd, cmds>> /\ pc = "idle"
    BY <1>7 DEF Dispatch, sketch
  <2>2. fifo' = After(1) \/ fifo' = After(3) \/ fifo' = After(5)
    BY <1>7 DEF Dispatch
  <2>3. fifo' \in Seq(Nat)
    BY <1>1, <2>2, AfterIs
  <2>4. pc' \in {"idle", "putWait", "getWait"} /\ need' \in Nat
    BY <1>1, <1>7, <2>1, NumbersOK DEF Dispatch, StartWait, Numbers
  <2> QED
    BY <1>1, <2>1, <2>3, <2>4 DEF Types, TypeOK, Memories
<1>8. CASE PutHeader
  <2>1. need' = 0 /\ late' \in BOOLEAN /\ UNCHANGED <<line, mem, cmd, cmds>>
    BY <1>1, <1>8 DEF PutHeader, Waited, sketch
  <2>2. CASE Len(fifo) < PutLeast
    <3>1. Reply(Ng) /\ UNCHANGED fifo
      BY <1>8, <2>2 DEF PutHeader
    <3> QED
      BY <1>1, <1>2, <2>1, <3>1, ReplyType DEF Types, TypeOK, Memories
  <2>3. CASE ~(Len(fifo) < PutLeast)
    <3>1. PICK end : /\ end \in 1..Len(fifo)
                     /\ sector' = Number(SubSeq(fifo, 1, end)) % NumberMod
                     /\ fifo' = After(end) /\ rb' = (Len(fifo) - end) % CountMod
                     /\ buf' = <<>> /\ pc' \in {"write", "save"} /\ UNCHANGED ans
      <4> DEFINE opening == {i \in 1..Len(fifo) : fifo[i] = Quote}
                 end == IF opening = {} THEN Len(fifo)
                        ELSE CHOOSE i \in opening : \A j \in opening : i <= j
      <4>1. end \in 1..Len(fifo)
        <5>1. Len(fifo) \in 1..Len(fifo)
          BY <1>1, <2>3, LenProperties DEF PutLeast
        <5>2. CASE opening # {}
          <6>1. opening \subseteq Nat
            OBVIOUS
          <6>2. \E i \in opening : \A j \in opening : i <= j
            <7> HIDE DEF opening
            <7> QED
              BY <5>2, <6>1, LeastElement
          <6> QED
            BY <5>2, <6>2
        <5> QED
          BY <5>1, <5>2
      <4>2. /\ sector' = Number(SubSeq(fifo, 1, end)) % NumberMod
            /\ fifo' = After(end) /\ rb' = (Len(fifo) - end) % CountMod
            /\ buf' = <<>> /\ pc' = (IF rb' = 0 THEN "write" ELSE "save") /\ UNCHANGED ans
        BY <1>8, <2>3 DEF PutHeader
      <4> HIDE DEF end
      <4> QED
        BY <4>1, <4>2
    <3>2. SubSeq(fifo, 1, end) \in Seq(Nat)
      <4>1. \A i \in 1..end : fifo[i] \in Nat
        BY <1>1, <3>1, ElementOfSeq, LenProperties
      <4> QED
        BY <3>1, <4>1, SubSeqProperties
    <3>3. Number(SubSeq(fifo, 1, end)) \in Nat
      BY <3>2, NumberType
    <3>4. sector' \in 0..(NumberMod - 1)
      BY <3>1, <3>3, NumbersOK DEF Numbers
    <3>5. Len(fifo) - end \in Nat
      BY <1>1, <3>1, LenProperties
    <3>6. rb' \in 0..(CountMod - 1)
      BY <3>1, <3>5, NumbersOK DEF Numbers
    <3>7. fifo' \in Seq(Nat)
      BY <1>1, <3>1, AfterIs
    <3>8. buf' \in Seq(Nat) /\ Len(buf') = 0 /\ BufSize \in Nat
      BY <3>1, EmptySeq, NumbersOK DEF Numbers
    <3> QED
      BY <1>1, <2>1, <3>1, <3>4, <3>6, <3>7, <3>8 DEF Types, TypeOK, Memories
  <2> QED
    BY <2>2, <2>3
<1>9. CASE SaveByte \/ SaveWaited
  <2>1. PICK n \in Nat : TakeByte(n)
    BY <1>1, <1>9, LenProperties DEF SaveByte, SaveWaited
  <2>2. Len(buf) <= BufSize
    BY <1>1, <1>9 DEF SaveByte, SaveWaited
  <2>3. need' \in Nat /\ late' \in BOOLEAN
    <3>1. CASE SaveByte
      BY <1>1, <3>1 DEF SaveByte
    <3>2. CASE SaveWaited
      <4>1. need' = 0 /\ late' = (late \/ (need > 0 /\ line # <<>>))
        BY <3>2 DEF SaveWaited, Waited
      <4> QED
        BY <1>1, <4>1, Zenon
    <3> QED
      BY <1>9, <3>1, <3>2
  <2>4. UNCHANGED <<line, sector, mem, ans, cmd, cmds>>
    BY <2>1 DEF TakeByte, sketch
  <2>5. /\ fifo' \in Seq(Nat) /\ rb' \in 0..(CountMod - 1)
        /\ pc' \in {"write", "save"} /\ buf' \in Seq(Nat) /\ Len(buf') <= BufSize + 1
        /\ pc' = "save" => Len(buf') <= BufSize
    BY <1>1, <2>1, <2>2, TakeByteType
  <2> QED
    BY <1>1, <2>3, <2>4, <2>5 DEF Types, TypeOK, Memories
<1>10. CASE SaveWait
  <2>1. /\ pc = "save" /\ pc' = "saveWait" /\ need' = Burst
        /\ UNCHANGED <<line, fifo, late, rb, sector, buf, mem, ans, cmd, cmds>>
    BY <1>10 DEF SaveWait, StartWait, sketch
  <2> QED
    BY <1>1, <2>1, NumbersOK DEF Types, TypeOK, Memories, Numbers
<1>11. CASE PutWrite
  <2>1. sector \in Nat
    BY <1>1, NumbersOK DEF Numbers
  <2>2. PICK rest, o : /\ rest \in Bytes
                       /\ Outcome(o, mem, sector, PutData(rest), Len(buf))
                       /\ mem' = o.mem
                       /\ Reply(IF o.status = 0 THEN Ok(o.n, sector) ELSE Ng)
    BY <1>1, <1>11, <2>1, PutWriteIs
  <2>3. mem' \in Memories
    BY <2>2 DEF Outcome
  <2>4. UNCHANGED <<line, fifo, need, late, cmd, cmds>>
    BY <1>11 DEF PutWrite, uart, sketch
  <2>5. PICK a : Reply(a) /\ a.kind \in {"none", "OK", "NG"}
    BY <1>2, <2>2
  <2> QED
    BY <1>1, <2>3, <2>4, <2>5, ReplyType DEF Types, TypeOK, Memories
<1>12. CASE GetRead
  <2>1. need' = 0 /\ late' \in BOOLEAN /\ UNCHANGED <<line, mem, cmd, cmds>>
    BY <1>1, <1>12 DEF GetRead, Waited, sketch
  <2>2. PICK a : Reply(a) /\ a.kind \in {"none", "OK", "NG"}
    BY <1>2, <1>12 DEF GetRead
  <2>3. fifo' \in Seq(Nat)
    <3>1. fifo' = fifo \/ fifo' = After(5)
      BY <1>12 DEF GetRead
    <3> QED
      BY <1>1, <3>1, AfterIs
  <2> QED
    BY <1>1, <2>1, <2>2, <2>3, ReplyType DEF Types, TypeOK, Memories
<1> QED
  BY <1>3, <1>4, <1>5, <1>6, <1>7, <1>8, <1>9, <1>10, <1>11, <1>12 DEF Next, Api

(* Types: the counters stay in their widths and the decoded data never     *)
(* goes more than one byte beyond the size of the buffer it was meant for, *)
(* whatever characters are missing.                                        *)
THEOREM StoreTypeCorrect == Spec => []TypeOK
<1>1. Types => TypeOK
  BY DEF Types
<1> QED
  BY <1>1, InitTypes, NextTypes, PTL DEF Spec

-----------------------------------------------------------------------------
(* How a piece of the text is recognised.                                  *)

LEMMA ShiftNoR ==
  ASSUME NEW c \in Commands, NEW r, NEW off, Shift(r, Text(c), off), off >= 3
  PROVE  NoR(r)
<1>1. PICK t : t = Text(c)
  OBVIOUS
<1>2. Len(t) \in Nat /\ \A i \in 4..Len(t) : t[i] # R
  BY <1>1, TextIs DEF TextFacts
<1>3. /\ r \in Seq(Nat) /\ off \in Int /\ Len(r) = Len(t) - off
      /\ \A i \in 1..Len(r) : IF i + off >= 1 THEN r[i] = t[i + off] ELSE r[i] # R
  BY <1>1 DEF Shift
<1>4. ASSUME NEW i \in 1..Len(r)
      PROVE  r[i] # R
  <2>1. i + off >= 1 /\ i + off \in 4..Len(t)
    BY <1>2, <1>3
  <2> QED
    BY <1>2, <1>3, <2>1
<1> QED
  BY <1>4 DEF NoR

LEMMA ShiftEnd ==
  ASSUME NEW c \in Commands, NEW r, NEW off, Shift(r, Text(c), off), Len(r) < 3
  PROVE  NoR(r) /\ NoDollar(r)
<1>1. PICK t : t = Text(c)
  OBVIOUS
<1>2. /\ Len(t) \in Nat /\ Len(t) >= 6 /\ \A i \in 4..Len(t) : t[i] # R
      /\ t[Len(t)] # Dollar /\ t[Len(t) - 1] # Dollar
  BY <1>1, TextIs, TextLength DEF TextFacts
<1>3. /\ r \in Seq(Nat) /\ off \in Int /\ Len(r) = Len(t) - off
      /\ \A i \in 1..Len(r) : IF i + off >= 1 THEN r[i] = t[i + off] ELSE r[i] # R
  BY <1>1 DEF Shift
<1>4. ASSUME NEW i \in 1..Len(r)
      PROVE  r[i] # R /\ r[i] # Dollar
  <2>1. i + off >= 1 /\ i + off \in 4..Len(t) /\ (i + off = Len(t) \/ i + off = Len(t) - 1)
    BY <1>2, <1>3, LenProperties
  <2> QED
    BY <1>2, <1>3, <2>1
<1> QED
  BY <1>4 DEF NoR, NoDollar

LEMMA ShiftStart ==
  ASSUME NEW f \in Seq(Nat), NEW t \in Seq(Nat), NoR(f)
  PROVE  Shift(f \o t, t, -Len(f))
<1>1. Len(f) \in Nat /\ Len(t) \in Nat
  BY LenProperties
<1>2. PICK r : r = f \o t
  OBVIOUS
<1>3. /\ r \in Seq(Nat) /\ Len(r) = Len(f) + Len(t)
      /\ \A i \in 1..(Len(f) + Len(t)) : r[i] = IF i <= Len(f) THEN f[i] ELSE t[i - Len(f)]
  BY <1>2, ConcatProperties
<1>4. PICK off \in Int : off = -Len(f)
  BY <1>1
<1>5. ASSUME NEW i \in 1..Len(r)
      PROVE  IF i + off >= 1 THEN r[i] = t[i + off] ELSE r[i] # R
  <2>1. CASE i <= Len(f)
    <3>1. i \in 1..Len(f) /\ ~(i + off >= 1)
      BY <1>1, <1>4, <2>1
    <3> QED
      BY <1>3, <2>1, <3>1 DEF NoR
  <2>2. CASE ~(i <= Len(f))
    <3>1. i + off >= 1 /\ i + off = i - Len(f)
      BY <1>1, <1>4, <2>2
    <3> QED
      BY <1>3, <2>2, <3>1
  <2> QED
    BY <2>1, <2>2
<1>6. Len(r) = Len(t) - off
  BY <1>1, <1>3, <1>4
<1> QED
  BY <1>2, <1>3, <1>4, <1>5, <1>6 DEF Shift

LEMMA ArriveRest ==
  ASSUME NEW f \in Seq(Nat), NEW g \in Seq(Nat), g # <<>>
  PROVE  Append(f, Head(g)) \o Tail(g) = f \o g
<1>1. Len(f) \in Nat /\ Len(g) \in Nat /\ Len(g) # 0
  BY LenProperties, EmptySeq
<1>2. PICK a : a = Append(f, Head(g))
  OBVIOUS
<1>3. PICK b : b = Tail(g)
  OBVIOUS
<1>4. /\ a \in Seq(Nat) /\ Len(a) = Len(f) + 1
      /\ \A i \in 1..(Len(f) + 1) : a[i] = IF i <= Len(f) THEN f[i] ELSE g[1]
  BY <1>1, <1>2
<1>5. /\ b \in Seq(Nat) /\ Len(b) = Len(g) - 1
      /\ \A i \in 1..(Len(g) - 1) : b[i] = g[i + 1]
  BY <1>1, <1>3
<1>6. /\ f \o g \in Seq(Nat) /\ Len(f \o g) = Len(f) + Len(g)
      /\ \A i \in 1..(Len(f) + Len(g)) : (f \o g)[i] = IF i <= Len(f) THEN f[i] ELSE g[i - Len(f)]
  BY ConcatProperties
<1>7. /\ a \o b \in Seq(Nat) /\ Len(a \o b) = Len(a) + Len(b)
      /\ \A i \in 1..(Len(a) + Len(b)) : (a \o b)[i] = IF i <= Len(a) THEN a[i] ELSE b[i - Len(a)]
  BY <1>4, <1>5, ConcatProperties
<1>8. Len(a) + Len(b) = Len(f) + Len(g)
  BY <1>1, <1>4, <1>5
<1>9. ASSUME NEW i \in 1..(Len(f) + Len(g))
      PROVE  (a \o b)[i] = (f \o g)[i]
  <2>1. CASE i <= Len(f)
    <3>1. i <= Len(a) /\ i \in 1..(Len(f) + 1)
      BY <1>1, <1>4, <2>1
    <3> QED
      BY <1>4, <1>6, <1>7, <1>8, <2>1, <3>1
  <2>2. CASE i = Len(f) + 1
    <3>1. i <= Len(a) /\ i \in 1..(Len(f) + 1) /\ ~(i <= Len(f)) /\ i - Len(f) = 1
      BY <1>1, <1>4, <2>2
    <3>2. (a \o b)[i] = g[1]
      BY <1>4, <1>7, <1>8, <3>1
    <3>3. (f \o g)[i] = g[1]
      BY <1>6, <3>1
    <3> QED
      BY <3>2, <3>3
  <2>3. CASE i > Len(f) + 1
    <3>1. ~(i <= Len(a)) /\ ~(i <= Len(f)) /\ i - Len(a) \in 1..(Len(g) - 1)
          /\ (i - Len(a)) + 1 = i - Len(f)
      BY <1>1, <1>4, <2>3
    <3>2. (a \o b)[i] = g[(i - Len(a)) + 1]
      BY <1>5, <1>7, <1>8, <3>1
    <3>3. (f \o g)[i] = g[i - Len(f)]
      BY <1>6, <3>1
    <3> QED
      BY <3>1, <3>2, <3>3
  <2>4. i <= Len(f) \/ i = Len(f) + 1 \/ i > Len(f) + 1
    BY <1>1
  <2> QED
    BY <2>1, <2>2, <2>3, <2>4, Zenon
<1>10. a \o b = f \o g
  <2>1. PICK u : u = a \o b
    OBVIOUS
  <2>2. PICK v : v = f \o g
    OBVIOUS
  <2> QED
    BY <1>6, <1>7, <1>8, <1>9, <2>1, <2>2, SeqEqual
<1> QED
  BY <1>2, <1>3, <1>10

(* Only the name of the command reads as one.                              *)
LEMMA ShiftName ==
  ASSUME NEW c \in Commands, NEW r, NEW off, Shift(r, Text(c), off),
         NEW q \in Nat \ {0}, q + 1 <= Len(r), r[q] = R, r[q + 1] \in {R, W}
  PROVE  off + (q + 1) = 3 /\ r[q + 1] = (IF c.put THEN W ELSE R)
<1>1. PICK t : t = Text(c)
  OBVIOUS
<1>2. /\ Len(t) \in Nat /\ Len(t) >= 6 /\ \A i \in 4..Len(t) : t[i] # R
      /\ t[1] = Dollar /\ t[2] = R /\ t[3] = (IF c.put THEN W ELSE R) /\ t[4] = Space
  BY <1>1, TextIs, TextLength DEF TextFacts
<1>3. /\ r \in Seq(Nat) /\ off \in Int /\ Len(r) = Len(t) - off
      /\ \A i \in 1..Len(r) : IF i + off >= 1 THEN r[i] = t[i + off] ELSE r[i] # R
  BY <1>1 DEF Shift
<1>4. q \in 1..Len(r) /\ q + 1 \in 1..Len(r)
  BY <1>2, <1>3
<1>5. q + off >= 1 /\ t[q + off] = R
  BY <1>3, <1>4
<1>6. r[q + 1] = t[(q + 1) + off]
  <2>1. (q + 1) + off >= 1
    BY <1>3, <1>5
  <2> QED
    BY <1>3, <1>4, <2>1
<1>7. q + off \in 1..Len(t)
  BY <1>2, <1>3, <1>4, <1>5
<1>8. q + off # 1 /\ q + off < 4
  BY <1>2, <1>5, <1>7, Chars, SMTT(30)
<1>9. CASE q + off = 3
  <2>1. (q + 1) + off = 4
    BY <1>3, <1>9
  <2> QED
    BY <1>2, <1>6, <2>1, Chars
<1>10. CASE q + off = 2
  <2>1. (q + 1) + off = 3 /\ off + (q + 1) = 3
    BY <1>3, <1>10
  <2> QED
    BY <1>2, <1>6, <2>1
<1> QED
  BY <1>3, <1>5, <1>8, <1>9, <1>10

LEMMA ShiftPlain ==
  ASSUME NEW c \in Commands, c.put, NEW j \in 0..Len(c.data), NEW r,
         Shift(r, Text(c), Pos(c, j)), \A i \in (j + 1)..Len(c.data) : c.data[i] = 3
  PROVE  NoDollar(r)
<1>1. PICK t : t = Text(c)
  OBVIOUS
<1>2. PICK p : p = Pos(c, j)
  OBVIOUS
<1>3. p \in Nat /\ \A i \in (p + 1)..Len(t) : t[i] # Dollar
  BY <1>1, <1>2, PutIs DEF PutFacts
<1>4. /\ r \in Seq(Nat) /\ Len(r) = Len(t) - p
      /\ \A i \in 1..Len(r) : IF i + p >= 1 THEN r[i] = t[i + p] ELSE r[i] # R
  BY <1>1, <1>2 DEF Shift
<1>5. Len(t) \in Nat
  BY <1>1, TextIs DEF TextFacts
<1>6. ASSUME NEW i \in 1..Len(r)
      PROVE  r[i] # Dollar
  <2>1. i + p >= 1 /\ i + p \in (p + 1)..Len(t)
    BY <1>3, <1>4, <1>5
  <2> QED
    BY <1>3, <1>4, <2>1
<1> QED
  BY <1>6 DEF NoDollar

-----------------------------------------------------------------------------
(* What the handlers read.                                                 *)

(* The characters that have arrived.                                       *)
LEMMA FifoIs ==
  ASSUME fifo \in Seq(Nat), line \in Seq(Nat)
  PROVE  /\ Rest \in Seq(Nat) /\ Len(fifo) \in Nat /\ Len(Rest) \in Nat /\ Len(fifo) <= Len(Rest)
         /\ \A i \in 1..Len(fifo) : fifo[i] = Rest[i] /\ Char(i) = Rest[i]
         /\ \A i \in Nat : i > Len(fifo) => Char(i) = Nul
         /\ line = <<>> => Len(fifo) = Len(Rest) /\ Rest = fifo
<1>1. /\ Rest \in Seq(Nat) /\ Len(Rest) = Len(fifo) + Len(line)
      /\ Len(fifo) \in Nat /\ Len(line) \in Nat
      /\ \A i \in 1..Len(fifo) : Rest[i] = fifo[i]
      /\ line = <<>> => Rest = fifo
  BY RestIs DEF Rest
<1>2. /\ \A i \in 1..Len(fifo) : Char(i) = fifo[i]
      /\ \A i \in Nat : i > Len(fifo) => Char(i) = Nul
  BY <1>1 DEF Char
<1> QED
  BY <1>1, <1>2

(* The opening quote of the data is behind the number, and it has arrived. *)
LEMMA HeaderIs ==
  ASSUME fifo \in Seq(Nat), line \in Seq(Nat), NEW c \in Commands, c.put,
         Shift(Rest, Text(c), 3), Len(fifo) >= 7 \/ line = <<>>
  PROVE  LET e == 3 + Len(Decimal(c.sector))
         IN  /\ Len(fifo) >= PutLeast /\ e \in 1..(Len(fifo) - 1) /\ fifo[e] = Quote
             /\ \A i \in 1..(e - 1) : fifo[i] # Quote
             /\ Number(SubSeq(fifo, 1, e)) = c.sector
<1>1. PICK t : t = Text(c)
  OBVIOUS
<1>2. PICK l : l = Len(Decimal(c.sector))
  OBVIOUS
<1>3. PICK d : d = Decimal(c.sector)
  OBVIOUS
<1>4. PICK e : e = 3 + l
  OBVIOUS
<1>5. /\ l \in 1..3 /\ \A i \in 1..l : d[i] \in 20..29
  BY <1>2, <1>3, DigitIs
<1>6. /\ t \in Seq(Nat) /\ Len(t) \in Nat /\ t[4] = Space
      /\ \A i \in 1..l : t[4 + i] = d[i]
  BY <1>1, <1>2, <1>3, TextIs DEF TextFacts
<1>7. t[5 + l] = Space /\ t[6 + l] = Quote /\ Len(t) >= 8 + l
  <2>1. /\ t[5 + l] = Space /\ t[6 + l] = Quote /\ Pos(c, 0) = 6 + l
        /\ Len(t) = Pos(c, Len(c.data)) + 2
        /\ \A j \in 0..Len(c.data) : Pos(c, j) \in 0..Pos(c, Len(c.data))
    BY <1>1, <1>2, PutIs DEF PutFacts
  <2>2. 0 \in 0..Len(c.data)
    BY CommandType, LenProperties
  <2>3. Pos(c, 0) \in 0..Pos(c, Len(c.data))
    BY <2>1, <2>2
  <2>4. PICK m : m = Pos(c, Len(c.data))
    OBVIOUS
  <2>5. PICK b : b = Len(t)
    OBVIOUS
  <2>6. 6 + l \in 0..m /\ b = m + 2
    BY <2>1, <2>3, <2>4, <2>5
  <2>7. b >= 8 + l
    <3>1. m \in Nat
      BY <2>4, DigitIs, DataIs DEF Pos
    <3> QED
      BY <1>5, <2>6, <3>1
  <2> QED
    BY <2>1, <2>5, <2>7
<1>8. /\ Len(Rest) = Len(t) - 3
      /\ \A i \in 1..Len(Rest) : Rest[i] = t[i + 3]
  BY <1>1 DEF Shift
<1>10. Len(fifo) > e /\ Len(fifo) >= 5 /\ Len(fifo) \in Nat /\ e \in Nat
  <2>1. PICK k \in Nat : k = Len(fifo)
    BY FifoIs
  <2>2. CASE k >= 7
    BY <1>4, <1>5, <2>1, <2>2
  <2>3. CASE k = Len(Rest)
    <3>1. k >= 5 + l
      BY <1>5, <1>6, <1>7, <1>8, <2>3
    <3> QED
      BY <1>4, <1>5, <2>1, <3>1
  <2>4. k >= 7 \/ k = Len(Rest)
    BY <2>1, FifoIs
  <2> QED
    BY <2>2, <2>3, <2>4
<1>11. \A i \in 1..e : fifo[i] = t[i + 3]
  <2>1. \A i \in 1..e : i \in 1..Len(fifo) /\ i \in 1..Len(Rest)
    BY <1>10, FifoIs, SMTT(30)
  <2> QED
    BY <1>8, <2>1, FifoIs
<1>12. fifo[1] = Space /\ fifo[2 + l] = Space /\ fifo[e] = Quote
  <2>1. 1 \in 1..e /\ 2 + l \in 1..e /\ e \in 1..e /\ (2 + l) + 3 = 5 + l /\ e + 3 = 6 + l /\ 1 + 3 = 4
    BY <1>4, <1>5
  <2> QED
    BY <1>6, <1>7, <1>11, <2>1, ZenonT(60)
<1>13. \A i \in 1..l : fifo[1 + i] = d[i] /\ fifo[1 + i] \in 20..29
  <2> SUFFICES ASSUME NEW i \in 1..l PROVE fifo[1 + i] = d[i] /\ fifo[1 + i] \in 20..29
    OBVIOUS
  <2>1. PICK q : q = 1 + i
    OBVIOUS
  <2>2. q \in 1..e /\ q + 3 = 4 + i
    BY <1>4, <1>5, <2>1
  <2>3. fifo[q] = t[q + 3]
    BY <1>11, <2>2
  <2>4. fifo[q] = d[i]
    BY <1>6, <2>2, <2>3
  <2> QED
    BY <1>5, <2>1, <2>4
<1>14. ASSUME NEW i \in 1..(e - 1)
       PROVE  fifo[i] # Quote
  <2>1. i = 1 \/ i = 2 + l \/ \E q \in 1..l : i = 1 + q
    <3>1. i = 1 \/ i = 2 + l \/ i - 1 \in 1..l
      BY <1>4, <1>5
    <3>2. i = 1 + (i - 1)
      BY <1>4, <1>5
    <3> QED
      BY <3>1, <3>2
  <2>2. CASE i = 1 \/ i = 2 + l
    BY <1>12, <2>2, Chars
  <2>3. CASE \E q \in 1..l : i = 1 + q
    <3>1. PICK q \in 1..l : i = 1 + q
      BY <2>3
    <3>2. fifo[1 + q] \in 20..29
      BY <1>13
    <3>3. fifo[i] \in 20..29
      BY <3>1, <3>2
    <3>4. Quote \notin 20..29
      BY Chars
    <3> QED
      BY <3>3, <3>4, Zenon
  <2> QED
    BY <2>1, <2>2, <2>3
<1>15. PICK s : s = SubSeq(fifo, 1, e)
  OBVIOUS
<1>16. s \in Seq(Nat) /\ Len(s) = e /\ \A i \in 1..e : s[i] = fifo[i]
  <2>1. \A i \in 1..e : fifo[i] \in Nat
    BY <1>10, ElementOfSeq
  <2> QED
    BY <1>10, <1>15, <2>1, SubSeqProperties
<1>17. Numeral(s, c.sector)
  <2>1. ~IsDigit(Space) /\ ~IsDigit(Quote)
    BY Chars DEF IsDigit
  <2>2. Len(s) \in (1 + l)..6 /\ ~IsDigit(s[1])
    BY <1>4, <1>5, <1>12, <1>16, <2>1
  <2>3. \A i \in 1..l : s[1 + i] = d[i]
    <3> SUFFICES ASSUME NEW i \in 1..l PROVE s[1 + i] = d[i]
      OBVIOUS
    <3>1. PICK q : q = 1 + i
      OBVIOUS
    <3>2. q \in 1..e /\ fifo[q] = d[i]
      BY <1>4, <1>5, <1>13, <3>1
    <3> QED
      BY <1>16, <3>1, <3>2
  <2>4. ASSUME NEW i \in (2 + l)..Len(s)
        PROVE  ~IsDigit(s[i])
    <3>1. (i = 2 + l \/ i = e) /\ i \in 1..e
      BY <1>4, <1>5, <1>16
    <3> QED
      BY <1>12, <1>16, <2>1, <3>1
  <2> QED
    BY <1>2, <1>3, <1>16, <2>2, <2>3, <2>4 DEF Numeral
<1>18. Number(s) = c.sector
  <2>1. c.sector \in 0..999
    BY CommandType
  <2> QED
    BY <1>17, <2>1, NumberIs, ZenonT(60)
<1>19. e \in 1..(Len(fifo) - 1) /\ Len(fifo) >= PutLeast
  BY <1>4, <1>5, <1>10 DEF PutLeast
<1> QED
  BY <1>2, <1>4, <1>12, <1>14, <1>15, <1>18, <1>19

(* The five characters that $RR reads are its number, or all but its third *)
(* digit.                                                                  *)
LEMMA ReadIs ==
  ASSUME fifo \in Seq(Nat), line \in Seq(Nat), NEW c \in Commands, ~c.put,
         Shift(Rest, Text(c), 3), Len(fifo) >= 3
  PROVE  LET s == Number([i \in 1..5 |-> Char(i)])
         IN  s = c.sector \/ (c.sector >= 100 /\ s = c.sector \div 10)
<1>1. PICK t : t = Text(c)
  OBVIOUS
<1>2. PICK n : n = c.sector
  OBVIOUS
<1>3. PICK l : l = Len(Decimal(n))
  OBVIOUS
<1>4. n \in 0..999 /\ l \in 1..3 /\ \A i \in 1..l : Decimal(n)[i] \in 20..29
  BY <1>2, <1>3, CommandType, DigitIs
<1>5. /\ t[4] = Space /\ \A i \in 1..l : t[4 + i] = Decimal(n)[i]
  BY <1>1, <1>2, <1>3, TextIs DEF TextFacts
<1>6. Len(t) = 5 + l /\ t[5 + l] = Newline
  BY <1>1, <1>2, <1>3, GetPlain
<1>7. Len(Rest) = Len(t) - 3 /\ \A i \in 1..Len(Rest) : Rest[i] = t[i + 3]
  BY <1>1 DEF Shift
<1>8. PICK k : k = Len(fifo)
  OBVIOUS
<1>9. /\ k \in 3..(2 + l) /\ \A i \in 1..k : Char(i) = t[i + 3]
      /\ \A i \in 1..5 : i > k => Char(i) = Nul
  <2>1. Len(fifo) \in Nat /\ Len(fifo) <= Len(Rest)
    BY FifoIs
  <2>2. k \in 3..(2 + l) /\ \A i \in 1..k : i \in 1..Len(Rest)
    BY <1>4, <1>6, <1>7, <1>8, <2>1
  <2>3. \A i \in 1..k : Char(i) = Rest[i]
    BY <1>8, FifoIs
  <2>4. \A i \in 1..5 : i > k => Char(i) = Nul
    BY <1>8, FifoIs
  <2> QED
    BY <1>7, <2>2, <2>3, <2>4
<1>10. PICK s : s = [i \in 1..5 |-> Char(i)]
  OBVIOUS
<1>11. s \in Seq(Nat) /\ Len(s) = 5 /\ \A i \in 1..5 : s[i] = Char(i)
  <2>1. \A i \in 1..5 : Char(i) \in Nat
    BY CharType
  <2> QED
    BY <1>10, <2>1
<1>12. ~IsDigit(Space) /\ ~IsDigit(Newline) /\ ~IsDigit(Nul)
  BY Chars DEF IsDigit
<1>13. ~IsDigit(s[1])
  <2>1. 1 \in 1..k /\ 1 \in 1..5 /\ 1 + 3 = 4
    BY <1>9
  <2> QED
    BY <1>5, <1>9, <1>11, <1>12, <2>1
<1>14. CASE k > l
  <2>1. \A i \in 1..l : s[1 + i] = Decimal(n)[i]
    <3> SUFFICES ASSUME NEW i \in 1..l PROVE s[1 + i] = Decimal(n)[i]
      OBVIOUS
    <3>1. 1 + i \in 1..k /\ 1 + i \in 1..5 /\ (1 + i) + 3 = 4 + i
      BY <1>4, <1>9, <1>14
    <3> QED
      BY <1>5, <1>9, <1>11, <3>1
  <2>2. ASSUME NEW i \in (2 + l)..5
        PROVE  ~IsDigit(s[i])
    <3>1. CASE i > k
      <4>1. i \in 1..5
        BY <1>4
      <4> QED
        BY <1>9, <1>11, <1>12, <3>1, <4>1
    <3>2. CASE i <= k
      <4>1. i = 2 + l /\ i \in 1..k /\ i \in 1..5 /\ i + 3 = 5 + l
        BY <1>4, <1>9, <3>2
      <4> QED
        BY <1>6, <1>9, <1>11, <1>12, <4>1
    <3> QED
      BY <1>4, <1>9, <3>1, <3>2
  <2>3. Numeral(s, n)
    <3>1. Len(s) \in (1 + l)..6 /\ Len(s) = 5
      BY <1>4, <1>11
    <3> QED
      BY <1>3, <1>11, <1>13, <2>1, <2>2, <3>1 DEF Numeral
  <2> QED
    BY <1>2, <1>4, <1>10, <2>3, NumberIs, ZenonT(60)
<1>15. CASE ~(k > l)
  <2>1. l = 3 /\ k = 3
    BY <1>4, <1>9, <1>15
  <2>2. n >= 100
    <3>1. CASE n < 10
      <4>1. Decimal(n) = <<20 + n>>
        BY <1>4, <3>1, DecimalIs, ZenonT(60)
      <4>2. Len(Decimal(n)) = 1
        BY <4>1
      <4>3. 3 = 1
        BY <1>3, <2>1, <4>2, Zenon
      <4> QED
        BY <4>3
    <3>2. CASE n \in 10..99
      <4>1. Decimal(n) = <<20 + (n \div 10), 20 + (n % 10)>>
        BY <1>4, <3>2, DecimalIs, ZenonT(60)
      <4>2. Len(Decimal(n)) = 2
        BY <4>1
      <4>3. 3 = 2
        BY <1>3, <2>1, <4>2, Zenon
      <4> QED
        BY <4>3
    <3> QED
      BY <1>4, <3>1, <3>2
  <2>3. PICK m : m = n \div 10
    OBVIOUS
  <2>4. m \in 10..99 /\ m \in 0..999 /\ m \div 10 = n \div 100 /\ m % 10 = (n \div 10) % 10
    <3>1. m \in 10..99
      BY <1>4, <2>2, <2>3
    <3>2. m \div 10 = n \div 100
      BY <1>4, <2>2, <2>3
    <3> QED
      BY <2>3, <3>1, <3>2
  <2>5. /\ Decimal(n) = <<20 + (n \div 100), 20 + ((n \div 10) % 10), 20 + (n % 10)>>
        /\ Decimal(m) = <<20 + (m \div 10), 20 + (m % 10)>>
    BY <1>4, <2>2, <2>4, DecimalIs, ZenonT(60)
  <2>6. Len(Decimal(m)) = 2 /\ \A i \in 1..2 : Decimal(m)[i] = Decimal(n)[i]
    BY <2>4, <2>5
  <2>7. \A i \in 1..2 : s[1 + i] = Decimal(m)[i]
    <3> SUFFICES ASSUME NEW i \in 1..2 PROVE s[1 + i] = Decimal(m)[i]
      OBVIOUS
    <3>1. 1 + i \in 1..k /\ 1 + i \in 1..5 /\ (1 + i) + 3 = 4 + i /\ i \in 1..l
      BY <2>1
    <3>2. s[1 + i] = Decimal(n)[i]
      BY <1>5, <1>9, <1>11, <3>1
    <3> QED
      BY <2>6, <3>2
  <2>8. ASSUME NEW i \in (2 + 2)..5
        PROVE  ~IsDigit(s[i])
    BY <1>9, <1>11, <1>12, <2>1, <2>8
  <2>9. Numeral(s, m)
    BY <1>11, <1>13, <2>6, <2>7, <2>8 DEF Numeral
  <2>10. Number(s) = m
    BY <2>4, <2>9, NumberIs, ZenonT(60)
  <2> QED
    BY <1>2, <1>10, <2>2, <2>3, <2>10
<1> QED
  BY <1>14, <1>15

(* The loop takes a byte with all its escape, or the quote behind the last.*)
LEMMA TakenOf ==
  ASSUME NEW v \in Bytes, \A i \in 1..Len(Escaped(v)) : Char(i) = Escaped(v)[i]
  PROVE  /\ Char(1) # Quote
         /\ Taken.n = Len(Escaped(v)) /\ Taken.count = Len(Escaped(v)) /\ Taken.data = <<v>>
<1>1. PICK a, b, h : a = Char(1) /\ b = Char(2) /\ h = HexValue
  OBVIOUS
<1>2. Taken = CASE a # Dollar -> [n |-> 1, count |-> 1, data |-> <<a>>]
                [] a = Dollar /\ b = X -> [n |-> 4, count |-> 4, data |-> <<h>>]
                [] a = Dollar /\ b \in {Quote, Dollar} -> [n |-> 2, count |-> 2, data |-> <<b>>]
                [] OTHER -> [n |-> 2, count |-> 2, data |-> <<>>]
  BY <1>1, Zenon DEF Taken
<1>3. v = Nul \/ v = Quote \/ v = Dollar \/ v = 3
  BY EscapedIs
<1>4. CASE v = Nul
  <2>1. Escaped(v) = <<Dollar, X, Hex(0), Hex(0)>>
    BY <1>4, EscapedIs
  <2>2. Len(Escaped(v)) = 4 /\ Char(1) = Dollar /\ Char(2) = X /\ Char(3) = Hex(0)
    <3>1. PICK x : x = Escaped(v)
      OBVIOUS
    <3>2. Len(x) = 4 /\ x[1] = Dollar /\ x[2] = X /\ x[3] = Hex(0)
      BY <2>1, <3>1
    <3>3. \A i \in 1..4 : Char(i) = x[i]
      BY <3>1, <3>2
    <3> QED
      BY <3>1, <3>2, <3>3
  <2>3. h = Nul
    <3>1. Hex(0) \in Hex(0)..Hex(Ones) /\ Hex(0) - 5 = Nul
      BY Chars DEF Hex, Ones
    <3> QED
      BY <1>1, <2>2, <3>1 DEF HexValue
  <2>4. Taken = [n |-> 4, count |-> 4, data |-> <<v>>]
    BY <1>1, <1>2, <1>4, <2>2, <2>3, Chars
  <2> QED
    BY <2>2, <2>4, Chars
<1>5. CASE v = Quote \/ v = Dollar
  <2>1. Escaped(v) = <<Dollar, v>>
    BY <1>5, EscapedIs
  <2>2. Len(Escaped(v)) = 2 /\ Char(1) = Dollar /\ Char(2) = v
    <3>1. PICK x : x = Escaped(v)
      OBVIOUS
    <3>2. Len(x) = 2 /\ x[1] = Dollar /\ x[2] = v
      BY <2>1, <3>1
    <3>3. \A i \in 1..2 : Char(i) = x[i]
      BY <3>1, <3>2
    <3> QED
      BY <3>1, <3>2, <3>3
  <2>3. Taken = [n |-> 2, count |-> 2, data |-> <<v>>]
    <3>1. a = Dollar /\ b # X /\ b \in {Quote, Dollar} /\ b = v
      BY <1>1, <1>5, <2>2, Chars
    <3> QED
      BY <1>2, <3>1
  <2> QED
    BY <2>2, <2>3, Chars
<1>6. CASE v = 3
  <2>1. Escaped(v) = <<3>>
    BY <1>6, EscapedIs
  <2>2. Len(Escaped(v)) = 1 /\ Char(1) = 3
    <3>1. PICK x : x = Escaped(v)
      OBVIOUS
    <3>2. Len(x) = 1 /\ x[1] = 3
      BY <2>1, <3>1
    <3>3. \A i \in 1..1 : Char(i) = x[i]
      BY <3>1, <3>2
    <3> QED
      BY <3>1, <3>2, <3>3
  <2>3. Taken = [n |-> 1, count |-> 1, data |-> <<v>>]
    BY <1>1, <1>2, <1>6, <2>2, Chars
  <2> QED
    BY <2>2, <2>3, Chars
<1> QED
  BY <1>3, <1>4, <1>5, <1>6

LEMMA TakeIs ==
  ASSUME fifo \in Seq(Nat), line \in Seq(Nat), NEW c \in Commands, c.put,
         NEW j \in 0..Len(c.data), Shift(Rest, Text(c), Pos(c, j)),
         Len(fifo) >= 5 \/ line = <<>>
  PROVE  /\ Len(fifo) >= 1
         /\ Char(1) = Quote => j = Len(c.data)
         /\ Char(1) # Quote =>
              LET k == Taken.n
              IN  /\ j < Len(c.data) /\ k \in 1..4 /\ k < Len(fifo)
                  /\ Taken.count = k /\ Taken.data = <<c.data[j + 1]>>
                  /\ Pos(c, j + 1) = Pos(c, j) + k
<1>1. PICK t : t = Text(c)
  OBVIOUS
<1>2. PICK n : n = Len(c.data)
  OBVIOUS
<1>3. PICK p : p = Pos(c, j)
  OBVIOUS
<1>4. PICK z : z = Pos(c, n)
  OBVIOUS
<1>5. n \in Nat /\ j \in 0..n
  BY <1>2, DataIs
<1>6. Len(t) = z + 2 /\ t[z + 1] = Quote /\ z \in Nat /\ p \in 0..z
  <2>1. Len(t) = z + 2 /\ t[z + 1] = Quote /\ p \in 0..z
    BY <1>1, <1>2, <1>3, <1>4, <1>5, PutIs DEF PutFacts
  <2>2. z \in Nat
    BY <1>2, <1>4, DigitIs, DataIs DEF Pos
  <2> QED
    BY <2>1, <2>2
<1>7. Len(Rest) = Len(t) - p /\ \A i \in 1..Len(Rest) : Rest[i] = t[i + p]
  <2>1. /\ Len(Rest) = Len(t) - p
        /\ \A i \in 1..Len(Rest) : IF i + p >= 1 THEN Rest[i] = t[i + p] ELSE Rest[i] # R
    BY <1>1, <1>3 DEF Shift
  <2> QED
    BY <1>6, <2>1
<1>8. PICK q \in Nat : q = Len(fifo)
  BY FifoIs
<1>9. q <= Len(Rest) /\ (q >= 5 \/ q = Len(Rest)) /\ \A i \in 1..q : Char(i) = Rest[i]
  BY <1>8, FifoIs
<1>10. Len(Rest) = (z + 2) - p
  BY <1>6, <1>7
<1>11. q >= 2
  BY <1>6, <1>9, <1>10
<1>12. Char(1) = t[p + 1]
  <2>1. 1 \in 1..q /\ 1 \in 1..Len(Rest) /\ 1 + p = p + 1
    BY <1>6, <1>9, <1>10, <1>11
  <2> QED
    BY <1>7, <1>9, <2>1
<1>13. CASE j = n
  <2>1. Char(1) = Quote
    BY <1>3, <1>4, <1>6, <1>12, <1>13
  <2> QED
    BY <1>2, <1>8, <1>11, <1>13, <2>1
<1>14. CASE j # n
  <2>1. j \in 0..(n - 1) /\ j + 1 \in 1..n /\ j + 1 \in 0..n /\ j < n
    BY <1>5, <1>14
  <2>2. PICK v \in Bytes : v = c.data[j + 1]
    BY <1>2, <2>1, CommandType, ElementOfSeq
  <2>3. PICK x : x = Escaped(v)
    OBVIOUS
  <2>4. Len(x) \in 1..4
    BY <2>3, EscapedIs
  <2>5. Pos(c, j + 1) = p + Len(x) /\ \A i \in 1..Len(x) : t[p + i] = x[i]
    BY <1>1, <1>2, <1>3, <2>1, <2>2, <2>3, PutIs DEF PutFacts
  <2>6. Pos(c, j + 1) \in 0..z
    BY <1>1, <1>2, <1>4, <2>1, PutIs DEF PutFacts
  <2>7. Len(x) < q
    <3>1. PICK m : m = Len(x)
      OBVIOUS
    <3>2. m \in 1..4 /\ p + m <= z
      <4>1. p + m \in 0..z
        BY <2>5, <2>6, <3>1
      <4>2. m \in 1..4
        BY <2>4, <3>1
      <4>3. p + m <= z
        BY <1>6, <4>1, <4>2
      <4> QED
        BY <4>2, <4>3
    <3>3. CASE q >= 5
      <4>1. m < q
        BY <3>2, <3>3
      <4> QED
        BY <3>1, <4>1, Zenon
    <3>4. CASE q = Len(Rest)
      <4>1. q = (z + 2) - p
        BY <1>10, <3>4, Zenon
      <4>2. m < q
        BY <1>6, <3>2, <4>1
      <4> QED
        BY <3>1, <4>2, Zenon
    <3> QED
      BY <1>9, <3>3, <3>4
  <2>8. \A i \in 1..Len(x) : Char(i) = x[i]
    <3> SUFFICES ASSUME NEW i \in 1..Len(x) PROVE Char(i) = x[i]
      OBVIOUS
    <3>1. i \in 1..q /\ i \in 1..Len(Rest) /\ i + p = p + i
      BY <1>6, <1>9, <1>10, <2>4, <2>7
    <3> QED
      BY <1>7, <1>9, <2>5, <3>1
  <2>9. /\ Char(1) # Quote
        /\ Taken.n = Len(x) /\ Taken.count = Len(x) /\ Taken.data = <<v>>
    BY <2>3, <2>8, TakenOf
  <2> QED
    BY <1>2, <1>3, <1>8, <1>11, <2>1, <2>2, <2>4, <2>5, <2>7, <2>9
<1> QED
  BY <1>13, <1>14

-----------------------------------------------------------------------------
(* The control of the interpreter: what is left of the text of the command *)
(* at each place.                                                          *)

(* No command, or what is left of one cannot begin another.                *)
Settled ==
  ans # None => /\ pc = "idle" /\ NoR(Rest)
                /\ ~late /\ Plain => NoDollar(Rest)

(* The data decoded so far is a prefix of what the sketch meant, and the   *)
(* next character is the first one of the byte behind it.                  *)
Decoding ==
  /\ sector = cmd.sector % NumberMod
  /\ Len(buf) <= Len(cmd.data) /\ \A i \in 1..Len(buf) : buf[i] = cmd.data[i]
  /\ pc \in {"save", "saveWait"} => Shift(Rest, Text(cmd), Pos(cmd, Len(buf)))
  /\ pc = "save" => rb \in 1..Len(fifo)
  /\ pc = "saveWait" => Len(fifo) + need >= Burst
  /\ pc = "write" => /\ Len(buf) = Len(cmd.data) \/ Full(Len(buf))
                     /\ Plain => NoDollar(Rest)

Handled ==
  ans = None =>
    /\ cmd \in Commands
    /\ pc = "idle" => ~late /\ \E off \in Int : Shift(Rest, Text(cmd), off)
    /\ pc \in {"putWait", "getWait"} =>
         /\ ~late /\ Shift(Rest, Text(cmd), 3) /\ (cmd.put <=> pc = "putWait")
         /\ pc = "putWait" => Len(fifo) + need >= PutWait
    /\ pc \in {"save", "saveWait", "write"} =>
         cmd.put /\ NoR(Rest) /\ (~late => Decoding)

Control == Settled /\ Handled

LEMMA AnswersDiffer == Ng # None /\ \A n, s : Ok(n, s) # None
<1>1. None.kind = "none" /\ Ng.kind = "NG" /\ \A n, s : Ok(n, s).kind = "OK"
  BY DEF None, Ng, Ok
<1> QED
  BY <1>1

LEMMA TypesGive ==
  ASSUME Types
  PROVE  /\ line \in Seq(Nat) /\ fifo \in Seq(Nat) /\ need \in Nat /\ late \in BOOLEAN
         /\ pc \in {"idle", "putWait", "getWait", "save", "saveWait", "write"}
         /\ rb \in 0..(CountMod - 1) /\ sector \in 0..(NumberMod - 1)
         /\ buf \in Seq(Nat) /\ mem \in Memories
         /\ pc \in {"save", "saveWait"} => Len(buf) <= BufSize
         /\ Rest \in Seq(Nat) /\ Len(fifo) \in Nat /\ Len(buf) \in Nat
<1>1. /\ line \in Seq(Nat) /\ fifo \in Seq(Nat) /\ need \in Nat /\ late \in BOOLEAN
      /\ pc \in {"idle", "putWait", "getWait", "save", "saveWait", "write"}
      /\ rb \in 0..(CountMod - 1) /\ sector \in 0..(NumberMod - 1)
      /\ buf \in Seq(Nat) /\ mem \in Memories
      /\ pc \in {"save", "saveWait"} => Len(buf) <= BufSize
  BY DEF Types, TypeOK, Memories
<1> QED
  BY <1>1, FifoIs, LenProperties

LEMMA InitControl == Init => Control
<1> SUFFICES ASSUME Init PROVE Control
  OBVIOUS
<1>1. Rest = <<>>
  BY ConcatEmptySeq, EmptySeq DEF Init, Rest
<1>2. Len(Rest) = 0
  BY <1>1, EmptySeq
<1>3. NoR(Rest) /\ NoDollar(Rest)
  BY <1>2 DEF NoR, NoDollar
<1> QED
  BY <1>3, AnswersDiffer DEF Init, Control, Settled, Handled

LEMMA IssueControl ==
  ASSUME Types, Control, NEW c \in Commands, Issue(c)
  PROVE  Control'
<1>1. /\ ans # None /\ cmd' = c /\ line' = Text(c) /\ line = <<>> /\ ans' = None
      /\ late' = FALSE /\ fifo' = fifo /\ pc' = pc
  BY DEF Issue, parser
<1>2. pc = "idle" /\ NoR(Rest)
  BY <1>1 DEF Control, Settled
<1>3. NoR(fifo)
  BY <1>1, <1>2, TypesGive, FifoIs
<1>4. Rest' = fifo \o Text(c)
  BY <1>1 DEF Rest
<1>5. Shift(Rest', Text(c), -Len(fifo)) /\ -Len(fifo) \in Int
  BY <1>3, <1>4, TypesGive, TextLength, ShiftStart
<1> QED
  BY <1>1, <1>2, <1>5 DEF Control, Settled, Handled

LEMMA GiveUpControl ==
  ASSUME Types, Control, GiveUp
  PROVE  Control'
<1>1. /\ line = <<>> /\ ans = None /\ pc = "idle" /\ Len(fifo) < 3 /\ ans' = Ng
      /\ UNCHANGED <<line, fifo, late, pc>>
  BY DEF GiveUp, uart, parser
<1>2. PICK off \in Int : cmd \in Commands /\ Shift(Rest, Text(cmd), off)
  BY <1>1 DEF Control, Handled
<1>3. Len(Rest) < 3
  BY <1>1, TypesGive, FifoIs
<1>4. NoR(Rest) /\ NoDollar(Rest)
  BY <1>2, <1>3, ShiftEnd
<1>5. Rest' = Rest
  BY <1>1 DEF Rest
<1>6. NoR(Rest)' /\ NoDollar(Rest)'
  BY <1>4, <1>5 DEF NoR, NoDollar
<1> QED
  BY <1>1, <1>6, AnswersDiffer DEF Control, Settled, Handled

(* A step that only moves characters, and more of them are there.          *)
LEMMA SameControl ==
  ASSUME Types, Control, Rest' = Rest, Len(fifo') \in Nat, Len(fifo) <= Len(fifo'),
         need' \in Nat, Len(fifo) + need <= Len(fifo') + need',
         UNCHANGED <<late, pc, rb, sector, buf, ans, cmd>>
  PROVE  Control'
<1>1. UNCHANGED <<NoR(Rest), NoDollar(Rest)>>
  BY DEF NoR, NoDollar
<1>2. Settled'
  BY <1>1 DEF Control, Settled
<1>3. \A off : Shift(Rest, Text(cmd), off)' <=> Shift(Rest, Text(cmd), off)
  BY DEF Shift
<1>4. rb \in 1..Len(fifo) => rb' \in 1..Len(fifo')
  BY TypesGive
<1>5. /\ Len(fifo) + need >= Burst => Len(fifo') + need' >= Burst
      /\ Len(fifo) + need >= PutWait => Len(fifo') + need' >= PutWait
  BY TypesGive, NumbersOK DEF Numbers
<1>6. Decoding => Decoding'
  BY <1>1, <1>3, <1>4, <1>5 DEF Decoding
<1>7. Handled'
  BY <1>1, <1>3, <1>5, <1>6 DEF Control, Handled
<1> QED
  BY <1>2, <1>7 DEF Control

LEMMA ArriveControl ==
  ASSUME Types, Control, Arrive
  PROVE  Control'
<1>1. /\ line' = Tail(line) /\ fifo' = Append(fifo, Head(line)) /\ line # <<>>
      /\ need' = (IF need = 0 THEN 0 ELSE need - 1)
      /\ UNCHANGED <<late, pc, rb, sector, buf, mem, ans, cmd, cmds>>
  BY DEF Arrive, parser, sketch
<1>2. Rest' = Rest
  BY <1>1, TypesGive, ArriveRest DEF Rest
<1>3. Len(fifo') = Len(fifo) + 1
  BY <1>1, TypesGive
<1>4. Len(fifo') \in Nat /\ Len(fifo) <= Len(fifo') /\ need' \in Nat
      /\ Len(fifo) + need <= Len(fifo') + need'
  BY <1>1, <1>3, TypesGive
<1> QED
  BY <1>1, <1>2, <1>4, SameControl

LEMMA CutRest ==
  ASSUME Types, NEW k \in Nat, fifo' = After(k), line' = line
  PROVE  LET m == IF k <= Len(fifo) THEN k ELSE Len(fifo)
         IN  Cut(Rest', Rest, m) /\ Len(fifo') = Len(fifo) - m /\ m \in Nat
<1>1. Rest' = After(k) \o line
  BY DEF Rest
<1> QED
  BY <1>1, TypesGive, AfterIs

LEMMA NoRAhead ==
  ASSUME Types, NoR(Rest), NEW i \in Nat \ {0}
  PROVE  Char(i) # R
<1>1. /\ Len(fifo) \in Nat /\ Len(Rest) \in Nat /\ Len(fifo) <= Len(Rest)
      /\ \A k \in 1..Len(fifo) : Char(k) = Rest[k]
      /\ \A k \in Nat : k > Len(fifo) => Char(k) = Nul
  BY TypesGive, FifoIs
<1>2. CASE i <= Len(fifo)
  <2>1. i \in 1..Len(fifo) /\ i \in 1..Len(Rest)
    BY <1>1, <1>2
  <2> QED
    BY <1>1, <2>1 DEF NoR
<1>3. CASE ~(i <= Len(fifo))
  <2>1. Char(i) = Nul
    BY <1>1, <1>3
  <2> QED
    BY <2>1, Chars
<1> QED
  BY <1>2, <1>3

(* The characters of a name that is read are those of the command.         *)
LEMMA NameIs ==
  ASSUME Types, NEW c \in Commands, NEW off \in Int, Shift(Rest, Text(c), off),
         NEW q \in Nat \ {0}, Char(q) = R, Char(q + 1) \in {R, W}
  PROVE  /\ off + (q + 1) = 3 /\ Char(q + 1) = (IF c.put THEN W ELSE R)
         /\ q + 1 <= Len(fifo)
<1>1. Len(fifo) \in Nat /\ Len(Rest) \in Nat /\ Len(fifo) <= Len(Rest)
  BY TypesGive, FifoIs
<1>2. q + 1 <= Len(fifo)
  <2> SUFFICES ASSUME ~(q + 1 <= Len(fifo)) PROVE FALSE
    OBVIOUS
  <2>1. Char(q + 1) = Nul
    BY <1>1, TypesGive, FifoIs
  <2> QED
    BY <2>1, Chars
<1>3. Rest[q] = R /\ Rest[q + 1] = Char(q + 1)
  <2>1. q \in 1..Len(fifo) /\ q + 1 \in 1..Len(fifo)
    BY <1>1, <1>2
  <2> QED
    BY <2>1, TypesGive, FifoIs
<1>4. q + 1 <= Len(Rest) /\ Rest[q + 1] \in {R, W}
  BY <1>1, <1>2, <1>3
<1>5. off + (q + 1) = 3 /\ Rest[q + 1] = (IF c.put THEN W ELSE R)
  BY <1>3, <1>4, ShiftName
<1> QED
  BY <1>2, <1>3, <1>5

LEMMA DispatchControl ==
  ASSUME Types, Control, Dispatch
  PROVE  Control'
<1>1. pc = "idle" /\ Len(fifo) >= 3 /\ UNCHANGED <<line, late, rb, sector, buf, mem, ans, cmd>>
  BY DEF Dispatch, sketch
<1>2. ASSUME NEW k \in Nat, fifo' = After(k), UNCHANGED <<pc, need>>
      PROVE  Control'
  <2>1. PICK m \in Nat : Cut(Rest', Rest, m)
    BY <1>1, <1>2, CutRest
  <2>2. /\ NoR(Rest) => NoR(Rest')
        /\ NoDollar(Rest) => NoDollar(Rest')
        /\ \A t, off : t \in Seq(Nat) /\ Shift(Rest, t, off) => Shift(Rest', t, off + m)
    BY <2>1, CutKeeps
  <2>3. Settled'
    BY <1>1, <1>2, <2>2 DEF Control, Settled
  <2>4. ASSUME ans = None
        PROVE  ~late /\ cmd \in Commands /\ \E off \in Int : Shift(Rest', Text(cmd), off)
    <3>1. PICK off \in Int : Shift(Rest, Text(cmd), off)
      BY <1>1, <2>4 DEF Control, Handled
    <3>2. cmd \in Commands /\ ~late
      BY <1>1, <2>4 DEF Control, Handled
    <3>3. Shift(Rest', Text(cmd), off + m) /\ off + m \in Int
      BY <2>2, <3>1, <3>2, TextLength
    <3> QED
      BY <3>2, <3>3
  <2>5. Handled'
    BY <1>1, <1>2, <2>4 DEF Handled
  <2> QED
    BY <2>3, <2>5 DEF Control
<1>3. ASSUME NEW q \in {2, 4}, Char(q) = R, Char(q + 1) \in {R, W}, fifo' = After(q + 1),
             pc' = (IF Char(q + 1) = W THEN "putWait" ELSE "getWait"),
             need' = (IF Char(q + 1) = W THEN PutWait ELSE GetWait)
      PROVE  Control'
  <2>1. q \in Nat \ {0} /\ q + 1 \in Nat
    BY <1>3
  <2>2. ans = None
    <3> SUFFICES ASSUME ans # None PROVE FALSE
      OBVIOUS
    <3>1. NoR(Rest)
      BY DEF Control, Settled
    <3> QED
      BY <1>3, <2>1, <3>1, NoRAhead
  <2>3. cmd \in Commands /\ ~late
    BY <1>1, <2>2 DEF Control, Handled
  <2>4. PICK off \in Int : Shift(Rest, Text(cmd), off)
    BY <1>1, <2>2 DEF Control, Handled
  <2>5. off + (q + 1) = 3 /\ Char(q + 1) = (IF cmd.put THEN W ELSE R) /\ q + 1 <= Len(fifo)
    BY <1>3, <2>1, <2>3, <2>4, NameIs
  <2>6. Cut(Rest', Rest, q + 1) /\ Len(fifo') = Len(fifo) - (q + 1)
    BY <1>1, <1>3, <2>1, <2>5, CutRest
  <2>7. Shift(Rest', Text(cmd), 3)
    BY <2>3, <2>4, <2>5, <2>6, CutKeeps, TextLength
  <2>8. cmd.put <=> pc' = "putWait"
    <3>1. R # W
      BY Chars
    <3> QED
      BY <1>3, <2>5, <3>1
  <2>9. pc' = "putWait" => Len(fifo') + need' >= PutWait
    <3>1. Len(fifo') \in Nat
      BY <2>1, <2>5, <2>6, TypesGive
    <3>2. pc' = "putWait" => need' = PutWait
      BY <1>3
    <3> QED
      BY <3>1, <3>2, NumbersOK DEF Numbers
  <2>10. pc' \in {"putWait", "getWait"}
    BY <1>3
  <2> QED
    BY <1>1, <2>2, <2>3, <2>7, <2>8, <2>9, <2>10 DEF Control, Settled, Handled
<1>4. PICK again \in BOOLEAN : again <=> Char(1) = Dollar /\ Dollar \in {Char(2), Char(3)}
  OBVIOUS
<1>5. PICK name : name = IF again THEN <<Char(4), Char(5)>> ELSE <<Char(2), Char(3)>>
  OBVIOUS
<1>6. /\ fifo' = IF Char(1) # Dollar THEN After(1) ELSE IF again THEN After(5) ELSE After(3)
      /\ CASE Char(1) = Dollar /\ name = <<R, W>> -> StartWait("putWait", PutWait)
           [] Char(1) = Dollar /\ name = <<R, R>> -> StartWait("getWait", GetWait)
           [] OTHER -> UNCHANGED <<pc, need>>
  BY <1>4, <1>5, Zenon DEF Dispatch
<1>7. CASE UNCHANGED <<pc, need>>
  BY <1>2, <1>6, <1>7
<1>8. CASE ~UNCHANGED <<pc, need>>
  <2>1. Char(1) = Dollar /\ \/ name = <<R, W>> /\ pc' = "putWait" /\ need' = PutWait
                            \/ name = <<R, R>> /\ pc' = "getWait" /\ need' = GetWait
    BY <1>6, <1>8 DEF StartWait
  <2>2. PICK q \in {2, 4} : name = <<Char(q), Char(q + 1)>> /\ fifo' = After(q + 1)
    <3>1. 2 + 1 = 3 /\ 4 + 1 = 5
      OBVIOUS
    <3>2. CASE again
      BY <1>5, <1>6, <2>1, <3>1, <3>2
    <3>3. CASE ~again
      BY <1>5, <1>6, <2>1, <3>1, <3>3
    <3> QED
      BY <3>2, <3>3
  <2>3. R # W
    BY Chars
  <2>4. /\ Char(q) = R /\ Char(q + 1) \in {R, W}
        /\ pc' = (IF Char(q + 1) = W THEN "putWait" ELSE "getWait")
        /\ need' = (IF Char(q + 1) = W THEN PutWait ELSE GetWait)
    BY <2>1, <2>2, <2>3
  <2> QED
    BY <1>3, <2>2, <2>4
<1> QED
  BY <1>7, <1>8

LEMMA SizesIs ==
  /\ SectorBytes <= BufSize /\ PutWait >= 7 /\ Burst >= 5
  /\ \A c \in Commands : Len(Text(c)) < CountMod
BY SizeAssumption, TextAssumption

(* What has arrived of the text behind off can be counted.                 *)
LEMMA Counted ==
  ASSUME Types, NEW c \in Commands, NEW off \in Nat, Shift(Rest, Text(c), off)
  PROVE  Len(fifo) < CountMod
<1>1. Len(fifo) \in Nat /\ Len(Rest) \in Nat /\ Len(fifo) <= Len(Rest)
  BY TypesGive, FifoIs
<1>2. Len(Rest) = Len(Text(c)) - off
  BY DEF Shift
<1>3. Len(Text(c)) \in Nat /\ Len(Text(c)) < CountMod
  BY TextLength, SizesIs
<1> QED
  BY <1>1, <1>2, <1>3, NumbersOK DEF Numbers

LEMMA PutHeaderControl ==
  ASSUME Types, Control, PutHeader
  PROVE  Control'
<1>1. /\ pc = "putWait" /\ need' = 0 /\ late' = (late \/ (need > 0 /\ line # <<>>))
      /\ line' = line /\ cmd' = cmd
  BY DEF PutHeader, Waited, sketch
<1>2. /\ ans = None /\ cmd \in Commands /\ cmd.put /\ ~late /\ Shift(Rest, Text(cmd), 3)
      /\ Len(fifo) + need >= PutWait
  BY <1>1 DEF Control, Settled, Handled
<1>3. NoR(Rest)
  BY <1>2, ShiftNoR
<1>4. ~late' => Len(fifo) >= 7 \/ line = <<>>
  <2>1. ~late' => ~(need > 0) \/ line = <<>>
    BY <1>1, Zenon
  <2>2. ~(need > 0) => Len(fifo) >= 7
    <3>1. /\ need \in Nat /\ Len(fifo) \in Nat /\ PutWait \in Nat /\ PutWait >= 7
          /\ Len(fifo) + need >= PutWait
      BY <1>2, TypesGive, NumbersOK, SizesIs DEF Numbers
    <3> QED
      BY <3>1
  <2> QED
    BY <2>1, <2>2, Zenon
<1>5. PICK e : e = 3 + Len(Decimal(cmd.sector))
  OBVIOUS
<1>6. ~late' =>
        /\ Len(fifo) >= PutLeast /\ e \in 1..(Len(fifo) - 1) /\ fifo[e] = Quote
        /\ \A i \in 1..(e - 1) : fifo[i] # Quote
        /\ Number(SubSeq(fifo, 1, e)) = cmd.sector
  BY <1>2, <1>4, <1>5, TypesGive, HeaderIs
<1>7. CASE Len(fifo) < PutLeast
  <2>1. ans' = Ng /\ pc' = "idle" /\ fifo' = fifo
    BY <1>7 DEF PutHeader, Reply
  <2>2. late'
    <3> SUFFICES ASSUME ~late' PROVE FALSE
      BY <1>1, <1>2
    <3>1. Len(fifo) >= PutLeast
      BY <1>6
    <3> QED
      BY <1>7, <3>1, TypesGive DEF PutLeast
  <2>3. Rest' = Rest
    BY <1>1, <2>1 DEF Rest
  <2>4. NoR(Rest')
    BY <1>3, <2>3
  <2> QED
    BY <2>1, <2>2, <2>4, AnswersDiffer DEF Control, Settled, Handled
<1>8. CASE ~(Len(fifo) < PutLeast)
  <2> DEFINE opening == {i \in 1..Len(fifo) : fifo[i] = Quote}
             least == CHOOSE i \in opening : \A j \in opening : i <= j
  <2>1. PICK end : end = IF opening = {} THEN Len(fifo) ELSE least
    OBVIOUS
  <2>2. /\ sector' = Number(SubSeq(fifo, 1, end)) % NumberMod
        /\ fifo' = After(end) /\ rb' = (Len(fifo) - end) % CountMod
        /\ buf' = <<>> /\ pc' = (IF rb' = 0 THEN "write" ELSE "save") /\ ans' = ans
    BY <1>8, <2>1 DEF PutHeader
  <2>3. opening # {} => least \in opening /\ \A j \in opening : least <= j
    <3>1. opening \subseteq Nat
      OBVIOUS
    <3> HIDE DEF opening
    <3>2. opening # {} => \E i \in opening : \A j \in opening : i <= j
      BY <3>1, LeastElement
    <3> QED
      BY <3>2
  <2>4. end \in Nat /\ end <= Len(fifo)
    <3>1. Len(fifo) \in Nat
      BY TypesGive
    <3>2. CASE opening = {}
      BY <2>1, <3>1, <3>2
    <3>3. CASE opening # {}
      <4>1. end \in opening
        BY <2>1, <2>3, <3>3
      <4> QED
        BY <3>1, <4>1
    <3> QED
      BY <3>2, <3>3
  <2>5. Cut(Rest', Rest, end) /\ Len(fifo') = Len(fifo) - end
    BY <1>1, <2>2, <2>4, CutRest
  <2>6. NoR(Rest')
    BY <1>3, <2>5, CutKeeps
  <2>7. ASSUME ~late'
        PROVE  Decoding'
    <3>1. /\ e \in 1..(Len(fifo) - 1) /\ fifo[e] = Quote
          /\ \A i \in 1..(e - 1) : fifo[i] # Quote
          /\ Number(SubSeq(fifo, 1, e)) = cmd.sector
      BY <1>6, <2>7
    <3>2. e \in opening
      BY <3>1, TypesGive
    <3>3. end \in opening /\ end <= e
      BY <2>1, <2>3, <3>2
    <3>4. end = e
      <4> SUFFICES ASSUME end < e PROVE FALSE
        BY <2>4, <3>1, <3>3, TypesGive
      <4>1. end \in 1..(e - 1) /\ fifo[end] = Quote
        BY <3>1, <3>3, TypesGive
      <4> QED
        BY <3>1, <4>1
    <3>5. sector' = cmd.sector % NumberMod
      BY <2>2, <3>1, <3>4
    <3>6. Pos(cmd, 0) = 3 + e /\ e \in Nat
      <4>1. Pos(cmd, 0) = 6 + Len(Decimal(cmd.sector))
        BY <1>2, PutIs DEF PutFacts
      <4>2. Len(Decimal(cmd.sector)) \in 1..3
        BY <1>2, DigitIs
      <4> QED
        BY <1>5, <4>1, <4>2
    <3>7. Shift(Rest', Text(cmd), Pos(cmd, 0))
      <4>1. Shift(Rest', Text(cmd), 3 + e)
        BY <1>2, <2>5, <3>4, CutKeeps, TextLength
      <4> QED
        BY <3>6, <4>1
    <3>8. Len(buf') = 0 /\ Len(cmd.data) \in Nat
      BY <1>2, <2>2, EmptySeq, DataIs
    <3>9. rb' \in 1..Len(fifo') /\ rb' # 0
      <4>1. Len(fifo) < CountMod
        BY <1>2, Counted
      <4>2. Len(fifo) - e \in 1..(CountMod - 1) /\ Len(fifo') = Len(fifo) - e
        BY <2>5, <3>1, <3>4, <3>6, <4>1, TypesGive, NumbersOK DEF Numbers
      <4>3. rb' = Len(fifo) - e
        <5>1. \A a \in 1..(CountMod - 1) : a % CountMod = a
          BY NumbersOK DEF Numbers
        <5> QED
          BY <2>2, <3>4, <4>2, <5>1
      <4> QED
        BY <4>2, <4>3, TypesGive, NumbersOK DEF Numbers
    <3>10. pc' = "save"
      BY <2>2, <3>9
    <3> HIDE DEF opening, least
    <3>11. /\ Len(buf') <= Len(cmd.data)
           /\ \A i \in 1..Len(buf') : buf'[i] = cmd.data[i]
      BY <3>8
    <3>12. Shift(Rest', Text(cmd'), Pos(cmd', Len(buf')))
      BY <1>1, <3>7, <3>8
    <3> QED
      BY <1>1, <3>5, <3>9, <3>10, <3>11, <3>12 DEF Decoding
  <2>8. pc' \in {"save", "write"}
    BY <2>2
  <2> HIDE DEF opening, least
  <2>9. Handled'
    BY <1>1, <1>2, <2>6, <2>7, <2>8 DEF Handled
  <2>10. Settled'
    BY <1>2, <2>2 DEF Settled
  <2> QED
    BY <2>9, <2>10 DEF Control
<1> QED
  BY <1>7, <1>8

LEMMA LessIs ==
  ASSUME NEW n \in Nat, NEW k \in Nat, k <= n, n < CountMod
  PROVE  Less(n, k) = n - k
<1>1. CountMod \in Nat \ {0}
  BY NumbersOK DEF Numbers
<1>2. PICK a : a = n - k
  OBVIOUS
<1>3. a \in 0..(CountMod - 1) /\ (n + CountMod) - k = a + CountMod
  BY <1>1, <1>2
<1>4. (a + CountMod) % CountMod = a
  BY <1>1, <1>3
<1>5. n + CountMod - k = a + CountMod
  BY <1>1, <1>3
<1> QED
  BY <1>2, <1>4, <1>5 DEF Less

(* One turn of the loop, with n characters counted.                        *)
LEMMA TakeControl ==
  ASSUME Types, ans = None, cmd \in Commands, cmd.put, NoR(Rest),
         pc \in {"save", "saveWait"}, NEW n \in Nat, TakeByte(n),
         ~late' => /\ Decoding /\ n \in 1..Len(fifo)
                   /\ n >= 5 \/ (n = Len(fifo) /\ line = <<>>)
  PROVE  Control'
<1>1. line' = line /\ sector' = sector /\ ans' = ans /\ cmd' = cmd
  BY DEF TakeByte, sketch
<1>2. PICK k \in Nat : fifo' = After(k) /\ (Char(1) = Quote => k = 1)
                       /\ (Char(1) # Quote => k = Taken.n)
  <2>1. Taken.n \in Nat
    BY TypesGive, TakenType
  <2> QED
    BY <2>1 DEF TakeByte
<1>3. PICK m \in Nat : Cut(Rest', Rest, m) /\ Len(fifo') = Len(fifo) - m /\ (k <= Len(fifo) => m = k)
  BY <1>1, <1>2, CutRest
<1>4. /\ NoR(Rest')
      /\ NoDollar(Rest) => NoDollar(Rest')
      /\ \A off : Shift(Rest, Text(cmd), off) => Shift(Rest', Text(cmd), off + m)
  BY <1>3, CutKeeps, TextLength
<1>5. pc' \in {"save", "write"}
  BY DEF TakeByte
<1>6. ASSUME ~late'
      PROVE  Decoding'
  <2>1. /\ n \in 1..Len(fifo)
        /\ n >= 5 \/ (n = Len(fifo) /\ line = <<>>)
        /\ sector = cmd.sector % NumberMod
        /\ Len(buf) <= Len(cmd.data) /\ \A i \in 1..Len(buf) : buf[i] = cmd.data[i]
        /\ Shift(Rest, Text(cmd), Pos(cmd, Len(buf)))
    BY <1>6 DEF Decoding
  <2>2. PICK d : d = cmd.data
    OBVIOUS
  <2>3. PICK j : j = Len(buf)
    OBVIOUS
  <2>4. d \in Seq(Bytes) /\ d \in Messages /\ Len(d) \in Nat /\ j \in 0..Len(d) /\ j <= BufSize
    BY <2>1, <2>2, <2>3, CommandType, DataIs, TypesGive
  <2>5. Len(fifo) >= 5 \/ line = <<>>
    BY <2>1, TypesGive
  <2>6. /\ Len(fifo) >= 1
        /\ Char(1) = Quote => j = Len(d)
        /\ Char(1) # Quote =>
             /\ j < Len(d) /\ k \in 1..4 /\ k < Len(fifo)
             /\ Taken.count = k /\ Taken.data = <<d[j + 1]>>
             /\ Pos(cmd, j + 1) = Pos(cmd, j) + k
    BY <1>2, <2>1, <2>2, <2>3, <2>4, <2>5, TypesGive, TakeIs
  <2>7. CASE Char(1) = Quote
    <3>1. pc' = "write" /\ buf' = buf
      BY <2>7 DEF TakeByte
    <3>2. \A i \in (j + 1)..Len(d) : d[i] = 3
      BY <2>4, <2>6, <2>7
    <3>3. NoDollar(Rest')
      BY <1>4, <2>1, <2>2, <2>3, <2>4, <3>2, ShiftPlain
    <3> QED
      BY <1>1, <2>1, <2>2, <2>3, <2>6, <2>7, <3>1, <3>3 DEF Decoding
  <2>8. CASE Char(1) # Quote
    <3>1. /\ rb' = Less(n, k) /\ buf' = buf \o <<d[j + 1]>>
          /\ pc' = IF Full(Len(buf')) \/ rb' = 0 THEN "write" ELSE "save"
      BY <2>6, <2>8 DEF TakeByte
    <3>2. m = k /\ k \in 1..4 /\ k < n
      <4>1. k \in 1..4 /\ k < Len(fifo)
        BY <2>6, <2>8
      <4>2. CASE n >= 5
        BY <1>3, <4>1, <4>2, TypesGive
      <4>3. CASE n = Len(fifo)
        BY <1>3, <4>1, <4>3, TypesGive
      <4> QED
        BY <2>1, <4>2, <4>3
    <3>3. rb' = n - k
      <4>1. Len(fifo) < CountMod
        <5>1. Pos(cmd, Len(buf)) \in Nat
          BY <2>2, <2>3, <2>4, DigitIs, EncType DEF Pos
        <5> QED
          BY <2>1, <5>1, Counted
      <4>2. k <= n /\ n < CountMod
        BY <2>1, <3>2, <4>1, TypesGive, NumbersOK DEF Numbers
      <4> QED
        BY <3>1, <4>2, LessIs
    <3>4. rb' \in 1..Len(fifo') /\ rb' # 0
      BY <1>3, <2>1, <3>2, <3>3, TypesGive
    <3>5. d[j + 1] \in Nat
      <4>1. j + 1 \in 1..Len(d)
        BY <2>4, <2>6, <2>8
      <4>2. d[j + 1] \in Bytes
        BY <2>4, <4>1, ElementOfSeq
      <4> QED
        BY <4>2 DEF Bytes
    <3>6. Len(buf') = j + 1 /\ \A i \in 1..(j + 1) : buf'[i] = d[i]
      <4>1. PICK b : b = buf'
        OBVIOUS
      <4>2. PICK v \in Nat : v = d[j + 1]
        BY <3>5
      <4>3. /\ <<v>> \in Seq(Nat) /\ Len(<<v>>) = 1 /\ <<v>>[1] = v
        OBVIOUS
      <4>4. /\ Len(b) = j + 1
            /\ \A i \in 1..(j + 1) : b[i] = IF i <= j THEN buf[i] ELSE <<v>>[i - j]
        BY <2>3, <3>1, <4>1, <4>2, <4>3, TypesGive, ConcatProperties
      <4>5. ASSUME NEW i \in 1..(j + 1)
            PROVE  b[i] = d[i]
        <5>1. CASE i <= j
          <6>1. i \in 1..Len(buf)
            BY <2>3, <2>4, <5>1
          <6> QED
            BY <2>1, <2>2, <4>4, <5>1, <6>1
        <5>2. CASE ~(i <= j)
          <6>1. i = j + 1 /\ i - j = 1
            BY <2>4, <5>2
          <6> QED
            BY <4>2, <4>3, <4>4, <5>2, <6>1
        <5> QED
          BY <5>1, <5>2
      <4> QED
        BY <4>1, <4>4, <4>5
    <3>7. j + 1 <= Len(d) /\ j + 1 \in 0..Len(d)
      BY <2>4, <2>6, <2>8
    <3>8. Shift(Rest', Text(cmd), Pos(cmd, j + 1))
      BY <1>4, <2>1, <2>3, <2>6, <2>8, <3>2
    <3>9. ASSUME Full(Len(buf')), Plain
          PROVE  NoDollar(Rest')
      <4>1. (j + 1) + 1 >= BufSize + 2
        BY <2>4, <3>6, <3>9, NumbersOK DEF Full, Numbers
      <4>2. \A i \in (BufSize + 2)..Len(d) : d[i] = 3
        BY <2>4, <3>9 DEF Plain
      <4>3. \A i \in ((j + 1) + 1)..Len(cmd.data) : cmd.data[i] = 3
        BY <2>2, <2>4, <4>1, <4>2, NumbersOK DEF Numbers
      <4> QED
        BY <2>2, <3>7, <3>8, <4>3, ShiftPlain
    <3>10. pc' = (IF Full(Len(buf')) THEN "write" ELSE "save")
      BY <3>1, <3>4
    <3>11. /\ Len(buf') <= Len(cmd'.data)
           /\ \A i \in 1..Len(buf') : buf'[i] = cmd'.data[i]
      BY <1>1, <2>2, <3>6, <3>7
    <3>12. Shift(Rest', Text(cmd'), Pos(cmd', Len(buf')))
      BY <1>1, <3>6, <3>8
    <3>13. sector' = cmd'.sector % NumberMod
      BY <1>1, <2>1
    <3>14. pc' = "write" => Full(Len(buf')) /\ (Plain => NoDollar(Rest'))
      BY <3>9, <3>10
    <3> QED
      BY <3>4, <3>10, <3>11, <3>12, <3>13, <3>14 DEF Decoding
  <2> QED
    BY <2>7, <2>8
<1>7. Handled'
  BY <1>1, <1>4, <1>5, <1>6 DEF Handled
<1>8. Settled'
  BY <1>1 DEF Settled
<1> QED
  BY <1>7, <1>8 DEF Control

LEMMA SavingGives ==
  ASSUME Types, Control, pc \in {"save", "saveWait", "write"}
  PROVE  ans = None /\ cmd \in Commands /\ cmd.put /\ NoR(Rest) /\ (~late => Decoding)
BY DEF Control, Settled, Handled

LEMMA SaveByteControl ==
  ASSUME Types, Control, SaveByte
  PROVE  Control'
<1>1. pc = "save" /\ ~(rb <= 4) /\ TakeByte(rb) /\ late' = late
  BY DEF SaveByte, MustWait
<1>2. ans = None /\ cmd \in Commands /\ cmd.put /\ NoR(Rest) /\ (~late => Decoding)
  BY <1>1, SavingGives
<1>3. rb \in Nat /\ rb >= 5
  BY <1>1, TypesGive, NumbersOK DEF Numbers
<1>4. ~late' => Decoding /\ rb \in 1..Len(fifo)
  BY <1>1, <1>2 DEF Decoding
<1> QED
  BY <1>1, <1>2, <1>3, <1>4, TakeControl

LEMMA SaveWaitedControl ==
  ASSUME Types, Control, SaveWaited
  PROVE  Control'
<1>1. /\ pc = "saveWait" /\ TakeByte(Len(fifo))
      /\ late' = (late \/ (need > 0 /\ line # <<>>))
  BY DEF SaveWaited, Waited
<1>2. ans = None /\ cmd \in Commands /\ cmd.put /\ NoR(Rest) /\ (~late => Decoding)
  BY <1>1, SavingGives
<1>3. Len(fifo) \in Nat
  BY TypesGive
<1>4. ASSUME ~late'
      PROVE  Decoding /\ Len(fifo) \in 1..Len(fifo) /\ (Len(fifo) >= 5 \/ line = <<>>)
  <2>1. ~late /\ (~(need > 0) \/ line = <<>>)
    BY <1>1, <1>4, Zenon
  <2>2. Decoding
    BY <1>2, <2>1
  <2>3. ~(need > 0) => Len(fifo) >= 5
    <3>1. Len(fifo) + need >= Burst
      BY <1>1, <2>2 DEF Decoding
    <3>2. need \in Nat /\ Burst \in Nat /\ Burst >= 5
      BY TypesGive, NumbersOK, SizesIs DEF Numbers
    <3> QED
      BY <1>3, <3>1, <3>2
  <2>4. Len(fifo) >= 5 \/ line = <<>>
    BY <2>1, <2>3, Zenon
  <2>5. Len(fifo) >= 1
    <3>1. /\ Len(buf) \in 0..Len(cmd.data)
          /\ Shift(Rest, Text(cmd), Pos(cmd, Len(buf)))
      BY <1>1, <1>2, <2>2, TypesGive, DataIs DEF Decoding
    <3> QED
      BY <1>2, <2>4, <3>1, TypesGive, TakeIs
  <2> QED
    BY <1>3, <2>2, <2>4, <2>5
<1>5. ~late' => /\ Decoding /\ Len(fifo) \in 1..Len(fifo)
                /\ Len(fifo) >= 5 \/ (Len(fifo) = Len(fifo) /\ line = <<>>)
  BY <1>4
<1> QED
  BY <1>1, <1>2, <1>3, <1>5, TakeControl

LEMMA SaveWaitControl ==
  ASSUME Types, Control, SaveWait
  PROVE  Control'
<1>1. /\ pc = "save" /\ pc' = "saveWait" /\ need' = Burst
      /\ UNCHANGED <<line, fifo, late, rb, sector, buf, ans, cmd>>
  BY DEF SaveWait, StartWait, sketch
<1>2. ans = None /\ cmd \in Commands /\ cmd.put /\ NoR(Rest) /\ (~late => Decoding)
  BY <1>1, SavingGives
<1>3. Rest' = Rest
  BY <1>1 DEF Rest
<1>4. Len(fifo) + Burst >= Burst
  BY TypesGive, NumbersOK DEF Numbers
<1>5. ~late => Decoding'
  BY <1>1, <1>2, <1>3, <1>4 DEF Decoding
<1>6. NoR(Rest')
  BY <1>2, <1>3
<1> QED
  BY <1>1, <1>2, <1>5, <1>6 DEF Control, Settled, Handled

LEMMA PutWriteControl ==
  ASSUME Types, Control, PutWrite
  PROVE  Control'
<1>1. pc = "write" /\ UNCHANGED <<line, fifo, late>>
  BY DEF PutWrite, uart
<1>2. ans = None /\ NoR(Rest) /\ (~late => Decoding)
  BY <1>1, SavingGives
<1>3. pc' = "idle" /\ ans' # None
  <2>1. sector \in Nat
    BY TypesGive, NumbersOK DEF Numbers
  <2>2. PICK o : Reply(IF o.status = 0 THEN Ok(o.n, sector) ELSE Ng)
    BY <2>1, TypesGive, PutWriteIs
  <2> QED
    BY <2>2, AnswersDiffer DEF Reply
<1>4. Rest' = Rest
  BY <1>1 DEF Rest
<1>5. ~late /\ Plain => NoDollar(Rest)
  BY <1>1, <1>2 DEF Decoding
<1>6. NoR(Rest') /\ (~late' /\ Plain => NoDollar(Rest'))
  BY <1>1, <1>2, <1>4, <1>5
<1> QED
  BY <1>3, <1>6 DEF Control, Settled, Handled

LEMMA GetGives ==
  ASSUME Types, Control, pc = "getWait"
  PROVE  /\ ans = None /\ cmd \in Commands /\ ~cmd.put /\ ~late /\ Shift(Rest, Text(cmd), 3)
         /\ NoR(Rest) /\ NoDollar(Rest)
<1>1. ans = None /\ cmd \in Commands /\ ~cmd.put /\ ~late /\ Shift(Rest, Text(cmd), 3)
  BY DEF Control, Settled, Handled
<1>2. NoR(Rest)
  BY <1>1, ShiftNoR
<1>3. PICK t : t = Text(cmd)
  OBVIOUS
<1>4. Len(t) \in Nat /\ \A i \in 2..Len(t) : t[i] # Dollar
  BY <1>1, <1>3, GetPlain, TextLength
<1>5. Len(Rest) = Len(t) - 3 /\ \A i \in 1..Len(Rest) : Rest[i] = t[i + 3]
  BY <1>1, <1>3 DEF Shift
<1>6. ASSUME NEW i \in 1..Len(Rest)
      PROVE  Rest[i] # Dollar
  <2>1. i + 3 \in 2..Len(t)
    BY <1>4, <1>5
  <2> QED
    BY <1>4, <1>5, <2>1
<1> QED
  BY <1>1, <1>2, <1>6 DEF NoDollar

LEMMA GetReadControl ==
  ASSUME Types, Control, GetRead
  PROVE  Control'
<1>1. pc = "getWait" /\ line' = line /\ (fifo' = fifo \/ fifo' = After(5))
  BY DEF GetRead
<1>2. pc' = "idle" /\ ans' # None
  BY AnswersDiffer DEF GetRead, Reply
<1>3. NoR(Rest) /\ NoDollar(Rest)
  BY <1>1, GetGives
<1>4. NoR(Rest') /\ NoDollar(Rest')
  <2>1. CASE fifo' = fifo
    <3>1. Rest' = Rest
      BY <1>1, <2>1 DEF Rest
    <3> QED
      BY <1>3, <3>1
  <2>2. CASE fifo' = After(5)
    <3>1. PICK m : Cut(Rest', Rest, m)
      BY <1>1, <2>2, CutRest
    <3> QED
      BY <1>3, <3>1, CutKeeps
  <2> QED
    BY <1>1, <2>1, <2>2
<1> QED
  BY <1>2, <1>4 DEF Control, Settled, Handled

LEMMA NextControl == Types /\ Control /\ [Next]_vars => Control'
<1> SUFFICES ASSUME Types, Control, [Next]_vars PROVE Control'
  OBVIOUS
<1>1. CASE UNCHANGED vars
  <2>1. UNCHANGED <<line, fifo, need, late, pc, rb, sector, buf, ans, cmd>>
    BY <1>1 DEF vars, uart, parser, sketch
  <2>2. Rest' = Rest
    BY <2>1 DEF Rest
  <2>3. Len(fifo') \in Nat /\ Len(fifo) <= Len(fifo') /\ need' \in Nat
        /\ Len(fifo) + need <= Len(fifo') + need'
    BY <2>1, TypesGive
  <2> QED
    BY <2>1, <2>2, <2>3, SameControl
<1>2. CASE \E c \in Commands : Issue(c)
  BY <1>2, IssueControl
<1>3. CASE GiveUp \/ Arrive
  BY <1>3, GiveUpControl, ArriveControl
<1>4. CASE Api
  BY <1>4, DispatchControl, PutHeaderControl, SaveByteControl, SaveWaitControl,
     SaveWaitedControl, PutWriteControl, GetReadControl DEF Api
<1> QED
  BY <1>1, <1>2, <1>3, <1>4 DEF Next

-----------------------------------------------------------------------------
(* The properties.                                                         *)

LEMMA ControlHolds == Spec => [](Types /\ Control)
<1>1. Init => Types /\ Control
  BY InitTypes, InitControl
<1>2. Types /\ Control /\ [Next]_vars => (Types /\ Control)'
  BY NextTypes, NextControl
<1> QED
  BY <1>1, <1>2, PTL DEF Spec

(* If the sketch does not pause, flash_sector_write gets the data it meant,*)
(* or as much of it as the buffer takes: for every message, every sector   *)
(* number and every chunking of the characters between the waits.          *)
THEOREM DecodedRightHolds == Spec => []DecodedRight
<1>1. Types /\ Control => DecodedRight
  <2> SUFFICES ASSUME Types, Control, pc = "write", ~late
               PROVE  \/ buf = cmd.data
                      \/ Full(Len(buf)) /\ buf = SubSeq(cmd.data, 1, Len(buf))
    BY DEF DecodedRight
  <2>1. cmd \in Commands /\ Decoding
    BY SavingGives
  <2>2. PICK d : d = cmd.data
    OBVIOUS
  <2>3. d \in Seq(Nat) /\ Len(d) \in Nat
    <3>1. Bytes \subseteq Nat /\ d \in Seq(Bytes)
      BY <2>1, <2>2, CommandType DEF Bytes
    <3> QED
      BY <3>1, SeqMonotonic, LenProperties
  <2>4. /\ Len(buf) <= Len(d) /\ \A i \in 1..Len(buf) : buf[i] = d[i]
        /\ Len(buf) = Len(d) \/ Full(Len(buf))
    BY <2>1, <2>2 DEF Decoding
  <2>5. buf \in Seq(Nat) /\ Len(buf) \in Nat
    BY TypesGive
  <2>6. Len(buf) = Len(d) => buf = d
    BY <2>3, <2>4, <2>5, SeqEqual
  <2>7. buf = SubSeq(d, 1, Len(buf))
    <3>1. PICK n : n = Len(buf)
      OBVIOUS
    <3>2. PICK u : u = SubSeq(d, 1, n)
      OBVIOUS
    <3>3. \A i \in 1..n : d[i] \in Nat
      BY <2>3, <2>4, <2>5, <3>1, ElementOfSeq
    <3>4. u \in Seq(Nat) /\ Len(u) = n /\ \A i \in 1..n : u[i] = d[i]
      BY <2>5, <3>1, <3>2, <3>3, SubSeqProperties
    <3>5. buf = u
      BY <2>4, <2>5, <3>1, <3>4, SeqEqual
    <3> QED
      BY <3>1, <3>2, <3>5
  <2> QED
    BY <2>2, <2>4, <2>6, <2>7
<1> QED
  BY <1>1, ControlHolds, PTL

(* Once a command is answered nothing that is left of it can be taken for  *)
(* the beginning of another, if no message needs an escape behind the end  *)
(* of the buffer; messages that fit in a sector have nothing there.        *)
THEOREM NoStrayHolds == ASSUME Plain PROVE Spec => []NoStray
<1>1. Types /\ Control => NoStray
  BY DEF Control, Settled, NoStray, NoDollar, Rest
<1> QED
  BY <1>1, ControlHolds, PTL

(* $RR answers with the sector it was asked for, unless the third digit of *)
(* the number comes too late for its short wait.                           *)
THEOREM ReadsItsSectorHolds == Spec => []ReadsItsSector
<1>1. Init => ReadsItsSector
  BY DEF Init, ReadsItsSector, Ng
<1>2. None.kind # "OK" /\ Ng.kind # "OK" /\ \A n, s : Ok(n, s).sector = s
  BY DEF None, Ng, Ok
<1>3. Types /\ Control /\ ReadsItsSector /\ [Next]_vars => ReadsItsSector'
  <2> SUFFICES ASSUME Types, Control, ReadsItsSector, [Next]_vars PROVE ReadsItsSector'
    OBVIOUS
  <2>1. CASE ans'.kind # "OK"
    BY <2>1 DEF ReadsItsSector
  <2>2. CASE ans' = ans /\ cmd' = cmd /\ (late => late')
    BY <2>2 DEF ReadsItsSector
  <2>3. CASE \E c \in Commands : Issue(c)
    BY <1>2, <2>1, <2>3 DEF Issue
  <2>4. CASE GiveUp
    BY <1>2, <2>1, <2>4 DEF GiveUp
  <2>5. CASE UNCHANGED vars \/ Arrive
    <3>1. ans' = ans /\ cmd' = cmd /\ late' = late
      BY <2>5 DEF Arrive, vars, uart, sketch
    <3> QED
      BY <2>2, <3>1
  <2>6. CASE Dispatch \/ SaveByte \/ SaveWait
    <3>1. ans' = ans /\ cmd' = cmd /\ late' = late
      BY <2>6 DEF Dispatch, SaveByte, SaveWait, TakeByte, sketch
    <3> QED
      BY <2>2, <3>1
  <2>7. CASE SaveWaited
    <3>1. ans' = ans /\ cmd' = cmd /\ late' = (late \/ (need > 0 /\ line # <<>>))
      BY <2>7 DEF SaveWaited, Waited, TakeByte, sketch
    <3> QED
      BY <2>2, <3>1
  <2>8. CASE PutHeader
    <3>1. cmd' = cmd /\ late' = (late \/ (need > 0 /\ line # <<>>))
      BY <2>8 DEF PutHeader, Waited, sketch
    <3>2. ans' = Ng \/ ans' = ans
      BY <2>8 DEF PutHeader, Reply
    <3>3. CASE ans' = Ng
      BY <1>2, <2>1, <3>3
    <3>4. CASE ans' = ans
      BY <2>2, <3>1, <3>4
    <3> QED
      BY <3>2, <3>3, <3>4
  <2>9. CASE PutWrite
    <3>1. cmd.put /\ cmd' = cmd
      BY <2>9, SavingGives DEF PutWrite, sketch
    <3> QED
      BY <3>1 DEF ReadsItsSector
  <2>10. CASE GetRead
    <3>1. pc = "getWait" /\ cmd' = cmd
      BY <2>10 DEF GetRead, sketch
    <3>2. cmd \in Commands /\ ~cmd.put /\ Shift(Rest, Text(cmd), 3)
      BY <3>1, GetGives
    <3>3. CASE Len(fifo) < 3
      <4>1. ans' = Ng
        BY <2>10, <3>3 DEF GetRead, Reply
      <4> QED
        BY <1>2, <2>1, <4>1
    <3>4. CASE ~(Len(fifo) < 3)
      <4>1. PICK s : s = Number([i \in 1..5 |-> Char(i)])
        OBVIOUS
      <4>2. ans' = IF Readable(s) THEN Ok(SectorBytes, s) ELSE Ng
        BY <2>10, <3>4, <4>1 DEF GetRead, Reply
      <4>3. Len(fifo) >= 3
        BY <3>4, TypesGive
      <4>4. s = cmd.sector \/ (cmd.sector >= 100 /\ s = cmd.sector \div 10)
        BY <3>2, <4>1, <4>3, TypesGive, ReadIs
      <4>5. ans'.kind = "OK" => ans'.sector = s
        BY <1>2, <4>2
      <4> QED
        BY <3>1, <4>4, <4>5 DEF ReadsItsSector
    <3> QED
      BY <3>3, <3>4
  <2> QED
    BY <2>3, <2>4, <2>5, <2>6, <2>7, <2>8, <2>9, <2>10 DEF Next, Api
<1> QED
  BY <1>1, <1>3, ControlHolds, PTL DEF Spec

(* What $RW does when it comes to write.                                   *)
LEMMA WriteGives ==
  ASSUME Types, Control, PutWrite
  PROVE  \E rest \in Bytes : \E o :
           /\ Outcome(o, mem, sector, PutData(rest), Len(buf)) /\ mem' = o.mem
           /\ ans' = (IF o.status = 0 THEN Ok(o.n, sector) ELSE Ng)
           /\ cmd \in Commands /\ cmd.put
           /\ ~late =>
                /\ sector = cmd.sector % NumberMod
                /\ Len(buf) <= Len(cmd.data)
                /\ Len(buf) = Len(cmd.data) \/ Full(Len(buf))
                /\ \A i \in 1..Len(buf) : buf[i] = cmd.data[i] /\ PutData(rest)[i] = cmd.data[i]
                /\ SubSeq(PutData(rest), 1, Len(buf)) = buf
<1>1. sector \in Nat /\ pc = "write"
  BY TypesGive, NumbersOK DEF Numbers, PutWrite
<1>2. PICK rest, o :
        /\ rest \in Bytes
        /\ Outcome(o, mem, sector, PutData(rest), Len(buf)) /\ mem' = o.mem
        /\ Reply(IF o.status = 0 THEN Ok(o.n, sector) ELSE Ng)
  BY <1>1, TypesGive, PutWriteIs
<1>3. cmd \in Commands /\ cmd.put /\ (~late => Decoding)
  BY <1>1, SavingGives
<1>4. ASSUME ~late
      PROVE  /\ sector = cmd.sector % NumberMod
             /\ Len(buf) <= Len(cmd.data)
             /\ Len(buf) = Len(cmd.data) \/ Full(Len(buf))
             /\ \A i \in 1..Len(buf) : buf[i] = cmd.data[i] /\ PutData(rest)[i] = cmd.data[i]
             /\ SubSeq(PutData(rest), 1, Len(buf)) = buf
  <2>1. /\ sector = cmd.sector % NumberMod
        /\ Len(buf) <= Len(cmd.data) /\ \A i \in 1..Len(buf) : buf[i] = cmd.data[i]
        /\ Len(buf) = Len(cmd.data) \/ Full(Len(buf))
    BY <1>1, <1>3, <1>4 DEF Decoding
  <2>2. \A i \in 1..Len(buf) : Code(buf[i]) = buf[i]
    <3>1. \A i \in 1..Len(cmd.data) : cmd.data[i] \in Bytes
      BY <1>3, CommandType, ElementOfSeq
    <3>2. \A i \in 1..Len(buf) : i \in 1..Len(cmd.data)
      BY <1>3, <2>1, TypesGive, DataIs
    <3> QED
      BY <2>1, <3>1, <3>2 DEF Code
  <2>3. [i \in 1..Len(buf) |-> Code(buf[i])] = buf
    <3>1. buf = [i \in 1..Len(buf) |-> buf[i]]
      BY TypesGive
    <3> QED
      BY <2>2, <3>1
  <2>4. rest \in Bytes
    BY <1>2
  <2> QED
    BY <2>1, <2>2, <2>3, <2>4, TypesGive, PutDataIs
<1> QED
  BY <1>2, <1>3, <1>4 DEF Reply

(* Only $RW changes the flash.                                             *)
LEMMA OnlyPutWrites ==
  ASSUME [Next]_vars, ~PutWrite
  PROVE  mem' = mem
BY DEF Next, Api, vars, Issue, GiveUp, Arrive, Dispatch, PutHeader, SaveByte, SaveWait,
   SaveWaited, TakeByte, GetRead

(* $RW changes the sector it was asked for and no other place in flash:    *)
(* except that a number above 255 is cut to eight bits, and that sector 0  *)
(* is the erase command.                                                   *)
THEOREM WritesItsSectorHolds == Spec => WritesItsSector
<1> DEFINE A == \A r \in Regions : mem'[r] # mem[r] /\ ~late =>
                  \/ cmd.sector = r \/ cmd.sector >= NumberMod
                  \/ cmd.sector = 0 /\ buf = EraseText
<1>1. Types /\ Control /\ [Next]_vars => A
  <2> SUFFICES ASSUME Types, Control, [Next]_vars, NEW r \in Regions, mem'[r] # mem[r], ~late
               PROVE  \/ cmd.sector = r \/ cmd.sector >= NumberMod
                      \/ cmd.sector = 0 /\ buf = EraseText
    OBVIOUS
  <2>1. PutWrite
    BY OnlyPutWrites
  <2>2. PICK rest, o :
          /\ rest \in Bytes
          /\ Outcome(o, mem, sector, PutData(rest), Len(buf)) /\ mem' = o.mem
          /\ cmd \in Commands /\ sector = cmd.sector % NumberMod
          /\ SubSeq(PutData(rest), 1, Len(buf)) = buf
    BY <2>1, WriteGives
  <2>3. r = sector \/ (sector = 0 /\ buf = EraseText)
    BY <2>2 DEF Outcome
  <2>a. cmd.sector \in Nat
    <3>1. cmd.sector \in 0..999
      BY <2>2, CommandType
    <3> QED
      BY <3>1, SMTT(30)
  <2>4. cmd.sector < NumberMod => sector = cmd.sector
    BY <2>2, <2>a, NumbersOK DEF Numbers
  <2>5. cmd.sector < NumberMod \/ cmd.sector >= NumberMod
    BY <2>a, NumbersOK DEF Numbers
  <2> QED
    BY <2>3, <2>4, <2>5
<1>2. Types /\ Control /\ [Next]_vars => [A]_vars
  BY <1>1
<1> QED
  BY <1>2, ControlHolds, PTL DEF Spec, WritesItsSector

(* An answer "OK n" to $RW tells how much was stored: the first n bytes of *)
(* the sector are those of the sketch, or already the first word has failed*)
(* and n is the full length.                                               *)
THEOREM StoredReadsBackHolds == Spec => StoredReadsBack
<1> DEFINE A == LET data == cmd.data
                    s == ans'.sector
                IN  (ans = None /\ ans'.kind = "OK" /\ cmd.put /\ s # 0 /\ ~late) =>
                      \/ \A i \in 1..ans'.n : mem'[s][i] = data[i]
                      \/ /\ ans'.n = Len(data)
                         /\ \A i \in 1..SectorBytes : WordOf(i) > 1 => mem'[s][i] = mem[s][i]
<1>1. Types /\ Control /\ [Next]_vars => A
  <2> SUFFICES ASSUME Types, Control, [Next]_vars,
                      ans = None, ans'.kind = "OK", cmd.put, ans'.sector # 0, ~late
               PROVE  \/ \A i \in 1..ans'.n : mem'[ans'.sector][i] = cmd.data[i]
                      \/ /\ ans'.n = Len(cmd.data)
                         /\ \A i \in 1..SectorBytes : WordOf(i) > 1 =>
                              mem'[ans'.sector][i] = mem[ans'.sector][i]
    OBVIOUS
  <2>1. None.kind # "OK" /\ Ng.kind # "OK" /\ \A n, s : Ok(n, s).sector = s /\ Ok(n, s).n = n
    BY DEF None, Ng, Ok
  <2>2. PutWrite
    <3> SUFFICES ASSUME ~PutWrite PROVE FALSE
      OBVIOUS
    <3>1. ans' = None \/ ans' = Ng \/ ans' = ans \/ GetRead
      BY DEF Next, Api, vars, Issue, GiveUp, Arrive, Dispatch, PutHeader, Reply, SaveByte,
         SaveWait, SaveWaited, TakeByte
    <3>2. ~GetRead
      <4> SUFFICES ASSUME GetRead PROVE FALSE
        OBVIOUS
      <4>1. pc = "getWait"
        BY DEF GetRead
      <4> QED
        BY <4>1, GetGives
    <3> QED
      BY <2>1, <3>1, <3>2
  <2>3. PICK rest, o :
          /\ rest \in Bytes
          /\ Outcome(o, mem, sector, PutData(rest), Len(buf)) /\ mem' = o.mem
          /\ ans' = (IF o.status = 0 THEN Ok(o.n, sector) ELSE Ng)
          /\ cmd \in Commands
          /\ sector = cmd.sector % NumberMod
          /\ Len(buf) = Len(cmd.data) \/ Full(Len(buf))
          /\ \A i \in 1..Len(buf) : PutData(rest)[i] = cmd.data[i]
    BY <2>2, WriteGives
  <2>4. o.status = 0 /\ ans'.sector = sector /\ ans'.n = o.n /\ sector # 0
    BY <2>1, <2>3
  <2>5. sector <= MaxSector /\ Len(buf) <= SectorBytes /\ o.n \in Nat
    BY <2>3, <2>4 DEF Outcome
  <2>6. sector \in Regions
    <3>1. cmd.sector \in Asked
      BY <2>3 DEF Commands
    <3> QED
      BY <2>3, <2>5, <3>1, StoreAssumption, ZenonT(60)
  <2>7. Len(buf) = Len(cmd.data)
    <3>1. ~Full(Len(buf))
      <4>1. /\ SectorBytes \in Nat /\ BufSize \in Nat /\ SectorBytes <= BufSize /\ Len(buf) \in Nat
        BY FlashAssumption, NumbersOK, SizesIs, TypesGive DEF Numbers
      <4> QED
        BY <2>5, <4>1 DEF Full
    <3> QED
      BY <2>3, <3>1
  <2>8. \/ o.n <= Len(buf) /\ \A i \in 1..o.n : mem'[sector][i] = PutData(rest)[i]
        \/ /\ o.n = Len(buf)
           /\ \A i \in 1..SectorBytes : WordOf(i) > 1 => mem'[sector][i] = mem[sector][i]
    BY <2>3, <2>4, <2>6 DEF Outcome
  <2>9. CASE o.n <= Len(buf) /\ \A i \in 1..o.n : mem'[sector][i] = PutData(rest)[i]
    <3>1. \A i \in 1..o.n : i \in 1..Len(buf)
      BY <2>5, <2>9, TypesGive
    <3>2. \A i \in 1..o.n : mem'[sector][i] = cmd.data[i]
      BY <2>3, <2>9, <3>1
    <3> QED
      BY <2>4, <3>2
  <2>10. CASE /\ o.n = Len(buf)
              /\ \A i \in 1..SectorBytes : WordOf(i) > 1 => mem'[sector][i] = mem[sector][i]
    BY <2>4, <2>7, <2>10
  <2> QED
    BY <2>8, <2>9, <2>10
<1>2. Types /\ Control /\ [Next]_vars => [A]_vars
  BY <1>1
<1> QED
  BY <1>2, ControlHolds, PTL DEF Spec, StoredReadsBack

=============================================================================
