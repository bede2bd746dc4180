--------------------------- MODULE PlyStreamProofs ---------------------------
(***************************************************************************)
(* Proofs about module PlyStream, for every file and every number that a   *)
(* read callback returns: the cursor of the parser is at the value of the  *)
(* loops, and the buffer where that value begins in the body; and what is  *)
(* looked for has been read, if the callback returns all it is asked for.  *)
(***************************************************************************)
EXTENDS PlyProofs

-----------------------------------------------------------------------------
(* What FlattenSeq makes of a sequence of sequences.                       *)

\* Induction over the natural numbers, for a set of them.
LEMMA Induct ==
  ASSUME NEW T \in SUBSET Nat, 0 \in T, \A n \in T : n + 1 \in T
  PROVE  T = Nat
<1> SUFFICES ASSUME Nat \ T # {} PROVE FALSE
  OBVIOUS
<1>1. PICK n \in Nat \ T : \A m \in Nat \ T : ~(<<m, n>> \in OpToRel(<, Nat))
  BY NatLessThanWellFounded, WFMin
<1>2. n # 0 /\ n - 1 \in Nat /\ (n - 1) + 1 = n
  OBVIOUS
<1>3. \A m \in Nat \ T : ~(m < n)
  BY <1>1 DEF OpToRel
<1>4. n - 1 \in T
  BY <1>2, <1>3
<1> QED  BY <1>2, <1>4

\* The recursion of FlattenSeq over the first k of ss has a solution.
FlattensTo(ss, k, g) == g = [i \in 1 .. k |-> IF i = 1 THEN ss[i] ELSE g[i - 1] \o ss[i]]
Flattened(ss) == CHOOSE g : FlattensTo(ss, Len(ss), g)

LEMMA Flattens ==
  ASSUME NEW ss, Len(ss) \in Nat
  PROVE  FlattensTo(ss, Len(ss), Flattened(ss))
<1> DEFINE T == {k \in Nat : \E g : FlattensTo(ss, k, g)}
<1>1. 0 \in T
  <2> DEFINE g == [i \in 1 .. 0 |-> 0]
  <2>1. g = [i \in 1 .. 0 |-> IF i = 1 THEN ss[i] ELSE g[i - 1] \o ss[i]]
    OBVIOUS
  <2> HIDE DEF g
  <2>2. FlattensTo(ss, 0, g)
    BY <2>1 DEF FlattensTo
  <2> QED  BY <2>2
<1>2. ASSUME NEW k \in T PROVE k + 1 \in T
  <2>1. k \in Nat
    OBVIOUS
  <2>2. PICK g : g = [i \in 1 .. k |-> IF i = 1 THEN ss[i] ELSE g[i - 1] \o ss[i]]
    BY <1>2 DEF FlattensTo
  <2> DEFINE last1 == IF k + 1 = 1 THEN ss[k + 1] ELSE g[k] \o ss[k + 1]
             h == [i \in 1 .. k + 1 |-> IF i = k + 1 THEN last1 ELSE g[i]]
  <2>3. ASSUME NEW i \in 1 .. k + 1
        PROVE  h[i] = IF i = 1 THEN ss[i] ELSE h[i - 1] \o ss[i]
    <3>1. CASE i = k + 1
      <4>1. h[i] = last1
        BY <3>1
      <4>2. i # 1 => i - 1 \in 1 .. k + 1 /\ i - 1 # k + 1 /\ i - 1 = k
        BY <2>1, <3>1
      <4>3. i # 1 => h[i - 1] = g[k]
        BY <4>2
      <4> HIDE DEF h
      <4> QED  BY <3>1, <4>1, <4>3
    <3>2. CASE i # k + 1
      <4>1. i \in 1 .. k /\ h[i] = g[i]
        BY <2>1, <3>2
      <4>2. i # 1 => i - 1 \in 1 .. k + 1 /\ i - 1 # k + 1
        BY <2>1, <4>1
      <4>3. i # 1 => h[i - 1] = g[i - 1]
        BY <4>2
      <4> HIDE DEF h
      <4> QED  BY <2>2, <4>1, <4>3
    <3> QED  BY <3>1, <3>2
  <2>4. h = [i \in 1 .. k + 1 |-> h[i]]
    OBVIOUS
  <2> HIDE DEF h
  <2>5. h = [i \in 1 .. k + 1 |-> IF i = 1 THEN ss[i] ELSE h[i - 1] \o ss[i]]
    BY <2>3, <2>4
  <2>6. FlattensTo(ss, k + 1, h)
    BY <2>5 DEF FlattensTo
  <2> QED  BY <2>1, <2>6
<1>3. T = Nat
  <2> HIDE DEF T
  <2>1. T \in SUBSET Nat
    BY DEF T
  <2> QED  BY <1>1, <1>2, <2>1, Induct
<1>4. \E g : FlattensTo(ss, Len(ss), g)
  BY <1>3
<1> QED  BY <1>4 DEF Flattened

LEMMA FlattenedIs ==
  ASSUME NEW ss, Len(ss) \in Nat
  PROVE  FlattenSeq(ss) = IF Len(ss) = 0 THEN ss ELSE Flattened(ss)[Len(ss)]
BY DEF FlattenSeq, Flattened, FlattensTo

\* Where the sequence behind the i-th begins in it.
Off(ss, i) == IF i = 0 THEN 0 ELSE Len(Flattened(ss)[i])

LEMMA Joined ==
  ASSUME NEW S, NEW a \in Seq(S), NEW b \in Seq(S), NEW c, c = a \o b
  PROVE  /\ c \in Seq(S) /\ Len(a) \in Nat /\ Len(b) \in Nat /\ Len(c) = Len(a) + Len(b)
         /\ \A j \in 1 .. Len(a) : c[j] = a[j] /\ j \in 1 .. Len(c)
         /\ \A j \in 1 .. Len(b) : c[Len(a) + j] = b[j] /\ Len(a) + j \in 1 .. Len(c)
OBVIOUS

LEMMA FlattenedSoFar ==
  ASSUME NEW S, NEW ss \in Seq(Seq(S))
  PROVE  \A i \in 1 .. Len(ss) :
           /\ Flattened(ss)[i] \in Seq(S) /\ Off(ss, i - 1) \in Nat
           /\ Off(ss, i) = Len(Flattened(ss)[i]) /\ Off(ss, i) = Off(ss, i - 1) + Len(ss[i])
           /\ \A h \in 1 .. i : \A j \in 1 .. Len(ss[h]) :
                /\ Off(ss, h - 1) + j \in 1 .. Off(ss, i)
                /\ Flattened(ss)[i][Off(ss, h - 1) + j] = ss[h][j]
<1> DEFINE g == Flattened(ss)
           P(i) == /\ g[i] \in Seq(S) /\ Off(ss, i - 1) \in Nat
                   /\ Off(ss, i) = Len(g[i]) /\ Off(ss, i) = Off(ss, i - 1) + Len(ss[i])
                   /\ \A h \in 1 .. i : \A j \in 1 .. Len(ss[h]) :
                        /\ Off(ss, h - 1) + j \in 1 .. Off(ss, i)
                        /\ g[i][Off(ss, h - 1) + j] = ss[h][j]
           T == {k \in Nat : \A i \in 1 .. Len(ss) : i <= k => P(i)}
<1>1. Len(ss) \in Nat /\ \A i \in 1 .. Len(ss) : ss[i] \in Seq(S) /\ Len(ss[i]) \in Nat
  <2>1. Len(ss) \in Nat /\ \A i \in 1 .. Len(ss) : ss[i] \in Seq(S)
    OBVIOUS
  <2> QED  BY <2>1
<1>2. \A i \in 1 .. Len(ss) : g[i] = IF i = 1 THEN ss[i] ELSE g[i - 1] \o ss[i]
  <2>1. FlattensTo(ss, Len(ss), g)
    BY <1>1, Flattens
  <2> HIDE DEF g
  <2> QED  BY <2>1 DEF FlattensTo
<1>3. /\ Off(ss, 0) = 0
      /\ \A i \in 1 .. Len(ss) : Off(ss, i) = Len(g[i])
      /\ \A i \in 1 .. Len(ss) : i # 1 => Off(ss, i - 1) = Len(g[i - 1])
  BY <1>1 DEF Off
<1> HIDE DEF g
<1>4. 0 \in T
  OBVIOUS
<1>5. ASSUME NEW k \in T PROVE k + 1 \in T
  <2>1. k \in Nat /\ \A i \in 1 .. Len(ss) : i <= k => P(i)
    OBVIOUS
  <2>2. ASSUME k + 1 \in 1 .. Len(ss) PROVE P(k + 1)
    <3> DEFINE n == k + 1
    <3>1. n \in 1 .. Len(ss) /\ n - 1 = k /\ n \in Nat /\ ss[n] \in Seq(S) /\ Len(ss[n]) \in Nat
      BY <1>1, <2>1, <2>2
    <3>2. CASE n = 1
      <4>1. g[n] = ss[n] /\ Off(ss, n - 1) = 0 /\ Off(ss, n) = Len(g[n])
        BY <1>2, <1>3, <2>1, <3>1, <3>2
      <4>2. \A h \in 1 .. n : h = n
        BY <3>2
      <4>3. \A j \in 1 .. Len(ss[n]) : 0 + j = j
        OBVIOUS
      <4> HIDE DEF n
      <4>4. \A h \in 1 .. n : \A j \in 1 .. Len(ss[h]) :
              Off(ss, h - 1) + j \in 1 .. Off(ss, n) /\ g[n][Off(ss, h - 1) + j] = ss[h][j]
        BY <4>1, <4>2, <4>3
      <4>5. P(n)
        BY <3>1, <4>1, <4>4
      <4> QED  BY <4>5 DEF n
    <3>3. CASE n # 1
      <4>1. k \in 1 .. Len(ss) /\ k <= k
        BY <2>1, <3>1, <3>3
      <4>2. P(k)
        BY <2>1, <4>1
      <4>3. g[n] = g[k] \o ss[n] /\ Off(ss, n - 1) = Len(g[k]) /\ Off(ss, n) = Len(g[n])
        BY <1>2, <1>3, <3>1, <3>3
      <4>4. g[k] \in Seq(S) /\ Len(g[k]) \in Nat
        BY <4>2
      <4>5. /\ g[n] \in Seq(S) /\ Len(g[n]) = Len(g[k]) + Len(ss[n])
            /\ \A j \in 1 .. Len(g[k]) : g[n][j] = g[k][j] /\ j \in 1 .. Len(g[n])
            /\ \A j \in 1 .. Len(ss[n]) :
                 g[n][Len(g[k]) + j] = ss[n][j] /\ Len(g[k]) + j \in 1 .. Len(g[n])
        <5> DEFINE a == g[k]
                   b == ss[n]
                   c == g[n]
        <5>1. a \in Seq(S) /\ b \in Seq(S) /\ c = a \o b
          BY <3>1, <4>3, <4>4
        <5> HIDE DEF a, b, c
        <5>2. /\ c \in Seq(S) /\ Len(c) = Len(a) + Len(b)
              /\ \A j \in 1 .. Len(a) : c[j] = a[j] /\ j \in 1 .. Len(c)
              /\ \A j \in 1 .. Len(b) : c[Len(a) + j] = b[j] /\ Len(a) + j \in 1 .. Len(c)
          BY <5>1, Joined
        <5> QED  BY <5>2 DEF a, b, c
      <4>6. Off(ss, k) = Len(g[k])
        BY <4>2
      <4>7. ASSUME NEW h \in 1 .. n, NEW j \in 1 .. Len(ss[h])
            PROVE  Off(ss, h - 1) + j \in 1 .. Off(ss, n) /\ g[n][Off(ss, h - 1) + j] = ss[h][j]
        <5>1. CASE h = n
          <6>1. Off(ss, h - 1) = Len(g[k]) /\ j \in 1 .. Len(ss[n])
            BY <4>3, <4>7, <5>1
          <6> HIDE DEF n
          <6>2. Len(g[k]) + j \in 1 .. Off(ss, n) /\ g[n][Len(g[k]) + j] = ss[n][j]
            BY <4>3, <4>5, <6>1
          <6> QED  BY <5>1, <6>1, <6>2
        <5>2. CASE h # n
          <6>1. h \in 1 .. k
            BY <3>1, <5>2
          <6>2. Off(ss, h - 1) + j \in 1 .. Off(ss, k) /\ g[k][Off(ss, h - 1) + j] = ss[h][j]
            BY <4>2, <6>1
          <6> DEFINE x == Off(ss, h - 1) + j
          <6> HIDE DEF n, x
          <6>3. x \in 1 .. Len(g[k]) /\ g[k][x] = ss[h][j]
            BY <4>6, <6>2 DEF x
          <6>4. x \in 1 .. Off(ss, n) /\ g[n][x] = ss[h][j]
            BY <4>3, <4>5, <6>3
          <6> QED  BY <6>4 DEF x
        <5> QED  BY <5>1, <5>2
      <4>8. Off(ss, n - 1) \in Nat /\ Off(ss, n) = Off(ss, n - 1) + Len(ss[n])
        BY <4>3, <4>4, <4>5
      <4> HIDE DEF n
      <4>9. P(n)
        BY <4>3, <4>5, <4>7, <4>8
      <4> QED  BY <4>9 DEF n
    <3> QED  BY <3>2, <3>3
  <2>3. ASSUME NEW i \in 1 .. Len(ss), i <= k + 1 PROVE P(i)
    <3>1. CASE i <= k
      BY <2>1, <3>1
    <3>2. CASE ~(i <= k)
      <4>1. i = k + 1
        BY <1>1, <2>1, <2>3, <3>2
      <4> HIDE DEF P
      <4> QED  BY <2>2, <4>1
    <3> QED  BY <3>1, <3>2
  <2> HIDE DEF P
  <2> QED  BY <2>1, <2>3
<1>6. T = Nat
  <2> HIDE DEF T
  <2>1. T \in SUBSET Nat
    BY DEF T
  <2> QED  BY <1>4, <1>5, <2>1, Induct
<1> HIDE DEF P
<1>7. \A i \in 1 .. Len(ss) : P(i)
  <2>1. \A i \in 1 .. Len(ss) : i \in Nat /\ i <= i
    OBVIOUS
  <2> QED  BY <1>6, <2>1
<1> QED  BY <1>7 DEF P, g

LEMMA OffStep ==
  ASSUME NEW S, NEW ss \in Seq(Seq(S))
  PROVE  /\ Off(ss, 0) = 0 /\ Len(ss) \in Nat
         /\ \A i \in 0 .. Len(ss) : Off(ss, i) \in Nat
         /\ \A i \in 1 .. Len(ss) : Off(ss, i) = Off(ss, i - 1) + Len(ss[i]) /\ Len(ss[i]) \in Nat
<1>1. Len(ss) \in Nat /\ \A i \in 1 .. Len(ss) : ss[i] \in Seq(S) /\ Len(ss[i]) \in Nat
  <2>1. Len(ss) \in Nat /\ \A i \in 1 .. Len(ss) : ss[i] \in Seq(S)
    OBVIOUS
  <2> QED  BY <2>1
<1>2. Off(ss, 0) = 0
  BY DEF Off
<1>3. \A i \in 1 .. Len(ss) : Off(ss, i) = Off(ss, i - 1) + Len(ss[i]) /\ Off(ss, i - 1) \in Nat
  BY FlattenedSoFar
<1>4. \A i \in 1 .. Len(ss) : Off(ss, i) \in Nat
  <2> TAKE i \in 1 .. Len(ss)
  <2> DEFINE a == Off(ss, i - 1)
             b == Len(ss[i])
  <2>1. a \in Nat /\ b \in Nat /\ Off(ss, i) = a + b
    BY <1>1, <1>3
  <2> HIDE DEF a, b
  <2> QED  BY <2>1
<1>5. \A i \in 0 .. Len(ss) : i = 0 \/ i \in 1 .. Len(ss)
  BY <1>1
<1>6. \A i \in 0 .. Len(ss) : Off(ss, i) \in Nat
  BY <1>2, <1>4, <1>5
<1> QED  BY <1>1, <1>2, <1>3, <1>6

LEMMA Flat ==
  ASSUME NEW S, NEW ss \in Seq(Seq(S))
  PROVE  /\ FlattenSeq(ss) \in Seq(S) /\ Len(FlattenSeq(ss)) = Off(ss, Len(ss))
         /\ \A h \in 1 .. Len(ss) : \A j \in 1 .. Len(ss[h]) :
              /\ Off(ss, h - 1) + j \in 1 .. Len(FlattenSeq(ss))
              /\ FlattenSeq(ss)[Off(ss, h - 1) + j] = ss[h][j]
<1> DEFINE n == Len(ss)
<1>1. n \in Nat /\ Off(ss, 0) = 0
  BY OffStep
<1>2. FlattenSeq(ss) = IF n = 0 THEN ss ELSE Flattened(ss)[n]
  BY <1>1, FlattenedIs
<1>3. CASE n = 0
  <2>0. ss = <<>>
    BY <1>3
  <2>1. FlattenSeq(ss) = <<>>
    BY <1>2, <1>3, <2>0
  <2> HIDE DEF n
  <2>2. 1 .. n = {} /\ Off(ss, n) = 0
    <3>1. 1 .. 0 = {}
      OBVIOUS
    <3> QED  BY <1>1, <1>3, <3>1, Zenon
  <2>3. FlattenSeq(ss) \in Seq(S) /\ Len(FlattenSeq(ss)) = Off(ss, n)
    BY <2>1, <2>2
  <2> QED  BY <2>2, <2>3 DEF n
<1>4. CASE n # 0
  <2>1. n \in 1 .. Len(ss) /\ FlattenSeq(ss) = Flattened(ss)[n]
    BY <1>1, <1>2, <1>4
  <2>2. /\ Flattened(ss)[n] \in Seq(S) /\ Off(ss, n) = Len(Flattened(ss)[n])
        /\ \A h \in 1 .. n : \A j \in 1 .. Len(ss[h]) :
             /\ Off(ss, h - 1) + j \in 1 .. Off(ss, n)
             /\ Flattened(ss)[n][Off(ss, h - 1) + j] = ss[h][j]
    BY <2>1, FlattenedSoFar
  <2> QED  BY <2>1, <2>2
<1> QED  BY <1>3, <1>4

\* What comes later begins later.
LEMMA OffGrows ==
  ASSUME NEW S, NEW ss \in Seq(Seq(S)), NEW h \in 0 .. Len(ss), NEW i \in h .. Len(ss)
  PROVE  Off(ss, h) <= Off(ss, i)
<1> DEFINE T == {k \in Nat : h + k <= Len(ss) => Off(ss, h) <= Off(ss, h + k)}
<1>1. /\ Len(ss) \in Nat /\ h \in Nat /\ \A k \in 0 .. Len(ss) : Off(ss, k) \in Nat
      /\ \A k \in 1 .. Len(ss) : Off(ss, k) = Off(ss, k - 1) + Len(ss[k]) /\ Len(ss[k]) \in Nat
  BY OffStep
<1>2. 0 \in T
  <2>1. h + 0 = h /\ Off(ss, h) \in Nat
    BY <1>1
  <2> QED  BY <2>1
<1>3. ASSUME NEW k \in T PROVE k + 1 \in T
  <2>1. CASE h + (k + 1) <= Len(ss)
    <3> DEFINE n == h + (k + 1)
    <3>1. k \in Nat /\ n \in 1 .. Len(ss) /\ n - 1 = h + k /\ h + k <= Len(ss) /\ n - 1 \in 0 .. Len(ss)
      BY <1>1, <2>1
    <3>2. Off(ss, h) <= Off(ss, n - 1)
      BY <3>1
    <3>3. /\ Off(ss, n) = Off(ss, n - 1) + Len(ss[n]) /\ Len(ss[n]) \in Nat
          /\ Off(ss, n - 1) \in Nat /\ Off(ss, h) \in Nat
      BY <1>1, <3>1
    <3> HIDE DEF n
    <3>4. Off(ss, h) <= Off(ss, n)
      BY <3>2, <3>3
    <3> QED  BY <3>1, <3>4 DEF n
  <2> QED  BY <2>1
<1>4. T = Nat
  <2> HIDE DEF T
  <2>1. T \in SUBSET Nat
    BY DEF T
  <2> QED  BY <1>2, <1>3, <2>1, Induct
<1>5. i - h \in Nat /\ h + (i - h) = i /\ i <= Len(ss)
  BY <1>1
<1>6. i - h \in T
  BY <1>4, <1>5
<1> QED  BY <1>5, <1>6

\* Whatever there is comes from one of the sequences.
LEMMA FlatFrom ==
  ASSUME NEW S, NEW ss \in Seq(Seq(S)), NEW k \in 1 .. Len(FlattenSeq(ss))
  PROVE  \E h \in 1 .. Len(ss) : \E j \in 1 .. Len(ss[h]) : k = Off(ss, h - 1) + j
<1> DEFINE T == {n \in Nat : n <= Len(ss) /\ k <= Off(ss, n) =>
                   \E h \in 1 .. Len(ss) : \E j \in 1 .. Len(ss[h]) : k = Off(ss, h - 1) + j}
<1>1. /\ Len(ss) \in Nat /\ Off(ss, 0) = 0 /\ \A i \in 0 .. Len(ss) : Off(ss, i) \in Nat
      /\ \A i \in 1 .. Len(ss) : Off(ss, i) = Off(ss, i - 1) + Len(ss[i]) /\ Len(ss[i]) \in Nat
  BY OffStep
<1>2. k \in Nat /\ k > 0 /\ k <= Off(ss, Len(ss))
  <2>1. Len(FlattenSeq(ss)) = Off(ss, Len(ss)) /\ Off(ss, Len(ss)) \in Nat
    <3>1. Len(ss) \in 0 .. Len(ss)
      BY <1>1
    <3> QED  BY <1>1, <3>1, Flat
  <2> QED  BY <2>1
<1>3. 0 \in T
  BY <1>1, <1>2
<1>4. ASSUME NEW n \in T PROVE n + 1 \in T
  <2>1. ASSUME n + 1 <= Len(ss), k <= Off(ss, n + 1)
        PROVE  \E h \in 1 .. Len(ss) : \E j \in 1 .. Len(ss[h]) : k = Off(ss, h - 1) + j
    <3>1. n \in Nat /\ n <= Len(ss) /\ n \in 0 .. Len(ss) /\ n + 1 \in 1 .. Len(ss) /\ (n + 1) - 1 = n
      BY <1>1, <2>1
    <3>2. CASE k <= Off(ss, n)
      BY <3>1, <3>2
    <3>3. CASE ~(k <= Off(ss, n))
      <4> DEFINE j == k - Off(ss, n)
      <4>1. Off(ss, n + 1) = Off(ss, n) + Len(ss[n + 1]) /\ Len(ss[n + 1]) \in Nat /\ Off(ss, n) \in Nat
        BY <1>1, <3>1
      <4>2. j \in 1 .. Len(ss[n + 1]) /\ k = Off(ss, n) + j
        BY <1>2, <2>1, <3>3, <4>1
      <4> HIDE DEF j
      <4>3. k = Off(ss, (n + 1) - 1) + j
        BY <3>1, <4>2
      <4> QED  BY <3>1, <4>2, <4>3
    <3> QED  BY <3>2, <3>3
  <2> QED  BY <2>1
<1>5. T = Nat
  <2> HIDE DEF T
  <2>1. T \in SUBSET Nat
    BY DEF T
  <2> QED  BY <1>3, <1>4, <2>1, Induct
<1>6. Len(ss) \in T /\ Len(ss) <= Len(ss)
  BY <1>1, <1>5
<1> QED  BY <1>2, <1>6

-----------------------------------------------------------------------------
(* A sequence of sequences of sequences, flattened twice.                  *)

Flats(xs) == [e \in 1 .. Len(xs) |-> FlattenSeq(xs[e])]
\* Where the part behind the t-th one of the e-th begins.
At(xs, e, t) == Off(Flats(xs), e - 1) + Off(xs[e], t)

LEMMA Listed ==
  ASSUME NEW D, NEW n \in Nat, NEW f \in [1 .. n -> D]
  PROVE  f \in Seq(D) /\ Len(f) = n
OBVIOUS

LEMMA FlatsAre ==
  ASSUME NEW S, NEW xs \in Seq(Seq(Seq(S)))
  PROVE  /\ Flats(xs) \in Seq(Seq(S)) /\ Len(Flats(xs)) = Len(xs) /\ Len(xs) \in Nat
         /\ \A e \in 1 .. Len(xs) : /\ Flats(xs)[e] = FlattenSeq(xs[e])
                                    /\ xs[e] \in Seq(Seq(S)) /\ Len(xs[e]) \in Nat
                                    /\ Len(Flats(xs)[e]) = Off(xs[e], Len(xs[e]))
<1>1. Len(xs) \in Nat /\ \A e \in 1 .. Len(xs) : xs[e] \in Seq(Seq(S))
  OBVIOUS
<1>2. \A e \in 1 .. Len(xs) : Flats(xs)[e] = FlattenSeq(xs[e])
  BY DEF Flats
<1>3. \A e \in 1 .. Len(xs) : /\ Flats(xs)[e] \in Seq(S) /\ Len(xs[e]) \in Nat
                              /\ Len(Flats(xs)[e]) = Off(xs[e], Len(xs[e]))
  BY <1>1, <1>2, Flat, OffStep
<1>4. Flats(xs) = [e \in 1 .. Len(xs) |-> Flats(xs)[e]]
  BY DEF Flats
<1>5. Flats(xs) \in [1 .. Len(xs) -> Seq(S)]
  BY <1>3, <1>4
<1>6. Flats(xs) \in Seq(Seq(S)) /\ Len(Flats(xs)) = Len(xs)
  BY <1>1, <1>5, Listed
<1> QED  BY <1>1, <1>2, <1>3, <1>6

\* The offsets of both levels are numbers, and add up.
LEMMA AtStep ==
  ASSUME NEW S, NEW xs \in Seq(Seq(Seq(S)))
  PROVE  /\ Len(xs) \in Nat
         /\ At(xs, 1, 0) = 0 \/ Len(xs) = 0
         /\ Len(FlattenSeq(Flats(xs))) = Off(Flats(xs), Len(xs))
         /\ FlattenSeq(Flats(xs)) \in Seq(S)
         /\ \A e \in 1 .. Len(xs) :
              /\ Len(xs[e]) \in Nat
              /\ \A t \in 0 .. Len(xs[e]) : At(xs, e, t) \in Nat
              /\ \A t \in 0 .. Len(xs[e]) - 1 :
                   /\ At(xs, e, t + 1) = At(xs, e, t) + Len(xs[e][t + 1])
                   /\ Len(xs[e][t + 1]) \in Nat
              /\ At(xs, e, Len(xs[e])) = Off(Flats(xs), e)
              /\ At(xs, e, 0) = Off(Flats(xs), e - 1)
<1>1. /\ Flats(xs) \in Seq(Seq(S)) /\ Len(Flats(xs)) = Len(xs) /\ Len(xs) \in Nat
      /\ \A e \in 1 .. Len(xs) : /\ Flats(xs)[e] = FlattenSeq(xs[e])
                                 /\ xs[e] \in Seq(Seq(S)) /\ Len(xs[e]) \in Nat
                                 /\ Len(Flats(xs)[e]) = Off(xs[e], Len(xs[e]))
  BY FlatsAre
<1>2. /\ Off(Flats(xs), 0) = 0
      /\ \A i \in 0 .. Len(xs) : Off(Flats(xs), i) \in Nat
      /\ \A i \in 1 .. Len(xs) : Off(Flats(xs), i) = Off(Flats(xs), i - 1) + Len(Flats(xs)[i])
  BY <1>1, OffStep
<1>3. FlattenSeq(Flats(xs)) \in Seq(S) /\ Len(FlattenSeq(Flats(xs))) = Off(Flats(xs), Len(xs))
  BY <1>1, Flat
<1>4. ASSUME NEW e \in 1 .. Len(xs)
      PROVE  /\ Len(xs[e]) \in Nat
             /\ \A t \in 0 .. Len(xs[e]) : At(xs, e, t) \in Nat
             /\ \A t \in 0 .. Len(xs[e]) - 1 :
                  /\ At(xs, e, t + 1) = At(xs, e, t) + Len(xs[e][t + 1])
                  /\ Len(xs[e][t + 1]) \in Nat
             /\ At(xs, e, Len(xs[e])) = Off(Flats(xs), e)
             /\ At(xs, e, 0) = Off(Flats(xs), e - 1)
  <2> DEFINE b == Off(Flats(xs), e - 1)
             x == xs[e]
  <2>1. e - 1 \in 0 .. Len(xs)
    BY <1>1
  <2>2. b \in Nat /\ x \in Seq(Seq(S)) /\ Len(x) \in Nat /\ Off(Flats(xs), e) = b + Off(x, Len(x))
    BY <1>1, <1>2, <2>1
  <2>3. /\ Off(x, 0) = 0
        /\ \A i \in 0 .. Len(x) : Off(x, i) \in Nat
        /\ \A i \in 1 .. Len(x) : Off(x, i) = Off(x, i - 1) + Len(x[i]) /\ Len(x[i]) \in Nat
    BY <2>2, OffStep
  <2>4. \A t : At(xs, e, t) = b + Off(x, t)
    BY DEF At
  <2> HIDE DEF b, x
  <2>5. \A t \in 0 .. Len(x) : At(xs, e, t) \in Nat
    BY <2>2, <2>3, <2>4
  <2>6. ASSUME NEW t \in 0 .. Len(x) - 1
        PROVE  At(xs, e, t + 1) = At(xs, e, t) + Len(x[t + 1]) /\ Len(x[t + 1]) \in Nat
    <3>1. t + 1 \in 1 .. Len(x) /\ (t + 1) - 1 = t /\ t \in 0 .. Len(x)
      BY <2>2
    <3>2. Off(x, t + 1) = Off(x, t) + Len(x[t + 1]) /\ Len(x[t + 1]) \in Nat /\ Off(x, t) \in Nat
      BY <2>3, <3>1
    <3>3. At(xs, e, t + 1) = b + Off(x, t + 1) /\ At(xs, e, t) = b + Off(x, t)
      BY <2>4
    <3> QED  BY <2>2, <3>2, <3>3, SMTT(30)
  <2>7. At(xs, e, 0) = b
    BY <2>2, <2>3, <2>4
  <2>8. At(xs, e, Len(x)) = Off(Flats(xs), e)
    BY <2>2, <2>4
  <2> QED  BY <2>2, <2>5, <2>6, <2>7, <2>8 DEF b, x
<1>5. At(xs, 1, 0) = 0 \/ Len(xs) = 0
  <2>1. Len(xs) # 0 => 1 \in 1 .. Len(xs) /\ 1 - 1 = 0
    BY <1>1
  <2> QED  BY <1>2, <1>4, <2>1
<1> QED  BY <1>1, <1>3, <1>4, <1>5

\* What is where, and that there is nothing else.
LEMMA AtHas ==
  ASSUME NEW S, NEW xs \in Seq(Seq(Seq(S)))
  PROVE  /\ \A e \in 1 .. Len(xs) : \A t \in 0 .. Len(xs[e]) - 1 : \A j \in 1 .. Len(xs[e][t + 1]) :
              /\ At(xs, e, t) + j \in 1 .. Len(FlattenSeq(Flats(xs)))
              /\ FlattenSeq(Flats(xs))[At(xs, e, t) + j] = xs[e][t + 1][j]
         /\ \A k \in 1 .. Len(FlattenSeq(Flats(xs))) :
              \E e \in 1 .. Len(xs) : \E t \in 0 .. Len(xs[e]) - 1 :
                \E j \in 1 .. Len(xs[e][t + 1]) : k = At(xs, e, t) + j
<1>1. /\ Flats(xs) \in Seq(Seq(S)) /\ Len(Flats(xs)) = Len(xs) /\ Len(xs) \in Nat
      /\ \A e \in 1 .. Len(xs) : /\ Flats(xs)[e] = FlattenSeq(xs[e])
                                 /\ xs[e] \in Seq(Seq(S)) /\ Len(xs[e]) \in Nat
                                 /\ Len(Flats(xs)[e]) = Off(xs[e], Len(xs[e]))
  BY FlatsAre
<1>2. \A e \in 0 .. Len(xs) : Off(Flats(xs), e) \in Nat
  BY <1>1, OffStep
<1>3. ASSUME NEW e \in 1 .. Len(xs), NEW t \in 0 .. Len(xs[e]) - 1, NEW j \in 1 .. Len(xs[e][t + 1])
      PROVE  /\ At(xs, e, t) + j \in 1 .. Len(FlattenSeq(Flats(xs)))
             /\ FlattenSeq(Flats(xs))[At(xs, e, t) + j] = xs[e][t + 1][j]
  <2> DEFINE n == t + 1
             i == Off(xs[e], t) + j
  <2>1. n \in 1 .. Len(xs[e]) /\ n - 1 = t /\ t \in 0 .. Len(xs[e])
    BY <1>1
  <2>2. xs[e] \in Seq(Seq(S)) /\ j \in 1 .. Len(xs[e][n])
    BY <1>1
  <2> HIDE DEF n
  <2>3. /\ Off(xs[e], n - 1) + j \in 1 .. Len(FlattenSeq(xs[e]))
        /\ FlattenSeq(xs[e])[Off(xs[e], n - 1) + j] = xs[e][n][j]
    BY <2>1, <2>2, Flat
  <2>4. i \in 1 .. Len(Flats(xs)[e]) /\ Flats(xs)[e][i] = xs[e][n][j]
    BY <1>1, <2>1, <2>3
  <2>5. Off(xs[e], t) \in Nat /\ j \in Nat /\ Off(Flats(xs), e - 1) \in Nat
    <3>1. Off(xs[e], t) \in Nat
      BY <2>1, <2>2, OffStep
    <3>2. e - 1 \in 0 .. Len(xs)
      BY <1>1
    <3> QED  BY <1>2, <3>1, <3>2, SMTT(30)
  <2>6. At(xs, e, t) + j = Off(Flats(xs), e - 1) + i
    <3> DEFINE a == Off(Flats(xs), e - 1)
               b == Off(xs[e], t)
    <3>1. At(xs, e, t) = a + b
      BY DEF At
    <3>2. a \in Nat /\ b \in Nat /\ j \in Nat
      BY <2>5
    <3> HIDE DEF a, b
    <3>3. (a + b) + j = a + (b + j)
      BY <3>2
    <3> QED  BY <3>1, <3>3 DEF a, b
  <2> HIDE DEF i
  <2>7. e \in 1 .. Len(Flats(xs))
    BY <1>1
  <2>8. /\ Off(Flats(xs), e - 1) + i \in 1 .. Len(FlattenSeq(Flats(xs)))
        /\ FlattenSeq(Flats(xs))[Off(Flats(xs), e - 1) + i] = Flats(xs)[e][i]
    BY <1>1, <2>4, <2>7, Flat
  <2> QED  BY <2>4, <2>6, <2>8 DEF n
<1>4. ASSUME NEW k \in 1 .. Len(FlattenSeq(Flats(xs)))
      PROVE  \E e \in 1 .. Len(xs) : \E t \in 0 .. Len(xs[e]) - 1 :
               \E j \in 1 .. Len(xs[e][t + 1]) : k = At(xs, e, t) + j
  <2>1. PICK e \in 1 .. Len(xs) : \E i \in 1 .. Len(Flats(xs)[e]) : k = Off(Flats(xs), e - 1) + i
    <3> DEFINE ss == Flats(xs)
    <3>1. ss \in Seq(Seq(S)) /\ k \in 1 .. Len(FlattenSeq(ss)) /\ Len(ss) = Len(xs)
      BY <1>1
    <3> HIDE DEF ss
    <3>2. \E h \in 1 .. Len(ss) : \E i \in 1 .. Len(ss[h]) : k = Off(ss, h - 1) + i
      BY <3>1, FlatFrom
    <3> QED  BY <3>1, <3>2 DEF ss
  <2>2. PICK i \in 1 .. Len(FlattenSeq(xs[e])) : k = Off(Flats(xs), e - 1) + i
    BY <1>1, <2>1
  <2>3. xs[e] \in Seq(Seq(S)) /\ Len(xs[e]) \in Nat
    BY <1>1
  <2>4. PICK n \in 1 .. Len(xs[e]) : \E j \in 1 .. Len(xs[e][n]) : i = Off(xs[e], n - 1) + j
    BY <2>3, FlatFrom
  <2>5. PICK j \in 1 .. Len(xs[e][n]) : i = Off(xs[e], n - 1) + j
    BY <2>4
  <2> DEFINE t == n - 1
             a == Off(Flats(xs), e - 1)
             b == Off(xs[e], t)
  <2>6. t \in 0 .. Len(xs[e]) - 1 /\ t + 1 = n /\ t \in 0 .. Len(xs[e]) /\ e - 1 \in 0 .. Len(xs)
    <3>1. n \in Int /\ 1 <= n /\ n <= Len(xs[e])
      BY <2>3, <2>4
    <3>2. e - 1 \in 0 .. Len(xs)
      BY <1>1
    <3> QED  BY <2>3, <3>1, <3>2
  <2>7. a \in Nat /\ b \in Nat /\ j \in Nat /\ k = a + (b + j) /\ At(xs, e, t) = a + b
    <3>1. b \in Nat
      BY <2>3, <2>6, OffStep
    <3>2. a \in Nat /\ At(xs, e, t) = a + b
      BY <1>2, <2>6 DEF At
    <3>3. k = a + i /\ i = b + j /\ j \in Nat
      <4>1. Len(xs[e][n]) \in Nat
        BY <2>3, OffStep
      <4>2. j \in Nat
        BY <4>1
      <4> QED  BY <2>2, <2>5, <4>2
    <3> HIDE DEF a, b, t
    <3> QED  BY <3>1, <3>2, <3>3
  <2>8. k = At(xs, e, t) + j
    <3> HIDE DEF a, b, t
    <3> QED  BY <2>7
  <2>9. j \in 1 .. Len(xs[e][t + 1])
    BY <2>6
  <2> HIDE DEF t
  <2> QED  BY <2>6, <2>8, <2>9
<1> QED  BY <1>3, <1>4

\* The same, of one part.
LEMMA AtNext ==
  ASSUME NEW S, NEW xs \in Seq(Seq(Seq(S))),
         NEW e \in 1 .. Len(xs), NEW t \in 0 .. Len(xs[e]) - 1
  PROVE  /\ At(xs, e, t) \in Nat /\ At(xs, e, t + 1) \in Nat /\ Len(xs[e][t + 1]) \in Nat
         /\ At(xs, e, t + 1) = At(xs, e, t) + Len(xs[e][t + 1])
         /\ At(xs, e, Len(xs[e])) = Off(Flats(xs), e) /\ At(xs, e, 0) = Off(Flats(xs), e - 1)
         /\ At(xs, 1, 0) = 0
<1>1. /\ Len(xs) \in Nat /\ Len(xs[e]) \in Nat
      /\ At(xs, 1, 0) = 0 \/ Len(xs) = 0
      /\ \A i \in 0 .. Len(xs[e]) : At(xs, e, i) \in Nat
      /\ At(xs, e, t + 1) = At(xs, e, t) + Len(xs[e][t + 1])
      /\ Len(xs[e][t + 1]) \in Nat
      /\ At(xs, e, Len(xs[e])) = Off(Flats(xs), e) /\ At(xs, e, 0) = Off(Flats(xs), e - 1)
  BY AtStep, SMTT(30)
<1>2. t \in 0 .. Len(xs[e]) /\ t + 1 \in 0 .. Len(xs[e]) /\ Len(xs) # 0
  BY <1>1
<1> QED  BY <1>1, <1>2

\* The first of these, in one word.
InPlace(xs) ==
  \A e \in 1 .. Len(xs) : \A t \in 0 .. Len(xs[e]) - 1 : \A j \in 1 .. Len(xs[e][t + 1]) :
    /\ At(xs, e, t) + j \in 1 .. Len(FlattenSeq(Flats(xs)))
    /\ FlattenSeq(Flats(xs))[At(xs, e, t) + j] = xs[e][t + 1][j]

LEMMA AllInPlace ==
  ASSUME NEW S, NEW xs \in Seq(Seq(Seq(S)))
  PROVE  InPlace(xs)
BY AtHas DEF InPlace

\* A later part begins after the end of an earlier one.
Earlier(e, t, d, s) == e < d \/ (e = d /\ t < s)

LEMMA AtGrows ==
  ASSUME NEW S, NEW xs \in Seq(Seq(Seq(S))),
         NEW e \in 1 .. Len(xs), NEW t \in 0 .. Len(xs[e]) - 1,
         NEW d \in 1 .. Len(xs), NEW s \in 0 .. Len(xs[d]), Earlier(e, t, d, s)
  PROVE  At(xs, e, t + 1) <= At(xs, d, s)
<1>1. /\ Flats(xs) \in Seq(Seq(S)) /\ Len(Flats(xs)) = Len(xs) /\ Len(xs) \in Nat
      /\ \A i \in 1 .. Len(xs) : xs[i] \in Seq(Seq(S)) /\ Len(xs[i]) \in Nat
  BY FlatsAre
<1>2. \A i \in 1 .. Len(xs) : /\ At(xs, i, Len(xs[i])) = Off(Flats(xs), i)
                              /\ At(xs, i, 0) = Off(Flats(xs), i - 1)
                              /\ \A j \in 0 .. Len(xs[i]) : At(xs, i, j) \in Nat
  BY AtStep
<1>3. ASSUME NEW i \in 1 .. Len(xs), NEW a \in 0 .. Len(xs[i]), NEW b \in a .. Len(xs[i])
      PROVE  At(xs, i, a) <= At(xs, i, b)
  <2> DEFINE p == Off(Flats(xs), i - 1)
             x == xs[i]
  <2>1. x \in Seq(Seq(S)) /\ Off(x, a) <= Off(x, b)
    BY <1>1, <1>3, OffGrows
  <2>2. Len(x) \in Nat /\ i - 1 \in 0 .. Len(xs) /\ b \in 0 .. Len(x)
    BY <1>1
  <2>3. p \in Nat /\ Off(x, a) \in Nat /\ Off(x, b) \in Nat
    BY <1>1, <2>1, <2>2, OffStep
  <2>4. At(xs, i, a) = p + Off(x, a) /\ At(xs, i, b) = p + Off(x, b)
    BY DEF At
  <2> HIDE DEF p, x
  <2> QED  BY <2>1, <2>3, <2>4
<1>4. t + 1 \in 0 .. Len(xs[e]) /\ Len(xs[e]) \in t + 1 .. Len(xs[e]) /\ s \in 0 .. Len(xs[d])
      /\ 0 \in 0 .. Len(xs[d]) /\ Len(xs[e]) \in 0 .. Len(xs[e])
  BY <1>1
<1>5. CASE e < d
  <2>1. At(xs, e, t + 1) <= At(xs, e, Len(xs[e]))
    BY <1>3, <1>4
  <2>2. At(xs, d, 0) <= At(xs, d, s)
    BY <1>3, <1>4
  <2>3. Off(Flats(xs), e) <= Off(Flats(xs), d - 1)
    <3>1. e \in 0 .. Len(Flats(xs)) /\ d - 1 \in e .. Len(Flats(xs))
      BY <1>1, <1>5
    <3> QED  BY <1>1, <3>1, OffGrows
  <2>4. At(xs, e, Len(xs[e])) <= At(xs, d, 0)
    BY <1>2, <2>3
  <2>5. /\ At(xs, e, t + 1) \in Nat /\ At(xs, e, Len(xs[e])) \in Nat
        /\ At(xs, d, 0) \in Nat /\ At(xs, d, s) \in Nat
    BY <1>2, <1>4
  <2> QED  BY <2>1, <2>2, <2>4, <2>5
<1>6. CASE e = d /\ t < s
  <2>1. s \in t + 1 .. Len(xs[e])
    BY <1>1, <1>6
  <2> QED  BY <1>3, <1>4, <1>6, <2>1
<1> QED  BY <1>5, <1>6 DEF Earlier

-----------------------------------------------------------------------------
(* The loops of ply_process_with_callbacks.                                *)

Triples == Nat \X Nat \X Nat
TupleLoop(e, t) == [p \in 1 .. Len(Props(e)) |-> <<e, t, p>>]
LoopParts == [e \in 1 .. Len(elements) |-> [t \in 1 .. Tuples(e) |-> TupleLoop(e, t - 1)]]
Valid(e, t, p) ==
  e \in 1 .. Len(elements) /\ t \in 0 .. Tuples(e) - 1 /\ p \in 1 .. Len(Props(e))
Index(e, t, p) == At(LoopParts, e, t) + p

LEMMA ElementIs ==
  ASSUME elements \in Seq(Elements)
  PROVE  /\ Len(elements) \in Nat
         /\ \A e \in 1 .. Len(elements) :
              /\ Tuples(e) \in Nat /\ Props(e) \in Seq(Properties) /\ Len(Props(e)) \in Nat
              /\ \A p \in 1 .. Len(Props(e)) : Props(e)[p] \in Properties
<1>1. Len(elements) \in Nat /\ \A e \in 1 .. Len(elements) : elements[e] \in Elements
  OBVIOUS
<1>2. \A e \in 1 .. Len(elements) : Tuples(e) \in Nat /\ Props(e) \in Seq(Properties)
  BY <1>1 DEF Elements, Tuples, Props
<1>3. ASSUME NEW e \in 1 .. Len(elements)
      PROVE  Len(Props(e)) \in Nat /\ \A p \in 1 .. Len(Props(e)) : Props(e)[p] \in Properties
  BY <1>2
<1> QED  BY <1>1, <1>2, <1>3

LEMMA LoopsAre ==
  ASSUME elements \in Seq(Elements)
  PROVE  /\ LoopParts \in Seq(Seq(Seq(Triples))) /\ Len(LoopParts) = Len(elements)
         /\ \A e \in 1 .. Len(elements) : Len(LoopParts[e]) = Tuples(e)
         /\ \A e \in 1 .. Len(elements) : \A t \in 0 .. Tuples(e) - 1 :
              /\ LoopParts[e][t + 1] = TupleLoop(e, t)
              /\ Len(TupleLoop(e, t)) = Len(Props(e))
         /\ Loops = FlattenSeq(Flats(LoopParts))
<1>1. /\ Len(elements) \in Nat
      /\ \A e \in 1 .. Len(elements) : Tuples(e) \in Nat /\ Len(Props(e)) \in Nat
  BY ElementIs
<1>2. ASSUME NEW e \in 1 .. Len(elements), NEW t \in Nat
      PROVE  TupleLoop(e, t) \in Seq(Triples) /\ Len(TupleLoop(e, t)) = Len(Props(e))
  <2>1. \A p \in 1 .. Len(Props(e)) : <<e, t, p>> \in Triples
    BY <1>1 DEF Triples
  <2>2. TupleLoop(e, t) \in [1 .. Len(Props(e)) -> Triples]
    BY <2>1 DEF TupleLoop
  <2> QED  BY <1>1, <2>2, Listed
<1>3. ASSUME NEW e \in 1 .. Len(elements)
      PROVE  /\ LoopParts[e] \in Seq(Seq(Triples)) /\ Len(LoopParts[e]) = Tuples(e)
             /\ \A t \in 0 .. Tuples(e) - 1 : LoopParts[e][t + 1] = TupleLoop(e, t)
  <2>1. LoopParts[e] = [t \in 1 .. Tuples(e) |-> TupleLoop(e, t - 1)]
    BY DEF LoopParts
  <2>2. \A t \in 1 .. Tuples(e) : t - 1 \in Nat
    BY <1>1
  <2>3. \A t \in 1 .. Tuples(e) : TupleLoop(e, t - 1) \in Seq(Triples)
    BY <1>2, <2>2
  <2>4. LoopParts[e] \in [1 .. Tuples(e) -> Seq(Triples)]
    BY <2>1, <2>3
  <2>5. \A t \in 0 .. Tuples(e) - 1 : t + 1 \in 1 .. Tuples(e) /\ (t + 1) - 1 = t
    BY <1>1
  <2>6. ASSUME NEW t \in 0 .. Tuples(e) - 1 PROVE LoopParts[e][t + 1] = TupleLoop(e, t)
    <3> DEFINE n == t + 1
    <3>1. n \in 1 .. Tuples(e) /\ n - 1 = t
      BY <2>5
    <3> HIDE DEF n
    <3>2. LoopParts[e][n] = TupleLoop(e, n - 1)
      BY <2>1, <3>1
    <3> QED  BY <3>1, <3>2 DEF n
  <2> QED  BY <1>1, <2>4, <2>6, Listed
<1>4. LoopParts \in Seq(Seq(Seq(Triples))) /\ Len(LoopParts) = Len(elements)
  <2>1. LoopParts = [e \in 1 .. Len(elements) |-> LoopParts[e]]
    BY DEF LoopParts
  <2>2. LoopParts \in [1 .. Len(elements) -> Seq(Seq(Triples))]
    BY <1>3, <2>1
  <2> QED  BY <1>1, <2>2, Listed
<1>5. Loops = FlattenSeq(Flats(LoopParts))
  <2>1. Flats(LoopParts) = [e \in 1 .. Len(elements) |-> FlattenSeq(LoopParts[e])]
    BY <1>4 DEF Flats
  <2>2. Flats(LoopParts) =
          [e \in 1 .. Len(elements) |->
             FlattenSeq([t \in 1 .. Tuples(e) |-> [p \in 1 .. Len(Props(e)) |-> <<e, t - 1, p>>]])]
    BY <2>1 DEF LoopParts, TupleLoop
  <2> QED  BY <2>2 DEF Loops
<1>6. \A e \in 1 .. Len(elements) : \A t \in 0 .. Tuples(e) - 1 : t \in Nat
  BY <1>1
<1> QED  BY <1>2, <1>3, <1>4, <1>5, <1>6

\* Each value of the body has its turn, and nothing else has one.
LEMMA LoopHas ==
  ASSUME elements \in Seq(Elements)
  PROVE  /\ Len(Loops) \in Nat /\ Loops \in Seq(Triples)
         /\ \A e, t, p : Valid(e, t, p) =>
              /\ e \in Nat /\ t \in Nat /\ p \in Nat /\ Index(e, t, p) \in Nat
              /\ Index(e, t, p) \in 1 .. Len(Loops) /\ Loops[Index(e, t, p)] = <<e, t, p>>
         /\ \A i \in 1 .. Len(Loops) : \E e, t, p : Valid(e, t, p) /\ i = Index(e, t, p)
<1>1. /\ LoopParts \in Seq(Seq(Seq(Triples))) /\ Len(LoopParts) = Len(elements)
      /\ \A e \in 1 .. Len(elements) : Len(LoopParts[e]) = Tuples(e)
      /\ \A e \in 1 .. Len(elements) : \A t \in 0 .. Tuples(e) - 1 :
           LoopParts[e][t + 1] = TupleLoop(e, t) /\ Len(TupleLoop(e, t)) = Len(Props(e))
      /\ Loops = FlattenSeq(Flats(LoopParts))
  BY LoopsAre
<1>2. /\ Len(elements) \in Nat
      /\ \A e \in 1 .. Len(elements) : Tuples(e) \in Nat /\ Len(Props(e)) \in Nat
  BY ElementIs
<1>3. Len(Loops) \in Nat /\ Loops \in Seq(Triples)
  <2>1. Loops \in Seq(Triples)
    BY <1>1, AtStep
  <2> QED  BY <2>1
<1>4. ASSUME NEW e, NEW t, NEW p, Valid(e, t, p)
      PROVE  /\ e \in Nat /\ t \in Nat /\ p \in Nat /\ Index(e, t, p) \in Nat
             /\ Index(e, t, p) \in 1 .. Len(Loops) /\ Loops[Index(e, t, p)] = <<e, t, p>>
  <2>1. /\ e \in 1 .. Len(LoopParts) /\ t \in 0 .. Len(LoopParts[e]) - 1
        /\ p \in 1 .. Len(LoopParts[e][t + 1])
    BY <1>1, <1>4 DEF Valid
  <2>2. /\ At(LoopParts, e, t) + p \in 1 .. Len(Loops)
        /\ Loops[At(LoopParts, e, t) + p] = LoopParts[e][t + 1][p]
    <3>1. \A i \in 1 .. Len(LoopParts) : \A k \in 0 .. Len(LoopParts[i]) - 1 :
            \A j \in 1 .. Len(LoopParts[i][k + 1]) :
              /\ At(LoopParts, i, k) + j \in 1 .. Len(FlattenSeq(Flats(LoopParts)))
              /\ FlattenSeq(Flats(LoopParts))[At(LoopParts, i, k) + j] = LoopParts[i][k + 1][j]
      <4>1. InPlace(LoopParts)
        BY <1>1, AllInPlace
      <4> QED  BY <4>1 DEF InPlace
    <3>2. e \in 1 .. Len(LoopParts) /\ t \in 0 .. Len(LoopParts[e]) - 1
      BY <2>1
    <3>3. \A j \in 1 .. Len(LoopParts[e][t + 1]) :
            /\ At(LoopParts, e, t) + j \in 1 .. Len(FlattenSeq(Flats(LoopParts)))
            /\ FlattenSeq(Flats(LoopParts))[At(LoopParts, e, t) + j] = LoopParts[e][t + 1][j]
      BY <3>1, <3>2
    <3> QED  BY <1>1, <2>1, <3>3
  <2>3. e \in Nat /\ t \in Nat /\ p \in Nat
    BY <1>2, <1>4 DEF Valid
  <2>4. Index(e, t, p) \in 1 .. Len(Loops)
    BY <2>2 DEF Index
  <2>5. Index(e, t, p) \in Nat
    BY <1>3, <2>4
  <2>6. LoopParts[e][t + 1][p] = <<e, t, p>>
    BY <1>1, <1>4 DEF Valid, TupleLoop
  <2> QED  BY <2>2, <2>3, <2>4, <2>5, <2>6 DEF Index
<1>5. ASSUME NEW i \in 1 .. Len(Loops) PROVE \E e, t, p : Valid(e, t, p) /\ i = Index(e, t, p)
  <2>1. PICK e \in 1 .. Len(LoopParts) : \E t \in 0 .. Len(LoopParts[e]) - 1 :
                \E j \in 1 .. Len(LoopParts[e][t + 1]) : i = At(LoopParts, e, t) + j
    BY <1>1, AtHas
  <2>2. PICK t \in 0 .. Len(LoopParts[e]) - 1 :
                \E j \in 1 .. Len(LoopParts[e][t + 1]) : i = At(LoopParts, e, t) + j
    BY <2>1
  <2>3. PICK j \in 1 .. Len(LoopParts[e][t + 1]) : i = At(LoopParts, e, t) + j
    BY <2>2
  <2>4. e \in 1 .. Len(elements) /\ t \in 0 .. Tuples(e) - 1
    BY <1>1, <2>1, <2>2
  <2>5. j \in 1 .. Len(Props(e))
    BY <1>1, <2>3, <2>4
  <2>6. Valid(e, t, j) /\ i = Index(e, t, j)
    BY <2>3, <2>4, <2>5 DEF Valid, Index
  <2> QED  BY <2>6
<1> QED  BY <1>3, <1>4, <1>5

\* The turn of the next property, of the next tuple and of the next element.
LEMMA NextTurn ==
  ASSUME elements \in Seq(Elements), NEW e \in 1 .. Len(elements), NEW t \in 0 .. Tuples(e) - 1
  PROVE  /\ \A p \in Nat : Index(e, t, p + 1) = Index(e, t, p) + 1 /\ Index(e, t, p) \in Nat
         /\ Index(e, t + 1, 1) = Index(e, t, Len(Props(e))) + 1
         /\ t + 1 = Tuples(e) /\ e < Len(elements) =>
              Index(e + 1, 0, 1) = Index(e, t, Len(Props(e))) + 1
         /\ e = 1 /\ t = 0 => Index(e, t, 1) = 1
<1>1. /\ LoopParts \in Seq(Seq(Seq(Triples))) /\ Len(LoopParts) = Len(elements)
      /\ Len(LoopParts[e]) = Tuples(e)
      /\ LoopParts[e][t + 1] = TupleLoop(e, t) /\ Len(TupleLoop(e, t)) = Len(Props(e))
  BY LoopsAre
<1>2. /\ Len(elements) \in Nat /\ Tuples(e) \in Nat /\ Len(Props(e)) \in Nat
      /\ t \in 0 .. Len(LoopParts[e]) - 1 /\ e \in 1 .. Len(LoopParts)
  <2>1. Len(elements) \in Nat /\ Tuples(e) \in Nat /\ Len(Props(e)) \in Nat
    BY ElementIs
  <2> QED  BY <1>1, <2>1
<1>3. /\ At(LoopParts, e, t) \in Nat /\ At(LoopParts, e, t + 1) \in Nat
      /\ At(LoopParts, e, t + 1) = At(LoopParts, e, t) + Len(Props(e))
      /\ At(LoopParts, e, Tuples(e)) = Off(Flats(LoopParts), e)
      /\ At(LoopParts, 1, 0) = 0
  <2>1. LoopParts \in Seq(Seq(Seq(Triples)))
    BY <1>1
  <2>2. e \in 1 .. Len(LoopParts) /\ t \in 0 .. Len(LoopParts[e]) - 1
    BY <1>2
  <2>3. /\ At(LoopParts, e, t) \in Nat /\ At(LoopParts, e, t + 1) \in Nat
        /\ At(LoopParts, e, t + 1) = At(LoopParts, e, t) + Len(LoopParts[e][t + 1])
        /\ At(LoopParts, e, Len(LoopParts[e])) = Off(Flats(LoopParts), e)
        /\ At(LoopParts, 1, 0) = 0
    BY <2>1, <2>2, AtNext
  <2> QED  BY <1>1, <2>3
<1>4. e < Len(elements) => At(LoopParts, e + 1, 0) = Off(Flats(LoopParts), e)
  <2>1. e < Len(elements) => e + 1 \in 1 .. Len(LoopParts) /\ (e + 1) - 1 = e
    BY <1>1, <1>2
  <2> QED  BY <1>1, <2>1, AtStep
<1>5. \A i, j, p : Index(i, j, p) = At(LoopParts, i, j) + p
  BY DEF Index
<1>6. \A p \in Nat : Index(e, t, p + 1) = Index(e, t, p) + 1 /\ Index(e, t, p) \in Nat
  BY <1>3, <1>5
<1>7. Index(e, t + 1, 1) = Index(e, t, Len(Props(e))) + 1
  BY <1>2, <1>3, <1>5
<1>8. t + 1 = Tuples(e) /\ e < Len(elements) => Index(e + 1, 0, 1) = Index(e, t, Len(Props(e))) + 1
  BY <1>2, <1>3, <1>4, <1>5
<1>9. e = 1 /\ t = 0 => Index(e, t, 1) = 1
  BY <1>3, <1>5
<1> QED  BY <1>6, <1>7, <1>8, <1>9

\* A value has its turn before those behind it.
Behind(e, t, p, d, s, q) == Earlier(e, t, d, s) \/ (e = d /\ t = s /\ p < q)

LEMMA TurnsInOrder ==
  ASSUME elements \in Seq(Elements), NEW e, NEW t, NEW p, Valid(e, t, p),
         NEW d, NEW s, NEW q, Valid(d, s, q), Behind(e, t, p, d, s, q)
  PROVE  Index(e, t, p) < Index(d, s, q)
<1>1. /\ LoopParts \in Seq(Seq(Seq(Triples))) /\ Len(LoopParts) = Len(elements)
      /\ Len(LoopParts[e]) = Tuples(e) /\ Len(LoopParts[d]) = Tuples(d)
      /\ LoopParts[e][t + 1] = TupleLoop(e, t) /\ Len(TupleLoop(e, t)) = Len(Props(e))
  BY LoopsAre DEF Valid
<1>2. /\ e \in 1 .. Len(elements) /\ t \in 0 .. Tuples(e) - 1 /\ p \in 1 .. Len(Props(e))
      /\ d \in 1 .. Len(elements) /\ s \in 0 .. Tuples(d) - 1 /\ q \in 1 .. Len(Props(d))
  BY DEF Valid
<1>3. Tuples(e) \in Nat /\ Tuples(d) \in Nat /\ Len(Props(e)) \in Nat /\ Len(Props(d)) \in Nat
  BY <1>2, ElementIs
<1>4. t \in 0 .. Tuples(e) /\ s \in 0 .. Tuples(d) /\ p \in Nat /\ q \in Nat /\ q > 0 /\ p <= Len(Props(e))
  BY <1>2, <1>3
<1>5. /\ At(LoopParts, e, t) \in Nat /\ At(LoopParts, d, s) \in Nat
      /\ At(LoopParts, e, t + 1) = At(LoopParts, e, t) + Len(Props(e))
  <2>1. /\ e \in 1 .. Len(LoopParts) /\ t \in 0 .. Len(LoopParts[e]) - 1
        /\ d \in 1 .. Len(LoopParts) /\ s \in 0 .. Len(LoopParts[d]) - 1
    BY <1>1, <1>2
  <2>2. LoopParts \in Seq(Seq(Seq(Triples)))
    BY <1>1
  <2>3. /\ At(LoopParts, e, t) \in Nat /\ At(LoopParts, d, s) \in Nat
        /\ At(LoopParts, e, t + 1) = At(LoopParts, e, t) + Len(LoopParts[e][t + 1])
    BY <2>1, <2>2, AtNext
  <2> QED  BY <1>1, <2>3
<1>6. Index(e, t, p) = At(LoopParts, e, t) + p /\ Index(d, s, q) = At(LoopParts, d, s) + q
  BY DEF Index
<1>7. CASE Earlier(e, t, d, s)
  <2>1. At(LoopParts, e, t + 1) <= At(LoopParts, d, s)
    BY <1>1, <1>2, <1>4, <1>7, AtGrows
  <2> QED  BY <1>3, <1>4, <1>5, <1>6, <2>1
<1>8. CASE e = d /\ t = s /\ p < q
  BY <1>4, <1>5, <1>6, <1>8
<1> QED  BY <1>7, <1>8 DEF Behind

-----------------------------------------------------------------------------
(* The cells of one value.                                                 *)

AllCells == [from : Triples, part : Nat, length : Nat]

LEMMA WidthIs == \A t \in Types : Width(t) \in Nat /\ Width(t) > 0
<1>1. \A t \in {"int8", "uint8"} : Width(t) = 1
  BY DEF Width
<1>2. \A t \in {"int16", "uint16"} : Width(t) = 2
  BY DEF Width
<1>3. \A t \in {"int32", "uint32", "float32"} : Width(t) = 4
  BY DEF Width
<1>4. Width("float64") = 8
  BY DEF Width
<1> QED  BY <1>1, <1>2, <1>3, <1>4 DEF Types

LEMMA CellsOfIs ==
  ASSUME NEW from \in Triples, NEW type \in Types, NEW n \in Nat
  PROVE  /\ CellsOf(from, type, n) \in Seq(AllCells)
         /\ Len(CellsOf(from, type, n)) = Width(type) /\ Width(type) \in Nat /\ 1 \in 1 .. Width(type)
         /\ \A k \in 1 .. Width(type) :
              CellsOf(from, type, n)[k].from = from /\ CellsOf(from, type, n)[k].length = n
<1>1. Width(type) \in Nat /\ Width(type) > 0
  BY WidthIs
<1>2. \A k \in 1 .. Width(type) : CellsOf(from, type, n)[k] = [from |-> from, part |-> k, length |-> n]
  BY DEF CellsOf
<1>3. \A k \in 1 .. Width(type) : [from |-> from, part |-> k, length |-> n] \in AllCells
  BY <1>1 DEF AllCells
<1>4. CellsOf(from, type, n) \in [1 .. Width(type) -> AllCells]
  BY <1>3 DEF CellsOf
<1>5. CellsOf(from, type, n) \in Seq(AllCells) /\ Len(CellsOf(from, type, n)) = Width(type)
  BY <1>1, <1>4, Listed
<1> QED  BY <1>1, <1>2, <1>5

\* Where the items of a list begin behind each other, and behind its length.
Items(from, type, n) == [k \in 1 .. n |-> CellsOf(from, type, k)]
ItemAt(from, prop, n, k) == Width(prop.lengthType) + Off(Items(from, prop.type, n), k)

LEMMA ItemsAre ==
  ASSUME NEW from \in Triples, NEW type \in Types, NEW n \in Nat
  PROVE  /\ Items(from, type, n) \in Seq(Seq(AllCells)) /\ Len(Items(from, type, n)) = n
         /\ \A k \in 1 .. n : Items(from, type, n)[k] = CellsOf(from, type, k)
<1>1. \A k \in 1 .. n : Items(from, type, n)[k] = CellsOf(from, type, k)
  BY DEF Items
<1>2. \A k \in 1 .. n : k \in Nat
  OBVIOUS
<1>3. \A k \in 1 .. n : CellsOf(from, type, k) \in Seq(AllCells)
  BY <1>2, CellsOfIs
<1>4. Items(from, type, n) \in [1 .. n -> Seq(AllCells)]
  BY <1>3 DEF Items
<1> QED  BY <1>1, <1>4, Listed

LEMMA PropertyTypes ==
  ASSUME NEW p \in Properties
  PROVE  p.type \in Types /\ p.lengthType \in Types /\ p.list \in BOOLEAN
BY DEF Properties, PropertiesNamed, Types, Signed, Unsigned

LEMMA ScalarCells ==
  ASSUME NEW from \in Triples, NEW p \in Properties, NEW n \in Nat, ~p.list
  PROVE  /\ ValueCells(from, p, n) \in Seq(AllCells)
         /\ Len(ValueCells(from, p, n)) = Width(p.type)
         /\ 1 \in 1 .. Len(ValueCells(from, p, n)) /\ ValueCells(from, p, n)[1].from = from
<1>1. p.type \in Types
  BY PropertyTypes
<1>2. ValueCells(from, p, n) = CellsOf(from, p.type, 0) /\ 0 \in Nat
  BY DEF ValueCells
<1> QED  BY <1>1, <1>2, CellsOfIs

LEMMA ListCells ==
  ASSUME NEW from \in Triples, NEW p \in Properties, NEW n \in Nat, p.list,
         NEW c, c = ValueCells(from, p, n)
  PROVE  /\ c \in Seq(AllCells)
         /\ 1 \in 1 .. Len(c) /\ c[1].from = from /\ c[1].length = n
         /\ ItemAt(from, p, n, 0) = Width(p.lengthType) /\ ItemAt(from, p, n, n) = Len(c)
         /\ \A k \in 0 .. n : ItemAt(from, p, n, k) \in Nat
         /\ \A k \in 0 .. n - 1 :
              /\ ItemAt(from, p, n, k + 1) = ItemAt(from, p, n, k) + Width(p.type)
              /\ ItemAt(from, p, n, k) + 1 \in 1 .. Len(c)
              /\ c[ItemAt(from, p, n, k) + 1].from = from
<1> DEFINE head == CellsOf(from, p.lengthType, n)
           ss == Items(from, p.type, n)
           w == Width(p.lengthType)
           v == Width(p.type)
<1>1. p.type \in Types /\ p.lengthType \in Types
  BY PropertyTypes
<1>2. c = head \o FlattenSeq(ss)
  BY DEF ValueCells, Items
<1>3. /\ head \in Seq(AllCells) /\ Len(head) = w /\ w \in Nat /\ 1 \in 1 .. w
      /\ head[1].from = from /\ head[1].length = n
  BY <1>1, CellsOfIs
<1>4. /\ ss \in Seq(Seq(AllCells)) /\ Len(ss) = n
      /\ \A k \in 1 .. n : ss[k] = CellsOf(from, p.type, k)
  BY <1>1, ItemsAre
<1>5. \A k \in 1 .. n : k \in Nat
  OBVIOUS
<1>6. v \in Nat /\ 1 \in 1 .. v /\ \A k \in 1 .. n : Len(ss[k]) = v /\ ss[k][1].from = from
  <2>1. v \in Nat /\ v > 0
    BY <1>1, WidthIs
  <2> QED  BY <1>1, <1>4, <1>5, <2>1, CellsOfIs
<1>7. \A k : ItemAt(from, p, n, k) = w + Off(ss, k)
  BY DEF ItemAt
<1> HIDE DEF head, ss, w, v
<1>8. /\ FlattenSeq(ss) \in Seq(AllCells) /\ Len(FlattenSeq(ss)) = Off(ss, n)
      /\ Off(ss, 0) = 0 /\ \A k \in 0 .. n : Off(ss, k) \in Nat
  BY <1>4, Flat, OffStep
<1>9. \A k \in 1 .. n : Off(ss, k) = Off(ss, k - 1) + v
  BY <1>4, <1>6, OffStep
<1>10. /\ c \in Seq(AllCells) /\ Len(c) = w + Off(ss, n)
       /\ \A j \in 1 .. w : c[j] = head[j] /\ j \in 1 .. Len(c)
       /\ \A j \in 1 .. Len(FlattenSeq(ss)) : c[w + j] = FlattenSeq(ss)[j] /\ w + j \in 1 .. Len(c)
  <2> DEFINE tail == FlattenSeq(ss)
  <2>1. head \in Seq(AllCells) /\ tail \in Seq(AllCells) /\ c = head \o tail
    BY <1>2, <1>3, <1>8
  <2>2. Len(head) = w /\ Len(tail) = Off(ss, n)
    BY <1>3, <1>8
  <2> HIDE DEF tail
  <2>3. /\ c \in Seq(AllCells) /\ Len(c) = Len(head) + Len(tail)
        /\ \A j \in 1 .. Len(head) : c[j] = head[j] /\ j \in 1 .. Len(c)
        /\ \A j \in 1 .. Len(tail) : c[Len(head) + j] = tail[j] /\ Len(head) + j \in 1 .. Len(c)
    BY <2>1, Joined
  <2> QED  BY <2>2, <2>3 DEF tail
<1>11. c[1].from = from /\ c[1].length = n /\ 1 \in 1 .. Len(c)
  BY <1>3, <1>10
<1>12. ASSUME NEW k \in 0 .. n - 1
       PROVE  /\ ItemAt(from, p, n, k + 1) = ItemAt(from, p, n, k) + v
              /\ ItemAt(from, p, n, k) + 1 \in 1 .. Len(c)
              /\ c[ItemAt(from, p, n, k) + 1].from = from
  <2> DEFINE i == k + 1
             o == Off(ss, k)
  <2>1. i \in 1 .. n /\ i - 1 = k /\ k \in 0 .. n
    OBVIOUS
  <2>2. o \in Nat /\ Off(ss, i) = o + v
    BY <1>8, <1>9, <2>1
  <2>3. o + 1 \in 1 .. Len(FlattenSeq(ss)) /\ FlattenSeq(ss)[o + 1] = ss[i][1]
    <3>1. i \in 1 .. Len(ss) /\ 1 \in 1 .. Len(ss[i]) /\ Off(ss, i - 1) = o
      BY <1>4, <1>6, <2>1
    <3> HIDE DEF i, o
    <3>2. /\ Off(ss, i - 1) + 1 \in 1 .. Len(FlattenSeq(ss))
          /\ FlattenSeq(ss)[Off(ss, i - 1) + 1] = ss[i][1]
      <4>1. \A h \in 1 .. Len(ss) : \A j \in 1 .. Len(ss[h]) :
              /\ Off(ss, h - 1) + j \in 1 .. Len(FlattenSeq(ss))
              /\ FlattenSeq(ss)[Off(ss, h - 1) + j] = ss[h][j]
        BY <1>4, Flat
      <4> QED  BY <3>1, <4>1
    <3> QED  BY <3>1, <3>2
  <2>4. ItemAt(from, p, n, k) = w + o /\ ItemAt(from, p, n, i) = w + Off(ss, i)
    BY <1>7
  <2>5. (w + o) + 1 = w + (o + 1) /\ w + (o + v) = (w + o) + v
    BY <1>3, <1>6, <2>2
  <2>6. ss[i][1].from = from
    BY <1>6, <2>1
  <2>7. c[w + (o + 1)] = ss[i][1] /\ w + (o + 1) \in 1 .. Len(c)
    BY <1>10, <2>3
  <2> HIDE DEF o
  <2>8. ItemAt(from, p, n, i) = ItemAt(from, p, n, k) + v
    BY <2>2, <2>4, <2>5
  <2>9. ItemAt(from, p, n, k) + 1 = w + (o + 1)
    BY <2>4, <2>5
  <2> QED  BY <2>6, <2>7, <2>8, <2>9
<1>13. \A k \in 0 .. n : ItemAt(from, p, n, k) \in Nat
  BY <1>3, <1>7, <1>8
<1>14. ItemAt(from, p, n, 0) = w /\ ItemAt(from, p, n, n) = Len(c)
  BY <1>3, <1>7, <1>8, <1>10
<1> QED  BY <1>10, <1>11, <1>12, <1>13, <1>14 DEF w, v

-----------------------------------------------------------------------------
(* The body.                                                               *)

\* The descriptions that the parser has are those of the file.
FileProp(e, p) == file.elements[e].props[p]
Matches ==
  /\ file \in Files /\ Readable(file) /\ body \in Bodies(file) /\ format = file.format
  /\ elements \in Seq(Elements) /\ Len(elements) = Len(file.elements)
  /\ \A e \in 1 .. Len(elements) :
       /\ Tuples(e) = file.elements[e].tuples /\ Len(Props(e)) = Len(file.elements[e].props)
       /\ \A p \in 1 .. Len(Props(e)) :
            /\ FileProp(e, p) \in Properties /\ Props(e)[p].list = FileProp(e, p).list
            /\ Props(e)[p].type = FileProp(e, p).type
            /\ Props(e)[p].lengthType = FileProp(e, p).lengthType

LEMMA MatchesWhenComplete ==
  ASSUME HeaderInv, pc \in Streaming, body \in Bodies(file)
  PROVE  Matches
<1>1. /\ file \in Files /\ Readable(file) /\ elements \in Seq(Elements) /\ format = file.format
      /\ Len(elements) = Len(file.elements)
      /\ \A e \in 1 .. Len(elements) : elements[e] = PartOf(e, Len(file.elements[e].props))
  BY DEF HeaderInv, Complete
<1>2. file.elements \in Seq(Elements)
  BY <1>1, FileIs
<1>3. ASSUME NEW e \in 1 .. Len(elements)
      PROVE  /\ Tuples(e) = file.elements[e].tuples /\ Len(Props(e)) = Len(file.elements[e].props)
             /\ \A p \in 1 .. Len(Props(e)) :
                  /\ FileProp(e, p) \in Properties /\ Props(e)[p].list = FileProp(e, p).list
                  /\ Props(e)[p].type = FileProp(e, p).type
                  /\ Props(e)[p].lengthType = FileProp(e, p).lengthType
  <2> DEFINE ps == file.elements[e].props
  <2>1. file.elements[e] \in Elements
    BY <1>1, <1>2
  <2>2. ps \in Seq(Properties)
    BY <2>1 DEF Elements
  <2> HIDE DEF ps
  <2>3. Len(ps) \in Nat /\ \A p \in 1 .. Len(ps) : ps[p] \in Properties
    BY <2>2
  <2>4. elements[e] = [name |-> Kept(file.elements[e].name), tuples |-> file.elements[e].tuples,
                       props |-> [p \in 1 .. Len(ps) |-> [ps[p] EXCEPT !.name = Kept(@)]]]
    BY <1>1 DEF PartOf, ps
  <2>5. /\ Tuples(e) = file.elements[e].tuples
        /\ Props(e) = [p \in 1 .. Len(ps) |-> [ps[p] EXCEPT !.name = Kept(@)]]
    BY <2>4 DEF Tuples, Props
  <2>6. Props(e) \in [1 .. Len(ps) -> Properties]
    <3>1. \A p \in 1 .. Len(ps) : [ps[p] EXCEPT !.name = Kept(@)] \in Properties
      <4> TAKE p \in 1 .. Len(ps)
      <4>1. ps[p] \in Properties
        BY <2>3
      <4> QED  BY <4>1, KeptIsProperty DEF KeptProperty
    <3> QED  BY <2>5, <3>1
  <2>7. Len(Props(e)) = Len(ps)
    BY <2>3, <2>6, Listed
  <2>8. ASSUME NEW p \in 1 .. Len(ps)
        PROVE  /\ FileProp(e, p) \in Properties /\ Props(e)[p].list = FileProp(e, p).list
               /\ Props(e)[p].type = FileProp(e, p).type
               /\ Props(e)[p].lengthType = FileProp(e, p).lengthType
    <3>1. FileProp(e, p) = ps[p] /\ ps[p] \in Properties
      BY <2>3 DEF FileProp, ps
    <3>2. Props(e)[p] = [ps[p] EXCEPT !.name = Kept(@)]
      BY <2>5
    <3>3. ps[p] = [name |-> ps[p].name, list |-> ps[p].list, type |-> ps[p].type,
                   lengthType |-> ps[p].lengthType]
      BY <3>1 DEF Properties, PropertiesNamed
    <3> DEFINE q == ps[p]
    <3> HIDE DEF q
    <3>4. /\ [q EXCEPT !.name = Kept(@)].list = q.list /\ [q EXCEPT !.name = Kept(@)].type = q.type
          /\ [q EXCEPT !.name = Kept(@)].lengthType = q.lengthType
      BY <3>3 DEF q
    <3> QED  BY <3>1, <3>2, <3>4 DEF q
  <2> QED  BY <2>5, <2>7, <2>8 DEF ps
<1> QED  BY <1>1, <1>3 DEF Matches

\* How long the lists of the body are.
Lengths == CHOOSE l \in [Positions(file) -> Nat] : body = BodyOf(file, l)

LEMMA LengthsAre ==
  ASSUME file \in Files, Readable(file), body \in Bodies(file)
  PROVE  Lengths \in [Positions(file) -> Nat] /\ body = BodyOf(file, Lengths)
<1> DEFINE lists == {q \in Positions(file) : file.elements[q[1]].props[q[3]].list}
<1>1. PICK l \in [lists -> ListLengths] :
        body = BodyOf(file, [q \in Positions(file) |-> IF q \in lists THEN l[q] ELSE 0])
  BY DEF Bodies
<1> DEFINE m == [q \in Positions(file) |-> IF q \in lists THEN l[q] ELSE 0]
<1>2. ListLengths \subseteq Nat
  BY FileAssumption DEF FileAssumption
<1>3. m \in [Positions(file) -> Nat] /\ body = BodyOf(file, m)
  BY <1>1, <1>2
<1> HIDE DEF m
<1> QED  BY <1>3 DEF Lengths

Cells(e, t, p) == ValueCells(<<e, t, p>>, FileProp(e, p), Lengths[<<e, t, p>>])
TupleParts(e, t) == [p \in 1 .. Len(Props(e)) |-> Cells(e, t, p)]
BodyParts ==
  [e \in 1 .. Len(elements) |-> [t \in 1 .. Tuples(e) |-> TupleCells(file, e, t - 1, Lengths)]]
Pos(e, t, p) == At(BodyParts, e, t) + Off(TupleParts(e, t), p - 1)
Break == IF Ascii THEN 1 ELSE 0

LEMMA CellsAre ==
  ASSUME Matches, NEW e, NEW t, NEW p, Valid(e, t, p)
  PROVE  /\ FileProp(e, p) \in Properties /\ <<e, t, p>> \in Triples
         /\ Lengths[<<e, t, p>>] \in Nat
         /\ Cells(e, t, p) \in Seq(AllCells)
         /\ 1 \in 1 .. Len(Cells(e, t, p)) /\ Cells(e, t, p)[1].from = <<e, t, p>>
<1>1. FileProp(e, p) \in Properties
  BY DEF Matches, Valid
<1>2. /\ Len(elements) \in Nat /\ Tuples(e) \in Nat /\ Len(Props(e)) \in Nat
      /\ e \in 1 .. Len(elements) /\ t \in 0 .. Tuples(e) - 1 /\ p \in 1 .. Len(Props(e))
  BY ElementIs DEF Matches, Valid
<1>3. <<e, t, p>> \in Triples
  BY <1>2 DEF Triples
<1>4. <<e, t, p>> \in Positions(file)
  <2>1. /\ e \in 1 .. Len(file.elements) /\ t \in 0 .. file.elements[e].tuples - 1
        /\ p \in 1 .. Len(file.elements[e].props)
    BY <1>2 DEF Matches
  <2> QED  BY <2>1 DEF Positions
<1>5. Lengths[<<e, t, p>>] \in Nat
  BY <1>4, LengthsAre DEF Matches
<1>6. CASE FileProp(e, p).list
  BY <1>1, <1>3, <1>5, <1>6, ListCells DEF Cells
<1>7. CASE ~FileProp(e, p).list
  BY <1>1, <1>3, <1>5, <1>7, ScalarCells DEF Cells
<1> QED  BY <1>1, <1>3, <1>5, <1>6, <1>7

\* How the cells of a tuple are laid out.
Laid(e, t) ==
  LET n  == Len(Props(e))
      tp == TupleParts(e, t)
      c  == TupleCells(file, e, t, Lengths)
  IN  /\ tp \in Seq(Seq(AllCells)) /\ Len(tp) = n
      /\ \A p \in 1 .. n : tp[p] = Cells(e, t, p)
      /\ c \in Seq(AllCells) /\ Len(c) = Off(tp, n) + Break
      /\ \A j \in 1 .. Len(FlattenSeq(tp)) : c[j] = FlattenSeq(tp)[j]
      /\ \A j \in 1 .. Len(c) : j > Off(tp, n) => c[j] = Newline

LEMMA TupleIs ==
  ASSUME Matches, NEW e \in 1 .. Len(elements), NEW t \in 0 .. Tuples(e) - 1
  PROVE  Laid(e, t)
<1> DEFINE n == Len(Props(e))
           tp == TupleParts(e, t)
           c == TupleCells(file, e, t, Lengths)
           tail == IF Ascii THEN <<Newline>> ELSE <<>>
           main == FlattenSeq(tp)
<1>1. n \in Nat
  BY ElementIs DEF Matches
<1>2. \A p \in 1 .. n : tp[p] = Cells(e, t, p)
  BY DEF TupleParts
<1>3. \A p \in 1 .. n : Cells(e, t, p) \in Seq(AllCells)
  BY CellsAre DEF Valid
<1>4. tp \in [1 .. n -> Seq(AllCells)]
  BY <1>3 DEF TupleParts
<1>5. tp \in Seq(Seq(AllCells)) /\ Len(tp) = n
  BY <1>1, <1>4, Listed
<1>6. c = main \o tail
  <2>1. /\ Len(file.elements[e].props) = n
        /\ (file.format = "ascii") = Ascii
    BY DEF Matches, Ascii
  <2>2. tp = [p \in 1 .. Len(file.elements[e].props) |->
                ValueCells(<<e, t, p>>, file.elements[e].props[p], Lengths[<<e, t, p>>])]
    BY <2>1 DEF TupleParts, Cells, FileProp
  <2> QED  BY <2>1, <2>2 DEF TupleCells
<1>7. Newline \in AllCells
  BY DEF Newline, AllCells, Triples
<1>8. tail \in Seq(AllCells) /\ Len(tail) = Break /\ \A j \in 1 .. Len(tail) : tail[j] = Newline
  BY <1>7 DEF Break
<1> HIDE DEF tp, n
<1>9. main \in Seq(AllCells) /\ Len(main) = Off(tp, n) /\ Off(tp, n) \in Nat
  <2>1. n \in 0 .. Len(tp)
    BY <1>1, <1>5
  <2> QED  BY <1>5, <2>1, Flat, OffStep
<1> HIDE DEF main, tail, c
<1>10. /\ c \in Seq(AllCells) /\ Len(c) = Len(main) + Len(tail)
       /\ \A j \in 1 .. Len(main) : c[j] = main[j]
       /\ \A j \in 1 .. Len(tail) : c[Len(main) + j] = tail[j]
  <2>1. main \in Seq(AllCells) /\ tail \in Seq(AllCells) /\ c = main \o tail
    BY <1>6, <1>8, <1>9
  <2> QED  BY <2>1, Joined
<1>11. \A j \in 1 .. Len(c) : j > Off(tp, n) => c[j] = Newline
  <2> TAKE j \in 1 .. Len(c)
  <2>1. ASSUME j > Off(tp, n) PROVE c[j] = Newline
    <3> DEFINE k == j - Len(main)
    <3>1. Len(tail) \in Nat
      BY <1>8
    <3>2. k \in 1 .. Len(tail) /\ Len(main) + k = j
      BY <1>9, <1>10, <2>1, <3>1
    <3> HIDE DEF k
    <3> QED  BY <1>8, <1>10, <3>2
  <2> QED  BY <2>1
<1>12. /\ tp \in Seq(Seq(AllCells)) /\ Len(tp) = n
       /\ \A p \in 1 .. n : tp[p] = Cells(e, t, p)
       /\ c \in Seq(AllCells) /\ Len(c) = Off(tp, n) + Break
       /\ \A j \in 1 .. Len(main) : c[j] = main[j]
       /\ \A j \in 1 .. Len(c) : j > Off(tp, n) => c[j] = Newline
  <2>1. \A p \in 1 .. n : tp[p] = Cells(e, t, p)
    BY <1>2 DEF n, tp
  <2> QED  BY <1>5, <1>8, <1>9, <1>10, <1>11, <2>1
<1> QED  BY <1>12 DEF Laid, n, tp, c, main

LEMMA BodyIs ==
  ASSUME Matches
  PROVE  /\ BodyParts \in Seq(Seq(Seq(AllCells))) /\ Len(BodyParts) = Len(elements)
         /\ \A e \in 1 .. Len(elements) : Len(BodyParts[e]) = Tuples(e)
         /\ \A e \in 1 .. Len(elements) : \A t \in 0 .. Tuples(e) - 1 :
              BodyParts[e][t + 1] = TupleCells(file, e, t, Lengths)
         /\ body = FlattenSeq(Flats(BodyParts))
<1>1. /\ Len(elements) \in Nat
      /\ \A e \in 1 .. Len(elements) : Tuples(e) \in Nat /\ Len(Props(e)) \in Nat
  BY ElementIs DEF Matches
<1>2. ASSUME NEW e \in 1 .. Len(elements)
      PROVE  /\ BodyParts[e] \in Seq(Seq(AllCells)) /\ Len(BodyParts[e]) = Tuples(e)
             /\ \A t \in 0 .. Tuples(e) - 1 : BodyParts[e][t + 1] = TupleCells(file, e, t, Lengths)
  <2>1. BodyParts[e] = [t \in 1 .. Tuples(e) |-> TupleCells(file, e, t - 1, Lengths)]
    BY DEF BodyParts
  <2>2. \A t \in 1 .. Tuples(e) : t - 1 \in 0 .. Tuples(e) - 1
    BY <1>1
  <2>3. \A t \in 1 .. Tuples(e) : TupleCells(file, e, t - 1, Lengths) \in Seq(AllCells)
    BY <2>2, TupleIs DEF Laid
  <2>4. BodyParts[e] \in [1 .. Tuples(e) -> Seq(AllCells)]
    BY <2>1, <2>3
  <2>5. ASSUME NEW t \in 0 .. Tuples(e) - 1
        PROVE  BodyParts[e][t + 1] = TupleCells(file, e, t, Lengths)
    <3> DEFINE n == t + 1
    <3>1. n \in 1 .. Tuples(e) /\ n - 1 = t
      BY <1>1
    <3> HIDE DEF n
    <3>2. BodyParts[e][n] = TupleCells(file, e, n - 1, Lengths)
      BY <2>1, <3>1
    <3> QED  BY <3>1, <3>2 DEF n
  <2> QED  BY <1>1, <2>4, <2>5, Listed
<1>3. BodyParts \in Seq(Seq(Seq(AllCells))) /\ Len(BodyParts) = Len(elements)
  <2>1. BodyParts = [e \in 1 .. Len(elements) |-> BodyParts[e]]
    BY DEF BodyParts
  <2>2. BodyParts \in [1 .. Len(elements) -> Seq(Seq(AllCells))]
    BY <1>2, <2>1
  <2> QED  BY <1>1, <2>2, Listed
<1>4. body = FlattenSeq(Flats(BodyParts))
  <2>1. Flats(BodyParts) = [e \in 1 .. Len(elements) |-> FlattenSeq(BodyParts[e])]
    BY <1>3 DEF Flats
  <2>2. \A e \in 1 .. Len(elements) :
          FlattenSeq(BodyParts[e]) =
            FlattenSeq([t \in 1 .. file.elements[e].tuples |-> TupleCells(file, e, t - 1, Lengths)])
    BY DEF BodyParts, Matches
  <2>3. Flats(BodyParts) =
          [e \in 1 .. Len(file.elements) |->
             FlattenSeq([t \in 1 .. file.elements[e].tuples |-> TupleCells(file, e, t - 1, Lengths)])]
    BY <2>1, <2>2 DEF Matches
  <2>4. body = BodyOf(file, Lengths)
    BY LengthsAre DEF Matches
  <2> QED  BY <2>3, <2>4 DEF BodyOf
<1> QED  BY <1>2, <1>3, <1>4

\* The cells of a tuple are in the body, from where the tuple begins.
LEMMA BodyHas ==
  ASSUME Matches
  PROVE  \A e \in 1 .. Len(elements) : \A t \in 0 .. Tuples(e) - 1 :
           \A j \in 1 .. Len(TupleCells(file, e, t, Lengths)) :
             /\ At(BodyParts, e, t) + j \in 1 .. Len(body)
             /\ body[At(BodyParts, e, t) + j] = TupleCells(file, e, t, Lengths)[j]
<1> DEFINE xs == BodyParts
<1>1. /\ xs \in Seq(Seq(Seq(AllCells))) /\ Len(xs) = Len(elements)
      /\ \A e \in 1 .. Len(elements) : Len(xs[e]) = Tuples(e)
      /\ \A e \in 1 .. Len(elements) : \A t \in 0 .. Tuples(e) - 1 :
           xs[e][t + 1] = TupleCells(file, e, t, Lengths)
      /\ body = FlattenSeq(Flats(xs))
  BY BodyIs
<1> HIDE DEF xs
<1>2. xs \in Seq(Seq(Seq(AllCells)))
  BY <1>1
<1>3. InPlace(xs)
  BY <1>2, AllInPlace
<1>4. ASSUME NEW e \in 1 .. Len(elements), NEW t \in 0 .. Tuples(e) - 1,
             NEW j \in 1 .. Len(TupleCells(file, e, t, Lengths))
      PROVE  /\ At(xs, e, t) + j \in 1 .. Len(body)
             /\ body[At(xs, e, t) + j] = TupleCells(file, e, t, Lengths)[j]
  <2>1. /\ xs[e][t + 1] = TupleCells(file, e, t, Lengths) /\ e \in 1 .. Len(xs)
        /\ t \in 0 .. Len(xs[e]) - 1
    BY <1>1
  <2>2. j \in 1 .. Len(xs[e][t + 1])
    BY <2>1
  <2>3. /\ At(xs, e, t) + j \in 1 .. Len(FlattenSeq(Flats(xs)))
        /\ FlattenSeq(Flats(xs))[At(xs, e, t) + j] = xs[e][t + 1][j]
    BY <1>3, <2>1, <2>2 DEF InPlace
  <2> QED  BY <1>1, <2>1, <2>3
<1> QED  BY <1>4 DEF xs

\* Where the cells of a tuple begin and end.
LEMMA TupleAt ==
  ASSUME Matches, NEW e \in 1 .. Len(elements), NEW t \in 0 .. Tuples(e) - 1
  PROVE  /\ At(BodyParts, e, t) \in Nat /\ At(BodyParts, e, t + 1) \in Nat
         /\ At(BodyParts, e, t + 1) = Pos(e, t, Len(Props(e)) + 1) + Break
         /\ \A p \in 1 .. Len(Props(e)) + 1 : Pos(e, t, p) \in Nat
         /\ \A p \in 1 .. Len(Props(e)) : Pos(e, t, p + 1) = Pos(e, t, p) + Len(Cells(e, t, p))
         /\ Pos(e, t, 1) = At(BodyParts, e, t)
         /\ At(BodyParts, e, Tuples(e)) = Off(Flats(BodyParts), e)
         /\ At(BodyParts, e, 0) = Off(Flats(BodyParts), e - 1) /\ At(BodyParts, 1, 0) = 0
<1> DEFINE n == Len(Props(e))
           tp == TupleParts(e, t)
           a == At(BodyParts, e, t)
<1>1. n \in Nat /\ Tuples(e) \in Nat
  BY ElementIs DEF Matches
<1>2. /\ BodyParts \in Seq(Seq(Seq(AllCells))) /\ Len(BodyParts) = Len(elements)
      /\ Len(BodyParts[e]) = Tuples(e) /\ BodyParts[e][t + 1] = TupleCells(file, e, t, Lengths)
  BY BodyIs
<1>3. /\ tp \in Seq(Seq(AllCells)) /\ Len(tp) = n
      /\ \A p \in 1 .. n : tp[p] = Cells(e, t, p)
      /\ Len(TupleCells(file, e, t, Lengths)) = Off(tp, n) + Break
  BY TupleIs DEF Laid
<1>4. /\ Off(tp, 0) = 0 /\ \A i \in 0 .. n : Off(tp, i) \in Nat
      /\ \A i \in 1 .. n : Off(tp, i) = Off(tp, i - 1) + Len(tp[i]) /\ Len(tp[i]) \in Nat
  <2> HIDE DEF tp, n
  <2> QED  BY <1>3, OffStep
<1>5. /\ a \in Nat /\ At(BodyParts, e, t + 1) \in Nat
      /\ At(BodyParts, e, t + 1) = a + Len(BodyParts[e][t + 1])
      /\ At(BodyParts, e, Tuples(e)) = Off(Flats(BodyParts), e)
      /\ At(BodyParts, e, 0) = Off(Flats(BodyParts), e - 1) /\ At(BodyParts, 1, 0) = 0
  <2>1. e \in 1 .. Len(BodyParts) /\ t \in 0 .. Len(BodyParts[e]) - 1
    BY <1>2
  <2>2. BodyParts \in Seq(Seq(Seq(AllCells)))
    BY <1>2
  <2>3. /\ At(BodyParts, e, t) \in Nat /\ At(BodyParts, e, t + 1) \in Nat
        /\ At(BodyParts, e, t + 1) = At(BodyParts, e, t) + Len(BodyParts[e][t + 1])
        /\ At(BodyParts, e, Len(BodyParts[e])) = Off(Flats(BodyParts), e)
        /\ At(BodyParts, e, 0) = Off(Flats(BodyParts), e - 1) /\ At(BodyParts, 1, 0) = 0
    BY <2>1, <2>2, AtNext
  <2> QED  BY <1>2, <2>3
<1>6. \A p : Pos(e, t, p) = a + Off(tp, p - 1)
  BY DEF Pos
<1> HIDE DEF tp, n, a
<1>7. \A p \in 1 .. n + 1 : Pos(e, t, p) \in Nat
  <2>1. \A p \in 1 .. n + 1 : p - 1 \in 0 .. n
    BY <1>1
  <2> QED  BY <1>4, <1>5, <1>6, <2>1
<1>8. ASSUME NEW p \in 1 .. n PROVE Pos(e, t, p + 1) = Pos(e, t, p) + Len(Cells(e, t, p))
  <2>1. (p + 1) - 1 = p /\ p - 1 \in 0 .. n /\ p \in 0 .. n
    BY <1>1
  <2>2. Pos(e, t, p + 1) = a + Off(tp, p) /\ Pos(e, t, p) = a + Off(tp, p - 1)
    BY <1>6, <2>1
  <2>3. /\ Off(tp, p) = Off(tp, p - 1) + Len(Cells(e, t, p))
        /\ Len(Cells(e, t, p)) \in Nat /\ Off(tp, p - 1) \in Nat
    BY <1>3, <1>4, <2>1
  <2> QED  BY <1>5, <2>2, <2>3
<1>9. Pos(e, t, 1) = a
  <2>1. 1 - 1 = 0
    OBVIOUS
  <2>2. Pos(e, t, 1) = a + Off(tp, 0)
    BY <1>6, <2>1
  <2> QED  BY <1>4, <1>5, <2>2
<1>10. At(BodyParts, e, t + 1) = Pos(e, t, n + 1) + Break
  <2>1. (n + 1) - 1 = n /\ n \in 0 .. n
    BY <1>1
  <2>2. Pos(e, t, n + 1) = a + Off(tp, n) /\ Off(tp, n) \in Nat
    BY <1>4, <1>6, <2>1
  <2>3. Break \in Nat
    BY DEF Break
  <2>4. At(BodyParts, e, t + 1) = a + (Off(tp, n) + Break) /\ a \in Nat
    BY <1>2, <1>3, <1>5
  <2> QED  BY <2>2, <2>3, <2>4
<1> QED  BY <1>5, <1>7, <1>8, <1>9, <1>10 DEF n, a

\* Where the next value begins.
LEMMA NextPlace ==
  ASSUME Matches, NEW e \in 1 .. Len(elements), NEW t \in 0 .. Tuples(e) - 1
  PROVE  /\ Pos(e, t + 1, 1) = Pos(e, t, Len(Props(e)) + 1) + Break
         /\ t + 1 = Tuples(e) /\ e < Len(elements) =>
              Pos(e + 1, 0, 1) = Pos(e, t, Len(Props(e)) + 1) + Break
         /\ e = 1 /\ t = 0 => Pos(e, t, 1) = 0
<1>1. /\ At(BodyParts, e, t + 1) \in Nat
      /\ At(BodyParts, e, t + 1) = Pos(e, t, Len(Props(e)) + 1) + Break
      /\ Pos(e, t, 1) = At(BodyParts, e, t)
      /\ At(BodyParts, e, Tuples(e)) = Off(Flats(BodyParts), e) /\ At(BodyParts, 1, 0) = 0
  BY TupleAt
<1>2. \A d, s : Pos(d, s, 1) = At(BodyParts, d, s) + 0
  <2>1. 1 - 1 = 0
    OBVIOUS
  <2> QED  BY <2>1 DEF Pos, Off
<1>3. Pos(e, t + 1, 1) = At(BodyParts, e, t + 1)
  BY <1>1, <1>2
<1>4. ASSUME t + 1 = Tuples(e), e < Len(elements)
      PROVE  Pos(e + 1, 0, 1) = At(BodyParts, e, t + 1)
  <2>1. BodyParts \in Seq(Seq(Seq(AllCells))) /\ Len(BodyParts) = Len(elements) /\ Len(elements) \in Nat
    BY BodyIs, ElementIs DEF Matches
  <2>2. e + 1 \in 1 .. Len(BodyParts) /\ (e + 1) - 1 = e
    BY <1>4, <2>1
  <2>3. At(BodyParts, e + 1, 0) = Off(Flats(BodyParts), e)
    BY <2>1, <2>2, AtStep
  <2> QED  BY <1>1, <1>2, <1>4, <2>3
<1> QED  BY <1>1, <1>3, <1>4

\* What the cells at a place are.
LEMMA PlaceHas ==
  ASSUME Matches, NEW e, NEW t, NEW p, Valid(e, t, p), NEW k \in 1 .. Len(Cells(e, t, p))
  PROVE  body[Pos(e, t, p) + k] = Cells(e, t, p)[k]
<1> DEFINE n == Len(Props(e))
           tp == TupleParts(e, t)
           a == At(BodyParts, e, t)
           j == Off(tp, p - 1) + k
           c == TupleCells(file, e, t, Lengths)
<1>1. e \in 1 .. Len(elements) /\ t \in 0 .. Tuples(e) - 1 /\ p \in 1 .. n
  BY DEF Valid
<1>2. /\ BodyParts \in Seq(Seq(Seq(AllCells))) /\ Len(BodyParts) = Len(elements)
      /\ Len(BodyParts[e]) = Tuples(e) /\ BodyParts[e][t + 1] = c
      /\ body = FlattenSeq(Flats(BodyParts))
  BY <1>1, BodyIs
<1>3. /\ tp \in Seq(Seq(AllCells)) /\ Len(tp) = n /\ tp[p] = Cells(e, t, p)
      /\ c \in Seq(AllCells) /\ Len(c) = Off(tp, n) + Break
      /\ \A i \in 1 .. Len(FlattenSeq(tp)) : c[i] = FlattenSeq(tp)[i]
  BY <1>1, TupleIs DEF Laid
<1>4. n \in Nat /\ Tuples(e) \in Nat
  BY <1>1, ElementIs DEF Matches
<1>5. a \in Nat /\ Pos(e, t, p) = a + Off(tp, p - 1)
  BY <1>1, TupleAt DEF Pos
<1> HIDE DEF tp, n, a, c
<1>6. j \in 1 .. Len(FlattenSeq(tp)) /\ FlattenSeq(tp)[j] = Cells(e, t, p)[k]
  <2>1. \A h \in 1 .. Len(tp) : \A i \in 1 .. Len(tp[h]) :
          /\ Off(tp, h - 1) + i \in 1 .. Len(FlattenSeq(tp))
          /\ FlattenSeq(tp)[Off(tp, h - 1) + i] = tp[h][i]
    BY <1>3, Flat
  <2>2. p \in 1 .. Len(tp) /\ k \in 1 .. Len(tp[p])
    BY <1>1, <1>3
  <2> QED  BY <1>3, <2>1, <2>2
<1>7. /\ Len(FlattenSeq(tp)) = Off(tp, n) /\ Off(tp, n) \in Nat /\ Off(tp, p - 1) \in Nat
      /\ Break \in Nat
  <2>1. n \in 0 .. n /\ p - 1 \in 0 .. n
    BY <1>1, <1>4
  <2> QED  BY <1>3, <2>1, Flat, OffStep DEF Break
<1>8. j \in 1 .. Len(c) /\ c[j] = Cells(e, t, p)[k] /\ j \in Nat
  <2> HIDE DEF j
  <2> QED  BY <1>3, <1>6, <1>7
<1>9. \A i \in 1 .. Len(c) : body[a + i] = c[i]
  <2>1. \A i \in 1 .. Len(TupleCells(file, e, t, Lengths)) :
          /\ At(BodyParts, e, t) + i \in 1 .. Len(body)
          /\ body[At(BodyParts, e, t) + i] = TupleCells(file, e, t, Lengths)[i]
    BY <1>1, BodyHas
  <2> QED  BY <2>1 DEF a, c
<1>10. Pos(e, t, p) + k = a + j
  <2>1. k \in Nat
    <3>1. Len(Cells(e, t, p)) \in Nat
      BY CellsAre
    <3> QED  BY <3>1
  <2> QED  BY <1>5, <1>7, <2>1
<1> HIDE DEF j
<1> QED  BY <1>8, <1>9, <1>10

\* There is nothing in the body but values and the ends of lines.
LEMMA RestOfBody ==
  ASSUME Matches, NEW k \in 1 .. Len(body), body[k] # Newline
  PROVE  \E e, t, p : Valid(e, t, p) /\ k <= Pos(e, t, p + 1)
<1>1. /\ BodyParts \in Seq(Seq(Seq(AllCells))) /\ Len(BodyParts) = Len(elements)
      /\ \A e \in 1 .. Len(elements) : Len(BodyParts[e]) = Tuples(e)
      /\ \A e \in 1 .. Len(elements) : \A t \in 0 .. Tuples(e) - 1 :
           BodyParts[e][t + 1] = TupleCells(file, e, t, Lengths)
      /\ body = FlattenSeq(Flats(BodyParts))
  BY BodyIs
<1>2. PICK e \in 1 .. Len(BodyParts) : \E t \in 0 .. Len(BodyParts[e]) - 1 :
              \E j \in 1 .. Len(BodyParts[e][t + 1]) : k = At(BodyParts, e, t) + j
  BY <1>1, AtHas
<1>3. PICK t \in 0 .. Len(BodyParts[e]) - 1 :
              \E j \in 1 .. Len(BodyParts[e][t + 1]) : k = At(BodyParts, e, t) + j
  BY <1>2
<1>4. PICK j \in 1 .. Len(BodyParts[e][t + 1]) : k = At(BodyParts, e, t) + j
  BY <1>3
<1> DEFINE n == Len(Props(e))
           tp == TupleParts(e, t)
           c == TupleCells(file, e, t, Lengths)
<1>5. /\ e \in 1 .. Len(elements) /\ t \in 0 .. Tuples(e) - 1 /\ j \in 1 .. Len(c)
      /\ BodyParts[e][t + 1] = c
  BY <1>1, <1>2, <1>3, <1>4
<1>6. /\ tp \in Seq(Seq(AllCells)) /\ Len(tp) = n /\ c \in Seq(AllCells)
      /\ \A i \in 1 .. Len(c) : i > Off(tp, n) => c[i] = Newline
  BY <1>5, TupleIs DEF Laid
<1>7. n \in Nat /\ At(BodyParts, e, t) \in Nat /\ Pos(e, t, n + 1) = At(BodyParts, e, t) + Off(tp, n)
  <2>1. n \in Nat /\ At(BodyParts, e, t) \in Nat
    BY <1>5, ElementIs, TupleAt DEF Matches
  <2>2. (n + 1) - 1 = n
    BY <2>1
  <2> QED  BY <2>1, <2>2 DEF Pos
<1>8. body[k] = c[j]
  BY <1>4, <1>5, BodyHas
<1>9. j \in Nat /\ Off(tp, n) \in Nat /\ ~(j > Off(tp, n))
  <2>1. n \in 0 .. Len(tp)
    BY <1>6, <1>7
  <2>2. Off(tp, n) \in Nat
    BY <1>6, <2>1, OffStep
  <2>3. Len(c) \in Nat
    BY <1>6
  <2> HIDE DEF c, tp, n
  <2> QED  BY <1>5, <1>6, <1>8, <2>2, <2>3
<1>10. n # 0
  <2>1. n = 0 => Off(tp, n) = 0
    BY DEF Off
  <2>2. j # 0
    <3>1. Len(c) \in Nat
      BY <1>6
    <3> HIDE DEF c
    <3> QED  BY <1>5, <3>1
  <2> QED  BY <1>9, <2>1, <2>2
<1>11. Valid(e, t, n) /\ k <= Pos(e, t, n + 1)
  <2>1. n \in 1 .. n
    BY <1>7, <1>10
  <2>2. k <= Pos(e, t, n + 1)
    <3> HIDE DEF n, tp
    <3> QED  BY <1>4, <1>7, <1>9
  <2> QED  BY <1>5, <2>1, <2>2 DEF Valid
<1> HIDE DEF n
<1> QED  BY <1>11

\* A value ends before those behind it.
LEMMA PlacesInOrder ==
  ASSUME Matches, NEW e, NEW t, NEW p, Valid(e, t, p),
         NEW d, NEW s, NEW q, Valid(d, s, q), Behind(e, t, p, d, s, q)
  PROVE  Pos(e, t, p + 1) <= Pos(d, s, q)
<1>1. /\ e \in 1 .. Len(elements) /\ t \in 0 .. Tuples(e) - 1 /\ p \in 1 .. Len(Props(e))
      /\ d \in 1 .. Len(elements) /\ s \in 0 .. Tuples(d) - 1 /\ q \in 1 .. Len(Props(d))
  BY DEF Valid
<1>2. /\ Len(Props(e)) \in Nat /\ Len(Props(d)) \in Nat /\ Tuples(d) \in Nat
  BY <1>1, ElementIs DEF Matches
<1>3. ASSUME NEW i \in 1 .. Len(elements), NEW u \in 0 .. Tuples(i) - 1,
             NEW x \in 1 .. Len(Props(i)) + 1, NEW y \in 1 .. Len(Props(i)) + 1, x <= y
      PROVE  Pos(i, u, x) <= Pos(i, u, y)
  <2> DEFINE tp == TupleParts(i, u)
             n == Len(Props(i))
             a == At(BodyParts, i, u)
  <2>1. n \in Nat /\ tp \in Seq(Seq(AllCells)) /\ Len(tp) = n /\ a \in Nat
    BY ElementIs, TupleIs, TupleAt DEF Matches, Laid
  <2>2. Pos(i, u, x) = a + Off(tp, x - 1) /\ Pos(i, u, y) = a + Off(tp, y - 1)
    BY DEF Pos
  <2> HIDE DEF tp, n, a
  <2>3. x \in 1 .. n + 1 /\ y \in 1 .. n + 1
    BY <1>3 DEF n
  <2>4. x - 1 \in 0 .. Len(tp) /\ y - 1 \in x - 1 .. Len(tp) /\ y - 1 \in 0 .. Len(tp)
    BY <1>3, <2>1, <2>3
  <2>5. Off(tp, x - 1) \in Nat /\ Off(tp, y - 1) \in Nat /\ Off(tp, x - 1) <= Off(tp, y - 1)
    BY <2>1, <2>4, OffStep, OffGrows
  <2> QED  BY <2>1, <2>2, <2>5
<1>4. p + 1 \in 1 .. Len(Props(e)) + 1 /\ q \in 1 .. Len(Props(d)) + 1
      /\ Len(Props(e)) + 1 \in 1 .. Len(Props(e)) + 1 /\ p + 1 <= Len(Props(e)) + 1
      /\ 1 \in 1 .. Len(Props(d)) + 1 /\ 1 <= q /\ q \in Nat /\ p \in Nat
  BY <1>1, <1>2
<1>5. CASE Earlier(e, t, d, s)
  <2>1. /\ BodyParts \in Seq(Seq(Seq(AllCells))) /\ Len(BodyParts) = Len(elements)
        /\ Len(BodyParts[e]) = Tuples(e) /\ Len(BodyParts[d]) = Tuples(d)
    BY <1>1, BodyIs
  <2>2. s \in 0 .. Tuples(d)
    BY <1>1, <1>2
  <2>3. At(BodyParts, e, t + 1) <= At(BodyParts, d, s)
    BY <1>1, <1>5, <2>1, <2>2, AtGrows
  <2>4. Pos(e, t, p + 1) <= Pos(e, t, Len(Props(e)) + 1) /\ Pos(d, s, 1) <= Pos(d, s, q)
    BY <1>1, <1>3, <1>4
  <2>5. /\ At(BodyParts, e, t + 1) = Pos(e, t, Len(Props(e)) + 1) + Break
        /\ \A x \in 1 .. Len(Props(e)) + 1 : Pos(e, t, x) \in Nat
        /\ At(BodyParts, e, t + 1) \in Nat
    BY <1>1, TupleAt
  <2>6. /\ Pos(d, s, 1) = At(BodyParts, d, s) /\ At(BodyParts, d, s) \in Nat
        /\ \A x \in 1 .. Len(Props(d)) + 1 : Pos(d, s, x) \in Nat
    BY <1>1, TupleAt
  <2>7. Break \in Nat
    BY DEF Break
  <2>8. /\ Pos(e, t, p + 1) \in Nat /\ Pos(e, t, Len(Props(e)) + 1) \in Nat /\ Pos(d, s, q) \in Nat
    BY <1>4, <2>5, <2>6
  <2> QED  BY <2>3, <2>4, <2>5, <2>6, <2>7, <2>8
<1>6. CASE e = d /\ t = s /\ p < q
  <2>1. p + 1 <= q
    BY <1>4, <1>6
  <2> QED  BY <1>1, <1>3, <1>4, <1>6, <2>1
<1> QED  BY <1>5, <1>6 DEF Behind


-----------------------------------------------------------------------------
(* The order of the turns.                                                 *)

LEMMA Later ==
  ASSUME elements \in Seq(Elements), NEW e, NEW t, NEW p, Valid(e, t, p),
         NEW d, NEW s, NEW q, Valid(d, s, q), Index(e, t, p) < Index(d, s, q)
  PROVE  Behind(e, t, p, d, s, q)
<1>1. /\ e \in Nat /\ t \in Nat /\ p \in Nat /\ Index(e, t, p) \in Nat
      /\ d \in Nat /\ s \in Nat /\ q \in Nat /\ Index(d, s, q) \in Nat
  BY LoopHas
<1>2. ~Behind(d, s, q, e, t, p)
  <2>1. ~(Index(d, s, q) < Index(e, t, p))
    BY <1>1
  <2> QED  BY <2>1, TurnsInOrder
<1>3. ~(e = d /\ t = s /\ p = q)
  BY <1>1
<1> QED  BY <1>1, <1>2, <1>3 DEF Behind, Earlier

LEMMA AskedIs ==
  ASSUME elements \in Seq(Elements), at \in 0 .. Len(Loops) - 1
  PROVE  \E e, t, p : Valid(e, t, p) /\ at + 1 = Index(e, t, p) /\ Asked = <<e, t, p>>
<1>1. Len(Loops) \in Nat
  BY LoopHas
<1>2. at + 1 \in 1 .. Len(Loops)
  BY <1>1
<1>3. PICK e, t, p : Valid(e, t, p) /\ at + 1 = Index(e, t, p)
  BY <1>2, LoopHas
<1>4. Asked = <<e, t, p>>
  <2>1. Loops[Index(e, t, p)] = <<e, t, p>>
    BY <1>3, LoopHas
  <2> QED  BY <1>3, <2>1 DEF Asked
<1> QED  BY <1>3, <1>4

Skipped == \E e \in 1 .. Asked[1] - 1 : Hollow(e)

\* The loops pass over an element without tuples or properties, the cursor goes
\* to it.
LEMMA PassedOver ==
  ASSUME elements \in Seq(Elements), at \in 0 .. Len(Loops) - 1,
         NEW d \in 1 .. Len(elements), ~Valid(d, 0, 1), Asked[1] >= d
  PROVE  /\ d \in 1 .. Asked[1] - 1 /\ Hollow(d) /\ Asked[1] # d
<1>1. PICK e, t, p : Valid(e, t, p) /\ at + 1 = Index(e, t, p) /\ Asked = <<e, t, p>>
  BY AskedIs
<1>2. /\ e \in 1 .. Len(elements) /\ t \in 0 .. Tuples(e) - 1 /\ p \in 1 .. Len(Props(e))
      /\ Asked[1] = e
  BY <1>1 DEF Valid
<1>3. /\ Len(elements) \in Nat /\ Tuples(e) \in Nat /\ Tuples(d) \in Nat
      /\ Props(d) \in Seq(Properties) /\ Len(Props(d)) \in Nat /\ Len(Props(e)) \in Nat
  BY <1>2, ElementIs
<1>4. Tuples(d) = 0 \/ Len(Props(d)) = 0
  <2>1. ~(0 \in 0 .. Tuples(d) - 1 /\ 1 \in 1 .. Len(Props(d)))
    BY DEF Valid
  <2> QED  BY <1>3, <2>1
<1>5. Hollow(d)
  BY <1>3, <1>4 DEF Hollow
<1>6. e # d
  BY <1>2, <1>3, <1>4
<1> QED  BY <1>2, <1>3, <1>5, <1>6

\* Where the cursor goes from the last property of a tuple.
LEMMA CursorFollows ==
  ASSUME elements \in Seq(Elements), at \in 0 .. Len(Loops) - 1,
         NEW e, NEW t, NEW p, Valid(e, t, p), p = Len(Props(e)), at = Index(e, t, p),
         NEW d, NEW s, d = Following(e, t)[1], s = Following(e, t)[2]
  PROVE  /\ d \in 1 .. Len(elements)
         /\ \/ d = e /\ s = t + 1 /\ Valid(d, s, 1)
            \/ d = e + 1 /\ s = 0 /\ t + 1 = Tuples(e) /\ e < Len(elements) /\ Asked[1] >= d
         /\ Valid(d, s, 1) => at + 1 = Index(d, s, 1)
<1>1. /\ e \in 1 .. Len(elements) /\ t \in 0 .. Tuples(e) - 1 /\ p \in 1 .. Len(Props(e))
  BY DEF Valid
<1>2. /\ Len(elements) \in Nat /\ Tuples(e) \in Nat /\ Len(Props(e)) \in Nat
  BY <1>1, ElementIs
<1>3. PICK i, j, k : Valid(i, j, k) /\ at + 1 = Index(i, j, k) /\ Asked = <<i, j, k>>
  BY AskedIs
<1>4. Behind(e, t, p, i, j, k)
  <2>1. Index(e, t, p) < Index(i, j, k)
    <3>1. Index(e, t, p) \in Nat
      BY LoopHas
    <3> QED  BY <1>3, <3>1
  <2> QED  BY <1>3, <2>1, Later
<1>5. /\ i \in 1 .. Len(elements) /\ j \in 0 .. Tuples(i) - 1 /\ k \in 1 .. Len(Props(i))
      /\ Asked[1] = i
  BY <1>3 DEF Valid
<1>6. CASE t + 1 < Tuples(e)
  <2>1. d = e /\ s = t + 1
    BY <1>6 DEF Following
  <2>2. Valid(d, s, 1)
    BY <1>1, <1>2, <1>6, <2>1 DEF Valid
  <2>3. Index(e, t + 1, 1) = Index(e, t, p) + 1
    BY <1>1, NextTurn
  <2> QED  BY <1>1, <2>1, <2>2, <2>3
<1>7. CASE ~(t + 1 < Tuples(e))
  <2>1. t + 1 = Tuples(e)
    BY <1>1, <1>2, <1>7
  <2>2. e < i
    <3>1. e = i => j <= t /\ k <= p
      <4>1. CASE e = i
        <5>1. j \in 0 .. Tuples(e) - 1 /\ k \in 1 .. Len(Props(e))
          BY <1>5, <4>1
        <5> QED  BY <1>1, <1>2, <2>1, <5>1
      <4> QED  BY <4>1
    <3>2. t \in Int /\ p \in Int /\ (e = i => j \in Int /\ k \in Int)
      BY <1>1, <1>2, <1>5
    <3> QED  BY <1>4, <3>1, <3>2 DEF Behind, Earlier
  <2>3. e < Len(elements) /\ i >= e + 1
    BY <1>1, <1>2, <1>5, <2>2
  <2>4. e % Len(elements) = e
    <3> DEFINE n == Len(elements)
    <3>1. n \in Int /\ n > 0 /\ e \in 0 .. n - 1
      BY <1>1, <1>2, <2>3
    <3> HIDE DEF n
    <3>2. (0 * n + e) % n = e /\ 0 * n + e = e
      BY <3>1, Quotient
    <3> QED  BY <3>2 DEF n
  <2>5. d = e + 1 /\ s = 0
    BY <1>7, <2>4 DEF Following
  <2>6. Index(e + 1, 0, 1) = Index(e, t, p) + 1
    BY <1>1, <2>1, <2>3, NextTurn
  <2>7. d \in 1 .. Len(elements)
    BY <1>1, <1>2, <2>3, <2>5
  <2> QED  BY <1>5, <2>1, <2>3, <2>5, <2>6, <2>7
<1> QED  BY <1>6, <1>7


-----------------------------------------------------------------------------
(* The invariant.                                                          *)

\* Before the first value, after one and before one.
BeforeFirst == property = 0 /\ at = 0 /\ dropped + offset = 0
After(e, t, p) ==
  /\ cursor = <<e, t, p>> /\ Valid(e, t, p)
  /\ at = Index(e, t, p) /\ dropped + offset = Pos(e, t, p + 1)
AtValue(e, t, p) ==
  /\ cursor = <<e, t, p>> /\ Valid(e, t, p)
  /\ at + 1 = Index(e, t, p) /\ dropped + offset = Pos(e, t, p)

\* Behind the length of a list, and those of its items that were read.
ListLength(e, t, p) == Lengths[<<e, t, p>>]
InList(e, t, p, k) ==
  /\ cursor = <<e, t, p>> /\ Valid(e, t, p) /\ FileProp(e, p).list
  /\ at + 1 = Index(e, t, p)
  /\ k \in 0 .. ListLength(e, t, p) - 1 /\ items = ListLength(e, t, p) - k
  /\ dropped + offset =
       Pos(e, t, p) + ItemAt(<<e, t, p>>, FileProp(e, p), ListLength(e, t, p), k)

\* The loops have a turn to come.
MoreToDo == at \in 0 .. Len(Loops) - 1
StreamInv ==
  /\ body \in Bodies(file) /\ dropped \in Nat /\ offset \in Nat
  /\ pc \in {"start", "lines", "accepted"} => dropped = 0
  /\ last.told = last.was
  /\ pc = "advance" => MoreToDo /\ (BeforeFirst \/ \E e, t, p : After(e, t, p))
  /\ pc = "read" => MoreToDo /\ ((\E e, t, p : AtValue(e, t, p)) \/ (cursor # Asked /\ Skipped))
  /\ pc = "list" => MoreToDo /\ \E e, t, p, k : InList(e, t, p, k)
  /\ pc = "astray" => Skipped
  /\ CrashesExplained
  /\ AllRead

\* The file and what is known of it stay, and with them what is said of a value.
LEMMA Unmoved ==
  ASSUME UNCHANGED headerOnly
  PROVE  /\ file' = file /\ body' = body /\ next' = next /\ elements' = elements /\ format' = format
         /\ Loops' = Loops /\ Lengths' = Lengths /\ Break' = Break
         /\ \A e : Hollow(e)' <=> Hollow(e)
         /\ \A e, t, p : Valid(e, t, p)' <=> Valid(e, t, p)
         /\ \A e, t, p : Index(e, t, p)' = Index(e, t, p)
         /\ \A e, t, p : Pos(e, t, p)' = Pos(e, t, p)
         /\ \A e, p : FileProp(e, p)' = FileProp(e, p)
<1>1. /\ file' = file /\ body' = body /\ next' = next /\ elements' = elements /\ format' = format
      /\ memorySize' = memorySize
  BY DEF headerOnly, setup, learnt
<1>2. (\A e : Tuples(e)' = Tuples(e) /\ Props(e)' = Props(e)) /\ Loops' = Loops
  BY <1>1 DEF Tuples, Props, Loops
<1>3. Lengths' = Lengths /\ \A e, p : FileProp(e, p)' = FileProp(e, p)
  BY <1>1 DEF Lengths, FileProp
<1>4. Break' = Break
  BY <1>1 DEF Break, Ascii
<1>5. \A e : Hollow(e)' <=> Hollow(e)
  BY <1>2 DEF Hollow
<1>6. \A e, t, p : Valid(e, t, p)' <=> Valid(e, t, p)
  BY <1>1, <1>2 DEF Valid
<1>7. LoopParts' = LoopParts
  BY <1>1 DEF LoopParts, TupleLoop, Tuples, Props
<1>8. BodyParts' = BodyParts
  BY <1>1, <1>3 DEF BodyParts, Tuples
<1>9. \A e, t, p : Index(e, t, p)' = Index(e, t, p)
  BY <1>7 DEF Index, At
<1>10. \A e, t : TupleParts(e, t)' = TupleParts(e, t)
  BY <1>1, <1>3 DEF TupleParts, Cells, FileProp, Props
<1>11. \A e, t, p : Pos(e, t, p)' = Pos(e, t, p)
  BY <1>8, <1>10 DEF Pos, At
<1> QED  BY <1>1, <1>2, <1>3, <1>4, <1>5, <1>6, <1>9, <1>11


-----------------------------------------------------------------------------
(* The steps.                                                              *)

LEMMA GoesOn ==
  ASSUME StreamInv, UNCHANGED headerOnly, dropped' \in Nat, offset' \in Nat, last'.told = last'.was,
         \/ pc' \in {"error", "failed", "stale"}
         \/ pc' = "advance" /\ MoreToDo' /\ (BeforeFirst' \/ \E e, t, p : After(e, t, p)')
         \/ pc' = "read" /\ MoreToDo'
              /\ ((\E e, t, p : AtValue(e, t, p)') \/ (cursor # Asked /\ Skipped)')
         \/ pc' = "list" /\ MoreToDo' /\ \E e, t, p, k : InList(e, t, p, k)'
         \/ pc' = "done" /\ AllRead'
         \/ pc' = "crashed" /\ CrashesExplained'
         \/ pc' = "astray" /\ Skipped'
  PROVE  StreamInv'
<1>1. (body \in Bodies(file))'
  BY Unmoved DEF StreamInv
<1>2. pc' # "done" => AllRead'
  BY DEF AllRead
<1>3. pc' # "crashed" => CrashesExplained'
  BY DEF CrashesExplained
<1> HIDE DEF CrashesExplained, AllRead, MoreToDo, BeforeFirst, After, AtValue, InList, Skipped
<1> QED  BY <1>1, <1>2, <1>3 DEF StreamInv

\* What the loops are done with is read; behind the last value there is nothing.
LEMMA NothingLeft ==
  ASSUME Matches, NEW o \in Nat,
         \/ Len(Loops) = 0
         \/ \E e, t, p : Valid(e, t, p) /\ Index(e, t, p) = Len(Loops) /\ o = Pos(e, t, p + 1)
  PROVE  \A i \in o + 1 .. Len(body) : body[i] = Newline
<1> SUFFICES ASSUME NEW i \in o + 1 .. Len(body), body[i] # Newline PROVE FALSE
  OBVIOUS
<1>1. elements \in Seq(Elements)
  BY DEF Matches
<1>2. Len(body) \in Nat
  <2>1. BodyParts \in Seq(Seq(Seq(AllCells))) /\ body = FlattenSeq(Flats(BodyParts))
    BY BodyIs
  <2>2. body \in Seq(AllCells)
    BY <2>1, AtStep
  <2> QED  BY <2>2
<1>3. i \in 1 .. Len(body) /\ i > o
  BY <1>2
<1>4. PICK d, s, q : Valid(d, s, q) /\ i <= Pos(d, s, q + 1)
  BY <1>3, RestOfBody
<1>5. Len(Loops) \in Nat /\ Index(d, s, q) \in 1 .. Len(Loops)
  BY <1>1, <1>4, LoopHas
<1>6. PICK e, t, p : Valid(e, t, p) /\ Index(e, t, p) = Len(Loops) /\ o = Pos(e, t, p + 1)
  BY <1>5
<1>7. /\ e \in Nat /\ t \in Nat /\ p \in Nat /\ d \in Nat /\ s \in Nat /\ q \in Nat
  BY <1>1, <1>4, <1>6, LoopHas
<1>8. ~Behind(e, t, p, d, s, q)
  <2>1. ~(Index(e, t, p) < Index(d, s, q))
    BY <1>5, <1>6
  <2> QED  BY <1>1, <1>4, <1>6, <2>1, TurnsInOrder
<1>9. (e = d /\ t = s /\ p = q) \/ Behind(d, s, q, e, t, p)
  BY <1>7, <1>8 DEF Behind, Earlier
<1>10. /\ Pos(e, t, p) \in Nat /\ Pos(e, t, p + 1) \in Nat /\ Pos(d, s, q + 1) \in Nat
       /\ Pos(e, t, p) <= Pos(e, t, p + 1)
  <2>1. /\ e \in 1 .. Len(elements) /\ t \in 0 .. Tuples(e) - 1 /\ p \in 1 .. Len(Props(e))
        /\ d \in 1 .. Len(elements) /\ s \in 0 .. Tuples(d) - 1 /\ q \in 1 .. Len(Props(d))
    BY <1>4, <1>6 DEF Valid
  <2>2. Len(Props(e)) \in Nat /\ Len(Props(d)) \in Nat
    BY <1>1, <2>1, ElementIs
  <2>3. /\ p \in 1 .. Len(Props(e)) + 1 /\ p + 1 \in 1 .. Len(Props(e)) + 1
        /\ q + 1 \in 1 .. Len(Props(d)) + 1
    BY <2>1, <2>2
  <2>4. Pos(e, t, p) \in Nat /\ Pos(e, t, p + 1) \in Nat
        /\ Pos(e, t, p + 1) = Pos(e, t, p) + Len(Cells(e, t, p))
    BY <2>1, <2>3, TupleAt
  <2>5. Pos(d, s, q + 1) \in Nat
    BY <2>1, <2>3, TupleAt
  <2>6. Len(Cells(e, t, p)) \in Nat
    <3>1. Cells(e, t, p) \in Seq(AllCells)
      BY <1>6, CellsAre
    <3> QED  BY <3>1
  <2> QED  BY <2>4, <2>5, <2>6
<1>11. Pos(d, s, q + 1) <= Pos(e, t, p + 1)
  <2>1. CASE e = d /\ t = s /\ p = q
    BY <1>10, <2>1
  <2>2. CASE Behind(d, s, q, e, t, p)
    <3>1. Pos(d, s, q + 1) <= Pos(e, t, p)
      BY <1>4, <1>6, <2>2, PlacesInOrder
    <3> QED  BY <1>10, <3>1
  <2> QED  BY <1>9, <2>1, <2>2
<1> QED  BY <1>3, <1>4, <1>6, <1>10, <1>11


\* After a value: that was the last, or the next one is looked for.
LEMMA ValueDone ==
  ASSUME StreamInv, Matches, UNCHANGED <<headerOnly, cursor>>, dropped' \in Nat, offset' \in Nat,
         last'.told = last'.was, MoreToDo, ToNext(at + 1),
         NEW e, NEW t, NEW p, cursor = <<e, t, p>>, Valid(e, t, p), at + 1 = Index(e, t, p),
         dropped' + offset' = Pos(e, t, p + 1)
  PROVE  StreamInv'
<1>1. /\ at' = at + 1 /\ at \in Nat /\ Len(Loops) \in Nat /\ at + 1 <= Len(Loops)
  <2>1. Len(Loops) \in Nat
    BY LoopHas DEF Matches
  <2> QED  BY <2>1 DEF ToNext, MoreToDo
<1>2. CASE at + 1 = Len(Loops)
  <2>1. pc' = "done"
    BY <1>2 DEF ToNext
  <2>2. Valid(e, t, p) /\ Index(e, t, p) = Len(Loops)
    BY <1>2
  <2> DEFINE o == dropped' + offset'
  <2>3. o \in Nat /\ o = Pos(e, t, p + 1)
    <3>1. \A a, b \in Nat : a + b \in Nat
      OBVIOUS
    <3> QED  BY <3>1, Zenon
  <2> HIDE DEF o
  <2>4. \A i \in o + 1 .. Len(body) : body[i] = Newline
    BY <2>2, <2>3, NothingLeft
  <2>5. AllRead'
    BY <2>4, Unmoved DEF AllRead, o
  <2> QED  BY <2>1, <2>5, GoesOn
<1>3. CASE at + 1 # Len(Loops)
  <2>1. pc' = "advance"
    BY <1>3 DEF ToNext
  <2>2. MoreToDo'
    <3>1. at' \in 0 .. Len(Loops) - 1
      BY <1>1, <1>3
    <3> QED  BY <3>1, Unmoved DEF MoreToDo
  <2>3. After(e, t, p)'
    BY <1>1, Unmoved DEF After
  <2>4. \E i, j, k : After(i, j, k)'
    BY <2>3
  <2> QED  BY <2>1, <2>2, <2>4, GoesOn
<1> QED  BY <1>2, <1>3


\* What holds wherever the body is read.
LEMMA Meanwhile ==
  ASSUME HeaderInv, StreamInv, pc \in Streaming
  PROVE  /\ Matches /\ elements \in Seq(Elements) /\ Len(Loops) \in Nat
         /\ dropped \in Nat /\ offset \in Nat /\ last.told = last.was
         /\ Keyword(Lines[next]) = "end_header"
<1>1. Matches
  BY MatchesWhenComplete DEF StreamInv
<1>2. Keyword(Lines[next]) = "end_header"
  BY DEF HeaderInv, Complete
<1> QED  BY <1>1, <1>2, LoopHas DEF Matches, StreamInv

LEMMA StartStep ==
  ASSUME HeaderInv, StreamInv, StartStreaming
  PROVE  StreamInv'
<1>1. /\ pc = "accepted" /\ UNCHANGED headerOnly /\ dropped' = dropped /\ offset' = 0
      /\ property' = 0 /\ at' = 0 /\ last' = last
      /\ pc' = IF 0 = Len(Loops) THEN "done" ELSE "advance"
  BY DEF StartStreaming, ToNext
<1>2. /\ Matches /\ Len(Loops) \in Nat /\ last.told = last.was /\ dropped = 0
  <2>1. pc \in Streaming
    BY <1>1 DEF Streaming
  <2> QED  BY <1>1, <2>1, Meanwhile DEF StreamInv
<1>3. CASE Len(Loops) = 0
  <2>1. \A i \in 0 + 1 .. Len(body) : body[i] = Newline
    BY <1>2, <1>3, NothingLeft
  <2>2. AllRead'
    <3>1. dropped' + offset' = 0 /\ body' = body
      BY <1>1, <1>2, Unmoved
    <3> QED  BY <2>1, <3>1 DEF AllRead
  <2> QED  BY <1>1, <1>2, <1>3, <2>2, GoesOn
<1>4. CASE Len(Loops) # 0
  <2>1. MoreToDo'
    <3>1. at' \in 0 .. Len(Loops) - 1
      BY <1>1, <1>2, <1>4
    <3> QED  BY <1>1, <3>1, Unmoved DEF MoreToDo
  <2>2. BeforeFirst'
    BY <1>1, <1>2 DEF BeforeFirst
  <2> QED  BY <1>1, <1>2, <1>4, <2>1, <2>2, GoesOn
<1> QED  BY <1>3, <1>4

\* The cursor is at the first property of the d-th element's s-th tuple, which
\* has its turn if it is one.
LEMMA Arrives ==
  ASSUME HeaderInv, StreamInv, pc \in Streaming, UNCHANGED headerOnly, MoreToDo, at' = at,
         dropped' \in Nat, offset' \in Nat, last' = last,
         NEW d \in 1 .. Len(elements), NEW s,
         element' = d, tuple' = s, property' = (IF Props(d) = <<>> THEN 0 ELSE 1),
         pc' = IF property' = 0 THEN "crashed" ELSE "read",
         Valid(d, s, 1) => at + 1 = Index(d, s, 1) /\ dropped' + offset' = Pos(d, s, 1),
         Valid(d, s, 1) \/ (s = 0 /\ Asked[1] >= d)
  PROVE  StreamInv'
<1>1. Matches /\ elements \in Seq(Elements) /\ last.told = last.was /\ Keyword(Lines[next]) = "end_header"
  BY Meanwhile
<1>2. MoreToDo' /\ Asked' = Asked
  BY Unmoved DEF MoreToDo, Asked
<1>3. CASE Valid(d, s, 1)
  <2>1. Len(Props(d)) \in Nat /\ 1 \in 1 .. Len(Props(d))
    BY <1>1, <1>3, ElementIs DEF Valid
  <2>2. Props(d) # <<>>
    BY <2>1
  <2>3. pc' = "read" /\ cursor' = <<d, s, 1>>
    BY <2>2 DEF cursor
  <2>4. AtValue(d, s, 1)'
    BY <1>3, <2>3, Unmoved DEF AtValue
  <2>5. \E e, t, p : AtValue(e, t, p)'
    BY <2>4
  <2> QED  BY <1>1, <1>2, <2>3, <2>5, GoesOn
<1>4. CASE ~Valid(d, s, 1)
  <2>1. s = 0 /\ Asked[1] >= d
    BY <1>4
  <2>2. d \in 1 .. Asked[1] - 1 /\ Hollow(d) /\ Asked[1] # d
    BY <1>1, <1>4, <2>1, PassedOver DEF MoreToDo
  <2>3. CASE Props(d) = <<>>
    <3>1. pc' = "crashed"
      BY <2>3
    <3>2. CrashesExplained'
      <4>1. Keyword(Lines[next])' = "end_header"
        BY <1>1, Unmoved DEF Keyword, Lines
      <4>2. d \in 1 .. Asked'[1] - 1 /\ Props(d)' = <<>>
        BY <1>2, <2>2, <2>3, Unmoved DEF Props
      <4>3. (\E e \in 1 .. Asked[1] - 1 : Props(e) = <<>>)'
        BY <4>2
      <4> QED  BY <4>1, <4>3 DEF CrashesExplained
    <3> QED  BY <1>1, <3>1, <3>2, GoesOn
  <2>4. CASE Props(d) # <<>>
    <3>1. pc' = "read"
      BY <2>4
    <3>2. (cursor # Asked /\ Skipped)'
      <4>1. cursor'[1] = d
        BY DEF cursor
      <4>2. cursor' # Asked'
        BY <1>2, <2>2, <4>1
      <4>3. d \in 1 .. Asked'[1] - 1 /\ Hollow(d)'
        BY <1>2, <2>2, Unmoved
      <4> QED  BY <4>2, <4>3 DEF Skipped
    <3> QED  BY <1>1, <1>2, <3>1, <3>2, GoesOn
  <2> QED  BY <2>3, <2>4
<1> QED  BY <1>3, <1>4


LEMMA FirstStep ==
  ASSUME HeaderInv, StreamInv, AdvanceFirst
  PROVE  StreamInv'
<1>1. /\ pc = "advance" /\ property = 0 /\ UNCHANGED headerOnly
      /\ dropped' = dropped /\ offset' = offset /\ at' = at /\ last' = last
      /\ element' = 1 /\ tuple' = 0 /\ property' = (IF Props(1) = <<>> THEN 0 ELSE 1)
      /\ pc' = IF property' = 0 THEN "crashed" ELSE "read"
  BY DEF AdvanceFirst, loop
<1>2. pc \in Streaming
  BY <1>1 DEF Streaming
<1>3. Matches /\ elements \in Seq(Elements) /\ dropped \in Nat /\ offset \in Nat
  BY <1>2, Meanwhile
<1>4. MoreToDo /\ BeforeFirst
  <2>1. ASSUME NEW e, NEW t, NEW p, After(e, t, p) PROVE FALSE
    <3>1. p = 0 /\ p \in 1 .. Len(Props(e))
      BY <1>1, <2>1 DEF After, cursor, Valid
    <3> QED  BY <3>1
  <2> QED  BY <1>1, <2>1 DEF StreamInv
<1>5. PICK e, t, p : Valid(e, t, p) /\ at + 1 = Index(e, t, p) /\ Asked = <<e, t, p>>
  BY <1>3, <1>4, AskedIs DEF MoreToDo
<1>6. 1 \in 1 .. Len(elements) /\ Asked[1] >= 1
  <2>1. e \in 1 .. Len(elements) /\ Asked[1] = e /\ Len(elements) \in Nat
    BY <1>3, <1>5, ElementIs DEF Valid
  <2> QED  BY <2>1
<1>7. Valid(1, 0, 1) => at + 1 = Index(1, 0, 1) /\ dropped' + offset' = Pos(1, 0, 1)
  <2>1. ASSUME Valid(1, 0, 1) PROVE at + 1 = Index(1, 0, 1) /\ dropped' + offset' = Pos(1, 0, 1)
    <3>1. 0 \in 0 .. Tuples(1) - 1
      BY <2>1 DEF Valid
    <3>2. Index(1, 0, 1) = 1
      BY <1>3, <1>6, <3>1, NextTurn
    <3>3. Pos(1, 0, 1) = 0
      BY <1>3, <1>6, <3>1, NextPlace
    <3> QED  BY <1>1, <1>4, <3>2, <3>3 DEF BeforeFirst
  <2> QED  BY <2>1
<1> HIDE DEF Matches, MoreToDo, StreamInv
<1> DEFINE s == 0
<1>8. Valid(1, s, 1) \/ (s = 0 /\ Asked[1] >= 1)
  BY <1>6
<1> QED  BY <1>1, <1>2, <1>3, <1>4, <1>6, <1>7, <1>8, Arrives

LEMMA InTupleStep ==
  ASSUME HeaderInv, StreamInv, AdvanceInTuple
  PROVE  StreamInv'
<1>1. /\ pc = "advance" /\ property > 0 /\ property < Len(Props(element)) /\ UNCHANGED headerOnly
      /\ property' = property + 1 /\ element' = element /\ tuple' = tuple
      /\ dropped' = dropped /\ offset' = offset /\ at' = at /\ last' = last /\ pc' = "read"
  BY DEF AdvanceInTuple, buffer, loop
<1>2. Matches /\ elements \in Seq(Elements) /\ dropped \in Nat /\ offset \in Nat /\ last.told = last.was
  BY <1>1, Meanwhile DEF Streaming
<1>3. MoreToDo /\ \E e, t, p : After(e, t, p)
  BY <1>1 DEF StreamInv, BeforeFirst
<1>4. PICK e, t, p : After(e, t, p)
  BY <1>3
<1>5. /\ element = e /\ tuple = t /\ property = p /\ Valid(e, t, p)
      /\ at = Index(e, t, p) /\ dropped + offset = Pos(e, t, p + 1)
  BY <1>4 DEF After, cursor
<1>6. /\ e \in 1 .. Len(elements) /\ t \in 0 .. Tuples(e) - 1 /\ p \in 1 .. Len(Props(e))
  BY <1>5 DEF Valid
<1>7. Len(Props(e)) \in Nat
  BY <1>2, <1>6, ElementIs
<1>8. Valid(e, t, p + 1)
  <2>1. p + 1 \in 1 .. Len(Props(e))
    BY <1>1, <1>5, <1>6, <1>7
  <2> QED  BY <1>6, <2>1 DEF Valid
<1>9. at + 1 = Index(e, t, p + 1)
  <2>1. p \in Nat
    BY <1>6, <1>7
  <2> QED  BY <1>2, <1>5, <1>6, <2>1, NextTurn
<1>10. cursor' = <<e, t, p + 1>>
  BY <1>1, <1>5 DEF cursor
<1>11. AtValue(e, t, p + 1)'
  <2> DEFINE n == p + 1
  <2> HIDE DEF n
  <2>1. /\ cursor' = <<e, t, n>> /\ Valid(e, t, n)' /\ at' + 1 = Index(e, t, n)'
        /\ dropped' + offset' = Pos(e, t, n)'
    BY <1>1, <1>5, <1>8, <1>9, <1>10, Unmoved DEF n
  <2>2. AtValue(e, t, n)'
    BY <2>1 DEF AtValue
  <2> QED  BY <2>2 DEF n
<1>12. (\E i, j, k : AtValue(i, j, k)') /\ MoreToDo'
  BY <1>1, <1>3, <1>11, Unmoved DEF MoreToDo
<1> QED  BY <1>1, <1>2, <1>12, GoesOn

LEMMA NextTupleStep ==
  ASSUME HeaderInv, StreamInv, AdvanceToNextTuple
  PROVE  StreamInv'
<1>1. /\ pc = "advance" /\ property > 0 /\ property = Len(Props(element)) /\ UNCHANGED headerOnly
      /\ at' = at /\ last' = last /\ dropped' = dropped + (offset + Break) /\ offset' = 0
      /\ element' = Following(element, tuple)[1] /\ tuple' = Following(element, tuple)[2]
      /\ property' = (IF Props(element') = <<>> THEN 0 ELSE 1)
      /\ pc' = IF property' = 0 THEN "crashed" ELSE "read"
  <2>1. offset \in Nat
    BY DEF StreamInv
  <2>2. (IF Ascii THEN offset + 1 ELSE offset) = offset + Break
    BY <2>1 DEF Break
  <2> QED  BY <2>2 DEF AdvanceToNextTuple, AtTupleEnd, Refill, NextTuple, loop
<1>2. pc \in Streaming
  BY <1>1 DEF Streaming
<1>3. Matches /\ elements \in Seq(Elements) /\ dropped \in Nat /\ offset \in Nat
  BY <1>2, Meanwhile
<1>4. MoreToDo /\ \E e, t, p : After(e, t, p)
  BY <1>1 DEF StreamInv, BeforeFirst
<1>5. PICK e, t, p : After(e, t, p)
  BY <1>4
<1>6. /\ element = e /\ tuple = t /\ property = p /\ Valid(e, t, p) /\ p = Len(Props(e))
      /\ at = Index(e, t, p) /\ dropped + offset = Pos(e, t, p + 1)
  BY <1>1, <1>5 DEF After, cursor
<1>7. /\ e \in 1 .. Len(elements) /\ t \in 0 .. Tuples(e) - 1 /\ Break \in Nat
  BY <1>6 DEF Valid, Break
<1> DEFINE d == Following(e, t)[1]
           s == Following(e, t)[2]
<1>8. d = Following(e, t)[1] /\ s = Following(e, t)[2] /\ element' = d /\ tuple' = s
  BY <1>1, <1>6
<1> HIDE DEF d, s
<1>9. /\ d \in 1 .. Len(elements)
      /\ \/ d = e /\ s = t + 1 /\ Valid(d, s, 1)
         \/ d = e + 1 /\ s = 0 /\ t + 1 = Tuples(e) /\ e < Len(elements) /\ Asked[1] >= d
      /\ Valid(d, s, 1) => at + 1 = Index(d, s, 1)
  BY <1>3, <1>4, <1>6, <1>8, CursorFollows DEF MoreToDo
<1>10. dropped' \in Nat /\ offset' \in Nat /\ dropped' + offset' = Pos(e, t, p + 1) + Break
  BY <1>1, <1>3, <1>6, <1>7
<1>11. Pos(d, s, 1) = Pos(e, t, p + 1) + Break
  BY <1>3, <1>6, <1>7, <1>9, NextPlace
<1>12. property' = (IF Props(d) = <<>> THEN 0 ELSE 1)
  BY <1>1, <1>8
<1>13. Valid(d, s, 1) => at + 1 = Index(d, s, 1) /\ dropped' + offset' = Pos(d, s, 1)
  BY <1>9, <1>10, <1>11
<1>14. Valid(d, s, 1) \/ (s = 0 /\ Asked[1] >= d)
  BY <1>9
<1> QED  BY <1>1, <1>2, <1>4, <1>8, <1>9, <1>10, <1>12, <1>13, <1>14, Arrives


\* Where the cursor is at the value of the loops, the value begins at the offset.
LEMMA AtTheValue ==
  ASSUME HeaderInv, StreamInv, pc = "read", ~Astray
  PROVE  /\ MoreToDo /\ Matches /\ \E e, t, p : AtValue(e, t, p)
<1>1. Matches
  BY Meanwhile DEF Streaming
<1>2. MoreToDo /\ \E e, t, p : AtValue(e, t, p)
  BY DEF StreamInv, Astray
<1> QED  BY <1>1, <1>2

LEMMA WhatIsThere ==
  ASSUME Matches, dropped \in Nat, offset \in Nat, MoreToDo,
         NEW e, NEW t, NEW p, cursor = <<e, t, p>>, Valid(e, t, p), at + 1 = Index(e, t, p)
  PROVE  /\ Asked = <<e, t, p>>
         /\ FileProp(e, p) \in Properties /\ Prop.list = FileProp(e, p).list
         /\ Prop.type = FileProp(e, p).type /\ Prop.lengthType = FileProp(e, p).lengthType
         /\ Pos(e, t, p) \in Nat /\ Pos(e, t, p + 1) = Pos(e, t, p) + Len(Cells(e, t, p))
         /\ \A k \in 1 .. Len(Cells(e, t, p)) :
              dropped + offset + 1 = Pos(e, t, p) + k => CellAt(offset) = Cells(e, t, p)[k]
<1>1. /\ element = e /\ property = p
      /\ e \in 1 .. Len(elements) /\ t \in 0 .. Tuples(e) - 1 /\ p \in 1 .. Len(Props(e))
  BY DEF cursor, Valid
<1>2. Asked = <<e, t, p>>
  <2>1. Loops[Index(e, t, p)] = <<e, t, p>>
    BY LoopHas DEF Matches
  <2> QED  BY <2>1 DEF Asked
<1>3. /\ FileProp(e, p) \in Properties /\ Prop.list = FileProp(e, p).list
      /\ Prop.type = FileProp(e, p).type /\ Prop.lengthType = FileProp(e, p).lengthType
  <2>1. Prop = Props(e)[p]
    BY <1>1 DEF Prop
  <2> QED  BY <1>1, <2>1 DEF Matches
<1>4. Pos(e, t, p) \in Nat /\ Pos(e, t, p + 1) = Pos(e, t, p) + Len(Cells(e, t, p))
  <2>1. p \in 1 .. Len(Props(e)) + 1
    <3>1. Len(Props(e)) \in Nat
      BY <1>1, ElementIs DEF Matches
    <3> QED  BY <1>1, <3>1
  <2> QED  BY <1>1, <2>1, TupleAt
<1>5. ASSUME NEW k \in 1 .. Len(Cells(e, t, p)), dropped + offset + 1 = Pos(e, t, p) + k
      PROVE  CellAt(offset) = Cells(e, t, p)[k]
  <2>1. body[Pos(e, t, p) + k] = Cells(e, t, p)[k]
    BY PlaceHas
  <2> QED  BY <1>5, <2>1 DEF CellAt
<1> QED  BY <1>2, <1>3, <1>4, <1>5

LEMMA ScalarStep ==
  ASSUME HeaderInv, StreamInv, ReadScalar
  PROVE  StreamInv'
<1>1. /\ pc = "read" /\ ~Astray /\ ~Prop.list /\ UNCHANGED <<headerOnly, dropped, cursor>>
      /\ offset' = offset + Width(Prop.type)
      /\ last' = [told |-> Asked, was |-> CellAt(offset).from] /\ ToNext(at + 1)
  BY DEF ReadScalar, Take
<1>2. MoreToDo /\ Matches /\ dropped \in Nat /\ offset \in Nat
  BY <1>1, AtTheValue DEF StreamInv
<1>3. PICK e, t, p : AtValue(e, t, p)
  BY <1>1, AtTheValue
<1>4. /\ cursor = <<e, t, p>> /\ Valid(e, t, p) /\ at + 1 = Index(e, t, p)
      /\ dropped + offset = Pos(e, t, p)
  BY <1>3 DEF AtValue
<1>5. /\ Asked = <<e, t, p>> /\ FileProp(e, p) \in Properties /\ ~FileProp(e, p).list
      /\ Prop.type = FileProp(e, p).type
      /\ Pos(e, t, p) \in Nat /\ Pos(e, t, p + 1) = Pos(e, t, p) + Len(Cells(e, t, p))
      /\ \A k \in 1 .. Len(Cells(e, t, p)) :
           dropped + offset + 1 = Pos(e, t, p) + k => CellAt(offset) = Cells(e, t, p)[k]
  BY <1>1, <1>2, <1>4, WhatIsThere
<1>6. /\ Len(Cells(e, t, p)) = Width(Prop.type) /\ 1 \in 1 .. Len(Cells(e, t, p))
      /\ Cells(e, t, p)[1].from = <<e, t, p>>
  <2>1. <<e, t, p>> \in Triples /\ Lengths[<<e, t, p>>] \in Nat
    BY <1>2, <1>4, CellsAre
  <2> DEFINE f == FileProp(e, p)
             from == <<e, t, p>>
             n == Lengths[<<e, t, p>>]
  <2>2. from \in Triples /\ n \in Nat /\ f \in Properties /\ ~f.list
    BY <1>5, <2>1
  <2>3. Cells(e, t, p) = ValueCells(from, f, n)
    BY DEF Cells
  <2> HIDE DEF f, n, from
  <2>4. /\ Len(ValueCells(from, f, n)) = Width(f.type) /\ 1 \in 1 .. Len(ValueCells(from, f, n))
        /\ ValueCells(from, f, n)[1].from = from
    BY <2>2, ScalarCells
  <2> QED  BY <1>5, <2>3, <2>4 DEF f, from
<1>7. CellAt(offset).from = <<e, t, p>>
  <2>1. dropped + offset + 1 = Pos(e, t, p) + 1
    BY <1>4
  <2> QED  BY <1>5, <1>6, <2>1
<1>8. last'.told = last'.was
  BY <1>1, <1>5, <1>7
<1>9. Width(Prop.type) \in Nat
  <2>1. Prop.type \in Types
    BY <1>5, PropertyTypes
  <2> QED  BY <2>1, WidthIs
<1>10. dropped' \in Nat /\ offset' \in Nat /\ dropped' + offset' = Pos(e, t, p + 1)
  BY <1>1, <1>2, <1>4, <1>5, <1>6, <1>9
<1>11. UNCHANGED <<headerOnly, cursor>>
  BY <1>1
<1> QED  BY <1>1, <1>2, <1>4, <1>8, <1>10, <1>11, ValueDone

LEMMA LengthStep ==
  ASSUME HeaderInv, StreamInv, ReadLength
  PROVE  StreamInv'
<1>1. /\ pc = "read" /\ ~Astray /\ Prop.list /\ UNCHANGED <<headerOnly, dropped, cursor>>
      /\ offset' = offset + Width(Prop.lengthType)
      /\ last' = [told |-> Asked, was |-> CellAt(offset).from]
      /\ items' = CellAt(offset).length
      /\ IF items' = 0 THEN ToNext(at + 1) ELSE pc' = "list" /\ at' = at
  BY DEF ReadLength, Take, NoneLeft
<1>2. MoreToDo /\ Matches /\ dropped \in Nat /\ offset \in Nat
  BY <1>1, AtTheValue DEF StreamInv
<1>3. PICK e, t, p : AtValue(e, t, p)
  BY <1>1, AtTheValue
<1>4. /\ cursor = <<e, t, p>> /\ Valid(e, t, p) /\ at + 1 = Index(e, t, p)
      /\ dropped + offset = Pos(e, t, p)
  BY <1>3 DEF AtValue
<1>5. /\ Asked = <<e, t, p>> /\ FileProp(e, p) \in Properties /\ FileProp(e, p).list
      /\ Prop.lengthType = FileProp(e, p).lengthType
      /\ Pos(e, t, p) \in Nat /\ Pos(e, t, p + 1) = Pos(e, t, p) + Len(Cells(e, t, p))
      /\ \A k \in 1 .. Len(Cells(e, t, p)) :
           dropped + offset + 1 = Pos(e, t, p) + k => CellAt(offset) = Cells(e, t, p)[k]
  BY <1>1, <1>2, <1>4, WhatIsThere
<1> DEFINE n == ListLength(e, t, p)
           c == Cells(e, t, p)
           from == <<e, t, p>>
           w == Width(Prop.lengthType)
<1>6. from \in Triples /\ n \in Nat /\ c = ValueCells(from, FileProp(e, p), n)
  BY <1>2, <1>4, CellsAre DEF ListLength, Cells
<1>7. /\ 1 \in 1 .. Len(c) /\ c[1].from = from /\ c[1].length = n
      /\ ItemAt(from, FileProp(e, p), n, 0) = w /\ ItemAt(from, FileProp(e, p), n, n) = Len(c)
  <2> HIDE DEF c, n, from
  <2>1. /\ 1 \in 1 .. Len(c) /\ c[1].from = from /\ c[1].length = n
        /\ ItemAt(from, FileProp(e, p), n, 0) = Width(FileProp(e, p).lengthType)
        /\ ItemAt(from, FileProp(e, p), n, n) = Len(c)
    BY <1>5, <1>6, ListCells
  <2> QED  BY <1>5, <2>1
<1>8. CellAt(offset) = c[1]
  <2>1. dropped + offset + 1 = Pos(e, t, p) + 1
    BY <1>4
  <2> QED  BY <1>5, <1>7, <2>1
<1>9. last'.told = last'.was /\ items' = n
  BY <1>1, <1>5, <1>7, <1>8
<1>10. w \in Nat
  <2>1. Prop.lengthType \in Types
    BY <1>5, PropertyTypes
  <2> QED  BY <2>1, WidthIs
<1>11. dropped' \in Nat /\ offset' \in Nat /\ dropped' + offset' = Pos(e, t, p) + w
  BY <1>1, <1>2, <1>4, <1>10
<1>12. UNCHANGED <<headerOnly, cursor>>
  BY <1>1
<1> HIDE DEF c, w, n
<1>13. CASE n = 0
  <2>1. ToNext(at + 1)
    BY <1>1, <1>9, <1>13
  <2>2. dropped' + offset' = Pos(e, t, p + 1)
    BY <1>5, <1>7, <1>11, <1>13 DEF c
  <2> QED  BY <1>2, <1>4, <1>9, <1>11, <1>12, <2>1, <2>2, ValueDone
<1>14. CASE n # 0
  <2>1. pc' = "list" /\ at' = at
    BY <1>1, <1>9, <1>14
  <2>2. MoreToDo'
    BY <1>2, <2>1, <1>12, Unmoved DEF MoreToDo
  <2>3. 0 \in 0 .. n - 1 /\ items' = n - 0
    BY <1>6, <1>9, <1>14
  <2>4. n' = n
    BY <1>12, Unmoved DEF n, ListLength
  <2>5. InList(e, t, p, 0)'
    <3>1. /\ cursor' = <<e, t, p>> /\ Valid(e, t, p)' /\ FileProp(e, p)'.list
          /\ at' + 1 = Index(e, t, p)'
      BY <1>1, <1>4, <1>5, <1>12, <2>1, Unmoved
    <3>2. 0 \in 0 .. n' - 1 /\ items' = n' - 0
      BY <2>3, <2>4
    <3>3. dropped' + offset' = Pos(e, t, p)' + ItemAt(from, FileProp(e, p)', n', 0)
      BY <1>7, <1>11, <1>12, <2>4, Unmoved
    <3> QED  BY <3>1, <3>2, <3>3 DEF InList, n
  <2>6. \E i, j, k, l : InList(i, j, k, l)'
    BY <2>5
  <2> QED  BY <1>9, <1>11, <1>12, <2>1, <2>2, <2>6, GoesOn
<1> QED  BY <1>13, <1>14


LEMMA ItemStep ==
  ASSUME HeaderInv, StreamInv, ReadItem
  PROVE  StreamInv'
<1>1. /\ pc = "list" /\ UNCHANGED <<headerOnly, dropped, cursor>>
      /\ offset' = offset + Width(Prop.type)
      /\ last' = [told |-> Asked, was |-> CellAt(offset).from]
      /\ items' = items - 1
      /\ IF items' = 0 THEN ToNext(at + 1) ELSE pc' = pc /\ at' = at
  BY DEF ReadItem, Take, NoneLeft
<1>2. MoreToDo /\ Matches /\ dropped \in Nat /\ offset \in Nat
  <2>1. pc \in Streaming
    BY <1>1 DEF Streaming
  <2> QED  BY <1>1, <2>1, Meanwhile DEF StreamInv
<1>3. PICK e, t, p, k : InList(e, t, p, k)
  BY <1>1 DEF StreamInv
<1> DEFINE n == ListLength(e, t, p)
           c == Cells(e, t, p)
           from == <<e, t, p>>
           f == FileProp(e, p)
           w == Width(Prop.type)
<1>4. /\ cursor = <<e, t, p>> /\ Valid(e, t, p) /\ at + 1 = Index(e, t, p) /\ f.list
      /\ k \in 0 .. n - 1 /\ items = n - k
      /\ dropped + offset = Pos(e, t, p) + ItemAt(from, f, n, k)
  BY <1>3 DEF InList
<1>5. /\ Asked = <<e, t, p>> /\ f \in Properties /\ Prop.type = f.type
      /\ Pos(e, t, p) \in Nat /\ Pos(e, t, p + 1) = Pos(e, t, p) + Len(c)
      /\ \A j \in 1 .. Len(c) :
           dropped + offset + 1 = Pos(e, t, p) + j => CellAt(offset) = c[j]
  BY <1>2, <1>4, WhatIsThere
<1>6. from \in Triples /\ n \in Nat /\ c = ValueCells(from, f, n)
  BY <1>2, <1>4, CellsAre DEF ListLength, Cells
<1>7. w \in Nat
  <2>1. Prop.type \in Types
    BY <1>5, PropertyTypes
  <2> QED  BY <2>1, WidthIs
<1>8. UNCHANGED <<headerOnly, cursor>>
  BY <1>1
<1>9. /\ n' = n /\ f' = f
  BY <1>8, Unmoved DEF ListLength
<1> HIDE DEF c, n, f
<1>10. /\ ItemAt(from, f, n, n) = Len(c) /\ ItemAt(from, f, n, k) \in Nat
       /\ ItemAt(from, f, n, k + 1) = ItemAt(from, f, n, k) + w
       /\ ItemAt(from, f, n, k) + 1 \in 1 .. Len(c)
       /\ c[ItemAt(from, f, n, k) + 1].from = from
  <2> HIDE DEF from
  <2>1. k \in 0 .. n
    BY <1>4, <1>6
  <2>2. /\ ItemAt(from, f, n, n) = Len(c) /\ ItemAt(from, f, n, k) \in Nat
        /\ ItemAt(from, f, n, k + 1) = ItemAt(from, f, n, k) + Width(f.type)
        /\ ItemAt(from, f, n, k) + 1 \in 1 .. Len(c)
        /\ c[ItemAt(from, f, n, k) + 1].from = from
    <3>1. /\ ItemAt(from, f, n, n) = Len(c)
          /\ \A i \in 0 .. n : ItemAt(from, f, n, i) \in Nat
          /\ \A i \in 0 .. n - 1 :
              /\ ItemAt(from, f, n, i + 1) = ItemAt(from, f, n, i) + Width(f.type)
              /\ ItemAt(from, f, n, i) + 1 \in 1 .. Len(c)
              /\ c[ItemAt(from, f, n, i) + 1].from = from
      <4>1. from \in Triples /\ f \in Properties /\ n \in Nat /\ f.list /\ c = ValueCells(from, f, n)
        BY <1>4, <1>5, <1>6
      <4> QED  BY <4>1, ListCells
    <3> QED  BY <1>4, <2>1, <3>1
  <2> QED  BY <1>5, <2>2
<1> DEFINE o == ItemAt(from, f, n, k)
<1> HIDE DEF w
<1>11. CellAt(offset) = c[o + 1] /\ c[o + 1].from = from
  <2>1. dropped + offset + 1 = Pos(e, t, p) + (o + 1) /\ o + 1 \in 1 .. Len(c)
    BY <1>4, <1>5, <1>10
  <2> HIDE DEF o
  <2> QED  BY <1>5, <1>10, <2>1 DEF o
<1>12. last'.told = last'.was
  BY <1>1, <1>5, <1>11
<1>13. /\ dropped' \in Nat /\ offset' \in Nat
       /\ dropped' + offset' = Pos(e, t, p) + ItemAt(from, f, n, k + 1)
  <2> DEFINE a == Pos(e, t, p)
             i == ItemAt(from, f, n, k + 1)
  <2>1. dropped' = dropped /\ offset' = offset + w
    BY <1>1 DEF w
  <2>2. a \in Nat /\ o \in Nat /\ i = o + w /\ dropped + offset = a + o
    BY <1>4, <1>5, <1>10
  <2> HIDE DEF a, i, o
  <2>3. dropped' \in Nat /\ offset' \in Nat /\ dropped' + offset' = a + i
    BY <1>2, <1>7, <2>1, <2>2
  <2> QED  BY <2>3 DEF a, i
<1>14. k \in Nat /\ items' = n - (k + 1) /\ k + 1 <= n
  BY <1>1, <1>4, <1>6
<1>15. CASE items' = 0
  <2>1. ToNext(at + 1) /\ k + 1 = n
    <3>1. k + 1 = n
      BY <1>6, <1>14, <1>15
    <3> QED  BY <1>1, <1>15, <3>1
  <2>2. dropped' + offset' = Pos(e, t, p + 1)
    BY <1>5, <1>10, <1>13, <2>1
  <2> QED  BY <1>2, <1>4, <1>8, <1>12, <1>13, <2>1, <2>2, ValueDone
<1>16. CASE items' # 0
  <2>1. pc' = "list" /\ at' = at
    BY <1>1, <1>16
  <2>2. MoreToDo'
    BY <1>2, <1>8, <2>1, Unmoved DEF MoreToDo
  <2> DEFINE i == k + 1
  <2>3. i \in 0 .. n - 1 /\ items' = n - i
    BY <1>6, <1>14, <1>16
  <2>4. dropped' + offset' = Pos(e, t, p) + ItemAt(from, f, n, i)
    BY <1>13
  <2> HIDE DEF i
  <2>5. InList(e, t, p, i)'
    <3>1. /\ cursor' = <<e, t, p>> /\ Valid(e, t, p)' /\ f'.list /\ at' + 1 = Index(e, t, p)'
      BY <1>1, <1>4, <1>8, <1>9, <2>1, Unmoved
    <3>2. i \in 0 .. n' - 1 /\ items' = n' - i
      BY <1>9, <2>3
    <3>3. dropped' + offset' = Pos(e, t, p)' + ItemAt(from, f', n', i)
      BY <1>8, <1>9, <2>4, Unmoved
    <3> QED  BY <3>1, <3>2, <3>3 DEF InList, n, f
  <2>6. \E j, s, q, l : InList(j, s, q, l)'
    BY <2>5
  <2> QED  BY <1>8, <1>12, <1>13, <2>1, <2>2, <2>6, GoesOn
<1> QED  BY <1>15, <1>16

\* What ends the parsing.
LEMMA EndStep ==
  ASSUME HeaderInv, StreamInv,
         NoTupleEnd \/ RefillFails \/ ReadStale \/ NoFormat \/ CallbackFails \/ ReadAstray
  PROVE  StreamInv'
<1>1. dropped \in Nat /\ offset \in Nat /\ last.told = last.was
  BY DEF StreamInv
<1>2. CASE RefillFails
  <2>1. UNCHANGED headerOnly /\ pc' = "failed" /\ last' = last
    BY <1>2 DEF RefillFails
  <2>2. dropped' \in Nat /\ offset' \in Nat
    BY <1>1, <1>2 DEF RefillFails
  <2> QED  BY <1>1, <2>1, <2>2, GoesOn
<1>3. CASE ReadAstray
  <2>1. /\ UNCHANGED headerOnly /\ pc' = "astray" /\ last' = last /\ at' = at
        /\ dropped' = dropped /\ offset' = offset /\ pc = "read" /\ cursor # Asked
    BY <1>3 DEF ReadAstray, Astray, buffer, loop
  <2>2. Matches
    BY <2>1, Meanwhile DEF Streaming
  <2>3. ASSUME NEW e, NEW t, NEW p, AtValue(e, t, p) PROVE FALSE
    <3>1. MoreToDo
      BY <2>1 DEF StreamInv
    <3>2. Asked = <<e, t, p>>
      BY <1>1, <2>2, <2>3, <3>1, WhatIsThere DEF AtValue
    <3> QED  BY <2>1, <2>3, <3>2 DEF AtValue
  <2>4. Skipped
    BY <2>1, <2>3 DEF StreamInv
  <2>5. Skipped'
    BY <2>1, <2>4, Unmoved DEF Skipped, Asked
  <2> QED  BY <1>1, <2>1, <2>5, GoesOn
<1>4. CASE NoTupleEnd \/ ReadStale \/ NoFormat \/ CallbackFails
  <2>1. /\ UNCHANGED headerOnly /\ pc' \in {"error", "stale", "failed"} /\ last' = last
        /\ dropped' = dropped /\ offset' = offset
    BY <1>4 DEF NoTupleEnd, ReadStale, NoFormat, CallbackFails, buffer
  <2> QED  BY <1>1, <2>1, GoesOn
<1> QED  BY <1>2, <1>3, <1>4


\* ply_reserve returns NULL only where the lines up to this one need more than
\* all of the memory.
LEMMA OutOfMemory ==
  ASSUME HeaderInv, NoMemory
  PROVE  CrashesExplained'
<1>1. /\ pc = "lines" /\ next < Len(Lines)
      /\ \/ Word(1) = "element" /\ ~MayReserve(ElementSize)
         \/ Word(1) = "property" /\ ~MayReserve(PropertySize)
      /\ next' = next + 1 /\ file' = file /\ memorySize' = memorySize
  BY DEF NoMemory, AtLine, GetLine, setup
<1>2. /\ memorySize \in MemorySizes /\ SpaceInv /\ Passed /\ next \in Nat
      /\ Line = Lines[next + 1] /\ Keyword(Line) = Word(1)
  BY <1>1, AtLineIs
<1>3. Keyword(Lines[next + 1]) = Word(1)
  BY <1>2
<1> DEFINE n == next + 1
           size == IF Word(1) = "element" THEN ElementSize ELSE PropertySize
           all == AlignDown(memorySize)
           used == SpaceNeeded(next)
           needed == SpaceNeeded(n)
           u == AlignUp(size)
<1>4. size \in Int /\ ~(memoryBreak >= MinBuffer + size)
  BY <1>1, Constants DEF MayReserve
<1>5. SpaceOf(n) = u
  BY <1>1, <1>3 DEF SpaceOf
<1>6. u \in Int /\ size <= u
  BY <1>4, Up DEF Aligned
<1>7. used \in Int /\ needed = used + u
  BY <1>2, <1>5, SpaceStep
<1>8. /\ memoryBreak \in Int /\ all \in Int /\ MinBuffer \in Int
      /\ memoryBreak + used = all + MinBuffer
  <2>1. all \in Int
    BY <1>2, Constants, Down DEF Aligned
  <2> QED  BY <1>2, <2>1, Constants DEF SpaceInv, Passed, Aligned
<1>9. needed > all
  <2> HIDE DEF needed, used, all, u, size
  <2> QED  BY <1>4, <1>6, <1>7, <1>8
<1>10. Keyword(Lines[n]) # "end_header"
  BY <1>1, <1>3
<1>11. Lines' = Lines /\ next' = n
  BY <1>1 DEF Lines
<1>12. SpaceNeeded(next)' = needed /\ AlignDown(memorySize)' = all
  BY <1>1, <1>11 DEF SpaceNeeded, AlignDown
<1>13. (Keyword(Lines[next]) # "end_header" /\ SpaceNeeded(next) > AlignDown(memorySize))'
  <2>1. Keyword(Lines[next])' = Keyword(Lines[n])
    BY <1>11
  <2> HIDE DEF n, needed, all
  <2> QED  BY <1>9, <1>10, <1>12, <2>1
<1> QED  BY <1>13 DEF CrashesExplained

LEMMA HeaderStep ==
  ASSUME HeaderInv, StreamInv, HeaderNext, UNCHANGED streamVars
  PROVE  StreamInv'
<1>1. /\ file' = file /\ body' = body /\ dropped' = dropped /\ offset' = offset /\ last' = last
      /\ pc \in {"start", "lines"}
      /\ pc' \in {"lines", "accepted", "error", "failed", "stale line"} \/ NoMemory
  <2>1. dropped' = dropped /\ offset' = offset /\ last' = last
    BY DEF streamVars
  <2>2. CASE Start \/ StartFails
    <3>1. UNCHANGED setup /\ pc = "start" /\ pc' \in {"lines", "error", "failed"}
      BY <2>2 DEF Start, StartFails
    <3> QED  BY <2>1, <3>1 DEF setup
  <2>3. CASE FormatLine \/ ElementLine \/ PropertyLine
    <3>1. UNCHANGED setup /\ pc = "lines" /\ pc' \in {"lines", "error"}
      BY <2>3 DEF FormatLine, ElementLine, PropertyLine, AtLine, GoOn
    <3> QED  BY <2>1, <3>1 DEF setup
  <2>4. CASE PropertyOfNothing \/ NoMemory \/ OtherLine \/ NoNewline \/ LineFails
    <3>1. /\ UNCHANGED setup /\ pc = "lines"
          /\ pc' \in {"lines", "accepted", "error", "failed", "stale line"} \/ NoMemory
      BY <2>4 DEF PropertyOfNothing, NoMemory, OtherLine, NoNewline, LineFails, AtLine
    <3> QED  BY <2>1, <3>1 DEF setup
  <2> QED  BY <2>2, <2>3, <2>4 DEF HeaderNext, ProcessHeader
<1>2. (body \in Bodies(file))' /\ dropped' \in Nat /\ offset' \in Nat /\ dropped' = 0 /\ last'.told = last'.was
  BY <1>1 DEF StreamInv
<1>3. pc' \in {"lines", "accepted", "error", "failed", "stale line", "crashed"}
  BY <1>1 DEF NoMemory
<1>4. CrashesExplained'
  <2>1. CASE NoMemory
    BY <2>1, OutOfMemory
  <2>2. CASE ~NoMemory
    BY <1>1, <2>2 DEF CrashesExplained
  <2> QED  BY <2>1, <2>2
<1>5. AllRead'
  BY <1>3 DEF AllRead
<1> HIDE DEF CrashesExplained, AllRead, MoreToDo, BeforeFirst, After, AtValue, InList, Skipped
<1> QED  BY <1>2, <1>3, <1>4, <1>5 DEF StreamInv

LEMMA StreamStarts == Init => StreamInv
<1> SUFFICES ASSUME Init PROVE StreamInv
  OBVIOUS
<1>1. /\ body \in Bodies(file) /\ dropped = 0 /\ offset = 0 /\ last = Nothing /\ pc = "start"
  BY DEF Init, HeaderInit
<1>2. last.told = last.was
  BY <1>1 DEF Nothing
<1>3. CrashesExplained /\ AllRead
  BY <1>1 DEF CrashesExplained, AllRead
<1> HIDE DEF CrashesExplained, AllRead, MoreToDo, BeforeFirst, After, AtValue, InList, Skipped
<1> QED  BY <1>1, <1>2, <1>3 DEF StreamInv

LEMMA AgainStreams ==
  ASSUME StreamInv, Again
  PROVE  StreamInv'
<1>1. /\ (body \in Bodies(file))' /\ dropped' = 0 /\ offset' = offset /\ last' = Nothing
      /\ pc' = "start" /\ offset \in Nat
  BY DEF Again, NewInput, StreamInv, cursor
<1>2. last'.told = last'.was
  BY <1>1 DEF Nothing
<1>3. CrashesExplained' /\ AllRead'
  BY <1>1 DEF CrashesExplained, AllRead
<1> HIDE DEF CrashesExplained, AllRead, MoreToDo, BeforeFirst, After, AtValue, InList, Skipped
<1> QED  BY <1>1, <1>2, <1>3 DEF StreamInv

LEMMA StreamIdles ==
  ASSUME StreamInv, UNCHANGED vars
  PROVE  StreamInv'
<1>1. /\ UNCHANGED headerOnly /\ pc' = pc /\ dropped' = dropped /\ offset' = offset /\ last' = last
      /\ at' = at /\ items' = items /\ cursor' = cursor /\ property' = property
      /\ memorySize' = memorySize
  BY DEF vars, headerVars, streamVars, headerOnly, cursor, loop, setup
<1>2. (\A e, t, p : After(e, t, p) => After(e, t, p)')
      /\ (\A e, t, p : AtValue(e, t, p) => AtValue(e, t, p)')
  BY <1>1, Unmoved DEF After, AtValue
<1>3. \A e, t, p, k : InList(e, t, p, k) => InList(e, t, p, k)'
  <2>1. \A e, t, p : ListLength(e, t, p)' = ListLength(e, t, p)
    BY <1>1, Unmoved DEF ListLength
  <2> QED  BY <1>1, <2>1, Unmoved DEF InList
<1>4. (BeforeFirst => BeforeFirst') /\ (MoreToDo => MoreToDo') /\ Asked' = Asked
      /\ (Skipped => Skipped')
  BY <1>1, Unmoved DEF BeforeFirst, MoreToDo, Skipped, Asked
<1>5. CrashesExplained'
  <2>1. CrashesExplained
    BY DEF StreamInv
  <2>2. (\A e : Props(e)' = Props(e)) /\ Lines' = Lines /\ next' = next
    BY <1>1, Unmoved DEF Props, Lines
  <2>3. SpaceNeeded(next)' = SpaceNeeded(next) /\ AlignDown(memorySize)' = AlignDown(memorySize)
    BY <1>1, <2>2 DEF SpaceNeeded, AlignDown
  <2> QED  BY <1>1, <1>4, <2>1, <2>2, <2>3 DEF CrashesExplained
<1>6. AllRead'
  BY <1>1, Unmoved DEF StreamInv, AllRead
<1>7. (body \in Bodies(file))'
  BY <1>1, Unmoved DEF StreamInv
<1> HIDE DEF CrashesExplained, AllRead, MoreToDo, BeforeFirst, After, AtValue, InList, Skipped
<1> QED  BY <1>1, <1>2, <1>3, <1>4, <1>5, <1>6, <1>7 DEF StreamInv

LEMMA StreamStays ==
  ASSUME HeaderInv, StreamInv, [Next]_vars
  PROVE  StreamInv'
<1>1. CASE HeaderNext /\ UNCHANGED streamVars
  BY <1>1, HeaderStep
<1>2. CASE Parse
  BY <1>2, StartStep, FirstStep, InTupleStep, NextTupleStep, ScalarStep, LengthStep, ItemStep, EndStep
     DEF Parse
<1>3. CASE RefillFails \/ CallbackFails
  BY <1>3, EndStep
<1>4. CASE Again
  BY <1>4, AgainStreams
<1>5. CASE UNCHANGED vars
  BY <1>5, StreamIdles
<1> QED  BY <1>1, <1>2, <1>3, <1>4, <1>5 DEF Next

\* Where the cursor of the parser, the loops of the handler and the buffer are,
\* each against the others and against the file: the invariant of the streaming
\* functions, whatever the read callback returns and however it is used again.
THEOREM StreamInvariant == Spec => [](HeaderInv /\ StreamInv)
<1>1. Init => StreamInv
  BY StreamStarts
<1>2. HeaderInv /\ StreamInv /\ [Next]_vars => StreamInv'
  BY StreamStays
<1> QED  BY <1>1, <1>2, HeaderInvariant, PTL DEF Spec


-----------------------------------------------------------------------------
(* The properties of the stream.                                           *)

\* ply_process_with_callbacks tells its handler of each value the element, tuple
\* and property that the file has there, unless an element without tuples or
\* properties came before it: ToldIsRead.
THEOREM ValuesAreTold == Spec => []ToldIsRead
<1>1. ASSUME HeaderInv, StreamInv PROVE ToldIsRead
  <2>1. last.told = last.was
    BY <1>1 DEF StreamInv
  <2>2. ASSUME pc = "list" PROVE cursor = Asked
    <3>1. Matches /\ dropped \in Nat /\ offset \in Nat
      BY <1>1, <2>2, Meanwhile DEF Streaming
    <3>2. MoreToDo
      BY <1>1, <2>2 DEF StreamInv
    <3>3. PICK e, t, p, k : InList(e, t, p, k)
      BY <1>1, <2>2 DEF StreamInv
    <3>4. cursor = <<e, t, p>> /\ Valid(e, t, p) /\ at + 1 = Index(e, t, p)
      BY <3>3 DEF InList
    <3> QED  BY <3>1, <3>2, <3>4, WhatIsThere
  <2>3. ASSUME Astray PROVE Skipped
    <3>1. Matches /\ dropped \in Nat /\ offset \in Nat /\ MoreToDo
      BY <1>1, <2>3, Meanwhile DEF Streaming, Astray, StreamInv
    <3>2. ASSUME NEW e, NEW t, NEW p, AtValue(e, t, p) PROVE FALSE
      <4>1. cursor = <<e, t, p>> /\ Valid(e, t, p) /\ at + 1 = Index(e, t, p)
        BY <3>2 DEF AtValue
      <4>2. Asked = <<e, t, p>>
        BY <3>1, <4>1, WhatIsThere
      <4> QED  BY <2>3, <4>1, <4>2 DEF Astray
    <3> QED  BY <1>1, <2>3, <3>2 DEF Astray, StreamInv
  <2>4. pc = "astray" => Skipped
    BY <1>1 DEF StreamInv
  <2> HIDE DEF Astray
  <2> QED  BY <2>1, <2>2, <2>3, <2>4 DEF ToldIsRead, Skipped
<1> QED  BY <1>1, StreamInvariant, PTL

\* A NULL pointer is followed only where the memory cannot hold what the header
\* describes, or behind an element without properties: CrashesExplained.
THEOREM CrashesHaveReasons == Spec => []CrashesExplained
<1>1. StreamInv => CrashesExplained
  BY DEF StreamInv
<1> QED  BY <1>1, StreamInvariant, PTL

\* ply_process_with_callbacks returns PLY_OK only when the last value of the file
\* was read: AllRead.
THEOREM FilesAreReadToTheEnd == Spec => []AllRead
<1>1. StreamInv => AllRead
  BY DEF StreamInv
<1> QED  BY <1>1, StreamInvariant, PTL

-----------------------------------------------------------------------------
(* What the callback must return.                                          *)

\* The highest index of a set.
Top(s) == CHOOSE x \in s : \A y \in s : x >= y

\* Without it the set has indices below it only.
LEMMA TopOff ==
  ASSUME NEW k \in Nat, NEW s \in SUBSET (1 .. k + 1)
  PROVE  /\ s \ {Top(s)} \in SUBSET (1 .. k)
         /\ k + 1 \in s => Top(s) = k + 1
<1>1. CASE k + 1 \in s
  <2>1. \A y \in s : k + 1 >= y
    OBVIOUS
  <2>2. Top(s) \in s /\ \A y \in s : Top(s) >= y
    BY <1>1, <2>1 DEF Top
  <2>3. Top(s) = k + 1
    <3>1. Top(s) >= k + 1 /\ Top(s) \in 1 .. k + 1
      BY <1>1, <2>2
    <3> HIDE DEF Top
    <3> QED  BY <3>1
  <2> QED  BY <2>3, <1>1
<1>2. CASE k + 1 \notin s
  <2>1. \A x \in s : x \in 1 .. k
    BY <1>2
  <2> QED  BY <1>2, <2>1
<1> QED  BY <1>1, <1>2

\* The recursion that SizeOf is, on the first k lines of w.
SizesOf(w, k, f) ==
  f = [s \in SUBSET (1 .. k) |-> IF s = {} THEN 0 ELSE f[s \ {Top(s)}] + w[Top(s)].size]

\* The definition by recursion over sets of indices has a solution.
LEMMA SizeExists ==
  ASSUME NEW w, NEW n \in Nat
  PROVE  \E f : SizesOf(w, n, f)
<1> DEFINE T == {k \in Nat : \E f : SizesOf(w, k, f)}
<1>1. 0 \in T
  <2> DEFINE g == [s \in SUBSET (1 .. 0) |-> 0]
  <2>1. \A s \in SUBSET (1 .. 0) : s = {}
    OBVIOUS
  <2>2. SizesOf(w, 0, g)
    BY <2>1 DEF SizesOf
  <2> QED  BY <2>2
<1>2. ASSUME NEW k \in T PROVE k + 1 \in T
  <2>1. k \in Nat
    OBVIOUS
  <2>2. PICK f : SizesOf(w, k, f)
    OBVIOUS
  <2> DEFINE g == [s \in SUBSET (1 .. k + 1) |->
                     IF s = {} THEN 0 ELSE f[s \ {Top(s)}] + w[Top(s)].size]
  <2>3. \A s \in SUBSET (1 .. k) : s \in SUBSET (1 .. k + 1)
    BY <2>1
  <2>4. \A s \in SUBSET (1 .. k) : g[s] = f[s]
    BY <2>2, <2>3 DEF SizesOf
  <2>5. \A s \in SUBSET (1 .. k + 1) : g[s \ {Top(s)}] = f[s \ {Top(s)}]
    BY <2>1, <2>4, TopOff
  <2>6. SizesOf(w, k + 1, g)
    <3> HIDE DEF g
    <3>1. g = [s \in SUBSET (1 .. k + 1) |->
                 IF s = {} THEN 0 ELSE f[s \ {Top(s)}] + w[Top(s)].size]
      BY DEF g
    <3> QED BY <2>5, <3>1 DEF SizesOf
  <2> QED  BY <2>1, <2>6
<1> HIDE DEF T
<1>3. T = Nat
  BY <1>1, <1>2, Induct DEF T
<1> QED  BY <1>3 DEF T

\* The fold is that solution, at the set of all indices.
LEMMA SizeUnfold ==
  ASSUME NEW S, NEW w \in Seq(S)
  PROVE  \E f : SizesOf(w, Len(w), f) /\ SizeOf(w) = f[1 .. Len(w)]
<1> DEFINE it == CHOOSE f : SizesOf(w, Len(w), f)
<1>1. SizeOf(w) = it[1 .. Len(w)]
  <2>1. DOMAIN w = 1 .. Len(w)
    OBVIOUS
  <2> QED  BY <2>1 DEF SizeOf, FoldLeft, MapThenFoldSet, Max, SizesOf, Top
<1>2. SizesOf(w, Len(w), it)
  BY SizeExists
<1> QED  BY <1>1, <1>2

\* It takes one line at a time, from the first one on.
LEMMA SizeStep ==
  ASSUME NEW w, NEW k \in Nat, NEW f, SizesOf(w, k, f)
  PROVE  /\ f[{}] = 0
         /\ \A j \in Nat : j < k => f[1 .. j + 1] = f[1 .. j] + w[j + 1].size
<1>1. f[{}] = 0
  BY DEF SizesOf
<1>2. ASSUME NEW j \in Nat, j < k
      PROVE  f[1 .. j + 1] = f[1 .. j] + w[j + 1].size
  <2>1. 1 .. j + 1 \in SUBSET (1 .. k) /\ 1 .. j + 1 # {} /\ j + 1 \in 1 .. j + 1
    BY <1>2
  <2>2. Top(1 .. j + 1) = j + 1
    BY <2>1, TopOff
  <2>3. (1 .. j + 1) \ {j + 1} = 1 .. j
    OBVIOUS
  <2>4. f[1 .. j + 1] = f[(1 .. j + 1) \ {j + 1}] + w[j + 1].size
    BY <2>1, <2>2 DEF SizesOf
  <2> QED  BY <2>3, <2>4
<1> QED  BY <1>1, <1>2

\* Sequences with a common start have the same value there.
LEMMA SizeAgree ==
  ASSUME NEW w, NEW k \in Nat, NEW f, SizesOf(w, k, f),
         NEW v, NEW m \in Nat, NEW g, SizesOf(v, m, g),
         NEW n \in Nat, n <= k, n <= m, \A i \in 1 .. n : w[i] = v[i]
  PROVE  f[1 .. n] = g[1 .. n]
<1> DEFINE T == {j \in Nat : j <= n => f[1 .. j] = g[1 .. j]}
<1>1. 0 \in T
  <2>1. 1 .. 0 = {}
    OBVIOUS
  <2> QED  BY <2>1, SizeStep
<1>2. ASSUME NEW j \in T PROVE j + 1 \in T
  <2>1. CASE j + 1 <= n
    <3>1. f[1 .. j] = g[1 .. j] /\ j < k /\ j < m /\ j + 1 \in 1 .. n
      BY <2>1
    <3>2. f[1 .. j + 1] = f[1 .. j] + w[j + 1].size
      BY <3>1, SizeStep
    <3>3. g[1 .. j + 1] = g[1 .. j] + v[j + 1].size
      BY <3>1, SizeStep
    <3> QED  BY <3>1, <3>2, <3>3
  <2> QED  BY <2>1
<1>3. T = Nat
  <2> HIDE DEF T
  <2> QED  BY <1>1, <1>2, Induct DEF T
<1> QED  BY <1>3

\* A line has a length.
LEMMA LineSize ==
  ASSUME NEW l \in HeaderLines
  PROVE  l.size \in Nat
BY DEF HeaderLines

\* The lines of a header are of some length together.
LEMMA SizeType ==
  ASSUME NEW w \in Seq(HeaderLines)
  PROVE  SizeOf(w) \in Nat
<1>1. PICK f : SizesOf(w, Len(w), f) /\ SizeOf(w) = f[1 .. Len(w)]
  BY SizeUnfold
<1>2. Len(w) \in Nat /\ \A i \in 1 .. Len(w) : w[i] \in HeaderLines
  OBVIOUS
<1> DEFINE T == {j \in Nat : j <= Len(w) => f[1 .. j] \in Nat}
<1>3. 0 \in T
  <2>1. 1 .. 0 = {}
    OBVIOUS
  <2> QED  BY <2>1, <1>1, <1>2, SizeStep
<1>4. ASSUME NEW j \in T PROVE j + 1 \in T
  <2>1. CASE j + 1 <= Len(w)
    <3>1. f[1 .. j] \in Nat /\ j \in Nat /\ j < Len(w) /\ w[j + 1].size \in Nat
      BY <2>1, <1>2, LineSize
    <3>2. f[1 .. j + 1] = f[1 .. j] + w[j + 1].size
      BY <3>1, <1>1, <1>2, SizeStep
    <3> QED  BY <3>1, <3>2
  <2> QED  BY <2>1
<1>5. T = Nat
  <2> HIDE DEF T
  <2> QED  BY <1>3, <1>4, Induct DEF T
<1> QED  BY <1>1, <1>2, <1>5

\* Without lines there is nothing.
LEMMA SizeEmpty == SizeOf(<<>>) = 0
<1>1. <<>> \in Seq(HeaderLines) /\ Len(<<>>) = 0 /\ 1 .. 0 = {}
  OBVIOUS
<1>2. PICK f : SizesOf(<<>>, 0, f) /\ SizeOf(<<>>) = f[{}]
  BY <1>1, SizeUnfold
<1> QED  BY <1>2, SizeStep

\* The first line takes its cells with it.
LEMMA SizeTail ==
  ASSUME NEW w \in Seq(HeaderLines), w # <<>>
  PROVE  SizeOf(w) = Head(w).size + SizeOf(Tail(w))
<1> DEFINE v == Tail(w)
           n == Len(w)
<1>1. /\ v \in Seq(HeaderLines) /\ n \in Nat \ {0} /\ Len(v) = n - 1 /\ Len(v) \in Nat
      /\ Head(w) = w[1] /\ \A i \in 1 .. n - 1 : v[i] = w[i + 1]
      /\ \A i \in 1 .. n : w[i] \in HeaderLines
  OBVIOUS
<1> HIDE DEF v, n
<1>2. PICK f : SizesOf(w, n, f) /\ SizeOf(w) = f[1 .. n]
  BY SizeUnfold DEF n
<1>3. PICK g : SizesOf(v, n - 1, g) /\ SizeOf(v) = g[1 .. n - 1]
  BY <1>1, SizeUnfold
<1>4. /\ f[{}] = 0 /\ g[{}] = 0
      /\ \A j \in Nat : j < n => f[1 .. j + 1] = f[1 .. j] + w[j + 1].size
      /\ \A j \in Nat : j < n - 1 => g[1 .. j + 1] = g[1 .. j] + v[j + 1].size
  <2>1. n \in Nat /\ n - 1 \in Nat
    BY <1>1
  <2>2. f[{}] = 0 /\ \A j \in Nat : j < n => f[1 .. j + 1] = f[1 .. j] + w[j + 1].size
    BY <2>1, <1>2, SizeStep
  <2>3. g[{}] = 0 /\ \A j \in Nat : j < n - 1 => g[1 .. j + 1] = g[1 .. j] + v[j + 1].size
    <3> DEFINE m == n - 1
    <3> HIDE DEF m
    <3>1. m \in Nat /\ SizesOf(v, m, g)
      BY <2>1, <1>3 DEF m
    <3>2. g[{}] = 0 /\ \A j \in Nat : j < m => g[1 .. j + 1] = g[1 .. j] + v[j + 1].size
      BY <3>1, SizeStep
    <3> QED  BY <3>2 DEF m
  <2> QED  BY <2>2, <2>3
<1>5. \A i \in 1 .. n : w[i].size \in Nat
  BY <1>1, LineSize
<1> DEFINE T == {j \in Nat : j <= n - 1 =>
                   g[1 .. j] \in Nat /\ f[1 .. j + 1] = w[1].size + g[1 .. j]}
<1>6. 0 \in T
  <2>1. 1 .. 0 = {} /\ 0 < n /\ 0 + 1 = 1 /\ 1 \in 1 .. n
    BY <1>1
  <2>2. f[1 .. 0 + 1] = f[1 .. 0] + w[0 + 1].size
    BY <2>1, <1>4
  <2>3. f[1 .. 0 + 1] = w[1].size + g[1 .. 0] /\ g[1 .. 0] \in Nat
    BY <2>1, <2>2, <1>4, <1>5
  <2> QED  BY <2>3
<1>7. ASSUME NEW j \in T PROVE j + 1 \in T
  <2>1. CASE j + 1 <= n - 1
    <3>1. /\ j \in Nat /\ j + 1 \in Nat /\ j < n - 1 /\ j + 1 < n
          /\ g[1 .. j] \in Nat /\ f[1 .. j + 1] = w[1].size + g[1 .. j]
      BY <2>1, <1>1
    <3>2. f[1 .. (j + 1) + 1] = f[1 .. j + 1] + w[(j + 1) + 1].size
      BY <3>1, <1>4
    <3>3. g[1 .. j + 1] = g[1 .. j] + v[j + 1].size
      BY <3>1, <1>4
    <3>4. /\ v[j + 1] = w[(j + 1) + 1] /\ w[(j + 1) + 1].size \in Nat
          /\ w[1].size \in Nat
      BY <3>1, <1>1, <1>5
    <3>5. g[1 .. j + 1] \in Nat /\ f[1 .. (j + 1) + 1] = w[1].size + g[1 .. j + 1]
      BY <3>1, <3>2, <3>3, <3>4, SMTT(30)
    <3> QED  BY <3>1, <3>5
  <2> QED  BY <2>1
<1>8. T = Nat
  <2> HIDE DEF T
  <2> QED  BY <1>6, <1>7, Induct DEF T
<1>9. f[1 .. (n - 1) + 1] = w[1].size + g[1 .. n - 1]
  BY <1>1, <1>8
<1> QED
  <2>1. (n - 1) + 1 = n
    BY <1>1
  <2>2. f[1 .. n] = w[1].size + g[1 .. n - 1]
    BY <2>1, <1>9
  <2> QED  BY <2>2, <1>1, <1>2, <1>3 DEF v

\* What is left of the header behind its first k lines: the next line, and the
\* rest of it.
SizeFrom(k) == SizeOf(SubSeq(Lines, k + 1, Len(Lines)))
LEMMA SizeFromStep ==
  ASSUME file \in Files, NEW k \in 0 .. Len(Lines)
  PROVE  /\ SizeFrom(k) \in Nat /\ Len(Lines) \in Nat
         /\ k < Len(Lines) => /\ Lines[k + 1].size \in Nat
                              /\ SizeFrom(k) = Lines[k + 1].size + SizeFrom(k + 1)
         /\ k = Len(Lines) => SizeFrom(k) = 0
<1> DEFINE w == SubSeq(Lines, k + 1, Len(Lines))
           n == Len(Lines)
<1>1. Lines \in Seq(HeaderLines) /\ n \in Nat /\ k \in Nat /\ k <= n
  BY FileIs DEF Lines
<1>2. /\ w \in Seq(HeaderLines) /\ Len(w) = n - k
      /\ \A i \in 1 .. n - k : w[i] = Lines[k + i]
  BY <1>1
<1>3. SizeFrom(k) = SizeOf(w)
  BY DEF SizeFrom
<1>4. SizeOf(w) \in Nat
  BY <1>2, SizeType
<1>5. CASE k = n
  <2>1. w = <<>>
    BY <1>1, <1>2, <1>5
  <2> HIDE DEF w
  <2>2. SizeFrom(k) = 0
    BY <1>3, <2>1, SizeEmpty
  <2> QED  BY <1>1, <1>3, <1>4, <1>5, <2>2
<1>6. CASE k < n
  <2>1. w # <<>> /\ Head(w) = Lines[k + 1]
    <3>1. Len(w) > 0 /\ w[1] = Lines[k + 1]
      <4> HIDE DEF w
      <4> QED  BY <1>1, <1>2, <1>6
    <3> HIDE DEF w
    <3> QED  BY <1>2, <3>1
  <2>2. Tail(w) = SubSeq(Lines, k + 1 + 1, n)
    <3> DEFINE u == Tail(w)
               v == SubSeq(Lines, k + 1 + 1, n)
    <3>1. u \in Seq(HeaderLines) /\ Len(u) = n - k - 1 /\ \A i \in 1 .. n - k - 1 : u[i] = w[i + 1]
      <4> HIDE DEF w
      <4> QED  BY <1>1, <1>2, <1>6, <2>1
    <3>2. v \in Seq(HeaderLines) /\ Len(v) = n - k - 1 /\ \A i \in 1 .. n - k - 1 : v[i] = Lines[k + 1 + i]
      BY <1>1, <1>6
    <3>3. \A i \in 1 .. n - k - 1 : w[i + 1] = Lines[k + 1 + i]
      <4> HIDE DEF w
      <4> QED  BY <1>1, <1>2, <1>6
    <3> HIDE DEF u, v
    <3> QED  BY <1>1, <1>6, <3>1, <3>2, <3>3
  <2>3. Lines[k + 1] \in HeaderLines
    BY <1>1, <1>6
  <2>4. SizeOf(w) = Head(w).size + SizeOf(Tail(w))
    <3> HIDE DEF w
    <3> QED  BY <1>2, <2>1, SizeTail
  <2>5. Lines[k + 1].size \in Nat
    BY <2>3, LineSize
  <2>6. SizeFrom(k + 1) = SizeOf(Tail(w))
    BY <2>2 DEF SizeFrom
  <2> HIDE DEF w, n
  <2>7. SizeFrom(k) = Lines[k + 1].size + SizeFrom(k + 1)
    BY <1>3, <2>1, <2>4, <2>6
  <2> QED  BY <1>1, <1>3, <1>4, <1>6, <2>5, <2>7 DEF n
<1> QED  BY <1>1, <1>5, <1>6

-----------------------------------------------------------------------------
(* A readable header is read.                                              *)

\* The file can be read: the callback returns all it is asked for, the header
\* is well-formed and its lines fit the buffer.
Full == fullReads /\ Readable(file) /\ LinesFit

\* Every line of a readable file is what the function of its keyword takes, and
\* the last one, and no other, ends the header.
LEMMA LineIsGood ==
  ASSUME HeaderInv, pc = "lines", Readable(file)
  PROVE  /\ next < Len(Lines) /\ Word(1) \in {"format", "element", "property", "comment", "end_header"}
         /\ Word(1) = "format" => Word(2) \in FormatWords /\ Word(3) = "1.0" /\ Word(4) = NULL
         /\ Word(1) = "element" => Word(2) # NULL /\ Word(3) \in DOMAIN Numerals /\ Word(4) = NULL
         /\ Word(1) = "property" =>
              /\ elements # <<>> /\ RightProperty
              /\ Word((IF Word(2) = "list" THEN 4 ELSE 2) + 2) = NULL
         /\ Word(1) = "end_header" => next + 1 = Len(Lines)
<1>1. file \in Files /\ elements \in Seq(Elements) /\ Passed /\ Lines = file.lines /\ Lines \in Seq(HeaderLines)
  BY FileIs DEF HeaderInv, Lines
<1>2. Describes(Lines, file.format, file.elements)
  BY <1>1, FileIs
<1>3. /\ Len(Lines) \in Nat /\ Len(Lines) # 0 /\ Keyword(Lines[Len(Lines)]) = "end_header"
  BY <1>1, <1>2 DEF Describes
<1>4. /\ next \in 0 .. Len(Lines) /\ next # Len(Lines)
      /\ Len(elements) = ElementOf(Lines, next)
  <2>1. /\ next \in 0 .. Len(Lines) /\ Len(elements) = ElementOf(Lines, next)
        /\ \A i \in 1 .. next : Keyword(Lines[i]) # "end_header"
    BY <1>1 DEF Passed
  <2>2. next # Len(Lines)
    <3>1. next = Len(Lines) => next \in 1 .. next
      BY <1>3, <2>1
    <3> QED  BY <1>3, <2>1, <3>1
  <2> QED  BY <2>1, <2>2
<1>5. next \in Nat /\ next < Len(Lines)
  BY <1>3, <1>4
<1>6. /\ next + 1 \in 1 .. Len(Lines) /\ Line = Lines[next + 1] /\ Line.words \in Seq(Words)
      /\ \A k \in Nat \ {0} : /\ Word(k) # NULL <=> k <= Len(Line.words)
                              /\ Word(k) # NULL => Word(k) = Line.words[k] /\ Word(k) \in Words
      /\ Keyword(Line) = Word(1) /\ Len(Line.words) \in Nat /\ {1, 2, 3, 4, 5, 6} \subseteq Nat \ {0}
  BY <1>1, <1>5, LineIs
<1> DEFINE e == ElementOf(Lines, next + 1)
           p == Cardinality(PropertyLines(Lines, next + 1, e))
<1>7. /\ Word(1) = "format" => SaysFormat(Line.words, file.format)
      /\ Word(1) = "element" => SaysElement(Line.words, file.elements[e])
      /\ Word(1) = "property" => e > 0 /\ SaysProperty(Line.words, file.elements[e].props[p])
  BY <1>1, <1>5, WhatIsSaid
<1>8. /\ Word(1) \in {"format", "element", "property", "comment", "end_header"}
      /\ Word(1) = "end_header" => next + 1 = Len(Lines)
  <2>1. CASE next + 1 = Len(Lines)
    BY <1>3, <1>6, <2>1
  <2>2. CASE next + 1 # Len(Lines)
    <3>1. next + 1 \in 1 .. Len(Lines) - 1
      BY <1>3, <1>6, <2>2
    <3>2. \/ Keyword(Line) = "comment"
          \/ SaysFormat(Line.words, file.format)
          \/ SaysElement(Line.words, file.elements[e])
          \/ e > 0 /\ SaysProperty(Line.words, file.elements[e].props[p])
      BY <1>2, <1>6, <3>1 DEF Describes
    <3>3. SaysFormat(Line.words, file.format) => Line.words[1] = "format" /\ Line.words # <<>>
      BY DEF SaysFormat
    <3>4. SaysElement(Line.words, file.elements[e]) => Line.words[1] = "element" /\ Line.words # <<>>
      BY <1>6 DEF SaysElement
    <3>5. SaysProperty(Line.words, file.elements[e].props[p]) => Line.words[1] = "property" /\ Line.words # <<>>
      BY <1>6 DEF SaysProperty
    <3> HIDE DEF e, p
    <3>6. Keyword(Line) \in {"format", "element", "property", "comment"}
      BY <3>2, <3>3, <3>4, <3>5 DEF Keyword
    <3> QED  BY <1>6, <3>6
  <2> QED  BY <2>1, <2>2
<1>9. Word(1) = "format" => Word(2) \in FormatWords /\ Word(3) = "1.0" /\ Word(4) = NULL
  <2> SUFFICES ASSUME Word(1) = "format"
               PROVE  Word(2) \in FormatWords /\ Word(3) = "1.0" /\ Word(4) = NULL
    OBVIOUS
  <2>1. file.format \in FormatWords /\ Line.words = <<"format", file.format, "1.0">>
    BY <1>7 DEF SaysFormat
  <2>2. Len(Line.words) = 3 /\ Line.words[2] = file.format /\ Line.words[3] = "1.0"
    BY <2>1
  <2>3. 2 <= Len(Line.words) /\ 3 <= Len(Line.words) /\ ~(4 <= Len(Line.words))
    BY <2>2
  <2> QED  BY <1>6, <2>1, <2>2, <2>3
<1>10. Word(1) = "element" => Word(2) # NULL /\ Word(3) \in DOMAIN Numerals /\ Word(4) = NULL
  <2> SUFFICES ASSUME Word(1) = "element"
               PROVE  Word(2) # NULL /\ Word(3) \in DOMAIN Numerals /\ Word(4) = NULL
    OBVIOUS
  <2>1. Len(Line.words) = 3 /\ Line.words[3] \in DOMAIN Numerals
    BY <1>7 DEF SaysElement
  <2>2. 2 <= Len(Line.words) /\ 3 <= Len(Line.words) /\ ~(4 <= Len(Line.words))
    BY <2>1
  <2> QED  BY <1>6, <2>1, <2>2
<1>11. Word(1) = "property" => elements # <<>>
  <2> SUFFICES ASSUME Word(1) = "property" PROVE elements # <<>>
    OBVIOUS
  <2>1. /\ ElementOf(Lines, next) \in Nat
        /\ e = ElementOf(Lines, next) + (IF Keyword(Lines[next + 1]) = "element" THEN 1 ELSE 0)
    BY <1>5, ElementCount
  <2>2. Keyword(Lines[next + 1]) = "property"
    BY <1>6
  <2>3. Len(elements) > 0
    BY <1>4, <1>7, <2>1, <2>2
  <2> QED  BY <2>3
<1>12. Word(1) = "property" =>
         RightProperty /\ Word((IF Word(2) = "list" THEN 4 ELSE 2) + 2) = NULL
  <2> SUFFICES ASSUME Word(1) = "property"
               PROVE  RightProperty /\ Word((IF Word(2) = "list" THEN 4 ELSE 2) + 2) = NULL
    OBVIOUS
  <2> DEFINE q == file.elements[e].props[p]
  <2>1. SaysProperty(Line.words, q) /\ e \in Nat /\ e > 0
    BY <1>5, <1>7, ElementCount
  <2>2. q \in Properties
    <3>1. p \in Nat /\ p > 0
      <4>1. Keyword(Lines[next + 1]) = "property"
        BY <1>6
      <4>2. ElementOf(Lines, next + 1) = e
        OBVIOUS
      <4> HIDE DEF e
      <4>3. /\ Cardinality(PropertyLines(Lines, next, e)) \in Nat
            /\ p = Cardinality(PropertyLines(Lines, next, e)) + 1
        BY <1>5, <4>1, <4>2, PropertyCount
      <4> QED  BY <4>3
    <3>2. next + 1 \in Nat /\ next + 1 <= Len(Lines) /\ e <= ElementOf(Lines, next + 1) /\ p <= Cardinality(PropertyLines(Lines, next + 1, e))
      BY <1>3, <1>5, <2>1, <3>1
    <3> DEFINE m == next + 1
    <3> HIDE DEF e, p, m
    <3>3. m \in Nat /\ m <= Len(Lines) /\ e <= ElementOf(Lines, m) /\ p <= Cardinality(PropertyLines(Lines, m, e))
      BY <3>2 DEF m
    <3> QED  BY <1>1, <2>1, <3>1, <3>3, TellsOf
  <2> HIDE DEF e, p, q
  <2>3. CASE q.list
    <3>1. /\ Len(Line.words) = 5 /\ Line.words[2] = "list"
          /\ IsType(Line.words[3]) /\ q.lengthType = TypeOf(Line.words[3]) /\ IsType(Line.words[4])
      BY <2>1, <2>3 DEF SaysProperty
    <3>2. /\ 2 <= Len(Line.words) /\ 3 <= Len(Line.words) /\ 4 <= Len(Line.words)
          /\ 5 <= Len(Line.words) /\ ~(6 <= Len(Line.words))
      BY <3>1
    <3>3. /\ Word(2) = "list" /\ Word(3) = Line.words[3] /\ Word(4) = Line.words[4]
          /\ Word(5) # NULL /\ Word(6) = NULL
      BY <1>6, <3>1, <3>2
    <3>4. q.lengthType \notin Floats
      BY <2>2 DEF Properties, PropertiesNamed, Signed, Unsigned, Floats
    <3>5. (IF Word(2) = "list" THEN 4 ELSE 2) = 4 /\ 4 + 1 = 5 /\ 4 + 2 = 6
      BY <3>3
    <3>6. RightProperty
      BY <3>1, <3>3, <3>4, <3>5 DEF RightProperty
    <3> QED  BY <3>3, <3>5, <3>6
  <2>4. CASE ~q.list
    <3>1. Len(Line.words) = 3 /\ IsType(Line.words[2])
      BY <2>1, <2>4 DEF SaysProperty
    <3>2. 2 <= Len(Line.words) /\ 3 <= Len(Line.words) /\ ~(4 <= Len(Line.words))
      BY <3>1
    <3>3. Word(2) = Line.words[2] /\ Word(3) # NULL /\ Word(4) = NULL
      BY <1>6, <3>2
    <3>4. Word(2) # "list"
      BY <3>1, <3>3, TypeOfType
    <3>5. (IF Word(2) = "list" THEN 4 ELSE 2) = 2 /\ 2 + 1 = 3 /\ 2 + 2 = 4
      BY <3>4
    <3>6. RightProperty
      BY <3>1, <3>3, <3>4, <3>5 DEF RightProperty
    <3> QED  BY <3>3, <3>5, <3>6
  <2> QED  BY <2>3, <2>4
<1> QED  BY <1>5, <1>8, <1>9, <1>10, <1>11, <1>12

\* The body of a readable file is a sequence of cells, whatever was parsed.
LEMMA BodyIsSeq ==
  ASSUME file \in Files, Readable(file), body \in Bodies(file)
  PROVE  body \in Seq(AllCells) /\ Len(body) \in Nat
<1> DEFINE es == file.elements
           n == Len(es)
           part(e) == [t \in 1 .. es[e].tuples |-> TupleCells(file, e, t - 1, Lengths)]
           parts == [e \in 1 .. n |-> FlattenSeq(part(e))]
<1>1. /\ es \in Seq(Elements) /\ n \in Nat
      /\ Lengths \in [Positions(file) -> Nat] /\ body = BodyOf(file, Lengths)
  BY FileIs, LengthsAre
<1>2. ASSUME NEW e \in 1 .. n
      PROVE  /\ es[e].tuples \in Nat /\ es[e].props \in Seq(Properties) /\ Len(es[e].props) \in Nat
             /\ \A p \in 1 .. Len(es[e].props) : es[e].props[p] \in Properties
  <2>1. es[e] \in Elements
    BY <1>1
  <2> HIDE DEF es
  <2> QED  BY <2>1 DEF Elements
<1>3. ASSUME NEW e \in 1 .. n, NEW t \in 1 .. es[e].tuples
      PROVE  TupleCells(file, e, t - 1, Lengths) \in Seq(AllCells)
  <2> DEFINE m == Len(es[e].props)
             s == t - 1
             value(p) == ValueCells(<<e, s, p>>, es[e].props[p], Lengths[<<e, s, p>>])
             values == [p \in 1 .. m |-> value(p)]
             tail == IF file.format = "ascii" THEN <<Newline>> ELSE <<>>
  <2>1. m \in Nat /\ s \in Nat /\ e \in Nat /\ s \in 0 .. es[e].tuples - 1
    BY <1>1, <1>2
  <2>2. ASSUME NEW p \in 1 .. m PROVE value(p) \in Seq(AllCells)
    <3>1. <<e, s, p>> \in Triples
      BY <2>1 DEF Triples
    <3>2. <<e, s, p>> \in Positions(file)
      BY <2>1 DEF Positions
    <3>3. Lengths[<<e, s, p>>] \in Nat
      BY <1>1, <3>2
    <3> DEFINE from == <<e, s, p>>
               q == es[e].props[p]
               l == Lengths[from]
    <3>4. from \in Triples /\ q \in Properties /\ l \in Nat
      BY <1>2, <3>1, <3>3
    <3> HIDE DEF from, q, l
    <3>5. ValueCells(from, q, l) \in Seq(AllCells)
      BY <3>4, ListCells, ScalarCells
    <3> QED  BY <3>5 DEF from, q, l
  <2>3. TupleCells(file, e, s, Lengths) = FlattenSeq(values) \o tail
    BY DEF TupleCells
  <2>4. values \in [1 .. m -> Seq(AllCells)]
    BY <2>2
  <2>5. tail \in Seq(AllCells)
    <3>1. Newline \in AllCells
      BY DEF Newline, AllCells, Triples
    <3> QED  BY <3>1
  <2> HIDE DEF values, tail, m, s
  <2>6. FlattenSeq(values) \in Seq(AllCells)
    BY <2>1, <2>4, Listed, Flat
  <2>7. TupleCells(file, e, s, Lengths) \in Seq(AllCells)
    BY <2>3, <2>5, <2>6
  <2> QED  BY <2>7 DEF s
<1>4. ASSUME NEW e \in 1 .. n PROVE FlattenSeq(part(e)) \in Seq(AllCells)
  <2>1. part(e) \in [1 .. es[e].tuples -> Seq(AllCells)]
    BY <1>3
  <2> DEFINE k == es[e].tuples
  <2>2. k \in Nat
    BY <1>2
  <2> HIDE DEF part, k
  <2>3. part(e) \in Seq(Seq(AllCells))
    BY <2>1, <2>2, Listed DEF k
  <2> QED  BY <2>3, Flat
<1>5. parts \in [1 .. n -> Seq(AllCells)]
  BY <1>4
<1>6. body = FlattenSeq(parts)
  BY <1>1 DEF BodyOf
<1> HIDE DEF parts, n
<1>7. parts \in Seq(Seq(AllCells))
  BY <1>1, <1>5, Listed
<1>8. FlattenSeq(parts) \in Seq(AllCells)
  BY <1>7, Flat
<1>9. body \in Seq(AllCells)
  BY <1>6, <1>8
<1> QED  BY <1>9

\* A callback that returns all it is asked for, if there is.
LEMMA ReadsAll ==
  ASSUME fullReads, NEW space \in Int, NEW left \in Int, NEW r \in Reads(space, left)
  PROVE  r = IF space <= left THEN space ELSE left
<1> DEFINE m == IF space <= left THEN space ELSE left
<1>1. m \in {space, left} /\ \A x \in {space, left} : m <= x
  OBVIOUS
<1>2. r = Min({space, left})
  BY DEF Reads
<1>3. r \in {space, left} /\ \A x \in {space, left} : r <= x
  <2> HIDE DEF m
  <2> QED  BY <1>1, <1>2 DEF Min
<1> QED  BY <1>3

-----------------------------------------------------------------------------
(* The buffer.                                                             *)

\* The buffer and the part of the file that was read.
TupleEnd(e, t) == At(BodyParts, e, t + 1)
Reached ==
  /\ fill \in 0 .. memoryBreak /\ dropped + fill <= Len(body)
  /\ property # 0 => TupleEnd(element, tuple) <= dropped + fill

\* With full reads the next line is there up to its newline, and so is the tuple
\* that is read, if it fits at all.
FullInv ==
  /\ pc = "start" => fill = 0
  /\ Full =>
       /\ pc = "lines" => fill \in 0 .. MinBuffer /\ SizeFrom(next) + Len(body) - fill \in Nat
       /\ pc = "accepted" => fill \in 0 .. MinBuffer /\ fill <= Len(body)
       /\ pc \in {"advance", "read", "list"} /\ ~Astray /\ TuplesFit => Reached
  /\ FullReadsSuffice

\* A line of a readable header is in the buffer when it is parsed.
LEMMA LineIsThere ==
  ASSUME HeaderInv, StreamInv, FullInv, Full, pc = "lines"
  PROVE  /\ \A r \in Reads(HeaderSpace, Unread) : fill + r >= Line.size
         /\ GetLine => /\ next' = next + 1 /\ fill' \in 0 .. MinBuffer
                       /\ SizeFrom(next + 1) + Len(body) - fill' \in Nat
<1>1. next < Len(Lines) /\ file \in Files /\ Readable(file) /\ LinesFit /\ fullReads
  BY LineIsGood DEF HeaderInv, Full
<1>2. Len(body) \in Nat
  BY <1>1, BodyIsSeq DEF StreamInv
<1>3. next \in 0 .. Len(Lines)
  BY DEF HeaderInv, Passed
<1>4. fill \in 0 .. MinBuffer /\ SizeFrom(next) + Len(body) - fill \in Nat
  BY DEF FullInv
<1>5. /\ SizeFrom(next) \in Nat /\ Len(Lines) \in Nat
      /\ Line.size \in Nat /\ SizeFrom(next) = Line.size + SizeFrom(next + 1)
  <2>1. SizeFrom(next) \in Nat /\ Len(Lines) \in Nat
    BY <1>1, <1>3, SizeFromStep
  <2>2. Lines[next + 1].size \in Nat /\ SizeFrom(next) = Lines[next + 1].size + SizeFrom(next + 1)
    BY <1>1, <1>3, SizeFromStep
  <2> QED  BY <2>1, <2>2 DEF Line
<1>6. SizeFrom(next + 1) \in Nat
  <2> DEFINE k == next + 1
  <2>1. k \in 0 .. Len(Lines)
    BY <1>1, <1>3, <1>5
  <2> HIDE DEF k
  <2>2. SizeFrom(k) \in Nat
    BY <1>1, <2>1, SizeFromStep
  <2> QED  BY <2>2 DEF k
<1>7. Line.size <= MinBuffer
  <2>1. next + 1 \in 1 .. Len(Lines)
    BY <1>1, <1>3, <1>5
  <2> QED  BY <1>1, <2>1 DEF LinesFit, Line
<1>8. Unread = SizeFrom(next) + Len(body) - fill /\ HeaderSpace = MinBuffer - fill
  BY DEF Unread, SizeFrom, HeaderSpace
<1>9. MinBuffer \in Nat
  BY Constants
<1> HIDE DEF Unread, HeaderSpace
<1>10. ASSUME NEW r \in Reads(HeaderSpace, Unread)
       PROVE  /\ r \in Nat /\ fill + r >= Line.size /\ fill + r <= MinBuffer
              /\ r <= SizeFrom(next) + Len(body) - fill
  <2>1. HeaderSpace \in Int /\ Unread \in Int
    BY <1>4, <1>8, <1>9
  <2>2. r = IF HeaderSpace <= Unread THEN HeaderSpace ELSE Unread
    BY <1>1, <2>1, ReadsAll
  <2> QED  BY <1>2, <1>4, <1>5, <1>6, <1>7, <1>8, <1>9, <2>2
<1>11. ASSUME GetLine
       PROVE  /\ next' = next + 1 /\ fill' \in 0 .. MinBuffer
              /\ SizeFrom(next + 1) + Len(body) - fill' \in Nat
  <2>1. PICK r \in Reads(HeaderSpace, Unread) :
          fill + r >= Line.size /\ next' = next + 1 /\ fill' = fill + r - Line.size
    BY <1>11 DEF GetLine
  <2>2. /\ r \in Nat /\ fill + r <= MinBuffer /\ r <= SizeFrom(next) + Len(body) - fill
    BY <1>10
  <2> DEFINE f == fill'
             l == Line.size
             a == SizeFrom(next)
             b == SizeFrom(next + 1)
             c == Len(body)
  <2>3. /\ c \in Nat /\ fill \in Nat /\ a \in Nat /\ b \in Nat /\ l \in Nat /\ a = l + b
        /\ f = fill + r - l /\ fill + r >= l
        /\ r \in Nat /\ fill + r <= MinBuffer /\ r <= a + c - fill /\ MinBuffer \in Nat
    BY <1>2, <1>4, <1>5, <1>6, <1>9, <2>1, <2>2
  <2> HIDE DEF f, a, b, c, l
  <2>4. f \in 0 .. MinBuffer /\ b + c - f \in Nat
    BY <2>3
  <2> QED  BY <2>1, <2>4 DEF f, b, c
<1> QED  BY <1>10, <1>11

\* The callback and the file are as before, and the lines with them.
LEMMA FullStays ==
  ASSUME UNCHANGED setup
  PROVE  /\ Full' <=> Full
         /\ file' = file /\ body' = body /\ Lines' = Lines
         /\ \A k : SizeFrom(k)' = SizeFrom(k)
BY DEF setup, Full, LinesFit, Readable, SizeFrom, Lines

\* The header goes on, or ends without an error.
LEMMA FullGoesOn ==
  ASSUME UNCHANGED setup, pc' \notin {"start", "advance", "read", "list"},
         Full => /\ pc' \notin {"error", "stale line", "stale"}
                 /\ pc' = "lines" =>
                      fill' \in 0 .. MinBuffer /\ SizeFrom(next') + Len(body) - fill' \in Nat
                 /\ pc' = "accepted" => fill' \in 0 .. MinBuffer /\ fill' <= Len(body)
  PROVE  FullInv'
<1>1. /\ Full' <=> Full
      /\ body' = body /\ \A k : SizeFrom(k)' = SizeFrom(k)
  BY FullStays
<1>2. pc' = "lines" /\ Full' => fill' \in 0 .. MinBuffer /\ (SizeFrom(next) + Len(body) - fill)' \in Nat
  <2>1. SizeFrom(next)' = SizeFrom(next')
    BY DEF SizeFrom, Lines, setup
  <2> HIDE DEF Full
  <2> QED  BY <1>1, <2>1
<1>3. pc' = "accepted" /\ Full' => fill' \in 0 .. MinBuffer /\ fill' <= Len(body')
  BY <1>1
<1>4. FullReadsSuffice'
  <2>1. Full' => pc' \notin {"error", "stale line", "stale"}
    BY <1>1
  <2> QED  BY <2>1 DEF FullReadsSuffice, Full
<1> QED  BY <1>2, <1>3, <1>4 DEF FullInv

LEMMA HeaderIsRead ==
  ASSUME HeaderInv, StreamInv, FullInv, HeaderNext
  PROVE  FullInv'
<1>1. UNCHANGED setup
  BY DEF HeaderNext, ProcessHeader, Start, FormatLine, ElementLine, PropertyLine,
         PropertyOfNothing, NoMemory, OtherLine, NoNewline, StartFails, LineFails
<1>2. CASE Start
  <2>1. /\ pc = "start" /\ pc' \in {"error", "lines"} /\ next' = next /\ next = 0 /\ fill = 0
    BY <1>2 DEF Start, HeaderInv, FullInv
  <2>2. ASSUME Full
        PROVE  /\ pc' = "lines" /\ fill' \in 0 .. MinBuffer
               /\ SizeFrom(next') + Len(body) - fill' \in Nat
    <3>1. file \in Files /\ Readable(file) /\ fullReads /\ body \in Bodies(file)
      BY <2>2 DEF Full, HeaderInv, StreamInv
    <3>2. Len(body) \in Nat
      BY <3>1, BodyIsSeq
    <3>3. SizeFrom(0) \in Nat
      <4>1. Len(Lines) \in Nat
        <5>1. Lines \in Seq(HeaderLines)
          BY <3>1, FileIs DEF Lines
        <5> QED  BY <5>1
      <4>2. 0 \in 0 .. Len(Lines)
        BY <4>1
      <4> QED  BY <3>1, <4>2, SizeFromStep
    <3>4. Lines # <<>>
      BY <3>1, FileIs DEF Lines, Describes
    <3>5. Unread = SizeFrom(0) + Len(body)
      <4>1. Unread = SizeFrom(next) + Len(body) - fill
        BY DEF Unread, SizeFrom
      <4> QED  BY <2>1, <3>2, <3>3, <4>1
    <3>6. MinBuffer \in Nat /\ Magic = 4 /\ Magic <= MinBuffer
      BY HeaderAssumption DEF HeaderAssumption, Magic
    <3> HIDE DEF Unread
    <3>7. PICK r \in Reads(MinBuffer, Magic + Unread) :
            IF r < Magic \/ Lines = <<>> THEN fill' = r /\ pc' = "error"
            ELSE fill' = r - Magic /\ pc' = "lines"
      BY <1>2 DEF Start
    <3>8. r = IF MinBuffer <= Magic + Unread THEN MinBuffer ELSE Magic + Unread
      <4>1. MinBuffer \in Int /\ Magic + Unread \in Int
        BY <3>2, <3>3, <3>5, <3>6
      <4> QED  BY <3>1, <4>1, ReadsAll
    <3>9. r \in Nat /\ r >= Magic /\ r <= MinBuffer /\ r <= Magic + Unread
      BY <3>2, <3>3, <3>5, <3>6, <3>8
    <3>10. fill' = r - Magic /\ pc' = "lines"
      BY <3>4, <3>6, <3>7, <3>9
    <3>11. fill' \in 0 .. MinBuffer /\ SizeFrom(0) + Len(body) - fill' \in Nat
      BY <3>2, <3>3, <3>5, <3>6, <3>9, <3>10
    <3> QED  BY <2>1, <3>10, <3>11
  <2> QED  BY <1>1, <2>1, <2>2, FullGoesOn
<1>3. CASE StartFails \/ LineFails
  <2>1. pc' = "failed"
    BY <1>3 DEF StartFails, LineFails
  <2> QED  BY <1>1, <2>1, FullGoesOn
<1>10. CASE NoMemory
  <2>1. /\ pc = "lines" /\ Word(1) \in {"element", "property"}
        /\ pc' = IF WritesBlock THEN "crashed" ELSE "error"
    BY <1>10 DEF NoMemory, AtLine
  <2>2. ASSUME Full PROVE WritesBlock
    <3>1. CASE Word(1) = "element"
      <4>1. Word(2) # NULL
        BY <2>1, <2>2, <3>1, LineIsGood DEF Full
      <4> QED  BY <3>1, <4>1 DEF WritesBlock
    <3>2. CASE Word(1) = "property"
      <4>1. RightProperty
        BY <2>1, <2>2, <3>2, LineIsGood DEF Full
      <4>2. Word(2) = "list" \/ IsType(Word(2))
        BY <4>1 DEF RightProperty
      <4>3. ~IsType(NULL)
        <5>1. Len(TypeNames) = 16
          BY DEF TypeNames
        <5>2. /\ TypeNames[1] # "" /\ TypeNames[2] # "" /\ TypeNames[3] # "" /\ TypeNames[4] # ""
              /\ TypeNames[5] # "" /\ TypeNames[6] # "" /\ TypeNames[7] # "" /\ TypeNames[8] # ""
              /\ TypeNames[9] # "" /\ TypeNames[10] # "" /\ TypeNames[11] # "" /\ TypeNames[12] # ""
              /\ TypeNames[13] # "" /\ TypeNames[14] # "" /\ TypeNames[15] # "" /\ TypeNames[16] # ""
          BY DEF TypeNames
        <5>3. NULL = ""
          BY DEF NULL
        <5>4. ASSUME NEW k \in 1 .. 16 PROVE TypeNames[k] # ""
          <6>1. \/ k = 1 \/ k = 2 \/ k = 3 \/ k = 4 \/ k = 5 \/ k = 6 \/ k = 7 \/ k = 8
                \/ k = 9 \/ k = 10 \/ k = 11 \/ k = 12 \/ k = 13 \/ k = 14 \/ k = 15 \/ k = 16
            OBVIOUS
          <6> QED  BY <5>2, <6>1, Zenon
        <5> QED  BY <5>1, <5>3, <5>4 DEF IsType
      <4>4. Word(2) # NULL
        BY <4>2, <4>3 DEF NULL
      <4> QED  BY <4>2, <4>4 DEF WritesBlock
    <3> QED  BY <2>1, <3>1, <3>2
  <2>3. pc' \in {"crashed", "error"} /\ (Full => pc' = "crashed")
    BY <2>1, <2>2
  <2> QED  BY <1>1, <2>3, FullGoesOn
<1>4. CASE FormatLine
  <2>1. pc = "lines" /\ Word(1) = "format" /\ GetLine /\ pc' \in {"lines", "error"}
    BY <1>4 DEF FormatLine, AtLine, GoOn
  <2>2. ASSUME Full PROVE pc' = "lines"
    <3>1. Word(2) \in FormatWords /\ Word(3) = "1.0" /\ Word(4) = NULL
      BY <2>1, <2>2, LineIsGood DEF Full
    <3> QED  BY <1>4, <3>1 DEF FormatLine, GoOn
  <2> QED  BY <1>1, <2>1, <2>2, FullGoesOn, LineIsThere
<1>5. CASE ElementLine
  <2>1. pc = "lines" /\ Word(1) = "element" /\ GetLine /\ pc' \in {"lines", "error"}
    BY <1>5 DEF ElementLine, AtLine, GoOn
  <2>2. ASSUME Full PROVE pc' = "lines"
    <3>1. Word(2) # NULL /\ Word(3) \in DOMAIN Numerals /\ Word(4) = NULL
      BY <2>1, <2>2, LineIsGood DEF Full
    <3> QED  BY <1>5, <3>1 DEF ElementLine, GoOn
  <2> QED  BY <1>1, <2>1, <2>2, FullGoesOn, LineIsThere
<1>6. CASE PropertyLine
  <2>1. pc = "lines" /\ Word(1) = "property" /\ GetLine /\ pc' \in {"lines", "error"}
    BY <1>6 DEF PropertyLine, AtLine, GoOn
  <2>2. ASSUME Full PROVE pc' = "lines"
    <3> DEFINE k == IF Word(2) = "list" THEN 4 ELSE 2
    <3>1. RightProperty /\ Word(k + 2) = NULL
      BY <2>1, <2>2, LineIsGood DEF Full
    <3>2. (k + 1) + 1 = k + 2
      OBVIOUS
    <3> QED  BY <1>6, <3>1, <3>2 DEF PropertyLine, GoOn, RightProperty
  <2> QED  BY <1>1, <2>1, <2>2, FullGoesOn, LineIsThere
<1>7. CASE PropertyOfNothing
  <2>1. pc = "lines" /\ Word(1) = "property" /\ elements = <<>> /\ pc' = "error"
    BY <1>7 DEF PropertyOfNothing, AtLine
  <2>2. ~Full
    BY <2>1, LineIsGood DEF Full
  <2> QED  BY <1>1, <2>1, <2>2, FullGoesOn
<1>8. CASE OtherLine
  <2>1. /\ pc = "lines" /\ Word(1) \notin {"format", "element", "property"} /\ GetLine
        /\ pc' = CASE Word(1) = "comment" -> "lines" [] Word(1) = "end_header" -> "accepted"
                   [] OTHER -> "error"
    BY <1>8 DEF OtherLine
  <2>2. pc' \in {"lines", "accepted", "error"}
    BY <2>1
  <2>3. ASSUME Full
        PROVE  \/ pc' = "lines"
               \/ pc' = "accepted" /\ next + 1 = Len(Lines)
    <3>1. /\ Word(1) \in {"format", "element", "property", "comment", "end_header"}
          /\ Word(1) = "end_header" => next + 1 = Len(Lines)
      BY <2>1, <2>3, LineIsGood DEF Full
    <3> QED  BY <2>1, <3>1
  <2>4. ASSUME Full, pc' = "accepted" PROVE fill' \in 0 .. MinBuffer /\ fill' <= Len(body)
    <3>1. /\ next + 1 = Len(Lines) /\ fill' \in 0 .. MinBuffer
          /\ SizeFrom(next + 1) + Len(body) - fill' \in Nat
      BY <2>1, <2>3, <2>4, LineIsThere
    <3>2. file \in Files /\ Len(body) \in Nat
      BY <2>4, BodyIsSeq DEF HeaderInv, StreamInv, Full
    <3>3. SizeFrom(next + 1) = 0
      <4> DEFINE k == next + 1
      <4>1. Len(Lines) \in Nat
        <5>1. Lines \in Seq(HeaderLines)
          BY <3>2, FileIs DEF Lines
        <5> QED  BY <5>1
      <4>2. k \in 0 .. Len(Lines) /\ k = Len(Lines)
        BY <3>1, <4>1
      <4> HIDE DEF k
      <4>3. SizeFrom(k) = 0
        BY <3>2, <4>2, SizeFromStep
      <4> QED  BY <4>3 DEF k
    <3>4. MinBuffer \in Nat
      BY Constants
    <3> QED  BY <3>1, <3>2, <3>3, <3>4
  <2> QED  BY <1>1, <2>1, <2>2, <2>3, <2>4, FullGoesOn, LineIsThere
<1>9. CASE NoNewline
  <2>1. pc = "lines" /\ pc' \in {"error", "stale line"}
    BY <1>9 DEF NoNewline
  <2>2. ASSUME Full PROVE FALSE
    <3>1. PICK r \in Reads(HeaderSpace, Unread) : next < Len(Lines) => fill + r < Line.size
      BY <1>9 DEF NoNewline
    <3>2. next < Len(Lines)
      BY <2>1, <2>2, LineIsGood DEF Full
    <3>3. fill + r >= Line.size
      BY <2>1, <2>2, LineIsThere
    <3>4. fill + r \in Int /\ Line.size \in Int
      <4>1. file \in Files /\ Len(body) \in Nat /\ fullReads /\ next \in Nat
        BY <2>1, <2>2, <3>2, AtLineIs, BodyIsSeq DEF StreamInv, Full
      <4>2. fill \in 0 .. MinBuffer /\ SizeFrom(next) + Len(body) - fill \in Nat
        BY <2>1, <2>2 DEF FullInv
      <4>3. HeaderSpace = MinBuffer - fill /\ Unread = SizeFrom(next) + Len(body) - fill /\ MinBuffer \in Nat
        BY Constants DEF HeaderSpace, Unread, SizeFrom
      <4> HIDE DEF HeaderSpace, Unread
      <4>4. HeaderSpace \in Int /\ Unread \in Int
        BY <4>2, <4>3
      <4>5. r \in Int
        BY <4>1, <4>4, ReadsAll
      <4>6. Line.size \in Nat
        BY <3>2, <4>1, LineIs
      <4> QED  BY <4>2, <4>3, <4>5, <4>6
    <3> QED  BY <3>1, <3>2, <3>3, <3>4
  <2> QED  BY <1>1, <2>1, <2>2, FullGoesOn
<1> QED  BY <1>2, <1>3, <1>4, <1>5, <1>6, <1>7, <1>8, <1>9, <1>10 DEF HeaderNext, ProcessHeader

-----------------------------------------------------------------------------
(* A readable body is read.                                                *)

\* All cells of a value are from its place.
LEMMA CellsFrom ==
  ASSUME NEW from \in Triples, NEW p \in Properties, NEW n \in Nat,
         NEW k \in 1 .. Len(ValueCells(from, p, n))
  PROVE  ValueCells(from, p, n)[k].from = from
<1> DEFINE c == ValueCells(from, p, n)
<1>1. p.type \in Types /\ p.lengthType \in Types
  BY PropertyTypes
<1>2. CASE ~p.list
  <2>1. c = CellsOf(from, p.type, 0) /\ 0 \in Nat
    BY <1>2 DEF ValueCells
  <2>2. Len(c) = Width(p.type) /\ \A i \in 1 .. Width(p.type) : c[i].from = from
    BY <1>1, <2>1, CellsOfIs
  <2> QED  BY <2>2
<1>3. CASE p.list
  <2> DEFINE head == CellsOf(from, p.lengthType, n)
             ss == Items(from, p.type, n)
             tail == FlattenSeq(ss)
             w == Width(p.lengthType)
  <2>1. c = head \o tail
    BY <1>3 DEF ValueCells, Items
  <2>2. head \in Seq(AllCells) /\ Len(head) = w /\ w \in Nat /\ \A i \in 1 .. w : head[i].from = from
    BY <1>1, CellsOfIs
  <2>3. /\ ss \in Seq(Seq(AllCells)) /\ Len(ss) = n
        /\ \A i \in 1 .. n : ss[i] = CellsOf(from, p.type, i)
    BY <1>1, ItemsAre
  <2> HIDE DEF ss
  <2>4. tail \in Seq(AllCells) /\ Len(tail) \in Nat
    BY <2>3, Flat
  <2>5. ASSUME NEW j \in 1 .. Len(tail) PROVE tail[j].from = from
    <3>1. PICK h \in 1 .. Len(ss) : \E i \in 1 .. Len(ss[h]) : j = Off(ss, h - 1) + i
      BY <2>3, FlatFrom
    <3>2. PICK i \in 1 .. Len(ss[h]) : j = Off(ss, h - 1) + i
      BY <3>1
    <3>3. tail[j] = ss[h][i]
      <4>1. \A g \in 1 .. Len(ss) : \A m \in 1 .. Len(ss[g]) : FlattenSeq(ss)[Off(ss, g - 1) + m] = ss[g][m]
        BY <2>3, Flat
      <4> QED  BY <3>2, <4>1
    <3>4. h \in Nat /\ ss[h] = CellsOf(from, p.type, h)
      BY <2>3
    <3>5. Len(ss[h]) = Width(p.type) /\ \A m \in 1 .. Width(p.type) : ss[h][m].from = from
      BY <1>1, <3>4, CellsOfIs
    <3> QED  BY <3>2, <3>3, <3>5
  <2> HIDE DEF head, tail, w, c
  <2>6. /\ Len(c) = w + Len(tail)
        /\ \A j \in 1 .. w : c[j] = head[j]
        /\ \A j \in 1 .. Len(tail) : c[w + j] = tail[j]
    <3>1. head \in Seq(AllCells) /\ tail \in Seq(AllCells) /\ c = head \o tail
      BY <2>1, <2>2, <2>4
    <3>2. /\ Len(c) = Len(head) + Len(tail)
          /\ \A j \in 1 .. Len(head) : c[j] = head[j]
          /\ \A j \in 1 .. Len(tail) : c[Len(head) + j] = tail[j]
      BY <3>1, Joined
    <3> QED  BY <2>2, <3>2
  <2>7. k \in 1 .. Len(c)
    BY DEF c
  <2>8. CASE k <= w
    BY <2>2, <2>6, <2>7, <2>8 DEF c
  <2>9. CASE k > w
    <3>1. k - w \in 1 .. Len(tail) /\ w + (k - w) = k
      BY <2>2, <2>4, <2>6, <2>7, <2>9
    <3>2. c[k] = tail[k - w]
      BY <2>6, <3>1
    <3> QED  BY <2>5, <3>1, <3>2 DEF c
  <2> QED  BY <2>2, <2>7, <2>8, <2>9
<1> QED  BY <1>2, <1>3

\* A tuple lies in the body; its values come in order, a newline after them if
\* the file is of text, and it is as long as what comes from it.
LEMMA TupleHolds ==
  ASSUME Matches, memoryBreak \in Int, NEW e, NEW t, NEW p, Valid(e, t, p)
  PROVE  /\ TupleEnd(e, t) \in Nat /\ TupleEnd(e, t) <= Len(body) /\ Len(body) \in Nat
         /\ TupleEnd(e, t) = Pos(e, t, Len(Props(e)) + 1) + Break
         /\ Pos(e, t, p + 1) \in Nat /\ Pos(e, t, p + 1) <= Pos(e, t, Len(Props(e)) + 1)
         /\ Ascii => body[Pos(e, t, Len(Props(e)) + 1) + 1] = Newline
         /\ TuplesFit => TupleEnd(e, t) - Pos(e, t, 1) <= memoryBreak
<1> DEFINE n == Len(Props(e))
           tp == TupleParts(e, t)
           a == At(BodyParts, e, t)
           c == TupleCells(file, e, t, Lengths)
           o == Off(tp, n)
<1>1. e \in 1 .. Len(elements) /\ t \in 0 .. Tuples(e) - 1 /\ p \in 1 .. n
  BY DEF Valid
<1>2. /\ BodyParts \in Seq(Seq(Seq(AllCells))) /\ Len(BodyParts) = Len(elements)
      /\ Len(BodyParts[e]) = Tuples(e) /\ BodyParts[e][t + 1] = c
      /\ body = FlattenSeq(Flats(BodyParts))
  BY <1>1, BodyIs
<1>3. /\ tp \in Seq(Seq(AllCells)) /\ Len(tp) = n
      /\ \A q \in 1 .. n : tp[q] = Cells(e, t, q)
      /\ c \in Seq(AllCells) /\ Len(c) = o + Break
      /\ \A i \in 1 .. Len(FlattenSeq(tp)) : c[i] = FlattenSeq(tp)[i]
      /\ \A i \in 1 .. Len(c) : i > o => c[i] = Newline
  BY <1>1, TupleIs DEF Laid
<1>4. n \in Nat /\ Tuples(e) \in Nat
  BY <1>1, ElementIs DEF Matches
<1>5. body \in Seq(AllCells) /\ Len(body) \in Nat
  BY BodyIsSeq DEF Matches
<1>6. /\ a \in Nat /\ TupleEnd(e, t) \in Nat /\ TupleEnd(e, t) = Pos(e, t, n + 1) + Break
      /\ \A q \in 1 .. n + 1 : Pos(e, t, q) \in Nat
      /\ Pos(e, t, 1) = a
      /\ \A q : Pos(e, t, q) = a + Off(tp, q - 1)
  BY <1>1, TupleAt DEF TupleEnd, Pos
<1> HIDE DEF tp, n, a, c
<1>7. o \in Nat /\ Pos(e, t, n + 1) = a + o /\ Break \in Nat /\ (Ascii => Break = 1)
  <2>1. n \in 0 .. n /\ (n + 1) - 1 = n
    BY <1>4
  <2>2. o \in Nat
    BY <1>3, <2>1, OffStep
  <2> QED  BY <1>6, <2>1, <2>2 DEF Break
<1>8. Pos(e, t, p + 1) \in Nat /\ Pos(e, t, p + 1) <= Pos(e, t, n + 1)
  <2>1. p \in 0 .. n /\ (p + 1) - 1 = p /\ n \in p .. n /\ p + 1 \in 1 .. n + 1
    BY <1>1, <1>4
  <2>2. Off(tp, p) <= o
    BY <1>3, <2>1, OffGrows
  <2>3. Pos(e, t, p + 1) = a + Off(tp, p) /\ Off(tp, p) \in Nat
    <3>1. Off(tp, p) \in Nat
      BY <1>3, <2>1, OffStep
    <3> QED  BY <1>6, <2>1, <3>1
  <2> HIDE DEF o
  <2> QED  BY <1>6, <1>7, <2>2, <2>3
<1>9. \A i \in 1 .. Len(c) : a + i \in 1 .. Len(body) /\ body[a + i] = c[i]
  <2>1. \A i \in 1 .. Len(TupleCells(file, e, t, Lengths)) :
          /\ At(BodyParts, e, t) + i \in 1 .. Len(body)
          /\ body[At(BodyParts, e, t) + i] = TupleCells(file, e, t, Lengths)[i]
    BY <1>1, BodyHas
  <2> QED  BY <2>1 DEF a, c
<1>10. Len(c) \in Nat /\ Len(c) >= 1
  <2>1. Len(Cells(e, t, p)) >= 1 /\ Len(Cells(e, t, p)) \in Nat
    <3>1. 1 \in 1 .. Len(Cells(e, t, p)) /\ Cells(e, t, p) \in Seq(AllCells)
      BY CellsAre
    <3> QED  BY <3>1
  <2>2. Pos(e, t, p + 1) = Pos(e, t, p) + Len(Cells(e, t, p)) /\ Pos(e, t, p) \in Nat
    <3>1. p \in 1 .. Len(Props(e)) + 1
      BY <1>1, <1>4 DEF n
    <3>2. p \in 1 .. Len(Props(e))
      BY <1>1 DEF n
    <3> QED  BY <1>1, <3>1, <3>2, TupleAt
  <2>3. Pos(e, t, p) = a + Off(tp, p - 1) /\ Off(tp, p - 1) \in Nat
    <3>1. p - 1 \in 0 .. n
      BY <1>1, <1>4
    <3>2. Off(tp, p - 1) \in Nat
      BY <1>3, <3>1, OffStep
    <3> QED  BY <1>6, <3>2
  <2> HIDE DEF o
  <2>4. o >= 1
    BY <1>6, <1>7, <1>8, <2>1, <2>2, <2>3
  <2> QED  BY <1>3, <1>7, <2>4
<1>11. TupleEnd(e, t) <= Len(body) /\ TupleEnd(e, t) = a + Len(c)
  <2>1. Len(c) \in 1 .. Len(c)
    BY <1>10
  <2>2. a + Len(c) \in 1 .. Len(body)
    BY <1>9, <2>1
  <2> HIDE DEF o
  <2> QED  BY <1>3, <1>5, <1>6, <1>7, <2>2
<1>12. Ascii => body[Pos(e, t, n + 1) + 1] = Newline
  <2> SUFFICES ASSUME Ascii PROVE body[Pos(e, t, n + 1) + 1] = Newline
    OBVIOUS
  <2> HIDE DEF o
  <2>1. o + 1 \in 1 .. Len(c) /\ o + 1 > o
    BY <1>3, <1>7
  <2>2. Pos(e, t, n + 1) + 1 = a + (o + 1)
    BY <1>6, <1>7
  <2> QED  BY <1>3, <1>9, <2>1, <2>2
<1>13. ASSUME TuplesFit PROVE TupleEnd(e, t) - Pos(e, t, 1) <= memoryBreak
  <2> DEFINE I == a + 1 .. a + o
             K == {i \in 1 .. Len(body) : body[i].from[1] = e /\ body[i].from[2] = t}
  <2>1. ASSUME NEW i \in I PROVE i \in K
    <3> DEFINE j == i - a
    <3>1. j \in 1 .. o /\ i = a + j /\ j \in 1 .. Len(c)
      <4> HIDE DEF o
      <4> QED  BY <1>3, <1>6, <1>7
    <3>2. Len(FlattenSeq(tp)) = o
      BY <1>3, Flat
    <3> HIDE DEF j
    <3>3. body[i] = FlattenSeq(tp)[j] /\ i \in 1 .. Len(body) /\ j \in 1 .. Len(FlattenSeq(tp))
      BY <1>3, <1>9, <3>1, <3>2
    <3>4. PICK h \in 1 .. Len(tp) : \E k \in 1 .. Len(tp[h]) : j = Off(tp, h - 1) + k
      BY <1>3, <3>3, FlatFrom
    <3>5. PICK k \in 1 .. Len(tp[h]) : j = Off(tp, h - 1) + k
      BY <3>4
    <3>6. FlattenSeq(tp)[j] = tp[h][k]
      <4>1. \A g \in 1 .. Len(tp) : \A m \in 1 .. Len(tp[g]) : FlattenSeq(tp)[Off(tp, g - 1) + m] = tp[g][m]
        BY <1>3, Flat
      <4> QED  BY <3>5, <4>1
    <3>7. h \in 1 .. n /\ tp[h] = Cells(e, t, h)
      BY <1>3
    <3>8. Valid(e, t, h)
      BY <1>1, <3>7 DEF Valid, n
    <3>9. Cells(e, t, h)[k].from = <<e, t, h>>
      <4>1. FileProp(e, h) \in Properties /\ <<e, t, h>> \in Triples /\ Lengths[<<e, t, h>>] \in Nat
        BY <3>8, CellsAre
      <4> DEFINE from == <<e, t, h>>
                 q == FileProp(e, h)
                 l == Lengths[from]
      <4>2. from \in Triples /\ q \in Properties /\ l \in Nat /\ Cells(e, t, h) = ValueCells(from, q, l)
        BY <4>1 DEF Cells
      <4> HIDE DEF from, q, l
      <4>3. k \in 1 .. Len(ValueCells(from, q, l))
        BY <3>7, <4>2
      <4>4. ValueCells(from, q, l)[k].from = from
        BY <4>2, <4>3, CellsFrom
      <4> QED  BY <4>2, <4>4 DEF from
    <3> QED  BY <3>3, <3>6, <3>7, <3>9
  <2>2. IsFiniteSet(K)
    <3>1. IsFiniteSet(1 .. Len(body))
      BY <1>5, FS_Interval
    <3> QED  BY <3>1, FS_Subset
  <2>3. Cardinality(I) = o
    <3> HIDE DEF o
    <3>1. a + 1 \in Int /\ a + o \in Int
      BY <1>6, <1>7
    <3>2. Cardinality(I) = IF a + 1 > a + o THEN 0 ELSE (a + o) - (a + 1) + 1
      BY <3>1, FS_Interval
    <3> QED  BY <1>6, <1>7, <3>2
  <2>4. Cardinality(K) + Break <= memoryBreak
    <3>1. t \in 0 .. Tuples(e) - 1 /\ e \in 1 .. Len(elements)
      BY <1>1
    <3> QED  BY <1>13, <3>1 DEF TuplesFit, Break
  <2> HIDE DEF I, K, o
  <2>5. Cardinality(I) <= Cardinality(K) /\ Cardinality(K) \in Nat
    <3>1. I \in SUBSET K
      BY <2>1
    <3> QED  BY <2>2, <3>1, FS_Subset, FS_CardinalityType
  <2>6. TupleEnd(e, t) - Pos(e, t, 1) = o + Break
    BY <1>3, <1>6, <1>7, <1>10, <1>11
  <2>7. memoryBreak \in Int
    OBVIOUS
  <2> QED  BY <1>7, <2>3, <2>4, <2>5, <2>6, <2>7
<1> QED  BY <1>5, <1>6, <1>8, <1>11, <1>12, <1>13 DEF n

LEMMA ReachMoves ==
  ASSUME UNCHANGED headerOnly
  PROVE  /\ (Full' <=> Full) /\ (TuplesFit' <=> TuplesFit) /\ memoryBreak' = memoryBreak
         /\ \A e, t : TupleEnd(e, t)' = TupleEnd(e, t)
<1>1. /\ UNCHANGED setup /\ body' = body /\ elements' = elements /\ format' = format
      /\ memoryBreak' = memoryBreak /\ file' = file
  BY DEF headerOnly, setup, learnt
<1>2. Full' <=> Full
  BY <1>1, FullStays
<1>3. TuplesFit' <=> TuplesFit
  BY <1>1 DEF TuplesFit, Tuples, Ascii
<1>4. BodyParts' = BodyParts
  <2>1. Lengths' = Lengths
    BY <1>1 DEF Lengths
  <2> QED  BY <1>1, <2>1 DEF BodyParts, Tuples
<1>5. \A e, t : TupleEnd(e, t)' = TupleEnd(e, t)
  BY <1>4 DEF TupleEnd, At
<1> QED  BY <1>1, <1>2, <1>3, <1>5

\* The body is read on.
LEMMA ReadsOn ==
  ASSUME UNCHANGED headerOnly, pc' \notin {"start", "lines", "accepted"},
         Full /\ TuplesFit /\ pc' \in {"error", "stale line", "stale"} => file.format = "unknown",
         Full /\ TuplesFit /\ pc' \in {"advance", "read", "list"} /\ ~Astray' => Reached'
  PROVE  FullInv'
<1>1. (Full' <=> Full) /\ (TuplesFit' <=> TuplesFit) /\ file' = file
  BY ReachMoves, Unmoved DEF headerOnly, setup
<1>2. FullReadsSuffice'
  <2>1. pc' \in {"error", "stale line", "stale"} /\ Full' => file'.format = "unknown" \/ ~TuplesFit'
    BY <1>1
  <2> HIDE DEF TuplesFit
  <2> QED  BY <2>1 DEF FullReadsSuffice, Full
<1> HIDE DEF Full, TuplesFit, Astray, Reached
<1> QED  BY <1>1, <1>2 DEF FullInv

\* The buffer stays, and the cursor in its tuple.
LEMMA ReachStays ==
  ASSUME UNCHANGED <<headerOnly, dropped, fill, element, tuple>>, Reached,
         property' # 0 => property # 0
  PROVE  Reached'
<1>1. /\ body' = body /\ memoryBreak' = memoryBreak
      /\ \A e, t : TupleEnd(e, t)' = TupleEnd(e, t)
  BY ReachMoves, Unmoved
<1>2. \A e, t : e = element /\ t = tuple => TupleEnd(element, tuple)' = TupleEnd(e, t)
  BY <1>1 DEF TupleEnd, At
<1>3. TupleEnd(element, tuple)' = TupleEnd(element, tuple)
  BY <1>2
<1> QED  BY <1>1, <1>3 DEF Reached

\* The buffer is filled for the tuple that the cursor comes to.
LEMMA ReachFilled ==
  ASSUME HeaderInv, StreamInv', Full, TuplesFit, Matches, UNCHANGED headerOnly,
         pc' = "read", ~Astray', property' = 1, dropped' \in Nat, offset' = 0,
         NEW held \in Nat, held <= memoryBreak, dropped' + held <= Len(body),
         \E n \in StreamReads(held, dropped') : fill' = held + n
  PROVE  Reached'
<1>1. /\ body' = body /\ memoryBreak' = memoryBreak
      /\ \A e, t : TupleEnd(e, t)' = TupleEnd(e, t)
  BY ReachMoves, Unmoved
<1>2. memoryBreak \in Int /\ Len(body) \in Nat
  BY BodyIsSeq DEF HeaderInv, SpaceInv, Aligned, Matches
<1>3. \E e, t, p : AtValue(e, t, p)'
  BY DEF StreamInv, Astray
<1>4. PICK e, t, p : AtValue(e, t, p)'
  BY <1>3
<1>5. /\ element' = e /\ tuple' = t /\ p = 1 /\ Valid(e, t, 1)
      /\ dropped' + offset' = Pos(e, t, 1)
  <2>1. cursor' = <<e, t, p>> /\ Valid(e, t, p)' /\ dropped' + offset' = Pos(e, t, p)'
    BY <1>4 DEF AtValue
  <2>2. element' = e /\ tuple' = t /\ property' = p
    BY <2>1 DEF cursor
  <2> QED  BY <2>1, <2>2, Unmoved
<1>6. dropped' = Pos(e, t, 1)
  BY <1>5
<1>7. /\ TupleEnd(e, t) \in Nat /\ TupleEnd(e, t) <= Len(body)
      /\ TupleEnd(e, t) - Pos(e, t, 1) <= memoryBreak
  BY <1>2, <1>5, TupleHolds
<1>8. PICK n \in StreamReads(held, dropped') : fill' = held + n
  OBVIOUS
<1> DEFINE space == memoryBreak - held
           left == Len(body) - dropped' - held
<1>9. n = IF space <= left THEN space ELSE left
  <2>1. n \in Reads(space, left) /\ space \in Int /\ left \in Int /\ fullReads
    BY <1>2, <1>8 DEF StreamReads, Full
  <2> HIDE DEF space, left
  <2> QED  BY <2>1, ReadsAll
<1> DEFINE g == dropped'
           f == fill'
           b == TupleEnd(e, t)
           l == Len(body)
           a == Pos(e, t, 1)
<1>10. /\ g \in Nat /\ l \in Nat /\ b \in Nat /\ b <= l /\ b - a <= memoryBreak /\ a = g
       /\ f = held + n /\ g + held <= l
       /\ n = IF memoryBreak - held <= l - g - held THEN memoryBreak - held ELSE l - g - held
  BY <1>2, <1>6, <1>7, <1>8, <1>9
<1> HIDE DEF g, f, b, l, a
<1>11. f \in 0 .. memoryBreak /\ g + f <= l /\ b <= g + f
  BY <1>2, <1>10
<1>12. TupleEnd(element, tuple)' = TupleEnd(e, t)
  <2>1. \A i, j : i = e /\ j = t => TupleEnd(element, tuple)' = TupleEnd(i, j)
    BY <1>1, <1>5 DEF TupleEnd, At
  <2> QED  BY <2>1
<1> QED  BY <1>1, <1>11, <1>12 DEF Reached, g, f, b, l

\* A value that is read next is in the buffer, and so is the newline behind a tuple.
LEMMA NothingStale ==
  ASSUME HeaderInv, StreamInv, FullInv, Full, TuplesFit,
         pc \in {"advance", "read", "list"}, ~Astray
  PROVE  /\ Matches /\ Reached /\ dropped \in Nat /\ offset \in Nat
         /\ memoryBreak \in Int /\ Len(body) \in Nat
         /\ ~ReadStale
         /\ AtTupleEnd /\ Ascii => NewlineAt
         /\ \A e, t, p : After(e, t, p) /\ p = Len(Props(e)) =>
              TupleEnd(e, t) = dropped + offset + Break /\ TupleEnd(e, t) <= dropped + fill
<1>1. Matches /\ Reached /\ dropped \in Nat /\ offset \in Nat
  <2>1. pc \in Streaming
    BY DEF Streaming
  <2>2. Reached
    BY DEF FullInv
  <2> QED  BY <2>1, <2>2, Meanwhile
<1>2. memoryBreak \in Int /\ Len(body) \in Nat
  BY <1>1, BodyIsSeq DEF HeaderInv, SpaceInv, Aligned, Matches
<1>3. fill \in Nat
  BY <1>1, <1>2 DEF Reached
<1>4. ASSUME NEW e, NEW t, NEW p, cursor = <<e, t, p>>, Valid(e, t, p)
      PROVE  /\ Pos(e, t, p + 1) \in Nat /\ TupleEnd(e, t) \in Nat
             /\ TupleEnd(e, t) = Pos(e, t, Len(Props(e)) + 1) + Break
             /\ Pos(e, t, p + 1) <= Pos(e, t, Len(Props(e)) + 1)
             /\ Ascii => body[Pos(e, t, Len(Props(e)) + 1) + 1] = Newline
             /\ TupleEnd(e, t) <= dropped + fill
  <2>1. element = e /\ tuple = t /\ property = p
    BY <1>4 DEF cursor
  <2>2. p # 0
    BY <1>4 DEF Valid
  <2>3. TupleEnd(e, t) <= dropped + fill
    BY <1>1, <2>1, <2>2 DEF Reached
  <2> QED  BY <1>1, <1>2, <1>4, <2>3, TupleHolds
<1>5. Break \in Nat /\ (Ascii => Break = 1)
  BY DEF Break
<1>6. ASSUME NEW e, NEW t, NEW p, cursor = <<e, t, p>>, Valid(e, t, p),
             NEW w \in Nat, dropped + offset + w <= Pos(e, t, p + 1)
      PROVE  ~RunsOn(w)
  <2>0. RunsOn(w) <=> offset + w + Break > fill
    BY <1>1, <1>3, <1>6 DEF RunsOn, Stale, Break
  <2> DEFINE a == Pos(e, t, p + 1)
             b == Pos(e, t, Len(Props(e)) + 1)
             c == TupleEnd(e, t)
  <2>1. /\ a \in Nat /\ a <= b /\ c \in Nat /\ c = b + Break /\ c <= dropped + fill
        /\ dropped + offset + w <= a
    BY <1>4, <1>6
  <2>2. b \in Int
    <3>1. e \in 1 .. Len(elements) /\ t \in 0 .. Tuples(e) - 1
      BY <1>6 DEF Valid
    <3>2. Len(Props(e)) + 1 \in 1 .. Len(Props(e)) + 1
      BY <1>1, <3>1, ElementIs DEF Matches
    <3> QED  BY <1>1, <3>1, <3>2, TupleAt
  <2> HIDE DEF a, b, c
  <2>3. offset + w + Break <= fill
    BY <1>1, <1>3, <1>5, <2>1, <2>2
  <2> QED  BY <1>1, <1>3, <1>5, <2>0, <2>3
<1>7. ASSUME NEW e, NEW t, NEW p, After(e, t, p), p = Len(Props(e))
      PROVE  /\ TupleEnd(e, t) = dropped + offset + Break
             /\ TupleEnd(e, t) <= dropped + fill
             /\ Ascii => CellAt(offset) = Newline
  <2>1. cursor = <<e, t, p>> /\ Valid(e, t, p) /\ dropped + offset = Pos(e, t, p + 1)
    BY <1>7 DEF After
  <2>2. /\ TupleEnd(e, t) = Pos(e, t, p + 1) + Break /\ TupleEnd(e, t) <= dropped + fill
        /\ Ascii => body[Pos(e, t, p + 1) + 1] = Newline
    BY <1>4, <1>7, <2>1
  <2> QED  BY <2>1, <2>2 DEF CellAt
<1>8. AtTupleEnd => \E e, t, p : After(e, t, p) /\ p = Len(Props(e))
  <2> SUFFICES ASSUME AtTupleEnd PROVE \E e, t, p : After(e, t, p) /\ p = Len(Props(e))
    OBVIOUS
  <2>1. pc = "advance" /\ property > 0 /\ property = Len(Props(element))
    BY DEF AtTupleEnd
  <2>2. \E e, t, p : After(e, t, p)
    BY <2>1 DEF StreamInv, BeforeFirst
  <2>3. PICK e, t, p : After(e, t, p)
    BY <2>2
  <2>4. p = Len(Props(e))
    BY <2>1, <2>3 DEF After, cursor
  <2> QED  BY <2>3, <2>4
<1>9. AtTupleEnd /\ Ascii => ~(offset >= fill) /\ NewlineAt
  <2> SUFFICES ASSUME AtTupleEnd, Ascii PROVE ~(offset >= fill) /\ NewlineAt
    OBVIOUS
  <2>1. PICK e, t, p : After(e, t, p) /\ p = Len(Props(e))
    BY <1>8
  <2>2. TupleEnd(e, t) = dropped + offset + 1 /\ TupleEnd(e, t) <= dropped + fill /\ CellAt(offset) = Newline
    BY <1>5, <1>7, <2>1
  <2>3. offset + 1 <= fill
    BY <1>1, <1>3, <2>2
  <2> QED  BY <1>1, <1>3, <2>2, <2>3 DEF NewlineAt
<1>10. ASSUME pc = "read" PROVE ~RunsOn(Width(IF Prop.list THEN Prop.lengthType ELSE Prop.type))
  <2>1. MoreToDo /\ \E e, t, p : AtValue(e, t, p)
    BY <1>10, AtTheValue
  <2>2. PICK e, t, p : AtValue(e, t, p)
    BY <2>1
  <2> DEFINE n == ListLength(e, t, p)
             c == Cells(e, t, p)
             from == <<e, t, p>>
             f == FileProp(e, p)
             a == Pos(e, t, p)
             w == Width(IF f.list THEN f.lengthType ELSE f.type)
  <2>3. /\ cursor = <<e, t, p>> /\ Valid(e, t, p) /\ at + 1 = Index(e, t, p)
        /\ dropped + offset = a
    BY <2>2 DEF AtValue
  <2>4. /\ f \in Properties /\ Prop.list = f.list
        /\ Prop.lengthType = f.lengthType /\ Prop.type = f.type
        /\ a \in Nat /\ Pos(e, t, p + 1) = a + Len(c)
    BY <1>1, <2>1, <2>3, WhatIsThere
  <2>5. from \in Triples /\ n \in Nat /\ c = ValueCells(from, f, n)
    BY <1>1, <2>3, CellsAre DEF ListLength, Cells
  <2> HIDE DEF n, c, from, f, a
  <2>6. w \in Nat
    <3>1. f.type \in Types /\ f.lengthType \in Types
      BY <2>4, PropertyTypes
    <3> QED  BY <3>1, WidthIs
  <2>7. w <= Len(c) /\ Len(c) \in Nat
    <3>1. CASE ~f.list
      <4>1. c \in Seq(AllCells) /\ Len(c) = Width(f.type)
        BY <2>4, <2>5, <3>1, ScalarCells
      <4> QED  BY <3>1, <4>1
    <3>2. CASE f.list
      <4>1. /\ c \in Seq(AllCells)
            /\ ItemAt(from, f, n, 0) = Width(f.lengthType) /\ ItemAt(from, f, n, n) = Len(c)
            /\ \A k \in 0 .. n - 1 : ItemAt(from, f, n, k) + 1 \in 1 .. Len(c)
        BY <2>4, <2>5, <3>2, ListCells
      <4>2. w = ItemAt(from, f, n, 0)
        BY <3>2, <4>1
      <4> HIDE DEF w
      <4>3. CASE n = 0
        BY <4>1, <4>2, <4>3
      <4>4. CASE n # 0
        <5>1. 0 \in 0 .. n - 1
          BY <2>5, <4>4
        <5>2. w + 1 \in 1 .. Len(c)
          BY <4>1, <4>2, <5>1
        <5> QED  BY <2>6, <4>1, <5>2
      <4> QED  BY <4>3, <4>4
    <3> QED  BY <3>1, <3>2
  <2> HIDE DEF w
  <2>8. dropped + offset + w <= Pos(e, t, p + 1)
    BY <1>1, <2>3, <2>4, <2>6, <2>7
  <2>9. ~RunsOn(w)
    BY <1>6, <2>3, <2>6, <2>8
  <2> QED  BY <2>4, <2>9 DEF w
<1>11. ASSUME pc = "list" PROVE ~RunsOn(Width(Prop.type))
  <2>1. MoreToDo /\ \E e, t, p, k : InList(e, t, p, k)
    BY <1>11 DEF StreamInv
  <2>2. PICK e, t, p, k : InList(e, t, p, k)
    BY <2>1
  <2> DEFINE n == ListLength(e, t, p)
             c == Cells(e, t, p)
             from == <<e, t, p>>
             f == FileProp(e, p)
             a == Pos(e, t, p)
             w == Width(f.type)
  <2>3. /\ cursor = <<e, t, p>> /\ Valid(e, t, p) /\ at + 1 = Index(e, t, p) /\ f.list
        /\ k \in 0 .. n - 1 /\ dropped + offset = a + ItemAt(from, f, n, k)
    BY <2>2 DEF InList
  <2>4. /\ f \in Properties /\ Prop.type = f.type
        /\ a \in Nat /\ Pos(e, t, p + 1) = a + Len(c)
    BY <1>1, <2>1, <2>3, WhatIsThere
  <2>5. from \in Triples /\ n \in Nat /\ c = ValueCells(from, f, n)
    BY <1>1, <2>3, CellsAre DEF ListLength, Cells
  <2> HIDE DEF n, c, from, f, a
  <2>6. w \in Nat
    <3>1. f.type \in Types
      BY <2>4, PropertyTypes
    <3> QED  BY <3>1, WidthIs
  <2>7. /\ c \in Seq(AllCells) /\ ItemAt(from, f, n, n) = Len(c)
        /\ \A i \in 0 .. n : ItemAt(from, f, n, i) \in Nat
        /\ \A i \in 0 .. n - 1 : /\ ItemAt(from, f, n, i + 1) = ItemAt(from, f, n, i) + w
                                 /\ ItemAt(from, f, n, i) + 1 \in 1 .. Len(c)
    BY <2>3, <2>4, <2>5, ListCells, SMTT(30)
  <2> HIDE DEF w
  <2> DEFINE j == k + 1
  <2>8. j \in 0 .. n /\ (j = n \/ j \in 0 .. n - 1)
    BY <2>3, <2>5
  <2>9. ItemAt(from, f, n, j) = ItemAt(from, f, n, k) + w /\ ItemAt(from, f, n, k) \in Nat
    <3>1. k \in 0 .. n
      BY <2>3, <2>5
    <3> QED  BY <2>3, <2>7, <3>1
  <2> HIDE DEF j
  <2>10. ItemAt(from, f, n, j) <= Len(c)
    <3>1. ItemAt(from, f, n, j) \in Nat /\ Len(c) \in Nat
      BY <2>7, <2>8
    <3>2. CASE j = n
      BY <2>7, <3>1, <3>2
    <3>3. CASE j \in 0 .. n - 1
      <4>1. ItemAt(from, f, n, j) + 1 \in 1 .. Len(c)
        BY <2>7, <3>3
      <4> QED  BY <3>1, <4>1
    <3> QED  BY <2>8, <3>2, <3>3
  <2>11. dropped + offset + w <= Pos(e, t, p + 1)
    <3> DEFINE x == ItemAt(from, f, n, j)
               y == ItemAt(from, f, n, k)
               l == Len(c)
    <3>1. x = y + w /\ y \in Nat /\ x <= l /\ l \in Nat /\ Pos(e, t, p + 1) = a + l /\ dropped + offset = a + y
      BY <2>3, <2>4, <2>7, <2>9, <2>10
    <3> HIDE DEF x, y, l
    <3> QED  BY <1>1, <2>4, <2>6, <3>1
  <2>12. ~RunsOn(w)
    BY <1>6, <2>3, <2>6, <2>11
  <2> QED  BY <2>4, <2>12 DEF w
<1>12. ~ReadStale
  BY <1>9, <1>10, <1>11 DEF ReadStale
<1> QED  BY <1>1, <1>2, <1>7, <1>9, <1>12

LEMMA StartReads ==
  ASSUME HeaderInv, StreamInv, FullInv, StartStreaming
  PROVE  FullInv'
<1>1. /\ pc = "accepted" /\ UNCHANGED headerOnly /\ dropped' = dropped /\ fill' = fill
      /\ property' = 0 /\ pc' \in {"done", "advance"}
  BY DEF StartStreaming, ToNext
<1>2. ASSUME Full PROVE Reached'
  <2>1. Matches
    BY <1>1, Meanwhile DEF Streaming
  <2>2. /\ fill \in 0 .. MinBuffer /\ fill <= Len(body) /\ dropped = 0
    BY <1>1, <1>2 DEF FullInv, StreamInv
  <2>3. /\ memoryBreak \in Int /\ MinBuffer \in Nat /\ MinBuffer <= memoryBreak /\ Len(body) \in Nat
    BY <2>1, BodyIsSeq, Constants DEF HeaderInv, SpaceInv, Aligned, Matches
  <2>4. fill \in 0 .. memoryBreak /\ dropped + fill <= Len(body)
    BY <2>2, <2>3
  <2> QED  BY <1>1, <2>4, ReachMoves, Unmoved DEF Reached
<1> QED  BY <1>1, <1>2, ReadsOn

LEMMA FirstReads ==
  ASSUME HeaderInv, StreamInv, FullInv, AdvanceFirst, StreamInv'
  PROVE  FullInv'
<1>1. /\ pc = "advance" /\ property = 0 /\ UNCHANGED headerOnly
      /\ dropped' = dropped /\ offset' = offset
      /\ property' = (IF Props(1) = <<>> THEN 0 ELSE 1)
      /\ \E n \in StreamReads(fill, dropped) : fill' = fill + n
      /\ pc' = IF property' = 0 THEN "crashed" ELSE "read"
  BY DEF AdvanceFirst
<1>2. ASSUME Full, TuplesFit, pc' = "read", ~Astray' PROVE Reached'
  <2>1. ~Astray
    BY <1>1 DEF Astray
  <2>2. Matches /\ Reached /\ dropped \in Nat /\ offset \in Nat /\ memoryBreak \in Int
    BY <1>1, <1>2, <2>1, NothingStale
  <2>3. fill \in Nat /\ fill <= memoryBreak /\ dropped + fill <= Len(body)
    BY <2>2 DEF Reached
  <2>4. BeforeFirst
    <3>1. ASSUME NEW e, NEW t, NEW p, After(e, t, p) PROVE FALSE
      <4>1. p = 0 /\ p \in 1 .. Len(Props(e))
        BY <1>1, <3>1 DEF After, cursor, Valid
      <4> QED  BY <4>1
    <3> QED  BY <1>1, <3>1 DEF StreamInv
  <2>5. offset' = 0 /\ property' = 1
    <3>1. offset = 0
      BY <2>2, <2>4 DEF BeforeFirst
    <3>2. property' # 0
      BY <1>1, <1>2
    <3> QED  BY <1>1, <3>1, <3>2
  <2>6. /\ dropped' \in Nat /\ dropped' + fill <= Len(body)
        /\ \E n \in StreamReads(fill, dropped') : fill' = fill + n
    BY <1>1, <2>2, <2>3
  <2> QED  BY <1>1, <1>2, <2>2, <2>3, <2>5, <2>6, ReachFilled
<1> QED  BY <1>1, <1>2, ReadsOn

LEMMA NextTupleReads ==
  ASSUME HeaderInv, StreamInv, FullInv, AdvanceToNextTuple, StreamInv'
  PROVE  FullInv'
<1>1. /\ AtTupleEnd /\ pc = "advance" /\ UNCHANGED headerOnly /\ offset' = 0
      /\ property' = (IF Props(element') = <<>> THEN 0 ELSE 1)
      /\ pc' = IF property' = 0 THEN "crashed" ELSE "read"
      /\ dropped' = dropped + (offset + Break)
      /\ \E n \in StreamReads(fill - (offset + Break), dropped + (offset + Break)) :
           fill' = fill - (offset + Break) + n
  <2>1. offset \in Nat
    BY DEF StreamInv
  <2>2. (IF Ascii THEN offset + 1 ELSE offset) = offset + Break
    BY <2>1 DEF Break
  <2> QED  BY <2>2 DEF AdvanceToNextTuple, AtTupleEnd, Refill, NextTuple
<1>2. ASSUME Full, TuplesFit, pc' = "read", ~Astray' PROVE Reached'
  <2>1. ~Astray
    BY <1>1 DEF Astray
  <2>2. Matches /\ Reached /\ dropped \in Nat /\ offset \in Nat /\ memoryBreak \in Int /\ Len(body) \in Nat
    BY <1>1, <1>2, <2>1, NothingStale
  <2>3. /\ fill \in Nat /\ fill <= memoryBreak /\ dropped + fill <= Len(body) /\ Break \in Nat
    BY <2>2 DEF Reached, Break
  <2>4. offset + Break <= fill
    <3>1. property > 0 /\ property = Len(Props(element))
      BY <1>1 DEF AtTupleEnd
    <3>2. \E e, t, p : After(e, t, p)
      BY <1>1, <3>1 DEF StreamInv, BeforeFirst
    <3>3. PICK e, t, p : After(e, t, p)
      BY <3>2
    <3>4. p = Len(Props(e))
      BY <3>1, <3>3 DEF After, cursor
    <3>5. TupleEnd(e, t) = dropped + offset + Break /\ TupleEnd(e, t) <= dropped + fill
      BY <1>1, <1>2, <2>1, <3>3, <3>4, NothingStale
    <3> QED  BY <2>2, <2>3, <3>5
  <2> DEFINE held == fill - (offset + Break)
  <2>5. /\ held \in Nat /\ held <= memoryBreak /\ dropped' + held <= Len(body) /\ dropped' \in Nat
    BY <1>1, <2>2, <2>3, <2>4
  <2>6. \E n \in StreamReads(held, dropped') : fill' = held + n
    BY <1>1
  <2>7. property' = 1
    BY <1>1, <1>2
  <2> HIDE DEF held
  <2> QED  BY <1>1, <1>2, <2>2, <2>5, <2>6, <2>7, ReachFilled
<1> QED  BY <1>1, <1>2, ReadsOn

\* The steps that neither move nor fill the buffer.
LEMMA OthersRead ==
  ASSUME HeaderInv, StreamInv, FullInv,
         \/ AdvanceInTuple \/ ReadScalar \/ ReadLength \/ ReadItem
         \/ NoTupleEnd \/ ReadStale \/ NoFormat \/ ReadAstray \/ RefillFails \/ CallbackFails
  PROVE  FullInv'
<1>1. CASE RefillFails \/ CallbackFails \/ ReadAstray
  <2>1. UNCHANGED headerOnly /\ pc' \in {"failed", "astray"}
    BY <1>1 DEF RefillFails, CallbackFails, ReadAstray
  <2> QED  BY <2>1, ReadsOn
<1>2. CASE NoFormat
  <2>1. UNCHANGED headerOnly /\ pc' = "error" /\ format = "unknown" /\ pc = "read"
    BY <1>2 DEF NoFormat
  <2>2. Full => file.format = "unknown"
    <3>1. Full => Matches
      BY <2>1, Meanwhile DEF Streaming
    <3> QED  BY <2>1, <3>1 DEF Matches
  <2> QED  BY <2>1, <2>2, ReadsOn
<1>3. CASE ReadStale
  <2>1. UNCHANGED headerOnly /\ pc' = "stale" /\ pc \in {"advance", "read", "list"} /\ ~Astray
    BY <1>3 DEF ReadStale, AtTupleEnd
  <2>2. ~(Full /\ TuplesFit)
    BY <1>3, <2>1, NothingStale
  <2> QED  BY <2>1, <2>2, ReadsOn
<1>4. CASE NoTupleEnd
  <2>1. /\ UNCHANGED headerOnly /\ pc' = "error" /\ pc = "advance"
        /\ AtTupleEnd /\ Ascii /\ ~NewlineAt
    BY <1>4 DEF NoTupleEnd, AtTupleEnd
  <2>2. ~Astray
    BY <2>1 DEF Astray
  <2>3. ~(Full /\ TuplesFit)
    BY <2>1, <2>2, NothingStale
  <2> QED  BY <2>1, <2>3, ReadsOn
<1>5. CASE AdvanceInTuple \/ ReadScalar \/ ReadLength \/ ReadItem
  <2>1. /\ UNCHANGED <<headerOnly, dropped, fill, element, tuple>>
        /\ property' # 0 => property # 0
        /\ pc \in {"advance", "read", "list"} /\ ~Astray
        /\ pc' \in {"advance", "read", "list", "done"}
    <3>1. CASE AdvanceInTuple
      BY <3>1 DEF AdvanceInTuple, buffer, Astray
    <3>2. CASE ReadScalar
      BY <3>2 DEF ReadScalar, ToNext, cursor
    <3>3. CASE ReadLength
      BY <3>3 DEF ReadLength, ToNext, cursor
    <3>4. CASE ReadItem
      BY <3>4 DEF ReadItem, ToNext, cursor, Astray
    <3> QED  BY <1>5, <3>1, <3>2, <3>3, <3>4
  <2>2. Full /\ TuplesFit => Reached
    BY <2>1, NothingStale
  <2>3. Full /\ TuplesFit => Reached'
    BY <2>1, <2>2, ReachStays
  <2> QED  BY <2>1, <2>3, ReadsOn
<1> QED  BY <1>1, <1>2, <1>3, <1>4, <1>5

LEMMA FullIdles ==
  ASSUME FullInv, UNCHANGED vars
  PROVE  FullInv'
<1>1. /\ UNCHANGED headerOnly /\ pc' = pc /\ fill' = fill /\ dropped' = dropped /\ next' = next
      /\ element' = element /\ tuple' = tuple /\ property' = property /\ at' = at
      /\ body' = body /\ file' = file /\ UNCHANGED setup
  BY DEF vars, headerVars, streamVars, headerOnly, cursor, loop, setup, learnt
<1>2. (Full' <=> Full) /\ (TuplesFit' <=> TuplesFit)
  BY <1>1, ReachMoves
<1>3. SizeFrom(next)' = SizeFrom(next)
  BY <1>1 DEF SizeFrom, Lines, setup
<1>4. (Reached => Reached') /\ (Astray' <=> Astray)
  <2>1. Reached => Reached'
    BY <1>1, ReachStays
  <2>2. Asked' = Asked
    BY <1>1, Unmoved DEF Asked
  <2> QED  BY <1>1, <2>1, <2>2 DEF Astray, cursor
<1>5. FullReadsSuffice'
  <2>1. pc' \in {"error", "stale line", "stale"} /\ Full' => file'.format = "unknown" \/ ~TuplesFit'
    <3>1. pc \in {"error", "stale line", "stale"} /\ Full => file.format = "unknown" \/ ~TuplesFit
      BY DEF FullInv, FullReadsSuffice, Full
    <3> HIDE DEF Full, TuplesFit
    <3> QED  BY <1>1, <1>2, <3>1
  <2> HIDE DEF TuplesFit
  <2> QED  BY <2>1 DEF FullReadsSuffice, Full
<1> HIDE DEF Full, TuplesFit, Astray, Reached, FullReadsSuffice
<1> QED  BY <1>1, <1>2, <1>3, <1>4, <1>5 DEF FullInv

\* A well-formed file is parsed without error if the callback returns all that
\* it is asked for, however ply_fill_buffer and ply_advance split it, and
\* whatever file the parser was used for before.
THEOREM FullReadsAreEnough == Spec => []FullReadsSuffice
<1>1. Init => FullInv
  <2> SUFFICES ASSUME Init PROVE FullInv
    OBVIOUS
  <2>1. pc = "start" /\ fill = 0
    BY DEF Init, HeaderInit
  <2>2. FullReadsSuffice
    BY <2>1 DEF FullReadsSuffice
  <2> QED  BY <2>1, <2>2 DEF FullInv
<1>2. HeaderInv /\ StreamInv /\ FullInv /\ [Next]_vars => FullInv'
  <2> SUFFICES ASSUME HeaderInv, StreamInv, FullInv, [Next]_vars PROVE FullInv'
    OBVIOUS
  <2>1. StreamInv'
    BY StreamStays
  <2>2. CASE HeaderNext
    BY <2>2, HeaderIsRead
  <2>3. CASE Parse
    BY <2>1, <2>3, StartReads, FirstReads, NextTupleReads, OthersRead DEF Parse
  <2>4. CASE RefillFails \/ CallbackFails
    BY <2>4, OthersRead
  <2>5. CASE Again
    <3>1. pc' = "start" /\ fill' = 0
      BY <2>5 DEF Again, NewInput
    <3>2. FullReadsSuffice'
      BY <3>1 DEF FullReadsSuffice
    <3> QED  BY <3>1, <3>2 DEF FullInv
  <2>6. CASE UNCHANGED vars
    BY <2>6, FullIdles
  <2> QED  BY <2>2, <2>3, <2>4, <2>5, <2>6 DEF Next
<1>3. FullInv => FullReadsSuffice
  BY DEF FullInv
<1> QED  BY <1>1, <1>2, <1>3, StreamInvariant, PTL DEF Spec
=============================================================================
