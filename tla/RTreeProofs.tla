---------------------------- MODULE RTreeProofs ----------------------------
(***************************************************************************)
(* Proofs about the pieces of the R*-tree, for every dimension, every set  *)
(* of coordinates, every tree and every node: how the measures of boxes    *)
(* agree, that the way to a leaf is tight, and that a split keeps the      *)
(* children.                                                               *)
(*                                                                         *)
(* Area and margin are folds over the axes, the union of a node's boxes    *)
(* and its sort are folds over the children.  Each is first turned into a  *)
(* recursion over the length.                                              *)
(***************************************************************************)
EXTENDS RTree, SequenceTheorems, FiniteSetTheorems, WellFoundedInduction, TLAPS

\* Induction over the natural numbers, for a set of them.
LEMMA Induct ==
  ASSUME NEW T \in SUBSET Nat, 0 \in T, \A n \in T : n + 1 \in T
  PROVE  T = Nat
<1> SUFFICES ASSUME Nat \ T # {} PROVE FALSE
  OBVIOUS
<1>1. PICK n \in Nat \ T : \A m \in Nat \ T : ~(<<m, n>> \in OpToRel(<, Nat))
  BY NatLessThanWellFounded, WFMin
<1>2. n # 0 /\ n - 1 \in Nat /\ (n - 1) + 1 = n
  OBVIOUS
<1>3. \A m \in Nat \ T : ~(m < n)
  BY <1>1 DEF OpToRel
<1>4. n - 1 \in T
  BY <1>2, <1>3
<1> QED  BY <1>2, <1>4

\* The highest index of a set.
Top(s) == CHOOSE x \in s : \A y \in s : x >= y

\* Without it the set has indices below it only.
LEMMA TopOff ==
  ASSUME NEW k \in Nat, NEW s \in SUBSET (1 .. k + 1)
  PROVE  /\ s \ {Top(s)} \in SUBSET (1 .. k)
         /\ k + 1 \in s => Top(s) = k + 1
<1>1. CASE k + 1 \in s
  <2>1. \A y \in s : k + 1 >= y
    OBVIOUS
  <2>2. Top(s) \in s /\ \A y \in s : Top(s) >= y
    BY <1>1, <2>1 DEF Top
  <2>3. Top(s) = k + 1
    <3>1. Top(s) >= k + 1 /\ Top(s) \in 1 .. k + 1
      BY <1>1, <2>2
    <3> HIDE DEF Top
    <3> QED  BY <3>1
  <2> QED  BY <2>3, <1>1
<1>2. CASE k + 1 \notin s
  <2>1. \A x \in s : x \in 1 .. k
    BY <1>2
  <2> QED  BY <1>2, <2>1
<1> QED  BY <1>1, <1>2

\* A finite set of numbers has a least and a greatest one.
LEMMA Extremes ==
  ASSUME NEW S \in SUBSET Int, IsFiniteSet(S), S # {}
  PROVE  /\ Min(S) \in S /\ \A y \in S : Min(S) <= y
         /\ Max(S) \in S /\ \A y \in S : Max(S) >= y
<1> DEFINE Has(s) == \E lo, hi \in s : \A y \in s : lo <= y /\ hi >= y
           T == {k \in Nat : \A s \in SUBSET Int : IsFiniteSet(s) /\ s # {} /\ Cardinality(s) = k => Has(s)}
<1>1. 0 \in T
  BY FS_EmptySet
<1>2. ASSUME NEW k \in T PROVE k + 1 \in T
  <2> SUFFICES ASSUME NEW s \in SUBSET Int, IsFiniteSet(s), s # {}, Cardinality(s) = k + 1
               PROVE  Has(s)
    OBVIOUS
  <2>1. PICK x \in s : TRUE
    OBVIOUS
  <2>2. IsFiniteSet(s \ {x}) /\ Cardinality(s \ {x}) = k
    <3>1. IsFiniteSet(s \ {x}) /\ Cardinality(s \ {x}) = Cardinality(s) - 1
      BY <2>1, FS_RemoveElement
    <3> QED BY <3>1
  <2>3. CASE s \ {x} = {}
    <3>1. \A y \in s : y = x /\ x \in Int
      BY <2>3
    <3>2. x \in s /\ \A y \in s : x <= y /\ x >= y
      BY <2>1, <3>1
    <3> QED BY <3>2
  <2>4. CASE s \ {x} # {}
    <3>1. s \ {x} \in SUBSET Int
      OBVIOUS
    <3>2. Has(s \ {x})
      BY <2>2, <2>4, <3>1
    <3>3. PICK lo, hi \in s \ {x} : \A y \in s \ {x} : lo <= y /\ hi >= y
      BY <3>2
    <3>4. x \in Int /\ lo \in Int /\ hi \in Int
      BY <2>1
    <3> DEFINE l == IF x <= lo THEN x ELSE lo
               h == IF x >= hi THEN x ELSE hi
    <3>5. l \in s /\ h \in s
      BY <2>1
    <3>6. ASSUME NEW y \in s PROVE l <= y /\ h >= y
      <4>1. CASE y = x
        BY <4>1, <3>4
      <4>2. CASE y # x
        <5>1. y \in Int /\ lo <= y /\ hi >= y
          BY <4>2, <3>3
        <5> QED BY <5>1, <3>4
      <4> QED BY <4>1, <4>2
    <3> HIDE DEF l, h
    <3> QED BY <3>5, <3>6
  <2> QED BY <2>3, <2>4
<1> HIDE DEF T
<1>3. T = Nat
  BY <1>1, <1>2, Induct DEF T
<1>4. Has(S)
  <2>1. Cardinality(S) \in T
    BY <1>3, FS_CardinalityType
  <2> QED BY <2>1 DEF T
<1>5. PICK lo, hi \in S : \A y \in S : lo <= y /\ hi >= y
  BY <1>4
<1> QED BY <1>5 DEF Min, Max

LEMMA LoHi ==
  ASSUME NEW a \in Int, NEW b \in Int
  PROVE  /\ Lo(a, b) = IF a <= b THEN a ELSE b
         /\ Hi(a, b) = IF a <= b THEN b ELSE a
<1>1. {a, b} \in SUBSET Int /\ {a, b} # {} /\ IsFiniteSet({a, b})
  <2>1. IsFiniteSet({a} \cup {b})
    BY FS_Singleton, FS_AddElement
  <2>2. {a} \cup {b} = {a, b}
    OBVIOUS
  <2> QED BY <2>1, <2>2
<1>2. /\ Lo(a, b) \in {a, b} /\ Lo(a, b) <= a /\ Lo(a, b) <= b
      /\ Hi(a, b) \in {a, b} /\ Hi(a, b) >= a /\ Hi(a, b) >= b
  BY <1>1, Extremes DEF Lo, Hi
<1> QED BY <1>2

-----------------------------------------------------------------------------
\* The extent of a box on the i-th axis, as the folds take it.
Side(b, i) == Extent(b)[[x \in Axes |-> x][i]]

\* The recursion that the area of a box is, over the first k axes.
AreaFrom(b, k, f) ==
  f = [s \in SUBSET (1 .. k) |->
         IF s = {} THEN 1 ELSE f[s \ {Top(s)}] * Side(b, Top(s))]

LEMMA AreaExists ==
  ASSUME NEW b, NEW n \in Nat
  PROVE  \E f : AreaFrom(b, n, f)
<1> DEFINE T == {k \in Nat : \E f : AreaFrom(b, k, f)}
<1>1. 0 \in T
  <2> DEFINE g == [s \in SUBSET (1 .. 0) |-> 1]
  <2>1. \A s \in SUBSET (1 .. 0) : s = {}
    OBVIOUS
  <2>2. AreaFrom(b, 0, g)
    BY <2>1 DEF AreaFrom
  <2> QED  BY <2>2
<1>2. ASSUME NEW k \in T PROVE k + 1 \in T
  <2>1. k \in Nat
    OBVIOUS
  <2>2. PICK f : AreaFrom(b, k, f)
    OBVIOUS
  <2> DEFINE g == [s \in SUBSET (1 .. k + 1) |->
                     IF s = {} THEN 1 ELSE f[s \ {Top(s)}] * Side(b, Top(s))]
  <2>3. \A s \in SUBSET (1 .. k) : s \in SUBSET (1 .. k + 1)
    BY <2>1
  <2>4. \A s \in SUBSET (1 .. k) : g[s] = f[s]
    BY <2>2, <2>3 DEF AreaFrom
  <2>5. \A s \in SUBSET (1 .. k + 1) : g[s \ {Top(s)}] = f[s \ {Top(s)}]
    BY <2>1, <2>4, TopOff
  <2>6. AreaFrom(b, k + 1, g)
    <3> HIDE DEF g
    <3>1. g = [s \in SUBSET (1 .. k + 1) |->
                 IF s = {} THEN 1 ELSE f[s \ {Top(s)}] * Side(b, Top(s))]
      BY DEF g
    <3>2. \A s \in SUBSET (1 .. k + 1) :
             (IF s = {} THEN 1 ELSE g[s \ {Top(s)}] * Side(b, Top(s))) = IF s = {} THEN 1 ELSE f[s \ {Top(s)}] * Side(b, Top(s))
      BY <2>5
    <3>3. g = [s \in SUBSET (1 .. k + 1) |-> IF s = {} THEN 1 ELSE g[s \ {Top(s)}] * Side(b, Top(s))]
      BY <3>1, <3>2
    <3> QED BY <3>3 DEF AreaFrom
  <2> QED  BY <2>1, <2>6
<1> HIDE DEF T
<1>3. T = Nat
  BY <1>1, <1>2, Induct DEF T
<1> QED  BY <1>3 DEF T

LEMMA AreaIs ==
  ASSUME NEW b
  PROVE  \E p : /\ p[0] = 1 /\ BoxArea(b) = p[Dimension]
               /\ \A j \in 0 .. Dimension - 1 : p[j + 1] = p[j] * Extent(b)[j + 1]
<1>0. Dimension \in Nat
  BY RTreeAssumption
<1> DEFINE it == CHOOSE f : AreaFrom(b, Dimension, f)
           p  == [j \in 0 .. Dimension |-> it[1 .. j]]
<1>1. BoxArea(b) = it[1 .. Dimension]
  <2>1. DOMAIN [x \in Axes |-> x] = 1 .. Dimension
    BY <1>0 DEF Axes
  <2> QED  BY <2>1 DEF BoxArea, Side, FoldLeft, MapThenFoldSet, Max, AreaFrom, Top
<1>2. AreaFrom(b, Dimension, it)
  BY <1>0, AreaExists
<1> HIDE DEF it
<1>3. it[1 .. 0] = 1
  <2>1. 1 .. 0 = {} /\ {} \in SUBSET (1 .. Dimension)
    OBVIOUS
  <2> QED BY <1>2, <2>1 DEF AreaFrom
<1>4. ASSUME NEW j \in 0 .. Dimension - 1
      PROVE  it[1 .. j + 1] = it[1 .. j] * Extent(b)[j + 1]
  <2>0. j \in Nat /\ j + 1 \in Nat /\ j + 1 <= Dimension
    BY <1>0
  <2>1. 1 .. j + 1 \in SUBSET (1 .. Dimension) /\ 1 .. j + 1 # {} /\ j + 1 \in 1 .. j + 1 /\ j \in Nat
    <3>1. \A i \in 1 .. j + 1 : i \in 1 .. Dimension
      BY <1>0, <2>0
    <3>2. j + 1 \in 1 .. j + 1
      BY <2>0
    <3> QED BY <2>0, <3>1, <3>2
  <2>2. Top(1 .. j + 1) = j + 1
    BY <2>1, TopOff
  <2>3. (1 .. j + 1) \ {j + 1} = 1 .. j
    BY <2>1
  <2>4. it[1 .. j + 1] = it[(1 .. j + 1) \ {j + 1}] * Side(b, j + 1)
    BY <1>2, <2>1, <2>2 DEF AreaFrom
  <2>5. Side(b, j + 1) = Extent(b)[j + 1]
    BY <1>0, <2>0 DEF Axes, Side
  <2> QED  BY <2>3, <2>4, <2>5
<1>5. p[0] = 1 /\ BoxArea(b) = p[Dimension]
  BY <1>0, <1>1, <1>3
<1>6. ASSUME NEW j \in 0 .. Dimension - 1
      PROVE  p[j + 1] = p[j] * Extent(b)[j + 1]
  <2>1. j \in 0 .. Dimension /\ j + 1 \in 0 .. Dimension
    BY <1>0
  <2>2. p[j] = it[1 .. j] /\ p[j + 1] = it[1 .. j + 1]
    BY <2>1
  <2> HIDE DEF p
  <2> QED BY <1>4, <2>2
<1> HIDE DEF p
<1> QED  BY <1>5, <1>6

\* The same for its margin.
MarginFrom(b, k, f) ==
  f = [s \in SUBSET (1 .. k) |->
         IF s = {} THEN 0 ELSE f[s \ {Top(s)}] + Side(b, Top(s))]

LEMMA MarginExists ==
  ASSUME NEW b, NEW n \in Nat
  PROVE  \E f : MarginFrom(b, n, f)
<1> DEFINE T == {k \in Nat : \E f : MarginFrom(b, k, f)}
<1>1. 0 \in T
  <2> DEFINE g == [s \in SUBSET (1 .. 0) |-> 0]
  <2>1. \A s \in SUBSET (1 .. 0) : s = {}
    OBVIOUS
  <2>2. MarginFrom(b, 0, g)
    BY <2>1 DEF MarginFrom
  <2> QED  BY <2>2
<1>2. ASSUME NEW k \in T PROVE k + 1 \in T
  <2>1. k \in Nat
    OBVIOUS
  <2>2. PICK f : MarginFrom(b, k, f)
    OBVIOUS
  <2> DEFINE g == [s \in SUBSET (1 .. k + 1) |->
                     IF s = {} THEN 0 ELSE f[s \ {Top(s)}] + Side(b, Top(s))]
  <2>3. \A s \in SUBSET (1 .. k) : s \in SUBSET (1 .. k + 1)
    BY <2>1
  <2>4. \A s \in SUBSET (1 .. k) : g[s] = f[s]
    BY <2>2, <2>3 DEF MarginFrom
  <2>5. \A s \in SUBSET (1 .. k + 1) : g[s \ {Top(s)}] = f[s \ {Top(s)}]
    BY <2>1, <2>4, TopOff
  <2>6. MarginFrom(b, k + 1, g)
    <3> HIDE DEF g
    <3>1. g = [s \in SUBSET (1 .. k + 1) |->
                 IF s = {} THEN 0 ELSE f[s \ {Top(s)}] + Side(b, Top(s))]
      BY DEF g
    <3>2. \A s \in SUBSET (1 .. k + 1) :
             (IF s = {} THEN 0 ELSE g[s \ {Top(s)}] + Side(b, Top(s))) = IF s = {} THEN 0 ELSE f[s \ {Top(s)}] + Side(b, Top(s))
      BY <2>5
    <3>3. g = [s \in SUBSET (1 .. k + 1) |-> IF s = {} THEN 0 ELSE g[s \ {Top(s)}] + Side(b, Top(s))]
      BY <3>1, <3>2
    <3> QED BY <3>3 DEF MarginFrom
  <2> QED  BY <2>1, <2>6
<1> HIDE DEF T
<1>3. T = Nat
  BY <1>1, <1>2, Induct DEF T
<1> QED  BY <1>3 DEF T

LEMMA MarginIs ==
  ASSUME NEW b
  PROVE  \E p : /\ p[0] = 0 /\ BoxMargin(b) = p[Dimension]
               /\ \A j \in 0 .. Dimension - 1 : p[j + 1] = p[j] + Extent(b)[j + 1]
<1>0. Dimension \in Nat
  BY RTreeAssumption
<1> DEFINE it == CHOOSE f : MarginFrom(b, Dimension, f)
           p  == [j \in 0 .. Dimension |-> it[1 .. j]]
<1>1. BoxMargin(b) = it[1 .. Dimension]
  <2>1. DOMAIN [x \in Axes |-> x] = 1 .. Dimension
    BY <1>0 DEF Axes
  <2> QED  BY <2>1 DEF BoxMargin, Side, FoldLeft, MapThenFoldSet, Max, MarginFrom, Top
<1>2. MarginFrom(b, Dimension, it)
  BY <1>0, MarginExists
<1> HIDE DEF it
<1>3. it[1 .. 0] = 0
  <2>1. 1 .. 0 = {} /\ {} \in SUBSET (1 .. Dimension)
    OBVIOUS
  <2> QED BY <1>2, <2>1 DEF MarginFrom
<1>4. ASSUME NEW j \in 0 .. Dimension - 1
      PROVE  it[1 .. j + 1] = it[1 .. j] + Extent(b)[j + 1]
  <2>0. j \in Nat /\ j + 1 \in Nat /\ j + 1 <= Dimension
    BY <1>0
  <2>1. 1 .. j + 1 \in SUBSET (1 .. Dimension) /\ 1 .. j + 1 # {} /\ j + 1 \in 1 .. j + 1 /\ j \in Nat
    <3>1. \A i \in 1 .. j + 1 : i \in 1 .. Dimension
      BY <1>0, <2>0
    <3>2. j + 1 \in 1 .. j + 1
      BY <2>0
    <3> QED BY <2>0, <3>1, <3>2
  <2>2. Top(1 .. j + 1) = j + 1
    BY <2>1, TopOff
  <2>3. (1 .. j + 1) \ {j + 1} = 1 .. j
    BY <2>1
  <2>4. it[1 .. j + 1] = it[(1 .. j + 1) \ {j + 1}] + Side(b, j + 1)
    BY <1>2, <2>1, <2>2 DEF MarginFrom
  <2>5. Side(b, j + 1) = Extent(b)[j + 1]
    BY <1>0, <2>0 DEF Axes, Side
  <2> QED  BY <2>3, <2>4, <2>5
<1>5. p[0] = 0 /\ BoxMargin(b) = p[Dimension]
  BY <1>0, <1>1, <1>3
<1>6. ASSUME NEW j \in 0 .. Dimension - 1
      PROVE  p[j + 1] = p[j] + Extent(b)[j + 1]
  <2>1. j \in 0 .. Dimension /\ j + 1 \in 0 .. Dimension
    BY <1>0
  <2>2. p[j] = it[1 .. j] /\ p[j + 1] = it[1 .. j + 1]
    BY <2>1
  <2> HIDE DEF p
  <2> QED BY <1>4, <2>2
<1> HIDE DEF p
<1> QED  BY <1>5, <1>6

-----------------------------------------------------------------------------
(* The measures of boxes                                                   *)

Intervals == {i \in Int \X Int : i[1] <= i[2]}
IntBoxes  == [Axes -> Intervals]

LEMMA BoxesAreInt == Boxes \subseteq IntBoxes
<1> SUFFICES ASSUME NEW b \in Boxes PROVE b \in IntBoxes
  OBVIOUS
<1> QED BY RTreeAssumption DEF Boxes, IntBoxes, Intervals

LEMMA Sides ==
  ASSUME NEW b \in IntBoxes, NEW x \in Axes
  PROVE  /\ b[x] \in Int \X Int /\ b[x][1] \in Int /\ b[x][2] \in Int /\ b[x][1] <= b[x][2]
         /\ Extent(b)[x] = b[x][2] - b[x][1] /\ Extent(b)[x] \in Nat
<1>1. b[x] \in Intervals
  BY DEF IntBoxes
<1>2. /\ b[x] \in Int \X Int /\ b[x][1] \in Int /\ b[x][2] \in Int /\ b[x][1] <= b[x][2]
  BY <1>1 DEF Intervals
<1>3. Extent(b)[x] = b[x][2] - b[x][1]
  BY DEF Extent
<1> QED BY <1>2, <1>3

LEMMA UnionSides ==
  ASSUME NEW a \in IntBoxes, NEW b \in IntBoxes
  PROVE  /\ BoxUnion(a, b) \in IntBoxes
         /\ \A x \in Axes :
              /\ BoxUnion(a, b)[x][1] = IF a[x][1] <= b[x][1] THEN a[x][1] ELSE b[x][1]
              /\ BoxUnion(a, b)[x][2] = IF a[x][2] <= b[x][2] THEN b[x][2] ELSE a[x][2]
<1>1. ASSUME NEW x \in Axes
      PROVE  /\ BoxUnion(a, b)[x][1] = IF a[x][1] <= b[x][1] THEN a[x][1] ELSE b[x][1]
             /\ BoxUnion(a, b)[x][2] = IF a[x][2] <= b[x][2] THEN b[x][2] ELSE a[x][2]
             /\ BoxUnion(a, b)[x] \in Intervals
  <2>1. /\ a[x][1] \in Int /\ a[x][2] \in Int /\ a[x][1] <= a[x][2]
        /\ b[x][1] \in Int /\ b[x][2] \in Int /\ b[x][1] <= b[x][2]
    BY Sides
  <2>2. BoxUnion(a, b)[x] = <<Lo(a[x][1], b[x][1]), Hi(a[x][2], b[x][2])>>
    BY DEF BoxUnion
  <2>3. /\ Lo(a[x][1], b[x][1]) = IF a[x][1] <= b[x][1] THEN a[x][1] ELSE b[x][1]
        /\ Hi(a[x][2], b[x][2]) = IF a[x][2] <= b[x][2] THEN b[x][2] ELSE a[x][2]
    BY <2>1, LoHi
  <2> QED BY <2>1, <2>2, <2>3 DEF Intervals
<1>2. BoxUnion(a, b) \in IntBoxes
  BY <1>1 DEF IntBoxes, BoxUnion
<1> QED BY <1>1, <1>2

LEMMA MeetSides ==
  ASSUME NEW a \in IntBoxes, NEW b \in IntBoxes
  PROVE  /\ BoxIntersection(a, b) \in IntBoxes
         /\ \A x \in Axes :
              LET min == IF a[x][1] <= b[x][1] THEN b[x][1] ELSE a[x][1]
                  max == IF a[x][2] <= b[x][2] THEN a[x][2] ELSE b[x][2]
              IN  /\ BoxIntersection(a, b)[x][1] = min
                  /\ BoxIntersection(a, b)[x][2] = IF min <= max THEN max ELSE min
<1> DEFINE min(x) == IF a[x][1] <= b[x][1] THEN b[x][1] ELSE a[x][1]
           max(x) == IF a[x][2] <= b[x][2] THEN a[x][2] ELSE b[x][2]
<1>1. ASSUME NEW x \in Axes
      PROVE  /\ BoxIntersection(a, b)[x][1] = min(x)
             /\ BoxIntersection(a, b)[x][2] = IF min(x) <= max(x) THEN max(x) ELSE min(x)
             /\ BoxIntersection(a, b)[x] \in Intervals
  <2>1. /\ a[x][1] \in Int /\ a[x][2] \in Int /\ b[x][1] \in Int /\ b[x][2] \in Int
    BY Sides
  <2>2. Hi(a[x][1], b[x][1]) = min(x) /\ Lo(a[x][2], b[x][2]) = max(x)
    BY <2>1, LoHi
  <2>3. min(x) \in Int /\ max(x) \in Int
    BY <2>1
  <2>4. BoxIntersection(a, b)[x] =
          <<Hi(a[x][1], b[x][1]), Hi(Hi(a[x][1], b[x][1]), Lo(a[x][2], b[x][2]))>>
    BY DEF BoxIntersection
  <2> HIDE DEF min, max
  <2>5. Hi(min(x), max(x)) = IF min(x) <= max(x) THEN max(x) ELSE min(x)
    BY <2>3, LoHi
  <2> QED BY <2>2, <2>3, <2>4, <2>5 DEF Intervals
<1>2. BoxIntersection(a, b) \in IntBoxes
  <2> HIDE DEF min, max
  <2> QED BY <1>1 DEF IntBoxes, BoxIntersection
<1> QED BY <1>1, <1>2

\* What is true of the interval on each axis.
LEMMA OnAxis ==
  ASSUME NEW a \in IntBoxes, NEW b \in IntBoxes, NEW x \in Axes
  PROVE  LET ea == Extent(a)[x]  eb == Extent(b)[x]
             eu == Extent(BoxUnion(a, b))[x]  ei == Extent(BoxIntersection(a, b))[x]
         IN  /\ ea \in Nat /\ eb \in Nat /\ eu \in Nat /\ ei \in Nat
             /\ ea <= eu /\ eb <= eu /\ ei <= ea /\ ei <= eb /\ ea + eb - ei <= eu
<1>1. BoxUnion(a, b) \in IntBoxes /\ BoxIntersection(a, b) \in IntBoxes
  BY UnionSides, MeetSides
<1>2. /\ Extent(a)[x] = a[x][2] - a[x][1] /\ Extent(b)[x] = b[x][2] - b[x][1]
      /\ Extent(BoxUnion(a, b))[x] = BoxUnion(a, b)[x][2] - BoxUnion(a, b)[x][1]
      /\ Extent(BoxIntersection(a, b))[x] = BoxIntersection(a, b)[x][2] - BoxIntersection(a, b)[x][1]
      /\ Extent(a)[x] \in Nat /\ Extent(b)[x] \in Nat
      /\ Extent(BoxUnion(a, b))[x] \in Nat /\ Extent(BoxIntersection(a, b))[x] \in Nat
  BY <1>1, Sides
<1>3. /\ a[x][1] \in Int /\ a[x][2] \in Int /\ a[x][1] <= a[x][2]
      /\ b[x][1] \in Int /\ b[x][2] \in Int /\ b[x][1] <= b[x][2]
  BY Sides
<1>4. /\ BoxUnion(a, b)[x][1] = IF a[x][1] <= b[x][1] THEN a[x][1] ELSE b[x][1]
      /\ BoxUnion(a, b)[x][2] = IF a[x][2] <= b[x][2] THEN b[x][2] ELSE a[x][2]
  BY UnionSides
<1>5. LET min == IF a[x][1] <= b[x][1] THEN b[x][1] ELSE a[x][1]
          max == IF a[x][2] <= b[x][2] THEN a[x][2] ELSE b[x][2]
      IN  /\ BoxIntersection(a, b)[x][1] = min
          /\ BoxIntersection(a, b)[x][2] = IF min <= max THEN max ELSE min
  BY MeetSides
<1> QED BY <1>2, <1>3, <1>4, <1>5

LEMMA Product ==
  ASSUME NEW m \in Nat, NEW n \in Nat
  PROVE  m * n \in Nat /\ (m * n = 0 <=> m = 0 \/ n = 0)
OBVIOUS

LEMMA ProductUp ==
  ASSUME NEW m \in Nat, NEW n \in Nat, NEW k \in Nat, NEW l \in Nat, m <= k, n <= l
  PROVE  /\ m * n \in Nat /\ k * l \in Nat /\ m * n <= k * l
         /\ k > 0 /\ l > 0 /\ (m < k \/ n < l) => m * n < k * l
<1>1. m * n \in Nat /\ k * l \in Nat /\ k * n \in Nat
  BY Product
<1>2. PICK d \in Nat : k = m + d
  <2>1. k - m \in Nat /\ k = m + (k - m)
    OBVIOUS
  <2> QED BY <2>1
<1>3. PICK e \in Nat : l = n + e
  <2>1. l - n \in Nat /\ l = n + (l - n)
    OBVIOUS
  <2> QED BY <2>1
<1>4. k * n = m * n + d * n /\ d * n \in Nat
  BY <1>2, Product
<1>5. k * l = k * n + k * e /\ k * e \in Nat
  BY <1>3, Product
<1>6. m * n <= k * l
  BY <1>1, <1>4, <1>5
<1>7. ASSUME k > 0, l > 0, m < k \/ n < l PROVE m * n < k * l
  <2>1. CASE n < l
    <3>1. k * e # 0
      BY <1>3, <1>7, <2>1, Product
    <3> QED BY <1>1, <1>4, <1>5, <3>1
  <2>2. CASE n = l
    <3>1. d # 0 /\ n # 0
      BY <1>2, <1>7, <2>2
    <3>2. d * n # 0
      BY <3>1, Product
    <3> QED BY <1>1, <1>4, <1>5, <3>2
  <2> QED BY <2>1, <2>2
<1> QED BY <1>1, <1>6, <1>7

\* One more axis for a pair of boxes, of which the intersection has I and i, and
\* the union U and u.
LEMMA OneMoreAxis ==
  ASSUME NEW A \in Nat, NEW B \in Nat, NEW I \in Nat, NEW U \in Nat,
         NEW a \in Nat, NEW b \in Nat, NEW i \in Nat, NEW u \in Nat,
         I <= A, I <= B, A + B - I <= U, i <= a, i <= b, a <= u, b <= u, a + b - i <= u
  PROVE  A * a + B * b - I * i <= U * u
<1>1. PICK c \in Nat : A = I + c
  <2>1. A - I \in Nat /\ A = I + (A - I)
    OBVIOUS
  <2> QED BY <2>1
<1>2. PICK d \in Nat : B = I + d
  <2>1. B - I \in Nat /\ B = I + (B - I)
    OBVIOUS
  <2> QED BY <2>1
<1>3. /\ A * a = I * a + c * a /\ B * b = I * b + d * b
      /\ I * a \in Nat /\ I * b \in Nat /\ I * i \in Nat /\ c * a \in Nat /\ d * b \in Nat
  BY <1>1, <1>2, Product
<1>4. c * a <= c * u /\ d * b <= d * u /\ c * u \in Nat /\ d * u \in Nat
  BY ProductUp
<1>5. I * a + I * b - I * i <= I * u
  <2>1. a + b - i \in Nat
    OBVIOUS
  <2>2. I * (a + b - i) <= I * u
    BY <2>1, ProductUp
  <2>3. I * (a + b - i) = I * a + I * b - I * i
    OBVIOUS
  <2> QED BY <2>2, <2>3
<1>6. (I + c + d) * u <= U * u
  BY <1>1, <1>2, ProductUp
<1>7. (I + c + d) * u = I * u + c * u + d * u
  OBVIOUS
<1>8. U * u \in Nat /\ I * u \in Nat
  BY Product
<1>9. A * a + B * b - I * i = (I * a + I * b - I * i) + c * a + d * b
  BY <1>3
<1> QED BY <1>3, <1>4, <1>5, <1>6, <1>7, <1>8, <1>9

\* The area of the first j axes, and when it is 0.
LEMMA AreaSteps ==
  ASSUME NEW b \in IntBoxes
  PROVE  \E p : /\ p[0] = 1 /\ BoxArea(b) = p[Dimension]
                /\ \A j \in 0 .. Dimension - 1 : j + 1 \in Axes /\ p[j + 1] = p[j] * Extent(b)[j + 1]
                /\ \A j \in 0 .. Dimension :
                     p[j] \in Nat /\ (p[j] = 0 <=> \E x \in 1 .. j : Extent(b)[x] = 0)
<1>0. Dimension \in Nat /\ Dimension # 0
  BY RTreeAssumption
<1>1. PICK p : /\ p[0] = 1 /\ BoxArea(b) = p[Dimension]
               /\ \A j \in 0 .. Dimension - 1 : p[j + 1] = p[j] * Extent(b)[j + 1]
  BY AreaIs
<1>2. \A j \in 0 .. Dimension - 1 : j + 1 \in Axes
  BY <1>0 DEF Axes
<1> DEFINE P(j) == p[j] \in Nat /\ (p[j] = 0 <=> \E x \in 1 .. j : Extent(b)[x] = 0)
           T == {j \in Nat : j <= Dimension => P(j)}
<1>3. 0 \in T
  BY <1>1
<1>4. ASSUME NEW j \in T PROVE j + 1 \in T
  <2> SUFFICES ASSUME j + 1 <= Dimension PROVE P(j + 1)
    OBVIOUS
  <2>1. j \in Nat /\ j \in 0 .. Dimension - 1 /\ P(j)
    BY <1>0
  <2>2. Extent(b)[j + 1] \in Nat
    BY <1>2, <2>1, Sides
  <2>3. p[j + 1] = p[j] * Extent(b)[j + 1]
    BY <1>1, <2>1
  <2>4. p[j + 1] \in Nat /\ (p[j + 1] = 0 <=> p[j] = 0 \/ Extent(b)[j + 1] = 0)
    BY <2>1, <2>2, <2>3, Product
  <2>5. 1 .. j + 1 = (1 .. j) \cup {j + 1}
    BY <2>1
  <2> QED BY <2>1, <2>4, <2>5
<1>5. T = Nat
  <2> HIDE DEF P
  <2> QED BY <1>3, <1>4, Induct
<1>6. \A j \in 0 .. Dimension : P(j)
  <2> HIDE DEF P
  <2> QED BY <1>0, <1>5
<1> QED BY <1>1, <1>2, <1>6

LEMMA AreaOfFlat ==
  ASSUME NEW b \in IntBoxes
  PROVE  BoxArea(b) \in Nat /\ (BoxArea(b) = 0 <=> Flat(b))
<1>1. PICK p : /\ BoxArea(b) = p[Dimension]
               /\ \A j \in 0 .. Dimension :
                    p[j] \in Nat /\ (p[j] = 0 <=> \E x \in 1 .. j : Extent(b)[x] = 0)
  BY AreaSteps
<1>2. Dimension \in 0 .. Dimension
  BY RTreeAssumption
<1>3. \A x \in Axes : Extent(b)[x] = 0 <=> b[x][1] = b[x][2]
  <2> TAKE x \in Axes
  <2> QED BY Sides
<1> QED BY <1>1, <1>2, <1>3 DEF Flat, Axes

\* A box with room inside another and not the same has less area.
LEMMA AreaGrows ==
  ASSUME NEW s \in IntBoxes, NEW c \in IntBoxes, Within(s, c)
  PROVE  BoxArea(s) <= BoxArea(c) /\ (s # c /\ ~Flat(c) => BoxArea(s) < BoxArea(c))
<1>0. Dimension \in Nat /\ Dimension # 0
  BY RTreeAssumption
<1>1. PICK p : /\ p[0] = 1 /\ BoxArea(s) = p[Dimension]
               /\ \A j \in 0 .. Dimension - 1 : j + 1 \in Axes /\ p[j + 1] = p[j] * Extent(s)[j + 1]
               /\ \A j \in 0 .. Dimension : p[j] \in Nat
  BY AreaSteps
<1>2. PICK q : /\ q[0] = 1 /\ BoxArea(c) = q[Dimension]
               /\ \A j \in 0 .. Dimension - 1 : j + 1 \in Axes /\ q[j + 1] = q[j] * Extent(c)[j + 1]
               /\ \A j \in 0 .. Dimension : q[j] \in Nat /\ (q[j] = 0 <=> \E x \in 1 .. j : Extent(c)[x] = 0)
  BY AreaSteps
<1>3. \A x \in Axes : /\ Extent(s)[x] \in Nat /\ Extent(c)[x] \in Nat
                      /\ Extent(s)[x] <= Extent(c)[x]
                      /\ Extent(s)[x] = Extent(c)[x] => s[x] = c[x]
                      /\ Extent(c)[x] = 0 <=> c[x][1] = c[x][2]
  <2> TAKE x \in Axes
  <2>1. c[x][1] <= s[x][1] /\ s[x][2] <= c[x][2]
    BY DEF Within
  <2>2. /\ s[x] \in Int \X Int /\ s[x][1] \in Int /\ s[x][2] \in Int /\ s[x][1] <= s[x][2]
        /\ Extent(s)[x] = s[x][2] - s[x][1] /\ Extent(s)[x] \in Nat
    BY Sides
  <2>3. /\ c[x] \in Int \X Int /\ c[x][1] \in Int /\ c[x][2] \in Int /\ c[x][1] <= c[x][2]
        /\ Extent(c)[x] = c[x][2] - c[x][1] /\ Extent(c)[x] \in Nat
    BY Sides
  <2>4. Extent(s)[x] = Extent(c)[x] => s[x][1] = c[x][1] /\ s[x][2] = c[x][2]
    BY <2>1, <2>2, <2>3
  <2>5. s[x] = <<s[x][1], s[x][2]>> /\ c[x] = <<c[x][1], c[x][2]>>
    BY <2>2, <2>3
  <2> QED BY <2>1, <2>2, <2>3, <2>4, <2>5
<1> DEFINE P(j) == /\ p[j] <= q[j]
                   /\ ~Flat(c) /\ (\E x \in 1 .. j : Extent(s)[x] # Extent(c)[x]) => p[j] < q[j]
           T == {j \in Nat : j <= Dimension => P(j)}
<1>4. 0 \in T
  BY <1>1, <1>2
<1>5. ASSUME NEW j \in T PROVE j + 1 \in T
  <2> SUFFICES ASSUME j + 1 <= Dimension PROVE P(j + 1)
    OBVIOUS
  <2>1. j \in Nat /\ j \in 0 .. Dimension - 1 /\ P(j) /\ j \in 0 .. Dimension
    BY <1>0
  <2> DEFINE es == Extent(s)[j + 1]
             ec == Extent(c)[j + 1]
  <2>2. es \in Nat /\ ec \in Nat /\ es <= ec /\ p[j] \in Nat /\ q[j] \in Nat
    BY <1>1, <1>2, <1>3, <2>1
  <2>3. p[j + 1] = p[j] * es /\ q[j + 1] = q[j] * ec
    BY <1>1, <1>2, <2>1
  <2>4. ~Flat(c) => q[j] > 0 /\ ec > 0
    <3> SUFFICES ASSUME ~Flat(c) PROVE q[j] > 0 /\ ec > 0
      OBVIOUS
    <3>1. \A x \in Axes : Extent(c)[x] # 0
      BY <1>3 DEF Flat
    <3>2. 1 .. j \subseteq Axes /\ j + 1 \in Axes
      BY <1>0, <2>1 DEF Axes
    <3>3. q[j] # 0
      BY <1>2, <2>1, <3>1, <3>2
    <3> QED BY <2>2, <3>1, <3>2, <3>3
  <2>5. 1 .. j + 1 = (1 .. j) \cup {j + 1}
    BY <2>1
  <2> HIDE DEF es, ec
  <2>6. p[j] * es <= q[j] * ec
        /\ (q[j] > 0 /\ ec > 0 /\ (p[j] < q[j] \/ es < ec) => p[j] * es < q[j] * ec)
    BY <2>1, <2>2, ProductUp
  <2>7. ASSUME ~Flat(c), NEW x \in 1 .. j + 1, Extent(s)[x] # Extent(c)[x]
        PROVE  p[j] * es < q[j] * ec
    <3>1. CASE x \in 1 .. j
      BY <2>1, <2>4, <2>6, <2>7, <3>1
    <3>2. CASE x = j + 1
      <4>1. es # ec
        BY <2>7, <3>2 DEF es, ec
      <4> QED BY <2>2, <2>4, <2>6, <2>7, <4>1
    <3> QED BY <2>5, <2>7, <3>1, <3>2
  <2> QED BY <2>3, <2>6, <2>7
<1>6. T = Nat
  <2> HIDE DEF P
  <2> QED BY <1>4, <1>5, Induct
<1>7. P(Dimension)
  <2> HIDE DEF P
  <2> QED BY <1>0, <1>6
<1>8. s # c => \E x \in Axes : s[x] # c[x]
  BY DEF IntBoxes
<1>9. s # c => \E x \in 1 .. Dimension : Extent(s)[x] # Extent(c)[x]
  BY <1>3, <1>8 DEF Axes
<1> QED BY <1>1, <1>2, <1>7, <1>9

LEMMA AreaOfUnion ==
  ASSUME NEW a \in IntBoxes, NEW b \in IntBoxes
  PROVE  BoxArea(a) + BoxArea(b) - BoxArea(BoxIntersection(a, b)) <= BoxArea(BoxUnion(a, b))
<1>0. Dimension \in Nat /\ Dimension # 0
  BY RTreeAssumption
<1> DEFINE u == BoxUnion(a, b)
           i == BoxIntersection(a, b)
           Is(r, v) == /\ r[0] = 1 /\ BoxArea(v) = r[Dimension]
                       /\ \A j \in 0 .. Dimension - 1 : j + 1 \in Axes /\ r[j + 1] = r[j] * Extent(v)[j + 1]
                       /\ \A j \in 0 .. Dimension : r[j] \in Nat
<1>1. a \in IntBoxes /\ b \in IntBoxes /\ u \in IntBoxes /\ i \in IntBoxes
  BY UnionSides, MeetSides
<1>2. \A v \in IntBoxes : \E r : Is(r, v)
  <2> TAKE v \in IntBoxes
  <2> HIDE DEF u, i
  <2> QED BY AreaSteps
<1> HIDE DEF u, i
<1>3. PICK pa : Is(pa, a)
  BY <1>1, <1>2
<1>4. PICK pb : Is(pb, b)
  BY <1>1, <1>2
<1>5. PICK pi : Is(pi, i)
  BY <1>1, <1>2
<1>6. PICK pu : Is(pu, u)
  BY <1>1, <1>2
<1> DEFINE P(j) == pi[j] <= pa[j] /\ pi[j] <= pb[j] /\ pa[j] + pb[j] - pi[j] <= pu[j]
           T == {j \in Nat : j <= Dimension => P(j)}
<1>7. 0 \in T
  BY <1>3, <1>4, <1>5, <1>6
<1>8. ASSUME NEW j \in T PROVE j + 1 \in T
  <2> SUFFICES ASSUME j + 1 <= Dimension PROVE P(j + 1)
    OBVIOUS
  <2>1. j \in Nat /\ j \in 0 .. Dimension - 1 /\ P(j) /\ j \in 0 .. Dimension
    BY <1>0
  <2> DEFINE ea == Extent(a)[j + 1]
             eb == Extent(b)[j + 1]
             ei == Extent(i)[j + 1]
             eu == Extent(u)[j + 1]
  <2>2. /\ ea \in Nat /\ eb \in Nat /\ eu \in Nat /\ ei \in Nat
        /\ ea <= eu /\ eb <= eu /\ ei <= ea /\ ei <= eb /\ ea + eb - ei <= eu
    <3>1. j + 1 \in Axes
      BY <1>3, <2>1
    <3> QED BY <3>1, OnAxis DEF u, i
  <2>3. /\ pa[j + 1] = pa[j] * ea /\ pb[j + 1] = pb[j] * eb
        /\ pi[j + 1] = pi[j] * ei /\ pu[j + 1] = pu[j] * eu
        /\ pa[j] \in Nat /\ pb[j] \in Nat /\ pi[j] \in Nat /\ pu[j] \in Nat
    BY <1>3, <1>4, <1>5, <1>6, <2>1
  <2> HIDE DEF ea, eb, ei, eu
  <2>4. pi[j] * ei <= pa[j] * ea
    BY <2>1, <2>2, <2>3, ProductUp
  <2>5. pi[j] * ei <= pb[j] * eb
    BY <2>1, <2>2, <2>3, ProductUp
  <2>6. pa[j] * ea + pb[j] * eb - pi[j] * ei <= pu[j] * eu
    BY <2>1, <2>2, <2>3, OneMoreAxis
  <2> QED BY <2>3, <2>4, <2>5, <2>6
<1>9. T = Nat
  <2> HIDE DEF P
  <2> QED BY <1>7, <1>8, Induct
<1>10. P(Dimension)
  <2> HIDE DEF P
  <2> QED BY <1>0, <1>9
<1> QED BY <1>3, <1>4, <1>5, <1>6, <1>10 DEF u, i

\* A margin is not negative, and is monotone.
LEMMA MarginGrows ==
  ASSUME NEW s \in IntBoxes, NEW c \in IntBoxes, \A x \in Axes : Extent(s)[x] <= Extent(c)[x]
  PROVE  BoxMargin(s) \in Nat /\ BoxMargin(c) \in Nat /\ BoxMargin(s) <= BoxMargin(c)
<1>0. Dimension \in Nat /\ Dimension # 0
  BY RTreeAssumption
<1>1. PICK p : /\ p[0] = 0 /\ BoxMargin(s) = p[Dimension]
               /\ \A j \in 0 .. Dimension - 1 : p[j + 1] = p[j] + Extent(s)[j + 1]
  BY MarginIs
<1>2. PICK q : /\ q[0] = 0 /\ BoxMargin(c) = q[Dimension]
               /\ \A j \in 0 .. Dimension - 1 : q[j + 1] = q[j] + Extent(c)[j + 1]
  BY MarginIs
<1> DEFINE P(j) == p[j] \in Nat /\ q[j] \in Nat /\ p[j] <= q[j]
           T == {j \in Nat : j <= Dimension => P(j)}
<1>3. 0 \in T
  BY <1>1, <1>2
<1>4. ASSUME NEW j \in T PROVE j + 1 \in T
  <2> SUFFICES ASSUME j + 1 <= Dimension PROVE P(j + 1)
    OBVIOUS
  <2>1. j \in Nat /\ j \in 0 .. Dimension - 1 /\ P(j) /\ j + 1 \in Axes
    BY <1>0 DEF Axes
  <2>2. Extent(s)[j + 1] \in Nat /\ Extent(c)[j + 1] \in Nat /\ Extent(s)[j + 1] <= Extent(c)[j + 1]
    BY <2>1, Sides
  <2>3. p[j + 1] = p[j] + Extent(s)[j + 1] /\ q[j + 1] = q[j] + Extent(c)[j + 1]
    BY <1>1, <1>2, <2>1
  <2> QED BY <2>1, <2>2, <2>3
<1>5. T = Nat
  <2> HIDE DEF P
  <2> QED BY <1>3, <1>4, Induct
<1>6. P(Dimension)
  <2> HIDE DEF P
  <2> QED BY <1>0, <1>5
<1> QED BY <1>1, <1>2, <1>6

-----------------------------------------------------------------------------
(* The box of a node                                                       *)

\* The nodes m steps from the root.
Way(m) == [1 .. m -> 1 .. Fanout]

LEMMA WayLen ==
  ASSUME NEW m \in Nat, NEW n \in Way(m)
  PROVE  n \in Seq(1 .. Fanout) /\ Len(n) = m /\ \A i \in 1 .. m : n[i] \in 1 .. Fanout
<1>1. n \in [1 .. m -> 1 .. Fanout]
  BY DEF Way
<1>2. n \in Seq(1 .. Fanout)
  BY <1>1, SeqDef
<1>3. Len(n) = m
  BY <1>1, <1>2
<1> QED BY <1>1, <1>2, <1>3

LEMMA WayGrows ==
  ASSUME NEW m \in Nat, NEW n \in Way(m), NEW i \in 1 .. Fanout
  PROVE  /\ Append(n, i) \in Way(m + 1)
         /\ SubSeq(Append(n, i), 1, m + 1) = Append(n, i)
         /\ \A k \in 0 .. m : SubSeq(Append(n, i), 1, k) = SubSeq(n, 1, k) /\ SubSeq(n, 1, k) \in Way(k)
         /\ SubSeq(n, 1, m) = n
<1>1. n \in Seq(1 .. Fanout) /\ Len(n) = m /\ \A j \in 1 .. m : n[j] \in 1 .. Fanout
  BY WayLen
<1>2. Append(n, i) \in Seq(1 .. Fanout) /\ Len(Append(n, i)) = m + 1
  BY <1>1
<1>3. Append(n, i) \in Way(m + 1)
  <2>2. Append(n, i) \in [1 .. Len(Append(n, i)) -> 1 .. Fanout]
    BY <1>2, LenProperties
  <2> QED BY <1>2, <2>2 DEF Way
<1>4. \A k \in 0 .. m : SubSeq(n, 1, k) = [j \in 1 .. k |-> n[j]]
  BY <1>1
<1>5. \A k \in 0 .. m + 1 : SubSeq(Append(n, i), 1, k) = [j \in 1 .. k |-> Append(n, i)[j]]
  BY <1>2
<1>6. \A j \in 1 .. m : Append(n, i)[j] = n[j]
  BY <1>1
<1>7. SubSeq(Append(n, i), 1, m + 1) = Append(n, i)
  BY <1>3, <1>5 DEF Way
<1>8. SubSeq(n, 1, m) = n
  BY <1>4 DEF Way
<1>9. ASSUME NEW k \in 0 .. m
      PROVE  SubSeq(Append(n, i), 1, k) = SubSeq(n, 1, k) /\ SubSeq(n, 1, k) \in Way(k)
  <2>1. \A j \in 1 .. k : j \in 1 .. m
    OBVIOUS
  <2>2. [j \in 1 .. k |-> Append(n, i)[j]] = [j \in 1 .. k |-> n[j]]
    BY <1>6, <2>1
  <2>3. k \in 0 .. m + 1
    OBVIOUS
  <2>4. SubSeq(n, 1, k) \in Way(k)
    <3>1. SubSeq(n, 1, k) = [j \in 1 .. k |-> n[j]]
      BY <1>4
    <3>2. \A j \in 1 .. k : n[j] \in 1 .. Fanout
      BY <1>1, <2>1
    <3> QED BY <3>1, <3>2 DEF Way
  <2> QED BY <1>4, <1>5, <2>2, <2>3, <2>4
<1> QED BY <1>3, <1>7, <1>8, <1>9

\* There is a leaf below every node, so the least and greatest bounds exist.
LEMMA BoxOfType ==
  ASSUME height \in Nat, height > 0, cover \in [Way(height - 1) -> Boxes],
         NEW m \in 0 .. height - 1, NEW n \in Way(m)
  PROVE  BoxOf(n) \in IntBoxes
<1>0. height - 1 \in Nat /\ m \in Nat /\ Fanout \in Nat /\ 1 \in 1 .. Fanout
  BY RTreeAssumption
<1> DEFINE below == {cover[l] : l \in {l \in DOMAIN cover : IsPrefix(n, l)}}
           leaf  == [i \in 1 .. height - 1 |-> IF i <= m THEN n[i] ELSE 1]
<1>1. DOMAIN cover = Way(height - 1)
  OBVIOUS
<1>2. n \in Seq(1 .. Fanout) /\ Len(n) = m /\ \A i \in 1 .. m : n[i] \in 1 .. Fanout
  BY <1>0, WayLen
<1>3. leaf \in Way(height - 1)
  BY <1>0, <1>2 DEF Way
<1>4. leaf \in Seq(1 .. Fanout) /\ Len(leaf) = height - 1
  <2> HIDE DEF leaf
  <2> QED BY <1>0, <1>3, WayLen
<1>5. IsPrefix(n, leaf)
  <2>1. SubSeq(n, 1, m) = [i \in 1 .. m |-> n[i]]
    BY <1>0, <1>2
  <2>2. SubSeq(leaf, 1, m) = [i \in 1 .. m |-> leaf[i]]
    <3> HIDE DEF leaf
    <3> QED BY <1>0, <1>4
  <2>3. \A i \in 1 .. m : leaf[i] = n[i]
    BY <1>0
  <2>4. SubSeq(n, 1, m) = SubSeq(leaf, 1, m)
    <3> HIDE DEF leaf
    <3> QED BY <2>1, <2>2, <2>3
  <2>5. m <= height - 1
    OBVIOUS
  <2> HIDE DEF leaf
  <2> QED BY <1>2, <1>4, <2>4, <2>5 DEF IsPrefix
<1> HIDE DEF leaf
<1>6. cover[leaf] \in below
  BY <1>1, <1>3, <1>5
<1>7. below \subseteq Boxes
  BY <1>1
<1> HIDE DEF below
<1>8. ASSUME NEW x \in Axes
      PROVE  <<Min({b[x][1] : b \in below}), Max({b[x][2] : b \in below})>> \in Intervals
  <2> DEFINE lows  == {b[x][1] : b \in below}
             highs == {b[x][2] : b \in below}
  <2>1. \A b \in below : /\ b[x][1] \in Coords /\ b[x][2] \in Coords /\ b[x][1] <= b[x][2]
                         /\ b[x][1] \in Int /\ b[x][2] \in Int
    BY <1>7, RTreeAssumption DEF Boxes
  <2>2. lows \in SUBSET Coords /\ highs \in SUBSET Coords /\ lows # {} /\ highs # {}
    BY <1>6, <2>1
  <2>3. lows \in SUBSET Int /\ highs \in SUBSET Int
    BY <2>1
  <2>4. cover[leaf][x][1] \in lows /\ cover[leaf][x][2] \in highs
    BY <1>6
  <2> HIDE DEF lows, highs
  <2>5. IsFiniteSet(lows) /\ IsFiniteSet(highs)
    BY <2>2, RTreeAssumption, FS_Subset
  <2>6. /\ Min(lows) \in lows /\ \A y \in lows : Min(lows) <= y
        /\ Max(highs) \in highs /\ \A y \in highs : Max(highs) >= y
    BY <2>2, <2>3, <2>5, Extremes
  <2>7. Min(lows) \in Int /\ Max(highs) \in Int /\ Min(lows) <= cover[leaf][x][1]
        /\ cover[leaf][x][2] <= Max(highs)
    BY <2>3, <2>4, <2>6
  <2>8. cover[leaf][x][1] <= cover[leaf][x][2] /\ cover[leaf][x][1] \in Int /\ cover[leaf][x][2] \in Int
    BY <1>6, <2>1
  <2>9. Min(lows) <= Max(highs)
    BY <2>7, <2>8
  <2> QED BY <2>7, <2>9 DEF Intervals, lows, highs
<1> QED BY <1>8 DEF BoxOf, IntBoxes, below

-----------------------------------------------------------------------------
(* The folds of a split                                                    *)

\* The order before the sort, and one insertion of it, as the fold makes it.
Unsorted == [i \in 1 .. Len(node) |-> i]
Sorted(x, order, k) ==
  IF order = Undefined THEN order
  ELSE Sink(x, order, [i \in 1 .. Len(node) - 1 |-> i + 1][k])

\* The recursion that the sort is, over the first k insertions.
SortFrom(x, k, f) ==
  f = [s \in SUBSET (1 .. k) |->
         IF s = {} THEN Unsorted ELSE Sorted(x, f[s \ {Top(s)}], Top(s))]

LEMMA SortExists ==
  ASSUME NEW x, NEW n \in Nat
  PROVE  \E f : SortFrom(x, n, f)
<1> DEFINE T == {k \in Nat : \E f : SortFrom(x, k, f)}
<1>1. 0 \in T
  <2> DEFINE g == [s \in SUBSET (1 .. 0) |-> Unsorted]
  <2>1. \A s \in SUBSET (1 .. 0) : s = {}
    OBVIOUS
  <2>2. SortFrom(x, 0, g)
    BY <2>1 DEF SortFrom
  <2> QED  BY <2>2
<1>2. ASSUME NEW k \in T PROVE k + 1 \in T
  <2>1. k \in Nat
    OBVIOUS
  <2>2. PICK f : SortFrom(x, k, f)
    OBVIOUS
  <2> DEFINE g == [s \in SUBSET (1 .. k + 1) |->
                     IF s = {} THEN Unsorted ELSE Sorted(x, f[s \ {Top(s)}], Top(s))]
  <2>3. \A s \in SUBSET (1 .. k) : s \in SUBSET (1 .. k + 1)
    BY <2>1
  <2>4. \A s \in SUBSET (1 .. k) : g[s] = f[s]
    BY <2>2, <2>3 DEF SortFrom
  <2>5. \A s \in SUBSET (1 .. k + 1) : g[s \ {Top(s)}] = f[s \ {Top(s)}]
    BY <2>1, <2>4, TopOff
  <2>6. SortFrom(x, k + 1, g)
    <3> HIDE DEF g
    <3>1. g = [s \in SUBSET (1 .. k + 1) |->
                 IF s = {} THEN Unsorted ELSE Sorted(x, f[s \ {Top(s)}], Top(s))]
      BY DEF g
    <3>2. \A s \in SUBSET (1 .. k + 1) :
             (IF s = {} THEN Unsorted ELSE Sorted(x, g[s \ {Top(s)}], Top(s))) = IF s = {} THEN Unsorted ELSE Sorted(x, f[s \ {Top(s)}], Top(s))
      BY <2>5
    <3>3. g = [s \in SUBSET (1 .. k + 1) |-> IF s = {} THEN Unsorted ELSE Sorted(x, g[s \ {Top(s)}], Top(s))]
      BY <3>1, <3>2
    <3> QED BY <3>3 DEF SortFrom
  <2> QED  BY <2>1, <2>6
<1> HIDE DEF T
<1>3. T = Nat
  BY <1>1, <1>2, Induct DEF T
<1> QED  BY <1>3 DEF T

LEMMA SortIs ==
  ASSUME NEW x, Len(node) \in Nat \ {0}
  PROVE  \E p : /\ p[0] = Unsorted /\ SortAlong(x) = p[Len(node) - 1]
               /\ \A j \in 0 .. Len(node) - 2 : p[j + 1] = Sorted(x, p[j], j + 1)
<1>0. Len(node) - 1 \in Nat
  OBVIOUS
<1> DEFINE it == CHOOSE f : SortFrom(x, Len(node) - 1, f)
           p  == [j \in 0 .. Len(node) - 1 |-> it[1 .. j]]
<1>1. SortAlong(x) = it[1 .. Len(node) - 1]
  <2>1. DOMAIN [i \in 1 .. Len(node) - 1 |-> i + 1] = 1 .. Len(node) - 1
    BY <1>0
  <2> QED  BY <2>1 DEF SortAlong, Sorted, Unsorted, FoldLeft, MapThenFoldSet, Max, SortFrom, Top
<1>2. SortFrom(x, Len(node) - 1, it)
  BY <1>0, SortExists
<1> HIDE DEF it
<1>3. it[1 .. 0] = Unsorted
  <2>1. 1 .. 0 = {} /\ {} \in SUBSET (1 .. Len(node) - 1)
    OBVIOUS
  <2> QED BY <1>2, <2>1 DEF SortFrom
<1>4. ASSUME NEW j \in 0 .. Len(node) - 2
      PROVE  it[1 .. j + 1] = Sorted(x, it[1 .. j], j + 1)
  <2>0. j \in Nat /\ j + 1 \in Nat /\ j + 1 <= Len(node) - 1
    BY <1>0
  <2>1. 1 .. j + 1 \in SUBSET (1 .. Len(node) - 1) /\ 1 .. j + 1 # {} /\ j + 1 \in 1 .. j + 1 /\ j \in Nat
    <3>1. \A i \in 1 .. j + 1 : i \in 1 .. Len(node) - 1
      BY <1>0, <2>0
    <3>2. j + 1 \in 1 .. j + 1
      BY <2>0
    <3> QED BY <2>0, <3>1, <3>2
  <2>2. Top(1 .. j + 1) = j + 1
    BY <2>1, TopOff
  <2>3. (1 .. j + 1) \ {j + 1} = 1 .. j
    BY <2>1
  <2>4. it[1 .. j + 1] = Sorted(x, it[(1 .. j + 1) \ {j + 1}], j + 1)
    BY <1>2, <2>1, <2>2 DEF SortFrom
  <2> QED  BY <2>3, <2>4
<1>5. p[0] = Unsorted /\ SortAlong(x) = p[Len(node) - 1]
  BY <1>0, <1>1, <1>3
<1>6. ASSUME NEW j \in 0 .. Len(node) - 2
      PROVE  p[j + 1] = Sorted(x, p[j], j + 1)
  <2>1. j \in 0 .. Len(node) - 1 /\ j + 1 \in 0 .. Len(node) - 1
    BY <1>0
  <2>2. p[j] = it[1 .. j] /\ p[j + 1] = it[1 .. j + 1]
    BY <2>1
  <2> HIDE DEF p
  <2> QED BY <1>4, <2>2
<1> HIDE DEF p
<1> QED  BY <1>5, <1>6

\* A child with its box.
Kids == [box : IntBoxes, child : Nat]

\* The recursion that the union of children is, over the first k after the one at from.
UnionFrom(from, to, k, f) ==
  f = [s \in SUBSET (1 .. k) |->
         IF s = {} THEN node[from].box ELSE BoxUnion(f[s \ {Top(s)}], SubSeq(node, from + 1, to)[Top(s)].box)]

LEMMA UnionExists ==
  ASSUME NEW from, NEW to, NEW n \in Nat
  PROVE  \E f : UnionFrom(from, to, n, f)
<1> DEFINE T == {k \in Nat : \E f : UnionFrom(from, to, k, f)}
<1>1. 0 \in T
  <2> DEFINE g == [s \in SUBSET (1 .. 0) |-> node[from].box]
  <2>1. \A s \in SUBSET (1 .. 0) : s = {}
    OBVIOUS
  <2>2. UnionFrom(from, to, 0, g)
    BY <2>1 DEF UnionFrom
  <2> QED  BY <2>2
<1>2. ASSUME NEW k \in T PROVE k + 1 \in T
  <2>1. k \in Nat
    OBVIOUS
  <2>2. PICK f : UnionFrom(from, to, k, f)
    OBVIOUS
  <2> DEFINE g == [s \in SUBSET (1 .. k + 1) |->
                     IF s = {} THEN node[from].box ELSE BoxUnion(f[s \ {Top(s)}], SubSeq(node, from + 1, to)[Top(s)].box)]
  <2>3. \A s \in SUBSET (1 .. k) : s \in SUBSET (1 .. k + 1)
    BY <2>1
  <2>4. \A s \in SUBSET (1 .. k) : g[s] = f[s]
    BY <2>2, <2>3 DEF UnionFrom
  <2>5. \A s \in SUBSET (1 .. k + 1) : g[s \ {Top(s)}] = f[s \ {Top(s)}]
    BY <2>1, <2>4, TopOff
  <2>6. UnionFrom(from, to, k + 1, g)
    <3> HIDE DEF g
    <3>1. g = [s \in SUBSET (1 .. k + 1) |->
                 IF s = {} THEN node[from].box ELSE BoxUnion(f[s \ {Top(s)}], SubSeq(node, from + 1, to)[Top(s)].box)]
      BY DEF g
    <3>2. \A s \in SUBSET (1 .. k + 1) :
             (IF s = {} THEN node[from].box ELSE BoxUnion(g[s \ {Top(s)}], SubSeq(node, from + 1, to)[Top(s)].box)) = IF s = {} THEN node[from].box ELSE BoxUnion(f[s \ {Top(s)}], SubSeq(node, from + 1, to)[Top(s)].box)
      BY <2>5
    <3>3. g = [s \in SUBSET (1 .. k + 1) |-> IF s = {} THEN node[from].box ELSE BoxUnion(g[s \ {Top(s)}], SubSeq(node, from + 1, to)[Top(s)].box)]
      BY <3>1, <3>2
    <3> QED BY <3>3 DEF UnionFrom
  <2> QED  BY <2>1, <2>6
<1> HIDE DEF T
<1>3. T = Nat
  BY <1>1, <1>2, Induct DEF T
<1> QED  BY <1>3 DEF T

LEMMA UnionIs ==
  ASSUME NEW from, NEW to, node \in Seq(Kids), from \in 1 .. Len(node), to \in from .. Len(node)
  PROVE  \E p : /\ p[0] = node[from].box /\ UnionOf(from, to) = p[to - from]
               /\ \A j \in 0 .. to - from - 1 : p[j + 1] = BoxUnion(p[j], node[from + (j + 1)].box)
<1>0. to - from \in Nat
  OBVIOUS
<1> DEFINE it == CHOOSE f : UnionFrom(from, to, to - from, f)
           p  == [j \in 0 .. to - from |-> it[1 .. j]]
<1>1. UnionOf(from, to) = it[1 .. to - from]
  <2>1. DOMAIN SubSeq(node, from + 1, to) = 1 .. to - from
    BY <1>0
  <2> QED  BY <2>1 DEF UnionOf, FoldLeft, MapThenFoldSet, Max, UnionFrom, Top
<1>2. UnionFrom(from, to, to - from, it)
  BY <1>0, UnionExists
<1> HIDE DEF it
<1>3. it[1 .. 0] = node[from].box
  <2>1. 1 .. 0 = {} /\ {} \in SUBSET (1 .. to - from)
    OBVIOUS
  <2> QED BY <1>2, <2>1 DEF UnionFrom
<1>4. ASSUME NEW j \in 0 .. to - from - 1
      PROVE  it[1 .. j + 1] = BoxUnion(it[1 .. j], node[from + (j + 1)].box)
  <2>0. j \in Nat /\ j + 1 \in Nat /\ j + 1 <= to - from
    BY <1>0
  <2>1. 1 .. j + 1 \in SUBSET (1 .. to - from) /\ 1 .. j + 1 # {} /\ j + 1 \in 1 .. j + 1 /\ j \in Nat
    <3>1. \A i \in 1 .. j + 1 : i \in 1 .. to - from
      BY <1>0, <2>0
    <3>2. j + 1 \in 1 .. j + 1
      BY <2>0
    <3> QED BY <2>0, <3>1, <3>2
  <2>2. Top(1 .. j + 1) = j + 1
    BY <2>1, TopOff
  <2>3. (1 .. j + 1) \ {j + 1} = 1 .. j
    BY <2>1
  <2>4. it[1 .. j + 1] = BoxUnion(it[(1 .. j + 1) \ {j + 1}], SubSeq(node, from + 1, to)[j + 1].box)
    BY <1>2, <2>1, <2>2 DEF UnionFrom
  <2>5. SubSeq(node, from + 1, to)[j + 1] = node[from + (j + 1)]
    <3>1. \A i \in from + 1 .. to : node[i] \in Kids
      BY <1>0
    <3>2. j + 1 \in 1 .. to - (from + 1) + 1 /\ (from + 1) + (j + 1) - 1 = from + (j + 1)
          /\ from + 1 \in Int /\ to \in Int
      BY <1>0, <2>0
    <3> QED BY <3>1, <3>2, SubSeqProperties
  <2> QED  BY <2>3, <2>4, <2>5
<1>5. p[0] = node[from].box /\ UnionOf(from, to) = p[to - from]
  BY <1>0, <1>1, <1>3
<1>6. ASSUME NEW j \in 0 .. to - from - 1
      PROVE  p[j + 1] = BoxUnion(p[j], node[from + (j + 1)].box)
  <2>1. j \in 0 .. to - from /\ j + 1 \in 0 .. to - from
    BY <1>0
  <2>2. p[j] = it[1 .. j] /\ p[j + 1] = it[1 .. j + 1]
    BY <2>1
  <2> HIDE DEF p
  <2> QED BY <1>4, <2>2
<1> HIDE DEF p
<1> QED  BY <1>5, <1>6

\* A node to be split, with its children in order; and that the boxes of its first
\* m are the same on an axis.
IsNode == /\ node \in Seq(Kids) /\ Len(node) \in 2 * MinChildren .. MaxChildren
          /\ \A i \in 1 .. Len(node) : node[i].child = i
SameOn(x, m) == \A i \in 1 .. m : node[i].box[x] = node[1].box[x]

LEMMA NodeLen ==
  ASSUME IsNode
  PROVE  Len(node) \in Nat /\ Len(node) >= 2 /\ Len(node) >= 2 * MinChildren /\ DOMAIN node = 1 .. Len(node)
<1>1. MinChildren \in Nat /\ MinChildren >= 1 /\ MaxChildren \in Nat
  BY RTreeAssumption
<1>2. Len(node) \in 2 * MinChildren .. MaxChildren /\ node \in Seq(Kids)
  BY DEF IsNode
<1> QED BY <1>1, <1>2, LenProperties

LEMMA UnsortedIs ==
  ASSUME IsNode
  PROVE  /\ Unsorted # Undefined /\ Len(Unsorted) = Len(node)
         /\ \A i \in 1 .. Len(node) : Unsorted[i] = i
<1>1. Len(node) \in Nat /\ Len(node) >= 2
  BY NodeLen
<1>2. Unsorted \in Seq(Nat) /\ Len(Unsorted) = Len(node)
  <2>1. Unsorted \in [1 .. Len(node) -> Nat]
    BY <1>1 DEF Unsorted
  <2>2. Unsorted \in Seq(Nat)
    BY <1>1, <2>1, SeqDef
  <2> QED BY <1>1, <2>1, <2>2, LenProperties
<1>3. Len(Undefined) = 0
  BY DEF Undefined
<1> QED BY <1>1, <1>2, <1>3 DEF Unsorted

\* An element like all before it stays, one that is not like them sinks to the end.
LEMMA SinkOutcome ==
  ASSUME IsNode, NEW x, NEW j \in 2 .. Len(node), SameOn(x, j - 1)
  PROVE  Sink(x, Unsorted, j) = IF node[j].box[x] = node[1].box[x] THEN Unsorted ELSE Undefined
<1>1. Len(node) \in Nat /\ j \in Nat /\ j >= 2 /\ j <= Len(node)
  BY NodeLen
<1>2. Unsorted # Undefined /\ Len(Unsorted) = Len(node) /\ \A i \in 1 .. Len(node) : Unsorted[i] = i
  BY UnsortedIs
<1> DEFINE alike == {i \in 1 .. j - 1 : node[Unsorted[i]].box[x] = node[Unsorted[j]].box[x]}
<1>3. \A i \in 1 .. j - 1 : node[Unsorted[i]].box[x] = node[1].box[x]
  <2> TAKE i \in 1 .. j - 1
  <2>1. Unsorted[i] = i
    BY <1>1, <1>2
  <2> QED BY <2>1 DEF SameOn
<1>4. Unsorted[j] = j
  BY <1>1, <1>2
<1>5. CASE node[j].box[x] = node[1].box[x]
  <2>1. alike = 1 .. j - 1
    BY <1>3, <1>4, <1>5
  <2>2. IsFiniteSet(1 .. j - 1) /\ 1 .. j - 1 # {} /\ j - 1 \in 1 .. j - 1
    <3>1. 1 \in Int /\ j - 1 \in Int
      BY <1>1
    <3>2. IsFiniteSet(1 .. j - 1)
      BY <3>1, FS_Interval
    <3>3. j - 1 \in 1 .. j - 1
      BY <1>1
    <3> QED BY <3>2, <3>3
  <2>3. Max(1 .. j - 1) \in 1 .. j - 1 /\ Max(1 .. j - 1) >= j - 1
    BY <1>1, <2>2, Extremes
  <2>4. Max(alike) + 1 = j
    <3>1. Max(1 .. j - 1) = j - 1
      <4> DEFINE top == Max(1 .. j - 1)
      <4>1. top \in 1 .. j - 1 /\ top >= j - 1
        BY <2>3
      <4> HIDE DEF top
      <4>2. top = j - 1
        BY <1>1, <4>1
      <4> QED BY <4>2 DEF top
    <3> HIDE DEF alike
    <3> QED BY <1>1, <2>1, <3>1
  <2>5. alike # {}
    BY <2>1, <2>2
  <2> HIDE DEF alike
  <2>6. Sink(x, Unsorted, j) =
          [i \in 1 .. Len(Unsorted) |-> IF i = j THEN Unsorted[j]
                                       ELSE IF i \in j + 1 .. j THEN Unsorted[i - 1]
                                       ELSE Unsorted[i]]
    BY <2>4, <2>5 DEF Sink, alike
  <2>7. j + 1 .. j = {}
    BY <1>1
  <2>8. \A i \in 1 .. Len(node) : (IF i = j THEN Unsorted[j]
                                   ELSE IF i \in j + 1 .. j THEN Unsorted[i - 1]
                                   ELSE Unsorted[i]) = i
    BY <1>2, <1>4, <2>7
  <2> QED BY <1>2, <1>5, <2>6, <2>8 DEF Unsorted
<1>6. CASE node[j].box[x] # node[1].box[x]
  <2>1. alike = {}
    BY <1>3, <1>4, <1>6
  <2> QED BY <1>6, <2>1 DEF Sink
<1> QED BY <1>5, <1>6

\* The sort leaves the order as it is if all boxes are the same on the axis, and
\* is not defined if two differ.
LEMMA SortOutcome ==
  ASSUME IsNode, NEW x
  PROVE  SortAlong(x) = IF SameOn(x, Len(node)) THEN Unsorted ELSE Undefined
<1>0. Len(node) \in Nat \ {0} /\ Len(node) - 1 \in Nat
  BY NodeLen
<1>1. PICK p : /\ p[0] = Unsorted /\ SortAlong(x) = p[Len(node) - 1]
               /\ \A j \in 0 .. Len(node) - 2 : p[j + 1] = Sorted(x, p[j], j + 1)
  BY <1>0, SortIs
<1> DEFINE P(j) == p[j] = IF SameOn(x, j + 1) THEN Unsorted ELSE Undefined
           T == {j \in Nat : j <= Len(node) - 1 => P(j)}
<1>2. 0 \in T
  <2>1. SameOn(x, 0 + 1)
    BY DEF SameOn
  <2> QED BY <1>1, <2>1
<1>3. ASSUME NEW j \in T PROVE j + 1 \in T
  <2> SUFFICES ASSUME j + 1 <= Len(node) - 1 PROVE P(j + 1)
    OBVIOUS
  <2>1. j \in Nat /\ j \in 0 .. Len(node) - 2 /\ P(j)
    BY <1>0
  <2>2. p[j + 1] = Sorted(x, p[j], j + 1)
    BY <1>1, <2>1
  <2>3. j + 2 \in 2 .. Len(node) /\ (j + 2) - 1 = j + 1 /\ (j + 1) + 1 = j + 2
    BY <1>0, <2>1
  <2>4. [i \in 1 .. Len(node) - 1 |-> i + 1][j + 1] = j + 2
    BY <1>0, <2>1
  <2>5. SameOn(x, j + 2) <=> SameOn(x, j + 1) /\ node[j + 2].box[x] = node[1].box[x]
    <3>1. 1 .. j + 2 = (1 .. j + 1) \cup {j + 2}
      BY <2>1
    <3> QED BY <3>1 DEF SameOn
  <2>6. CASE SameOn(x, j + 1)
    <3>1. p[j] = Unsorted
      BY <2>1, <2>6
    <3>2. p[j + 1] = Sink(x, Unsorted, j + 2)
      BY <2>2, <2>4, <3>1, UnsortedIs DEF Sorted
    <3>3. SameOn(x, (j + 2) - 1)
      BY <2>3, <2>6
    <3>4. p[j + 1] = IF node[j + 2].box[x] = node[1].box[x] THEN Unsorted ELSE Undefined
      BY <2>3, <3>2, <3>3, SinkOutcome
    <3> QED BY <2>3, <2>5, <2>6, <3>4
  <2>7. CASE ~SameOn(x, j + 1)
    <3>1. p[j] = Undefined
      BY <2>1, <2>7
    <3>2. p[j + 1] = Undefined
      BY <2>2, <3>1 DEF Sorted
    <3> QED BY <2>3, <2>5, <2>7, <3>2
  <2> QED BY <2>6, <2>7
<1>4. T = Nat
  <2> HIDE DEF P
  <2> QED BY <1>2, <1>3, Induct
<1>5. P(Len(node) - 1)
  <2> HIDE DEF P
  <2> QED BY <1>0, <1>4
<1>6. (Len(node) - 1) + 1 = Len(node)
  BY <1>0
<1> QED BY <1>1, <1>5, <1>6

LEMMA UnionOfType ==
  ASSUME node \in Seq(Kids), NEW from \in 1 .. Len(node), NEW to \in from .. Len(node)
  PROVE  UnionOf(from, to) \in IntBoxes
<1>0. Len(node) \in Nat /\ to - from \in Nat /\ from \in Nat /\ to \in Nat
      /\ \A i \in 1 .. Len(node) : node[i].box \in IntBoxes
  <2>1. Len(node) \in Nat
    BY LenProperties
  <2>2. \A i \in 1 .. Len(node) : node[i] \in Kids
    BY ElementOfSeq
  <2> QED BY <2>1, <2>2 DEF Kids
<1>1. PICK p : /\ p[0] = node[from].box /\ UnionOf(from, to) = p[to - from]
               /\ \A j \in 0 .. to - from - 1 : p[j + 1] = BoxUnion(p[j], node[from + (j + 1)].box)
  BY UnionIs
<1> DEFINE T == {j \in Nat : j <= to - from => p[j] \in IntBoxes}
<1>2. 0 \in T
  BY <1>0, <1>1
<1>3. ASSUME NEW j \in T PROVE j + 1 \in T
  <2> SUFFICES ASSUME j + 1 <= to - from PROVE p[j + 1] \in IntBoxes
    OBVIOUS
  <2>1. j \in 0 .. to - from - 1 /\ p[j] \in IntBoxes /\ from + (j + 1) \in 1 .. Len(node)
    BY <1>0
  <2>2. p[j + 1] = BoxUnion(p[j], node[from + (j + 1)].box)
    BY <1>1, <2>1
  <2> QED BY <1>0, <2>1, <2>2, UnionSides
<1>4. T = Nat
  BY <1>2, <1>3, Induct
<1> QED BY <1>0, <1>1, <1>4

\* The cost of a split is a number, so that there is a least one.
LEMMA SplitCostType ==
  ASSUME IsNode, NEW d \in 1 .. Len(node)
  PROVE  SplitCost(d) \in Int
<1>0. Len(node) \in Nat /\ node \in Seq(Kids) /\ d \in Nat /\ d # 0
  BY NodeLen DEF IsNode
<1>1. \A b \in IntBoxes : BoxMargin(b) \in Nat
  <2> TAKE b \in IntBoxes
  <2>1. \A x \in Axes : Extent(b)[x] <= Extent(b)[x]
    BY Sides
  <2> QED BY <2>1, MarginGrows
<1>2. BoxMargin(UnionOf(1, d)) \in Nat
  <2>1. 1 \in 1 .. Len(node) /\ d \in 1 .. Len(node)
    BY <1>0
  <2>2. UnionOf(1, d) \in IntBoxes
    BY <1>0, <2>1, UnionOfType
  <2> QED BY <1>1, <2>2
<1>3. ~(d >= Len(node) - 1) => BoxMargin(UnionOf(d + 2, Len(node))) \in Nat
  <2> SUFFICES ASSUME ~(d >= Len(node) - 1) PROVE BoxMargin(UnionOf(d + 2, Len(node))) \in Nat
    OBVIOUS
  <2>1. d + 2 \in 1 .. Len(node) /\ Len(node) \in d + 2 .. Len(node)
    BY <1>0
  <2>2. UnionOf(d + 2, Len(node)) \in IntBoxes
    BY <1>0, <2>1, UnionOfType
  <2> QED BY <1>1, <2>2
<1> QED BY <1>0, <1>2, <1>3 DEF SplitCost

-----------------------------------------------------------------------------
(* The invariant                                                           *)

\* What WayIsTight says of the k-th step of a way.
TightAt(n, k) ==
  \A i \in 1 .. Fanout :
    LET chosen  == BoxUnion(BoxOf(SubSeq(n, 1, k)), newBox)
        sibling == BoxUnion(BoxOf(Append(SubSeq(n, 1, k - 1), i)), newBox)
    IN  Within(sibling, chosen) /\ sibling # chosen => Flat(sibling) /\ Flat(chosen)

\* The way so far goes to a node of the tree, with every step tight.
OnTheWay ==
  pc \in {"choose", "leaf"} =>
    /\ height \in Nat /\ newBox \in Boxes
    /\ pc = "leaf" => height > 0 /\ Len(at) = height - 1
    /\ height > 0 =>
         /\ cover \in [Way(height - 1) -> Boxes]
         /\ \E m \in 0 .. height - 1 : at \in Way(m)
         /\ \A k \in 1 .. Len(at) : TightAt(at, k)

\* While the node is divided, it has its children as they were, and where the
\* sort was defined all of one box.
InTheSplit ==
  /\ pc \in {"axis", "undefined", "index", "distribute"} => IsNode /\ other = <<>>
  /\ pc \in {"index", "distribute"} =>
       axis \in Axes /\ \A i, j \in 1 .. Len(node) : node[i].box = node[j].box
  /\ pc = "distribute" => index \in MinChildren .. Len(node) - MinChildren
  /\ pc \in {"choose", "leaf"} => node = <<>> /\ other = <<>>

TreeInv ==
  /\ pc \in {"choose", "leaf", "null", "axis", "undefined", "index", "distribute", "split"}
  /\ OnTheWay /\ InTheSplit /\ SplitKeepsChildren

\* The first of those with the least cost, as both halves choose it.
LEMMA LeastOf ==
  ASSUME NEW D \in SUBSET Nat, IsFiniteSet(D), D # {}, NEW F \in [D -> Int]
  PROVE  LET least == Min({F[d] : d \in D})
             best  == Min({d \in D : F[d] = least})
         IN  best \in D /\ \A d \in D : F[best] <= F[d]
<1> DEFINE S == {F[d] : d \in D}
           least == Min(S)
           bests == {d \in D : F[d] = least}
<1>1. IsFiniteSet(S) /\ S # {} /\ S \in SUBSET Int
  <2>1. F \in Surjection(D, S)
    BY DEF Surjection
  <2>2. IsFiniteSet(S)
    BY <2>1, FS_Surjection
  <2> QED BY <2>2
<1>2. least \in S /\ \A y \in S : least <= y
  BY <1>1, Extremes
<1>3. bests # {} /\ bests \in SUBSET D
  BY <1>2
<1>4. IsFiniteSet(bests) /\ bests \in SUBSET Int
  <2>1. \A s \in SUBSET D : IsFiniteSet(s)
    BY FS_Subset
  <2>2. D \in SUBSET Int
    OBVIOUS
  <2> HIDE DEF bests
  <2> QED BY <1>3, <2>1, <2>2
<1>5. Min(bests) \in bests
  BY <1>3, <1>4, Extremes
<1> HIDE DEF least
<1> QED BY <1>2, <1>5 DEF least

\* Two parts of a node together have its children.
LEMMA Rejoined ==
  ASSUME NEW c \in Seq(Kids), NEW k \in 0 .. Len(c), \A i \in 1 .. Len(c) : c[i].child = i
  PROVE  LET n == SubSeq(c, 1, k)  o == SubSeq(c, k + 1, Len(c))
             all == Children(n) \o Children(o)
         IN  /\ Range(all) = 1 .. Len(all) /\ Len(n) = k /\ Len(o) = Len(c) - k
             /\ \A i \in 1 .. k : n[i] = c[i]
<1> DEFINE n == SubSeq(c, 1, k)
           o == SubSeq(c, k + 1, Len(c))
           all == Children(n) \o Children(o)
<1>1. Len(c) \in Nat /\ k \in Nat /\ k <= Len(c) /\ \A i \in 1 .. Len(c) : c[i] \in Kids
  BY LenProperties, ElementOfSeq
<1>2. /\ n \in Seq(Kids) /\ Len(n) = k /\ \A i \in 1 .. k : n[i] = c[i]
  <2>1. \A i \in 1 .. k : c[i] \in Kids
    BY <1>1
  <2>2. /\ n \in Seq(Kids) /\ Len(n) = IF 1 <= k THEN k - 1 + 1 ELSE 0
        /\ \A i \in 1 .. k - 1 + 1 : n[i] = c[1 + i - 1]
    BY <1>1, <2>1, SubSeqProperties
  <2> HIDE DEF n
  <2>3. Len(n) = k /\ k - 1 + 1 = k
    BY <1>1, <2>2
  <2>4. ASSUME NEW i \in 1 .. k PROVE n[i] = c[i]
    <3>1. i \in 1 .. k - 1 + 1 /\ 1 + i - 1 = i
      BY <1>1
    <3> QED BY <2>2, <3>1
  <2> QED BY <2>2, <2>3, <2>4
<1>3. /\ o \in Seq(Kids) /\ Len(o) = Len(c) - k /\ \A i \in 1 .. Len(c) - k : o[i] = c[k + i]
  <2>1. \A i \in k + 1 .. Len(c) : c[i] \in Kids
    BY <1>1
  <2>2. /\ o \in Seq(Kids) /\ Len(o) = IF k + 1 <= Len(c) THEN Len(c) - (k + 1) + 1 ELSE 0
        /\ \A i \in 1 .. Len(c) - (k + 1) + 1 : o[i] = c[(k + 1) + i - 1]
    <3>1. k + 1 \in Int /\ Len(c) \in Int
      BY <1>1
    <3> QED BY <2>1, <3>1, SubSeqProperties
  <2> HIDE DEF o
  <2>3. Len(o) = Len(c) - k
    BY <1>1, <2>2
  <2>4. ASSUME NEW i \in 1 .. Len(c) - k PROVE o[i] = c[k + i]
    <3>1. i \in 1 .. Len(c) - (k + 1) + 1 /\ (k + 1) + i - 1 = k + i
      BY <1>1
    <3> QED BY <2>2, <3>1
  <2> QED BY <2>2, <2>3, <2>4
<1> HIDE DEF n, o
<1>4. /\ Children(n) \in [1 .. k -> Nat] /\ \A i \in 1 .. k : Children(n)[i] = i
  <2>1. Children(n) = [i \in 1 .. k |-> n[i].child]
    BY <1>2 DEF Children
  <2>2. \A i \in 1 .. k : n[i].child = i /\ i \in Nat
    BY <1>1, <1>2
  <2> QED BY <2>1, <2>2
<1>5. /\ Children(o) \in [1 .. Len(c) - k -> Nat]
      /\ \A i \in 1 .. Len(c) - k : Children(o)[i] = k + i
  <2>1. Children(o) = [i \in 1 .. Len(c) - k |-> o[i].child]
    BY <1>3 DEF Children
  <2>2. ASSUME NEW i \in 1 .. Len(c) - k PROVE o[i].child = k + i /\ k + i \in Nat
    <3>1. k + i \in 1 .. Len(c) /\ k + i \in Nat
      BY <1>1
    <3> QED BY <1>3, <3>1
  <2> QED BY <2>1, <2>2
<1>6. /\ Children(n) \in Seq(Nat) /\ Len(Children(n)) = k
      /\ Children(o) \in Seq(Nat) /\ Len(Children(o)) = Len(c) - k
  <2>1. k \in Nat /\ Len(c) - k \in Nat
    BY <1>1
  <2>2. \A m \in Nat : \A f \in [1 .. m -> Nat] : f \in Seq(Nat)
    BY SeqDef
  <2>3. Children(n) \in Seq(Nat) /\ Children(o) \in Seq(Nat)
    BY <1>4, <1>5, <2>1, <2>2
  <2> QED BY <1>4, <1>5, <2>1, <2>3, LenProperties
<1>7. /\ all \in Seq(Nat) /\ Len(all) = Len(c)
      /\ \A i \in 1 .. Len(c) : all[i] = i
  <2> DEFINE f == Children(n)
             g == Children(o)
  <2> HIDE DEF f, g
  <2>1. f \o g \in Seq(Nat) /\ Len(f \o g) = Len(f) + Len(g)
        /\ \A i \in 1 .. Len(f) + Len(g) : (f \o g)[i] = IF i <= Len(f) THEN f[i] ELSE g[i - Len(f)]
    BY <1>6, ConcatProperties DEF f, g
  <2>2. Len(f) = k /\ Len(g) = Len(c) - k /\ k + (Len(c) - k) = Len(c)
    BY <1>1, <1>6 DEF f, g
  <2>3. ASSUME NEW i \in 1 .. Len(c) PROVE (f \o g)[i] = i
    <3>1. CASE i <= k
      <4>1. i \in 1 .. k
        BY <3>1
      <4> QED BY <1>4, <2>1, <2>2, <4>1 DEF f
    <3>2. CASE ~(i <= k)
      <4>1. i - k \in 1 .. Len(c) - k /\ k + (i - k) = i
        BY <1>1, <3>2
      <4>2. g[i - k] = i
        BY <1>5, <4>1 DEF g
      <4> QED BY <2>1, <2>2, <3>2, <4>2
    <3> QED BY <3>1, <3>2
  <2> QED BY <2>1, <2>2, <2>3 DEF f, g
<1> HIDE DEF all
<1>8. DOMAIN all = 1 .. Len(c)
  BY <1>7, LenProperties
<1>9. Range(all) = 1 .. Len(all)
  BY <1>7, <1>8 DEF Range
<1> QED BY <1>2, <1>3, <1>9 DEF all, n, o

LEMMA InitInv == Init => TreeInv
<1> SUFFICES ASSUME Init PROVE TreeInv
  OBVIOUS
<1>1. CASE pc = "choose"
  <2>1. /\ height \in 0 .. MaxHeight /\ newBox \in Boxes /\ node = <<>> /\ other = <<>> /\ at = <<>>
        /\ cover \in IF height = 0 THEN {<<>>} ELSE [[1 .. height - 1 -> 1 .. Fanout] -> Boxes]
    BY <1>1 DEF Init
  <2>2. height \in Nat
    BY <2>1, RTreeAssumption
  <2>3. height > 0 => cover \in [Way(height - 1) -> Boxes]
    BY <2>1, <2>2 DEF Way
  <2>4. <<>> \in Way(0) /\ Len(<<>>) = 0
    BY DEF Way
  <2>5. height > 0 => 0 \in 0 .. height - 1
    BY <2>2
  <2>6. OnTheWay
    BY <1>1, <2>1, <2>2, <2>3, <2>4, <2>5 DEF OnTheWay
  <2> QED BY <1>1, <2>1, <2>6 DEF TreeInv, InTheSplit, SplitKeepsChildren
<1>2. CASE pc = "axis"
  <2>1. PICK n \in 2 * MinChildren .. MaxChildren : \E bs \in [1 .. n -> Boxes] :
          node = [i \in 1 .. n |-> [box |-> bs[i], child |-> i]]
    BY <1>2 DEF Init
  <2>2. PICK bs \in [1 .. n -> Boxes] : node = [i \in 1 .. n |-> [box |-> bs[i], child |-> i]]
    BY <2>1
  <2>3. n \in Nat
    BY RTreeAssumption
  <2>4. \A i \in 1 .. n : [box |-> bs[i], child |-> i] \in Kids
    <3> TAKE i \in 1 .. n
    <3>1. bs[i] \in IntBoxes /\ i \in Nat
      BY <2>3, BoxesAreInt
    <3> QED BY <3>1 DEF Kids
  <2>5. node \in [1 .. n -> Kids] /\ \A i \in 1 .. n : node[i].child = i
    BY <2>2, <2>4
  <2>6. node \in Seq(Kids)
    BY <2>3, <2>5, SeqDef
  <2>7. Len(node) = n
    BY <2>3, <2>5, <2>6, LenProperties
  <2>8. IsNode
    BY <2>5, <2>6, <2>7 DEF IsNode
  <2>9. other = <<>>
    BY DEF Init
  <2> QED BY <1>2, <2>8, <2>9 DEF TreeInv, OnTheWay, InTheSplit, SplitKeepsChildren
<1> QED BY <1>1, <1>2 DEF Init

\* The way down.
LEMMA DescendInv == TreeInv /\ Descend => TreeInv'
<1> SUFFICES ASSUME TreeInv, Descend PROVE TreeInv'
  OBVIOUS
<1> DEFINE C == [i \in 1 .. Fanout |-> Cost(at, i)]
           least == Min({Cost(at, i) : i \in 1 .. Fanout})
           best  == Min({i \in 1 .. Fanout : Cost(at, i) = least})
<1>1. /\ pc = "choose" /\ height > 0 /\ ~IsLeaf(at) /\ at' = Append(at, best)
      /\ UNCHANGED <<height, cover, newBox, node, other, axis, index, pc>>
  BY DEF Descend, tree
<1>2. /\ height \in Nat /\ newBox \in Boxes /\ node = <<>> /\ other = <<>>
      /\ cover \in [Way(height - 1) -> Boxes]
      /\ \A k \in 1 .. Len(at) : TightAt(at, k)
  BY <1>1 DEF TreeInv, OnTheWay, InTheSplit
<1>3. PICK m \in 0 .. height - 1 : at \in Way(m)
  BY <1>1 DEF TreeInv, OnTheWay
<1>4. m \in Nat /\ Len(at) = m /\ m + 1 \in 0 .. height - 1
  <2>1. m \in Nat /\ Len(at) = m
    BY <1>3, WayLen
  <2> QED BY <1>1, <1>2, <2>1 DEF IsLeaf, Level
<1>5. \A i \in 1 .. Fanout :
        LET u == BoxUnion(BoxOf(Append(at, i)), newBox)
        IN  u \in IntBoxes /\ Cost(at, i) = BoxArea(u) /\ Cost(at, i) \in Int
  <2> TAKE i \in 1 .. Fanout
  <2> DEFINE u == BoxUnion(BoxOf(Append(at, i)), newBox)
  <2>1. Append(at, i) \in Way(m + 1)
    BY <1>3, <1>4, WayGrows
  <2>2. BoxOf(Append(at, i)) \in IntBoxes
    BY <1>1, <1>2, <1>4, <2>1, BoxOfType
  <2>3. u \in IntBoxes
    BY <1>2, <2>2, BoxesAreInt, UnionSides
  <2>4. Cost(at, i) = BoxArea(u)
    BY DEF Cost
  <2> HIDE DEF u
  <2>5. BoxArea(u) \in Nat
    BY <2>3, AreaOfFlat
  <2> QED BY <2>3, <2>4, <2>5 DEF u
<1>6. best \in 1 .. Fanout /\ \A i \in 1 .. Fanout : Cost(at, best) <= Cost(at, i)
  <2>1. C \in [1 .. Fanout -> Int]
    BY <1>5
  <2>2. Fanout \in Nat /\ 1 .. Fanout # {} /\ 1 .. Fanout \in SUBSET Nat /\ IsFiniteSet(1 .. Fanout)
    <3>1. Fanout \in Nat /\ 1 \in 1 .. Fanout /\ 1 \in Int /\ Fanout \in Int
      BY RTreeAssumption
    <3>2. IsFiniteSet(1 .. Fanout)
      BY <3>1, FS_Interval
    <3>3. 1 .. Fanout # {} /\ 1 .. Fanout \in SUBSET Nat
      BY <3>1
    <3> QED BY <3>1, <3>2, <3>3
  <2>3. \A i \in 1 .. Fanout : C[i] = Cost(at, i)
    OBVIOUS
  <2> HIDE DEF C
  <2>4. LET l == Min({C[i] : i \in 1 .. Fanout})
            b == Min({i \in 1 .. Fanout : C[i] = l})
        IN  b \in 1 .. Fanout /\ \A i \in 1 .. Fanout : C[b] <= C[i]
    BY <2>1, <2>2, LeastOf
  <2>5. {C[i] : i \in 1 .. Fanout} = {Cost(at, i) : i \in 1 .. Fanout}
    BY <2>3
  <2>6. \A l : {i \in 1 .. Fanout : C[i] = l} = {i \in 1 .. Fanout : Cost(at, i) = l}
    BY <2>3
  <2>7. best \in 1 .. Fanout /\ \A i \in 1 .. Fanout : C[best] <= C[i]
    <3>1. Min({C[i] : i \in 1 .. Fanout}) = least
      BY <2>5
    <3>2. {i \in 1 .. Fanout : C[i] = Min({C[j] : j \in 1 .. Fanout})}
            = {i \in 1 .. Fanout : C[i] = least}
      BY <3>1, Zenon
    <3>3. {i \in 1 .. Fanout : C[i] = least} = {i \in 1 .. Fanout : Cost(at, i) = least}
      BY <2>6, Zenon
    <3>4. Min({i \in 1 .. Fanout : C[i] = Min({C[j] : j \in 1 .. Fanout})}) = best
      BY <3>2, <3>3, Zenon
    <3> QED BY <2>4, <3>4
  <2> HIDE DEF best
  <2> QED BY <2>3, <2>7
<1> HIDE DEF best, C
<1>7. /\ at' \in Way(m + 1) /\ Len(at') = m + 1
      /\ SubSeq(at', 1, m + 1) = at' /\ SubSeq(at', 1, m) = at
      /\ \A k \in 0 .. m : SubSeq(at', 1, k) = SubSeq(at, 1, k)
  <2>1. /\ at' \in Way(m + 1) /\ SubSeq(at', 1, m + 1) = at' /\ SubSeq(at, 1, m) = at
        /\ \A k \in 0 .. m : SubSeq(at', 1, k) = SubSeq(at, 1, k)
    <3>1. /\ Append(at, best) \in Way(m + 1)
          /\ SubSeq(Append(at, best), 1, m + 1) = Append(at, best)
          /\ \A k \in 0 .. m : SubSeq(Append(at, best), 1, k) = SubSeq(at, 1, k) /\ SubSeq(at, 1, k) \in Way(k)
          /\ SubSeq(at, 1, m) = at
      <4>1. m \in Nat /\ best \in 1 .. Fanout /\ at \in Way(m)
        BY <1>3, <1>4, <1>6
      <4> QED BY <4>1, WayGrows, Zenon
    <3> QED BY <1>1, <3>1
  <2>2. Len(at') = m + 1
    BY <1>4, <2>1, WayLen
  <2>3. m \in 0 .. m
    BY <1>4
  <2> QED BY <2>1, <2>2, <2>3
<1>8. ASSUME NEW k \in 1 .. m + 1 PROVE TightAt(at', k)
  <2>1. CASE k \in 1 .. m
    <3>1. k \in 0 .. m /\ k - 1 \in 0 .. m
      BY <1>4, <2>1
    <3>2. SubSeq(at', 1, k) = SubSeq(at, 1, k) /\ SubSeq(at', 1, k - 1) = SubSeq(at, 1, k - 1)
      BY <1>7, <3>1
    <3>3. TightAt(at, k)
      BY <1>2, <1>4, <2>1
    <3> QED BY <3>2, <3>3 DEF TightAt
  <2>2. CASE k = m + 1
    <3>1. SubSeq(at', 1, k) = Append(at, best) /\ SubSeq(at', 1, k - 1) = at
      <4>1. k - 1 = m
        BY <1>4, <2>2
      <4> QED BY <1>1, <1>7, <2>2, <4>1
    <3> SUFFICES ASSUME NEW i \in 1 .. Fanout,
                        Within(BoxUnion(BoxOf(Append(at, i)), newBox), BoxUnion(BoxOf(Append(at, best)), newBox)),
                        BoxUnion(BoxOf(Append(at, i)), newBox) # BoxUnion(BoxOf(Append(at, best)), newBox)
                 PROVE  /\ Flat(BoxUnion(BoxOf(Append(at, i)), newBox))
                        /\ Flat(BoxUnion(BoxOf(Append(at, best)), newBox))
      BY <3>1 DEF TightAt
    <3> DEFINE s == BoxUnion(BoxOf(Append(at, i)), newBox)
               c == BoxUnion(BoxOf(Append(at, best)), newBox)
    <3>2. /\ s \in IntBoxes /\ c \in IntBoxes /\ Within(s, c) /\ s # c
          /\ BoxArea(c) <= BoxArea(s)
      BY <1>5, <1>6
    <3> HIDE DEF s, c
    <3>3. BoxArea(s) \in Nat /\ BoxArea(c) \in Nat /\ (BoxArea(s) = 0 <=> Flat(s))
          /\ (BoxArea(c) = 0 <=> Flat(c))
      BY <3>2, AreaOfFlat
    <3>4. BoxArea(s) <= BoxArea(c) /\ (~Flat(c) => BoxArea(s) < BoxArea(c))
      BY <3>2, AreaGrows
    <3>5. Flat(c)
      BY <3>2, <3>3, <3>4
    <3>6. Flat(s)
      BY <3>3, <3>4, <3>5
    <3> QED BY <3>5, <3>6 DEF s, c
  <2>3. k \in 1 .. m \/ k = m + 1
    BY <1>4
  <2> QED BY <2>1, <2>2, <2>3
<1>9. \A k \in 1 .. Len(at') : TightAt(at, k)'
  <2>1. \A n : BoxOf(n)' = BoxOf(n)
    BY <1>1 DEF BoxOf
  <2> TAKE k \in 1 .. Len(at')
  <2>2. TightAt(at', k)
    BY <1>7, <1>8
  <2> QED BY <1>1, <2>1, <2>2 DEF TightAt
<1>10. OnTheWay'
  BY <1>1, <1>2, <1>4, <1>7, <1>9 DEF OnTheWay
<1>11. InTheSplit' /\ SplitKeepsChildren'
  BY <1>1, <1>2 DEF InTheSplit, SplitKeepsChildren
<1> QED BY <1>1, <1>10, <1>11 DEF TreeInv

\* Once the sort is defined, all boxes are the same, and it changes nothing.
LEMMA ChooseSplitAxisInv == TreeInv /\ ChooseSplitAxis => TreeInv'
<1> SUFFICES ASSUME TreeInv, ChooseSplitAxis PROVE TreeInv'
  OBVIOUS
<1>1. /\ pc = "axis" /\ UNCHANGED <<height, cover, newBox, at, node, other, index>>
      /\ IF \E x \in Axes : SortAlong(x) = Undefined
         THEN pc' = "undefined" /\ axis' = axis ELSE pc' = "index" /\ axis' = 1
  BY DEF ChooseSplitAxis, tree
<1>2. IsNode /\ other = <<>>
  BY <1>1 DEF TreeInv, InTheSplit
<1>3. Len(node) \in Nat /\ Len(node) >= 2 /\ Unsorted # Undefined
  BY <1>2, NodeLen, UnsortedIs
<1>4. node \in Seq(Kids) /\ (\A i \in 1 .. Len(node) : node[i].box \in IntBoxes /\ node[i].child = i)
  <2>1. node \in Seq(Kids)
    BY <1>2 DEF IsNode
  <2>2. \A i \in 1 .. Len(node) : node[i] \in Kids
    BY <2>1, ElementOfSeq
  <2> QED BY <1>2, <2>1, <2>2 DEF IsNode, Kids
<1>5. IsNode'
  BY <1>1, <1>2 DEF IsNode
<1>6. CASE \E x \in Axes : SortAlong(x) = Undefined
  <2>1. PICK x \in Axes : SortAlong(x) = Undefined
    BY <1>6
  <2>2. ~SameOn(x, Len(node))
    BY <1>2, <1>3, <2>1, SortOutcome
  <2>3. PICK i \in 1 .. Len(node) : node[i].box[x] # node[1].box[x]
    BY <2>2 DEF SameOn
  <2>4. node[i].box # node[1].box /\ 1 \in 1 .. Len(node)
    BY <1>3, <2>3
  <2>5. pc' = "undefined" /\ node' = node /\ other' = other
    BY <1>1, <1>6
  <2>6. SplitKeepsChildren'
    BY <2>4, <2>5 DEF SplitKeepsChildren
  <2> QED BY <1>2, <1>5, <2>5, <2>6 DEF TreeInv, OnTheWay, InTheSplit
<1>7. CASE ~\E x \in Axes : SortAlong(x) = Undefined
  <2>1. pc' = "index" /\ axis' = 1 /\ node' = node /\ other' = other
    BY <1>1, <1>7
  <2>2. ASSUME NEW i \in 1 .. Len(node), NEW j \in 1 .. Len(node) PROVE node[i].box = node[j].box
    <3>1. ASSUME NEW x \in Axes PROVE node[i].box[x] = node[j].box[x]
      <4>1. SameOn(x, Len(node))
        BY <1>2, <1>7, SortOutcome
      <4> QED BY <4>1 DEF SameOn
    <3>2. node[i].box \in IntBoxes /\ node[j].box \in IntBoxes
      BY <1>4
    <3> QED BY <3>1, <3>2 DEF IntBoxes
  <2>3. 1 \in Axes
    BY RTreeAssumption DEF Axes
  <2>4. SplitKeepsChildren'
    <3>1. Len(node) \in 0 .. Len(node)
      BY <1>3
    <3>2. SubSeq(node, 1, Len(node)) = node /\ SubSeq(node, Len(node) + 1, Len(node)) = <<>>
      BY <1>3, <1>4, <3>1
    <3>3. LET all == Children(node) \o Children(<<>>) IN Range(all) = 1 .. Len(all)
      BY <1>4, <3>1, <3>2, Rejoined
    <3> QED BY <1>2, <2>1, <2>2, <3>3 DEF SplitKeepsChildren, Children
  <2> QED BY <1>2, <1>5, <2>1, <2>2, <2>3, <2>4 DEF TreeInv, OnTheWay, InTheSplit
<1> QED BY <1>6, <1>7

\* Both nodes keep enough children.
LEMMA ChooseSplitIndexInv == TreeInv /\ ChooseSplitIndex => TreeInv'
<1> SUFFICES ASSUME TreeInv, ChooseSplitIndex PROVE TreeInv'
  OBVIOUS
<1> DEFINE D == {MinChildren} \cup MinChildren + 1 .. Len(node) - MinChildren - 1
           C == [d \in D |-> SplitCost(d)]
           least == Min({SplitCost(d) : d \in D})
           best  == Min({d \in D : SplitCost(d) = least})
<1>1. /\ pc = "index" /\ index' = best /\ pc' = "distribute"
      /\ UNCHANGED <<height, cover, newBox, at, node, other, axis>>
  BY DEF ChooseSplitIndex, tree
<1>2. /\ IsNode /\ other = <<>> /\ axis \in Axes /\ SplitKeepsChildren
      /\ \A i, j \in 1 .. Len(node) : node[i].box = node[j].box
  BY <1>1 DEF TreeInv, InTheSplit
<1>3. /\ Len(node) \in Nat /\ Len(node) >= 2 * MinChildren
      /\ MinChildren \in Nat /\ MinChildren >= 1
  BY <1>2, NodeLen, RTreeAssumption
<1>4. D \subseteq MinChildren .. Len(node) - MinChildren /\ D # {} /\ D \in SUBSET Nat
  BY <1>3
<1>5. IsFiniteSet(D)
  <2>1. MinChildren \in Int /\ Len(node) - MinChildren \in Int
    BY <1>3
  <2>2. IsFiniteSet(MinChildren .. Len(node) - MinChildren)
    BY <2>1, FS_Interval
  <2> HIDE DEF D
  <2> QED BY <1>4, <2>2, FS_Subset
<1>6. \A d \in D : SplitCost(d) \in Int
  <2>1. \A d \in D : d \in 1 .. Len(node)
    BY <1>3
  <2> HIDE DEF D
  <2> QED BY <1>2, <2>1, SplitCostType
<1>7. best \in D
  <2> HIDE DEF D
  <2>1. C \in [D -> Int] /\ \A d \in D : C[d] = SplitCost(d)
    BY <1>6
  <2> HIDE DEF C
  <2>2. LET l == Min({C[d] : d \in D})
            b == Min({d \in D : C[d] = l})
        IN  b \in D /\ \A d \in D : C[b] <= C[d]
    BY <1>4, <1>5, <2>1, LeastOf
  <2>3. {C[d] : d \in D} = {SplitCost(d) : d \in D}
    BY <2>1
  <2>4. \A l : {d \in D : C[d] = l} = {d \in D : SplitCost(d) = l}
    BY <2>1
  <2>5. Min({C[d] : d \in D}) = least
    BY <2>3
  <2>6. Min({d \in D : C[d] = Min({C[e] : e \in D})}) = best
    <3>1. {d \in D : C[d] = Min({C[e] : e \in D})} = {d \in D : C[d] = least}
      BY <2>5, Zenon
    <3>2. {d \in D : C[d] = least} = {d \in D : SplitCost(d) = least}
      BY <2>4, Zenon
    <3> QED BY <3>1, <3>2, Zenon
  <2> QED BY <2>2, <2>6
<1>8. best \in MinChildren .. Len(node) - MinChildren
  <2> HIDE DEF D, best
  <2> QED BY <1>4, <1>7
<1> HIDE DEF best
<1>9. IsNode'
  BY <1>1, <1>2 DEF IsNode
<1>10. SplitKeepsChildren'
  BY <1>1, <1>2 DEF SplitKeepsChildren, Children
<1> QED BY <1>1, <1>2, <1>8, <1>9, <1>10 DEF TreeInv, OnTheWay, InTheSplit

\* The children are divided.
LEMMA DistributeInv == TreeInv /\ Distribute => TreeInv'
<1> SUFFICES ASSUME TreeInv, Distribute PROVE TreeInv'
  OBVIOUS
<1> DEFINE sorted == [i \in 1 .. Len(node) |-> node[SortAlong(axis)[i]]]
<1>1. /\ pc = "distribute" /\ pc' = "split"
      /\ node' = SubSeq(sorted, 1, index) /\ other' = SubSeq(sorted, index + 1, Len(sorted))
  BY DEF Distribute, Moves
<1>2. /\ IsNode /\ axis \in Axes /\ index \in MinChildren .. Len(node) - MinChildren
      /\ \A i, j \in 1 .. Len(node) : node[i].box = node[j].box
  BY <1>1 DEF TreeInv, InTheSplit
<1>3. /\ Len(node) \in Nat /\ Len(node) >= 2 * MinChildren
      /\ MinChildren \in Nat /\ MinChildren >= 1 /\ 1 \in 1 .. Len(node)
  BY <1>2, NodeLen, RTreeAssumption
<1>4. SortAlong(axis) = Unsorted
  <2>1. SameOn(axis, Len(node))
    BY <1>2, <1>3 DEF SameOn
  <2> QED BY <1>2, <2>1, SortOutcome
<1>5. sorted = node
  <2>1. \A i \in 1 .. Len(node) : SortAlong(axis)[i] = i
    BY <1>2, <1>4, UnsortedIs
  <2>2. sorted = [i \in 1 .. Len(node) |-> node[i]]
    BY <2>1
  <2>3. node \in [1 .. Len(node) -> Kids]
    BY <1>2, LenProperties DEF IsNode
  <2> QED BY <2>2, <2>3
<1> HIDE DEF sorted
<1>6. node' = SubSeq(node, 1, index) /\ other' = SubSeq(node, index + 1, Len(node))
  BY <1>1, <1>5
<1>7. node \in Seq(Kids) /\ index \in 0 .. Len(node) /\ \A i \in 1 .. Len(node) : node[i].child = i
  BY <1>2, <1>3 DEF IsNode
<1>8. LET n == SubSeq(node, 1, index)  o == SubSeq(node, index + 1, Len(node))
          all == Children(n) \o Children(o)
      IN  /\ Range(all) = 1 .. Len(all) /\ Len(n) = index /\ Len(o) = Len(node) - index
          /\ \A i \in 1 .. index : n[i] = node[i]
  BY <1>7, Rejoined
<1>9. /\ Range(Children(node') \o Children(other')) = 1 .. Len(Children(node') \o Children(other'))
      /\ Len(node') = index /\ Len(other') = Len(node) - index
      /\ \A i \in 1 .. index : node'[i] = node[i]
  BY <1>6, <1>8
<1>10. \A i, j \in 1 .. Len(node') : node'[i].box = node'[j].box
  <2>1. \A i \in 1 .. index : i \in 1 .. Len(node)
    BY <1>7
  <2> QED BY <1>2, <1>9, <2>1
<1>11. /\ Len(node') >= MinChildren /\ Len(other') >= MinChildren
       /\ 2 * MinChildren <= Len(node') + Len(other')
  BY <1>2, <1>3, <1>9
<1>12. SplitKeepsChildren'
  <2>1. Children(node)' = Children(node') /\ Children(other)' = Children(other')
    BY DEF Children
  <2> QED BY <1>1, <1>9, <1>10, <1>11, <2>1 DEF SplitKeepsChildren
<1> QED BY <1>1, <1>12 DEF TreeInv, OnTheWay, InTheSplit

\* Every step of rtree_choose_subtree and rtree_split keeps the invariant.
THEOREM TreeInvariant == Spec => []TreeInv
<1>1. Init => TreeInv
  BY InitInv
<1>2. TreeInv /\ [Next]_vars => TreeInv'
  <2> SUFFICES ASSUME TreeInv, [Next]_vars PROVE TreeInv'
    OBVIOUS
  <2>1. CASE NoRoot
    <3>1. pc = "choose" /\ node = <<>> /\ other = <<>>
      BY <2>1 DEF NoRoot, TreeInv, InTheSplit
    <3>2. Children(<<>>) \o Children(<<>>) = <<>> /\ Len(<<>>) = 0 /\ Range(<<>>) = {}
      BY DEF Children, Range
    <3>3. pc' = "null" /\ node' = <<>> /\ other' = <<>>
      BY <2>1, <3>1 DEF NoRoot
    <3>4. SplitKeepsChildren'
      <4>1. Children(node)' = Children(<<>>) /\ Children(other)' = Children(<<>>)
        BY <3>3 DEF Children
      <4>2. \A i \in 1 .. Len(node') : FALSE
        BY <3>2, <3>3
      <4>3. Range(Children(node)' \o Children(other)') = 1 .. Len(Children(node)' \o Children(other)')
        <5>1. Children(node)' \o Children(other)' = <<>>
          BY <3>2, <4>1
        <5>2. Range(<<>>) = 1 .. Len(<<>>)
          BY <3>2
        <5> QED BY <5>1, <5>2, Zenon
      <4> QED BY <3>3, <4>2, <4>3 DEF SplitKeepsChildren
    <3> QED BY <3>3, <3>4 DEF TreeInv, OnTheWay, InTheSplit
  <2>2. CASE Descend
    BY <2>2, DescendInv
  <2>3. CASE Arrive
    <3>1. /\ pc = "choose" /\ pc' = "leaf" /\ height > 0 /\ IsLeaf(at)
          /\ UNCHANGED <<height, cover, newBox, at, node, other>>
      BY <2>3 DEF Arrive, tree
    <3>2. OnTheWay /\ InTheSplit
      BY DEF TreeInv
    <3>3. Len(at) = height - 1
      <4>1. height \in Nat /\ \E m \in 0 .. height - 1 : at \in Way(m)
        BY <3>1, <3>2 DEF OnTheWay
      <4>2. Len(at) \in Nat
        BY <4>1, WayLen
      <4> QED BY <3>1, <4>1, <4>2 DEF IsLeaf, Level
    <3>4. \A n : BoxOf(n)' = BoxOf(n)
      BY <3>1 DEF BoxOf
    <3>5. \A k \in 1 .. Len(at) : TightAt(at, k) => TightAt(at, k)'
      BY <3>1, <3>4 DEF TightAt
    <3>6. OnTheWay'
      BY <3>1, <3>2, <3>3, <3>5 DEF OnTheWay
    <3> QED BY <3>1, <3>2, <3>6 DEF TreeInv, InTheSplit, SplitKeepsChildren
  <2>4. CASE ChooseSplitAxis
    BY <2>4, ChooseSplitAxisInv
  <2>5. CASE ChooseSplitIndex
    BY <2>5, ChooseSplitIndexInv
  <2>6. CASE Distribute
    BY <2>6, DistributeInv
  <2>7. CASE NoNode
    <3>1. pc = "distribute" /\ pc' = "null" /\ node' = node /\ other' = other
      BY <2>7 DEF NoNode
    <3>2. SplitKeepsChildren'
      BY <3>1 DEF TreeInv, SplitKeepsChildren, Children
    <3> QED BY <3>1, <3>2 DEF TreeInv, OnTheWay, InTheSplit
  <2>8. CASE UNCHANGED vars
    <3>1. UNCHANGED <<height, cover, newBox, at, node, other, axis, index, pc>>
      BY <2>8 DEF vars, tree
    <3>2. \A n : BoxOf(n)' = BoxOf(n)
      BY <3>1 DEF BoxOf
    <3>3. \A k \in 1 .. Len(at) : TightAt(at, k) => TightAt(at, k)'
      BY <3>1, <3>2 DEF TightAt
    <3>4. OnTheWay'
      BY <3>1, <3>3 DEF TreeInv, OnTheWay
    <3>5. InTheSplit'
      BY <3>1 DEF TreeInv, InTheSplit, IsNode
    <3>6. SplitKeepsChildren'
      BY <3>1 DEF TreeInv, SplitKeepsChildren, Children
    <3> QED BY <3>1, <3>4, <3>5, <3>6 DEF TreeInv
  <2> QED BY <2>1, <2>2, <2>3, <2>4, <2>5, <2>6, <2>7, <2>8 DEF Next
<1> QED BY <1>1, <1>2, PTL DEF Spec

-----------------------------------------------------------------------------
(* What follows from it                                                    *)

\* rtree_split: it loses and duplicates no child and leaves both nodes enough,
\* and where it is defined all boxes of the node are the same.
THEOREM ChildrenAreKept == Spec => []SplitKeepsChildren
<1>1. TreeInv => SplitKeepsChildren
  BY DEF TreeInv
<1> QED BY <1>1, TreeInvariant, PTL

\* rtree_choose_subtree: the way ends at a leaf, and no sibling of a node on it
\* could take the new box within less, unless they are flat.
THEOREM WayStaysTight == Spec => []WayIsTight
<1>1. TreeInv => WayIsTight
  <2> SUFFICES ASSUME TreeInv, pc = "leaf"
               PROVE  at \in DOMAIN cover /\ \A k \in 1 .. Len(at) : TightAt(at, k)
    BY DEF WayIsTight, TightAt
  <2>1. /\ height \in Nat /\ height > 0 /\ Len(at) = height - 1
        /\ cover \in [Way(height - 1) -> Boxes] /\ \A k \in 1 .. Len(at) : TightAt(at, k)
    BY DEF TreeInv, OnTheWay
  <2>2. PICK m \in 0 .. height - 1 : at \in Way(m)
    BY <2>1 DEF TreeInv, OnTheWay
  <2>3. Len(at) = m
    BY <2>2, WayLen
  <2> QED BY <2>1, <2>2, <2>3
<1> QED BY <1>1, TreeInvariant, PTL

\* rtree_box_union, rtree_box_intersection, rtree_boxes_overlap, rtree_box_margin
\* and rtree_box_area agree with each other.
THEOREM MeasuresAgree == Spec => []BoxesMeasured
<1>1. TreeInv => BoxesMeasured
  <2> SUFFICES ASSUME TreeInv, pc = "choose", height > 0
               PROVE  LET a == newBox  b == BoxOf(at)
                          u == BoxUnion(a, b)  i == BoxIntersection(a, b)
                      IN  /\ Within(a, u) /\ Within(b, u)
                          /\ BoxMargin(a) <= BoxMargin(u) /\ 0 <= BoxMargin(i)
                          /\ BoxArea(a) + BoxArea(b) - BoxArea(i) <= BoxArea(u)
                          /\ BoxArea(i) > 0 => BoxesOverlap(a, b)
                          /\ ~Flat(a) /\ ~Flat(b) /\ BoxesOverlap(a, b) => BoxArea(i) > 0
    BY DEF BoxesMeasured
  <2> DEFINE a == newBox
             b == BoxOf(at)
             u == BoxUnion(a, b)
             i == BoxIntersection(a, b)
  <2>1. a \in IntBoxes /\ b \in IntBoxes
    <3>1. newBox \in Boxes /\ height \in Nat /\ cover \in [Way(height - 1) -> Boxes]
          /\ \E m \in 0 .. height - 1 : at \in Way(m)
      BY DEF TreeInv, OnTheWay
    <3> QED BY <3>1, BoxesAreInt, BoxOfType
  <2> HIDE DEF a, b
  <2>2. u \in IntBoxes /\ i \in IntBoxes
    BY <2>1, UnionSides, MeetSides
  <2>3. Within(a, u) /\ Within(b, u)
    <3>1. ASSUME NEW x \in Axes
          PROVE  u[x][1] <= a[x][1] /\ a[x][2] <= u[x][2] /\ u[x][1] <= b[x][1] /\ b[x][2] <= u[x][2]
      <4>1. /\ a[x][1] \in Int /\ a[x][2] \in Int /\ b[x][1] \in Int /\ b[x][2] \in Int
        BY <2>1, Sides
      <4>2. /\ u[x][1] = IF a[x][1] <= b[x][1] THEN a[x][1] ELSE b[x][1]
            /\ u[x][2] = IF a[x][2] <= b[x][2] THEN b[x][2] ELSE a[x][2]
        BY <2>1, UnionSides
      <4> HIDE DEF u
      <4> QED BY <4>1, <4>2
    <3> HIDE DEF u
    <3> QED BY <3>1 DEF Within
  <2>4. \A x \in Axes : Extent(a)[x] <= Extent(u)[x] /\ Extent(i)[x] <= Extent(i)[x]
    <3> TAKE x \in Axes
    <3>1. Extent(a)[x] <= Extent(u)[x]
      BY <2>1, OnAxis
    <3>2. Extent(i)[x] \in Nat
      BY <2>1, OnAxis
    <3> QED BY <3>1, <3>2
  <2>5. BoxArea(a) + BoxArea(b) - BoxArea(i) <= BoxArea(u)
    BY <2>1, AreaOfUnion
  <2>6. \A x \in Axes :
          /\ i[x][1] # i[x][2] => a[x][2] > b[x][1] /\ b[x][2] > a[x][1]
          /\ a[x][1] # a[x][2] /\ b[x][1] # b[x][2] /\ a[x][2] > b[x][1] /\ b[x][2] > a[x][1]
               => i[x][1] # i[x][2]
    <3> TAKE x \in Axes
    <3>1. /\ a[x][1] \in Int /\ a[x][2] \in Int /\ a[x][1] <= a[x][2]
          /\ b[x][1] \in Int /\ b[x][2] \in Int /\ b[x][1] <= b[x][2]
      BY <2>1, Sides
    <3>2. LET min == IF a[x][1] <= b[x][1] THEN b[x][1] ELSE a[x][1]
              max == IF a[x][2] <= b[x][2] THEN a[x][2] ELSE b[x][2]
          IN  /\ i[x][1] = min
              /\ i[x][2] = IF min <= max THEN max ELSE min
      BY <2>1, MeetSides
    <3> HIDE DEF i
    <3> QED BY <3>1, <3>2
  <2> HIDE DEF u, i
  <2>7. BoxMargin(a) <= BoxMargin(u) /\ 0 <= BoxMargin(i)
    <3>1. BoxMargin(a) <= BoxMargin(u)
      BY <2>1, <2>2, <2>4, MarginGrows
    <3>2. BoxMargin(i) \in Nat
      BY <2>2, <2>4, MarginGrows
    <3> QED BY <3>1, <3>2
  <2>8. BoxArea(i) \in Nat /\ (BoxArea(i) = 0 <=> Flat(i))
    BY <2>2, AreaOfFlat
  <2>9. BoxArea(i) > 0 => BoxesOverlap(a, b)
    BY <2>6, <2>8 DEF Flat, BoxesOverlap
  <2>10. ~Flat(a) /\ ~Flat(b) /\ BoxesOverlap(a, b) => BoxArea(i) > 0
    BY <2>6, <2>8 DEF Flat, BoxesOverlap
  <2> QED BY <2>3, <2>5, <2>7, <2>9, <2>10 DEF a, b, u, i
<1> QED BY <1>1, TreeInvariant, PTL

=============================================================================
