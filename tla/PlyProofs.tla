----------------------------- MODULE PlyProofs ------------------------------
(***************************************************************************)
(* Proofs about the header of module PlyHeader, for every file, every size *)
(* of memory and every number that a read callback returns.                *)
(***************************************************************************)
EXTENDS PlyStream, FiniteSetTheorems, WellFoundedInduction, TLAPS

-----------------------------------------------------------------------------
(* Multiples of the alignment.                                             *)

\* The quotient and the remainder of a division are those of the definition,
LEMMA DivMod ==
  ASSUME NEW n \in Int, NEW d \in Int, d > 0, NEW q, NEW r, q = n \div d, r = n % d
  PROVE  q \in Int /\ r \in 0 .. d - 1 /\ n = q * d + r
<1>1. q \in Int /\ r \in Int /\ r >= 0 /\ r < d
  OBVIOUS
<1>2. \A a \in Int : d * a = a * d /\ d * a \in Int
  OBVIOUS
<1>3. r = n - d * q
  OBVIOUS
<1>4. \A a, b \in Int : b = n - d * a => n = a * d + b
  BY <1>2
<1>5. n = q * d + r
  BY <1>1, <1>3, <1>4
<1> QED  BY <1>1, <1>5

\* and no others.
LEMMA Quotient ==
  ASSUME NEW q \in Int, NEW d \in Int, d > 0, NEW r \in 0 .. d - 1
  PROVE  (q * d + r) \div d = q /\ (q * d + r) % d = r
BY SMT

\* Multiples are what has no remainder; those of d are d apart.
LEMMA Multiple ==
  ASSUME NEW d \in Int, d > 0, NEW n \in Int, n % d = 0
  PROVE  \E q \in Int : n = q * d
<1> DEFINE q == n \div d
<1>1. q \in Int /\ n = q * d + 0
  BY DivMod
<1>2. q * d \in Int
  BY <1>1
<1> HIDE DEF q
<1>3. n = q * d
  BY <1>1, <1>2
<1> QED  BY <1>1, <1>3

LEMMA Multiples ==
  ASSUME NEW d \in Int, d > 0, NEW a \in Int, NEW b \in Int
  PROVE  /\ a * d \in Int /\ (a * d) % d = 0
         /\ a * d + b * d = (a + b) * d /\ a * d - b * d = (a - b) * d
         /\ -(a * d) = (-a) * d
         /\ a * d < b * d + d => a * d <= b * d
<1>1. a * d \in Int /\ b * d \in Int /\ (b + 1) * d = b * d + d
  OBVIOUS
<1>2. (a * d + 0) % d = 0 /\ a * d + 0 = a * d
  BY <1>1, Quotient
<1>3. a * d + b * d = (a + b) * d /\ a * d - b * d = (a - b) * d /\ -(a * d) = (-a) * d
  OBVIOUS
<1>4. a <= b => a * d <= b * d
  OBVIOUS
<1>5. b + 1 <= a => (b + 1) * d <= a * d
  OBVIOUS
<1>6. a <= b \/ b + 1 <= a
  OBVIOUS
<1>7. a * d < b * d + d => a * d <= b * d
  <2> DEFINE x == a * d
             y == b * d
             z == (b + 1) * d
  <2>1. x \in Int /\ y \in Int /\ z = y + d /\ (x <= y \/ z <= x)
    BY <1>1, <1>4, <1>5, <1>6
  <2> HIDE DEF x, y, z
  <2>2. x < y + d => x <= y
    BY <2>1
  <2> QED  BY <2>2 DEF x, y
<1> QED  BY <1>1, <1>2, <1>3, <1>7

Aligned(n) == n \in Int /\ n % Alignment = 0

LEMMA Constants ==
  /\ MinBuffer \in Nat /\ MinBuffer > 0 /\ Alignment \in Int /\ Alignment > 0
  /\ ElementSize \in Nat /\ ElementSize > 0 /\ PropertySize \in Nat /\ PropertySize > 0
  /\ Aligned(MinBuffer)
  /\ \A m \in MemorySizes : m \in Nat /\ MinBuffer <= m
BY HeaderAssumption DEF HeaderAssumption, Aligned

LEMMA AlignedSums ==
  ASSUME NEW a, Aligned(a), NEW b, Aligned(b)
  PROVE  /\ Aligned(a + b) /\ Aligned(a - b) /\ Aligned(-a)
         /\ a < b + Alignment => a <= b
<1>1. a \in Int /\ b \in Int
  BY DEF Aligned
<1>2. PICK p \in Int : a = p * Alignment
  BY Constants, Multiple DEF Aligned
<1>3. PICK q \in Int : b = q * Alignment
  BY Constants, Multiple DEF Aligned
<1>4. p + q \in Int /\ p - q \in Int /\ -p \in Int
  OBVIOUS
<1>5. a + b = (p + q) * Alignment /\ a - b = (p - q) * Alignment /\ -a = (-p) * Alignment
  BY <1>2, <1>3, Constants, Multiples
<1>6. /\ ((p + q) * Alignment) % Alignment = 0 /\ ((p - q) * Alignment) % Alignment = 0
      /\ ((-p) * Alignment) % Alignment = 0
  BY <1>4, Constants, Multiples
<1>7. Aligned(a + b) /\ Aligned(a - b) /\ Aligned(-a)
  BY <1>1, <1>5, <1>6 DEF Aligned
<1>8. a < b + Alignment => a <= b
  BY <1>2, <1>3, Constants, Multiples
<1> QED  BY <1>7, <1>8

\* Rounding down and up gives the nearest multiples.
LEMMA Down ==
  ASSUME NEW n \in Int
  PROVE  /\ Aligned(AlignDown(n)) /\ AlignDown(n) <= n /\ n < AlignDown(n) + Alignment
         /\ \A m : Aligned(m) /\ m <= n => m <= AlignDown(n)
<1> DEFINE q == n \div Alignment
           r == n % Alignment
<1>0. q = n \div Alignment /\ r = n % Alignment /\ AlignDown(n) = n - r
  BY DEF AlignDown
<1>2. AlignDown(n) = n - r
  BY <1>0
<1> HIDE DEF q, r
<1>1. q \in Int /\ r \in 0 .. Alignment - 1 /\ n = q * Alignment + r
  <2>1. Alignment \in Int /\ Alignment > 0 /\ q = n \div Alignment /\ r = n % Alignment
    BY <1>0, Constants
  <2> QED  BY <2>1, DivMod
<1>3. q * Alignment \in Int /\ (q * Alignment) % Alignment = 0
  BY <1>1, Constants, Multiples
<1> DEFINE x == q * Alignment
<1>4. x \in Int /\ Aligned(x) /\ n = x + r
  BY <1>1, <1>3 DEF Aligned
<1> HIDE DEF x
<1>5. AlignDown(n) = x
  BY <1>1, <1>2, <1>4, Constants
<1>6. x <= n /\ n < x + Alignment
  BY <1>1, <1>4, Constants
<1>7. ASSUME NEW m, Aligned(m), m <= n PROVE m <= x
  <2>1. m \in Int
    BY <1>7 DEF Aligned
  <2>2. m < x + Alignment
    BY <1>4, <1>6, <1>7, <2>1, Constants
  <2> QED  BY <1>4, <1>7, <2>2, AlignedSums
<1> QED  BY <1>4, <1>5, <1>6, <1>7

LEMMA Up ==
  ASSUME NEW n \in Int
  PROVE  Aligned(AlignUp(n)) /\ n <= AlignUp(n) /\ AlignUp(n) < n + Alignment
<1>1. -n \in Int
  OBVIOUS
<1>2. Aligned(AlignDown(-n)) /\ AlignDown(-n) <= -n /\ -n < AlignDown(-n) + Alignment
  BY <1>1, Down
<1> DEFINE x == AlignDown(-n)
<1>3. AlignUp(n) = -x
  BY DEF AlignUp
<1> HIDE DEF x
<1>4. Aligned(-x) /\ x \in Int
  BY <1>2, AlignedSums DEF x, Aligned
<1>5. x <= -n /\ -n < x + Alignment
  BY <1>2 DEF x
<1>6. n <= -x /\ -x < n + Alignment
  BY <1>4, <1>5, Constants
<1> QED  BY <1>3, <1>4, <1>6

\* What a reservation takes from aligned memory is its size, rounded up.
LEMMA DownUp ==
  ASSUME NEW n, Aligned(n), NEW size \in Nat
  PROVE  AlignDown(n - size) = n - AlignUp(size)
<1> DEFINE x == AlignDown(n - size)
           y == n - AlignUp(size)
<1>1. n \in Int /\ n - size \in Int
  BY DEF Aligned
<1>2. Aligned(x) /\ x <= n - size /\ n - size < x + Alignment
  BY <1>1, Down
<1>3. Aligned(AlignUp(size)) /\ size <= AlignUp(size) /\ AlignUp(size) < size + Alignment
  BY Up
<1>4. Aligned(y) /\ y \in Int
  BY <1>3, AlignedSums DEF Aligned
<1>5. AlignUp(size) \in Int /\ x \in Int
  BY <1>2, <1>3 DEF Aligned
<1> DEFINE u == AlignUp(size)
<1>6. u \in Int /\ size <= u /\ u < size + Alignment /\ y = n - u
  BY <1>3, <1>5
<1> HIDE DEF x, y, u
<1>7. y < x + Alignment /\ x < y + Alignment
  BY <1>1, <1>2, <1>4, <1>5, <1>6, Constants
<1>8. x <= y /\ y <= x
  BY <1>2, <1>4, <1>7, AlignedSums
<1>9. x = y
  BY <1>4, <1>5, <1>8
<1> QED  BY <1>9 DEF x, y

-----------------------------------------------------------------------------
(* The lines of a header, counted.                                         *)

\* Among the first n + 1 numbers are the first n, and n + 1.
LEMMA Among ==
  ASSUME NEW n \in Nat, NEW R \in SUBSET (1 .. n), NEW S \in SUBSET (1 .. n + 1),
         \A i \in 1 .. n : i \in S <=> i \in R
  PROVE  /\ IsFiniteSet(R) /\ IsFiniteSet(S) /\ Cardinality(R) \in Nat /\ Cardinality(S) \in Nat
         /\ n + 1 \in S => S = R \cup {n + 1} /\ Cardinality(S) = Cardinality(R) + 1
         /\ n + 1 \notin S => S = R
<1>1. IsFiniteSet(R) /\ IsFiniteSet(S)
  <2>1. IsFiniteSet(1 .. n) /\ IsFiniteSet(1 .. n + 1)
    BY FS_Interval
  <2> QED  BY <2>1, FS_Subset
<1>2. \A i \in 1 .. n + 1 : i \in 1 .. n \/ i = n + 1
  OBVIOUS
<1>3. n + 1 \notin 1 .. n /\ \A i \in 1 .. n : i \in 1 .. n + 1
  OBVIOUS
<1>4. n + 1 \in S => S = R \cup {n + 1}
  BY <1>2, <1>3
<1>5. n + 1 \notin S => S = R
  BY <1>2, <1>3
<1>6. n + 1 \notin R
  BY <1>3
<1>7. Cardinality(R \cup {n + 1}) = Cardinality(R) + 1
  BY <1>1, <1>6, FS_AddElement
<1> QED  BY <1>1, <1>4, <1>5, <1>7, FS_CardinalityType

\* How many elements the first n + 1 lines have.
LEMMA ElementCount ==
  ASSUME NEW ls, NEW n \in Nat
  PROVE  /\ ElementOf(ls, n) \in Nat /\ ElementOf(ls, n + 1) \in Nat
         /\ ElementOf(ls, n + 1) =
              ElementOf(ls, n) + (IF Keyword(ls[n + 1]) = "element" THEN 1 ELSE 0)
<1> DEFINE R == {j \in 1 .. n : Keyword(ls[j]) = "element"}
           S == {j \in 1 .. n + 1 : Keyword(ls[j]) = "element"}
<1>1. R \in SUBSET (1 .. n) /\ S \in SUBSET (1 .. n + 1) /\ \A i \in 1 .. n : i \in S <=> i \in R
  OBVIOUS
<1>2. n + 1 \in S <=> Keyword(ls[n + 1]) = "element"
  OBVIOUS
<1>3. ElementOf(ls, n) = Cardinality(R) /\ ElementOf(ls, n + 1) = Cardinality(S)
  BY DEF ElementOf
<1> HIDE DEF R, S
<1>4. /\ Cardinality(R) \in Nat /\ Cardinality(S) \in Nat
      /\ n + 1 \in S => Cardinality(S) = Cardinality(R) + 1
      /\ n + 1 \notin S => S = R
  BY <1>1, Among
<1> QED  BY <1>2, <1>3, <1>4

LEMMA ElementsGrow ==
  ASSUME NEW ls, NEW n \in Nat, NEW j \in Nat, j <= n
  PROVE  ElementOf(ls, j) <= ElementOf(ls, n)
<1> DEFINE R == {i \in 1 .. j : Keyword(ls[i]) = "element"}
           S == {i \in 1 .. n : Keyword(ls[i]) = "element"}
<1>1. IsFiniteSet(S)
  <2>1. IsFiniteSet(1 .. n) /\ S \in SUBSET (1 .. n)
    BY FS_Interval
  <2> QED  BY <2>1, FS_Subset
<1>2. \A i \in 1 .. j : i \in 1 .. n
  OBVIOUS
<1>3. R \subseteq S
  BY <1>2
<1> QED  BY <1>1, <1>3, FS_Subset DEF ElementOf

\* Which properties of the e-th they have.
LEMMA PropertyCount ==
  ASSUME NEW ls, NEW n \in Nat, NEW e
  PROVE  /\ Cardinality(PropertyLines(ls, n, e)) \in Nat
         /\ Cardinality(PropertyLines(ls, n + 1, e)) =
              Cardinality(PropertyLines(ls, n, e))
              + (IF Keyword(ls[n + 1]) = "property" /\ ElementOf(ls, n + 1) = e THEN 1 ELSE 0)
<1> DEFINE R == PropertyLines(ls, n, e)
           S == PropertyLines(ls, n + 1, e)
<1>1. R \in SUBSET (1 .. n) /\ S \in SUBSET (1 .. n + 1) /\ \A i \in 1 .. n : i \in S <=> i \in R
  BY DEF PropertyLines
<1>2. n + 1 \in S <=> Keyword(ls[n + 1]) = "property" /\ ElementOf(ls, n + 1) = e
  BY DEF PropertyLines
<1> HIDE DEF R, S
<1>3. /\ Cardinality(R) \in Nat /\ Cardinality(S) \in Nat
      /\ n + 1 \in S => Cardinality(S) = Cardinality(R) + 1
      /\ n + 1 \notin S => S = R
  BY <1>1, Among
<1>4. Cardinality(S) = Cardinality(R) + (IF n + 1 \in S THEN 1 ELSE 0)
  BY <1>3
<1> QED  BY <1>2, <1>3, <1>4 DEF R, S

LEMMA PropertiesGrow ==
  ASSUME NEW ls, NEW n \in Nat, NEW j \in Nat, j <= n, NEW e
  PROVE  Cardinality(PropertyLines(ls, j, e)) <= Cardinality(PropertyLines(ls, n, e))
<1>1. IsFiniteSet(PropertyLines(ls, n, e))
  <2>1. IsFiniteSet(1 .. n) /\ PropertyLines(ls, n, e) \in SUBSET (1 .. n)
    BY FS_Interval DEF PropertyLines
  <2> QED  BY <2>1, FS_Subset
<1>2. \A i \in 1 .. j : i \in 1 .. n
  OBVIOUS
<1>3. PropertyLines(ls, j, e) \subseteq PropertyLines(ls, n, e)
  BY <1>2 DEF PropertyLines
<1> QED  BY <1>1, <1>3, FS_Subset

\* An element that the lines so far do not have has no properties in them.
LEMMA NoPropertiesYet ==
  ASSUME NEW ls, NEW n \in Nat, NEW e \in Nat, ElementOf(ls, n) < e
  PROVE  Cardinality(PropertyLines(ls, n, e)) = 0
<1>1. ASSUME NEW j \in PropertyLines(ls, n, e) PROVE FALSE
  <2>1. j \in 1 .. n /\ ElementOf(ls, j) = e
    BY DEF PropertyLines
  <2>2. j \in Nat /\ j <= n
    BY <2>1
  <2>3. ElementOf(ls, j) <= ElementOf(ls, n)
    BY <2>2, ElementsGrow
  <2>4. ElementOf(ls, n) \in Nat
    BY ElementCount
  <2> QED  BY <2>1, <2>3, <2>4
<1>2. PropertyLines(ls, n, e) = {}
  BY <1>1
<1> QED  BY <1>2, FS_EmptySet

-----------------------------------------------------------------------------
(* The words of a line.                                                    *)

\* A word that names a type names one of the types.
LEMMA TypeOfType ==
  ASSUME NEW word, IsType(word)
  PROVE  TypeOf(word) \in Types /\ word # "list"
<1>1. Len(TypeNames) = 16
  BY DEF TypeNames
<1> DEFINE i == CHOOSE k \in 1 .. Len(TypeNames) : TypeNames[k] = word
<1>2. i \in 1 .. 16 /\ TypeNames[i] = word
  BY <1>1 DEF IsType
<1>3. TypeOf(word) = TypeNames[IF i % 2 = 1 THEN i ELSE i - 1]
  BY DEF TypeOf
<1> HIDE DEF i
<1>4. \/ i = 1 \/ i = 2 \/ i = 3 \/ i = 4 \/ i = 5 \/ i = 6 \/ i = 7 \/ i = 8
      \/ i = 9 \/ i = 10 \/ i = 11 \/ i = 12 \/ i = 13 \/ i = 14 \/ i = 15 \/ i = 16
  BY <1>2
<1>5. word # "list"
  BY <1>2, <1>4 DEF TypeNames
<1>6. (IF i % 2 = 1 THEN i ELSE i - 1) \in {1, 3, 5, 7, 9, 11, 13, 15}
  BY <1>4
<1>7. \A k \in {1, 3, 5, 7, 9, 11, 13, 15} : TypeNames[k] \in Types
  BY DEF TypeNames, Types
<1> QED  BY <1>3, <1>5, <1>6, <1>7

LEMMA FileIs ==
  ASSUME NEW f \in Files
  PROVE  /\ f.lines \in Seq(HeaderLines)
         /\ Readable(f) => f.elements \in Seq(Elements) /\ Describes(f.lines, f.format, f.elements)
         /\ ~Readable(f) => \A n \in 1 .. Len(f.lines) : Keyword(f.lines[n]) = "end_header" =>
                              \E i \in 1 .. n - 1 : Wrong(f.lines, i)
BY FileAssumption DEF FileAssumption

\* What the parser's words are, of the line it is at.
LEMMA LineIs ==
  ASSUME file \in Files, next \in Nat, next < Len(Lines)
  PROVE  /\ next + 1 \in 1 .. Len(Lines) /\ Line = Lines[next + 1]
         /\ Line.words \in Seq(Words) /\ Line.size \in Nat
         /\ \A k \in Nat \ {0} : /\ Word(k) # NULL <=> k <= Len(Line.words)
                                 /\ Word(k) # NULL => Word(k) = Line.words[k] /\ Word(k) \in Words
         /\ Keyword(Line) = Word(1)
<1>1. Lines \in Seq(HeaderLines)
  BY FileIs DEF Lines
<1>2. Len(Lines) \in Nat /\ next + 1 \in 1 .. Len(Lines)
  BY <1>1
<1>3. Line = Lines[next + 1] /\ Line \in HeaderLines
  BY <1>1, <1>2 DEF Line
<1>4. Line.words \in Seq(Words) /\ Line.size \in Nat
  BY <1>3 DEF HeaderLines
<1>5. Len(Line.words) \in Nat /\ \A k \in 1 .. Len(Line.words) : Line.words[k] \in Words
  BY <1>4
<1>6. ASSUME NEW k \in Nat \ {0}
      PROVE  /\ Word(k) # NULL <=> k <= Len(Line.words)
             /\ Word(k) # NULL => Word(k) = Line.words[k] /\ Word(k) \in Words
  <2>1. CASE k <= Len(Line.words)
    <3>1. k \in 1 .. Len(Line.words)
      BY <1>5, <2>1
    <3>2. Word(k) = Line.words[k] /\ Word(k) \in Words
      BY <1>5, <2>1, <3>1 DEF Word
    <3> QED  BY <2>1, <3>2 DEF Words, NULL
  <2>2. CASE ~(k <= Len(Line.words))
    BY <2>2 DEF Word
  <2> QED  BY <2>1, <2>2
<1>7. Keyword(Line) = Word(1)
  <2>1. Line.words = <<>> <=> ~(1 <= Len(Line.words))
    BY <1>4
  <2> QED  BY <2>1 DEF Keyword, Word, NULL
<1> QED  BY <1>2, <1>3, <1>4, <1>6, <1>7

LEMMA Exactly ==
  ASSUME NEW n \in Nat, NEW k \in Nat, k <= n, ~(k + 1 <= n)
  PROVE  n = k
OBVIOUS

\* A sequence of three is those three.
LEMMA Three ==
  ASSUME NEW S, NEW w \in Seq(S), Len(w) = 3
  PROVE  w = <<w[1], w[2], w[3]>>
OBVIOUS

\* The lines after which the parser goes on are such as a header has.
LEMMA FormatRight ==
  ASSUME file \in Files, next \in Nat, next < Len(Lines), Word(1) = "format",
         Word(2) \in FormatWords, Word(3) = "1.0", Word(4) = NULL
  PROVE  SaysFormat(Line.words, Word(2)) /\ ~Wrong(Lines, next + 1)
<1>1. Line = Lines[next + 1] /\ Line.words \in Seq(Words) /\ Len(Line.words) \in Nat
  <2>1. Line = Lines[next + 1] /\ Line.words \in Seq(Words)
    BY LineIs
  <2> QED  BY <2>1
<1>2. /\ Word(1) # NULL /\ Word(2) # NULL /\ Word(3) # NULL
      /\ {1, 2, 3, 4} \subseteq Nat \ {0}
  <2>1. Word(1) # NULL /\ Word(2) # NULL /\ Word(3) # NULL
    BY Zenon DEF FormatWords, NULL
  <2> QED  BY <2>1
<1>3. /\ Word(1) = Line.words[1] /\ Word(2) = Line.words[2] /\ Word(3) = Line.words[3]
      /\ 3 <= Len(Line.words) /\ ~(4 <= Len(Line.words))
  BY <1>2, LineIs
<1>4. Len(Line.words) = 3
  <2>1. 3 + 1 = 4 /\ 3 \in Nat
    OBVIOUS
  <2> QED  BY <1>1, <1>3, <2>1, Exactly
<1>5. Line.words = <<"format", Word(2), "1.0">>
  BY <1>1, <1>3, <1>4, Three
<1>6. SaysFormat(Line.words, Word(2))
  BY <1>5 DEF SaysFormat
<1> QED  BY <1>1, <1>6 DEF Wrong

LEMMA ElementRight ==
  ASSUME file \in Files, next \in Nat, next < Len(Lines), Word(1) = "element",
         Word(2) # NULL, Word(3) \in DOMAIN Numerals, Word(4) = NULL
  PROVE  /\ Len(Line.words) = 3 /\ Word(2) = Line.words[2] /\ Word(3) = Line.words[3]
         /\ Word(2) \in Words /\ Numerals[Word(3)] \in Nat
         /\ ~Wrong(Lines, next + 1)
<1>1. Line = Lines[next + 1] /\ Line.words \in Seq(Words) /\ Len(Line.words) \in Nat
  <2>1. Line = Lines[next + 1] /\ Line.words \in Seq(Words)
    BY LineIs
  <2> QED  BY <2>1
<1>2. DOMAIN Numerals = {"0", "1", "2"} /\ \A w \in DOMAIN Numerals : Numerals[w] \in Nat
  BY DEF Numerals
<1>3. /\ Word(1) # NULL /\ Word(2) # NULL /\ Word(3) # NULL
      /\ {1, 2, 3, 4} \subseteq Nat \ {0}
  <2>1. Word(1) # NULL /\ Word(2) # NULL
    BY Zenon DEF NULL
  <2>2. Word(3) # NULL
    BY <1>2, Zenon DEF NULL
  <2> QED  BY <2>1, <2>2
<1>4. /\ Word(1) = Line.words[1] /\ Word(2) = Line.words[2] /\ Word(3) = Line.words[3]
      /\ Word(2) \in Words /\ 3 <= Len(Line.words) /\ ~(4 <= Len(Line.words))
  BY <1>3, LineIs
<1>5. Len(Line.words) = 3
  <2>1. 3 + 1 = 4 /\ 3 \in Nat
    OBVIOUS
  <2> QED  BY <1>1, <1>4, <2>1, Exactly
<1> QED  BY <1>1, <1>2, <1>4, <1>5 DEF Wrong

\* The description that the parser makes of a property line.
Described ==
  LET list == Word(2) = "list"
      k    == IF list THEN 4 ELSE 2
  IN  [name |-> Word(k + 1), list |-> list, type |-> TypeOf(Word(k)),
       lengthType |-> IF list THEN TypeOf(Word(3)) ELSE "int8"]
RightProperty ==
  LET list == Word(2) = "list"
      k    == IF list THEN 4 ELSE 2
  IN  /\ list => IsType(Word(3)) /\ TypeOf(Word(3)) \notin Floats
      /\ IsType(Word(k)) /\ Word(k + 1) # NULL

LEMMA PropertyRight ==
  ASSUME file \in Files, next \in Nat, next < Len(Lines), Word(1) = "property", RightProperty,
         ElementOf(Lines, next + 1) > 0
  PROVE  /\ Described \in Properties
         /\ Word((IF Word(2) = "list" THEN 4 ELSE 2) + 2) = NULL =>
              SaysProperty(Line.words, Described) /\ ~Wrong(Lines, next + 1)
<1>1. Line = Lines[next + 1] /\ Line.words \in Seq(Words) /\ Len(Line.words) \in Nat
  <2>1. Line = Lines[next + 1] /\ Line.words \in Seq(Words)
    BY LineIs
  <2> QED  BY <2>1
<1>2. {1, 2, 3, 4, 5, 6} \subseteq Nat \ {0} /\ Word(1) # NULL
  <2>1. Word(1) # NULL
    BY Zenon DEF NULL
  <2> QED  BY <2>1
<1>3. Types \ Floats = Signed \cup Unsigned /\ "int8" \in Signed
  BY DEF Types, Floats, Signed, Unsigned
<1>4. CASE Word(2) = "list"
  <2>1. /\ IsType(Word(3)) /\ TypeOf(Word(3)) \notin Floats
        /\ IsType(Word(4)) /\ Word(5) # NULL
    BY <1>4 DEF RightProperty
  <2>2. /\ Described.name = Word(5) /\ Described.list = TRUE /\ Described.type = TypeOf(Word(4))
        /\ Described.lengthType = TypeOf(Word(3))
        /\ Described = [name |-> Described.name, list |-> Described.list,
                        type |-> Described.type, lengthType |-> Described.lengthType]
    <3>1. (Word(2) = "list") = TRUE /\ (IF Word(2) = "list" THEN 4 ELSE 2) = 4 /\ 4 + 1 = 5
      BY <1>4
    <3>2. Described = [name |-> Word(5), list |-> TRUE, type |-> TypeOf(Word(4)),
                       lengthType |-> TypeOf(Word(3))]
      BY <1>4, <3>1 DEF Described
    <3> QED  BY <3>2
  <2>3. 5 <= Len(Line.words) /\ Word(5) \in Words /\ Word(5) = Line.words[5]
    BY <1>2, <2>1, LineIs
  <2>4. /\ Word(1) # NULL /\ Word(2) # NULL /\ Word(3) # NULL /\ Word(4) # NULL
    <3>1. 1 <= Len(Line.words) /\ 2 <= Len(Line.words) /\ 3 <= Len(Line.words) /\ 4 <= Len(Line.words)
      BY <1>1, <2>3
    <3> QED  BY <1>2, <3>1, LineIs
  <2>5. /\ Word(1) = Line.words[1] /\ Word(2) = Line.words[2] /\ Word(3) = Line.words[3]
        /\ Word(4) = Line.words[4]
    BY <1>2, <2>4, LineIs
  <2>6. Described \in Properties
    BY <1>3, <2>1, <2>2, <2>3, TypeOfType DEF Properties, PropertiesNamed
  <2>7. ASSUME Word(6) = NULL PROVE SaysProperty(Line.words, Described) /\ Len(Line.words) = 5
    <3>1. ~(6 <= Len(Line.words))
      BY <1>2, <2>7, LineIs
    <3>2. Len(Line.words) = 5
      <4>1. 5 + 1 = 6 /\ 5 \in Nat
        OBVIOUS
      <4> QED  BY <1>1, <2>3, <3>1, <4>1, Exactly
    <3> QED  BY <1>4, <2>1, <2>2, <2>3, <2>5, <3>2 DEF SaysProperty
  <2>8. ASSUME Word(6) = NULL PROVE ~Wrong(Lines, next + 1)
    <3>1. Described \in PropertiesNamed(Range(Line.words))
      <4>1. 5 \in DOMAIN Line.words
        BY <1>1, <2>7, <2>8
      <4>2. Described.name \in Range(Line.words)
        BY <2>2, <2>3, <4>1 DEF Range
      <4> QED  BY <1>3, <2>1, <2>2, <4>2, TypeOfType DEF PropertiesNamed
    <3>2. SaysProperty(Lines[next + 1].words, Described) /\ Described \in PropertiesNamed(Range(Lines[next + 1].words))
      BY <1>1, <2>7, <2>8, <3>1
    <3> QED  BY <3>2 DEF Wrong
  <2> QED  BY <1>4, <2>6, <2>7, <2>8
<1>5. CASE Word(2) # "list"
  <2>1. IsType(Word(2)) /\ Word(3) # NULL
    BY <1>5 DEF RightProperty
  <2>2. /\ Described.name = Word(3) /\ Described.list = FALSE /\ Described.type = TypeOf(Word(2))
        /\ Described.lengthType = "int8"
        /\ Described = [name |-> Described.name, list |-> Described.list,
                        type |-> Described.type, lengthType |-> Described.lengthType]
    <3>1. (Word(2) = "list") = FALSE /\ (IF Word(2) = "list" THEN 4 ELSE 2) = 2 /\ 2 + 1 = 3
      BY <1>5
    <3>2. Described = [name |-> Word(3), list |-> FALSE, type |-> TypeOf(Word(2)),
                       lengthType |-> "int8"]
      BY <1>5, <3>1 DEF Described
    <3> QED  BY <3>2
  <2>3. 3 <= Len(Line.words) /\ Word(3) \in Words /\ Word(3) = Line.words[3]
    BY <1>2, <2>1, LineIs
  <2>4. Word(1) # NULL /\ Word(2) # NULL
    <3>1. 1 <= Len(Line.words) /\ 2 <= Len(Line.words)
      BY <1>1, <2>3
    <3> QED  BY <1>2, <3>1, LineIs
  <2>5. Word(1) = Line.words[1] /\ Word(2) = Line.words[2]
    BY <1>2, <2>4, LineIs
  <2>6. Described \in Properties
    BY <1>3, <2>1, <2>2, <2>3, TypeOfType DEF Properties, PropertiesNamed
  <2>7. ASSUME Word(4) = NULL PROVE SaysProperty(Line.words, Described) /\ Len(Line.words) = 3
    <3>1. ~(4 <= Len(Line.words))
      BY <1>2, <2>7, LineIs
    <3>2. Len(Line.words) = 3
      <4>1. 3 + 1 = 4 /\ 3 \in Nat
        OBVIOUS
      <4> QED  BY <1>1, <2>3, <3>1, <4>1, Exactly
    <3> QED  BY <1>5, <2>1, <2>2, <2>3, <2>5, <3>2 DEF SaysProperty
  <2>8. ASSUME Word(4) = NULL PROVE ~Wrong(Lines, next + 1)
    <3>1. Described \in PropertiesNamed(Range(Line.words))
      <4>1. 3 \in DOMAIN Line.words
        BY <1>1, <2>7, <2>8
      <4>2. Described.name \in Range(Line.words)
        BY <2>2, <2>3, <4>1 DEF Range
      <4> QED  BY <1>3, <2>1, <2>2, <4>2, TypeOfType DEF PropertiesNamed
    <3>2. SaysProperty(Lines[next + 1].words, Described) /\ Described \in PropertiesNamed(Range(Lines[next + 1].words))
      BY <1>1, <2>7, <2>8, <3>1
    <3> QED  BY <3>2 DEF Wrong
  <2> QED  BY <1>5, <2>6, <2>7, <2>8
<1> QED  BY <1>4, <1>5

-----------------------------------------------------------------------------
(* The invariant.                                                          *)

Counted(ls, word, n) == Cardinality({i \in 1 .. n : Keyword(ls[i]) = word})
NumberOf(word, n) == Counted(Lines, word, n)
Slots(es) == UNION {{e} \X (0 .. Len(es[e].props)) : e \in 1 .. Len(es)}

\* The descriptions lie where BlocksApart says, in any order: one ends before
\* the other begins.
Before(b, d) == b.base + b.size <= d.base
SpaceInv ==
  /\ Aligned(memoryBreak) /\ MinBuffer <= memoryBreak /\ memoryBreak <= AlignDown(memorySize)
  /\ IsFiniteSet(blocks)
  /\ \A b \in blocks : /\ Aligned(b.base) /\ b.size \in Nat /\ b.size > 0
                       /\ memoryBreak <= b.base /\ b.base + b.size <= memorySize
                       /\ \A d \in blocks \ {b} : Before(b, d) \/ Before(d, b)

\* What is known of the first k properties of the e-th element.
PartOf(e, k) ==
  [name |-> Kept(file.elements[e].name), tuples |-> file.elements[e].tuples,
   props |-> [p \in 1 .. k |-> [file.elements[e].props[p] EXCEPT !.name = Kept(@)]]]

\* The lines that were parsed are such as a header has, and took the memory
\* that they need.
Passed ==
  /\ next \in 0 .. Len(Lines)
  /\ \A i \in 1 .. next : ~Wrong(Lines, i) /\ Keyword(Lines[i]) # "end_header"
  /\ Len(elements) = ElementOf(Lines, next)
  /\ memoryBreak + SpaceNeeded(next) = AlignDown(memorySize) + MinBuffer
  /\ IsFiniteSet(Slots(elements)) /\ Cardinality(blocks) = Cardinality(Slots(elements))

\* What was learnt from them is what they say.
Learnt ==
  /\ format = IF \E i \in 1 .. next : Keyword(Lines[i]) = "format" THEN file.format ELSE "unknown"
  /\ \A e \in 1 .. Len(elements) :
       elements[e] = PartOf(e, Cardinality(PropertyLines(Lines, next, e)))

\* The same, when they were all parsed.
Complete ==
  /\ Readable(file)
  /\ next \in 1 .. Len(Lines) /\ Keyword(Lines[next]) = "end_header"
  /\ format = file.format
  /\ Len(elements) = Len(file.elements)
  /\ \A e \in 1 .. Len(elements) : elements[e] = PartOf(e, Len(file.elements[e].props))

Streaming == {"accepted", "advance", "read", "list", "done"}
HeaderInv ==
  /\ file \in Files /\ memorySize \in MemorySizes /\ elements \in Seq(Elements)
  /\ SpaceInv
  /\ pc = "start" => next = 0
  /\ pc = "lines" => Passed /\ (Readable(file) => Learnt)
  /\ pc \in Streaming => Complete

-----------------------------------------------------------------------------
(* The memory.                                                             *)

\* A reservation takes its room from below all that there is.
LEMMA ReserveKeeps ==
  ASSUME SpaceInv, memorySize \in MemorySizes, memorySize' = memorySize,
         NEW size \in Nat, size > 0, MayReserve(size), Reserve(size)
  PROVE  /\ SpaceInv'
         /\ Cardinality(blocks') = Cardinality(blocks) + 1
         /\ memoryBreak' = memoryBreak - AlignUp(size)
<1> DEFINE low == memoryBreak'
           new == [base |-> low, size |-> size]
<1>1. /\ low = AlignDown(memoryBreak - size) /\ blocks' = blocks \cup {new}
      /\ memoryBreak \in Int /\ memorySize \in Int /\ AlignDown(memorySize) \in Int
      /\ memoryBreak >= MinBuffer + size
  BY Constants, Down DEF Reserve, MayReserve, SpaceInv, Aligned
<1>2. Aligned(low) /\ low \in Int /\ low <= memoryBreak - size
  BY <1>1, Down DEF Aligned
<1>3. MinBuffer <= low
  <2>1. MinBuffer <= memoryBreak - size /\ memoryBreak - size \in Int
    BY <1>1, Constants
  <2> QED  BY <1>1, <2>1, Constants, Down
<1>4. /\ AlignDown(memorySize)' = AlignDown(memorySize)
      /\ AlignDown(memorySize) <= memorySize /\ memoryBreak <= AlignDown(memorySize)
  BY <1>1, Down DEF AlignDown, SpaceInv
<1> HIDE DEF low
<1>5. low <= memoryBreak /\ low <= AlignDown(memorySize) /\ low + size <= memorySize
  BY <1>1, <1>2, <1>4
<1>6. new.base = low /\ new.size = size
  OBVIOUS
<1>7. \A b \in blocks : /\ b.base \in Int /\ b.size \in Nat /\ b.size > 0
                        /\ memoryBreak <= b.base /\ b.base + b.size <= memorySize
  BY DEF SpaceInv, Aligned
<1>8. \A b \in blocks : low <= b.base /\ low + size <= b.base /\ low # b.base
  BY <1>1, <1>2, <1>7
<1>9. new \notin blocks
  BY <1>6, <1>8
<1>10. \A b \in blocks : Before(new, b)
  BY <1>6, <1>8 DEF Before
<1>11. IsFiniteSet(blocks') /\ Cardinality(blocks') = Cardinality(blocks) + 1
  BY <1>1, <1>9, FS_AddElement DEF SpaceInv
<1> HIDE DEF new
<1>12. ASSUME NEW b \in blocks'
       PROVE  /\ Aligned(b.base) /\ b.size \in Nat /\ b.size > 0
              /\ low <= b.base /\ b.base + b.size <= memorySize
              /\ \A d \in blocks' \ {b} : Before(b, d) \/ Before(d, b)
  <2>1. CASE b \in blocks
    <3>1. \A d \in blocks \ {b} : Before(b, d) \/ Before(d, b)
      BY <2>1 DEF SpaceInv
    <3> QED  BY <1>1, <1>7, <1>8, <1>10, <2>1, <3>1 DEF SpaceInv
  <2>2. CASE b = new
    BY <1>1, <1>2, <1>5, <1>6, <1>10, <2>2
  <2> QED  BY <1>1, <2>1, <2>2
<1>13. SpaceInv'
  <2>1. Aligned(low) /\ MinBuffer <= low /\ low <= AlignDown(memorySize)'
    BY <1>2, <1>3, <1>4, <1>5
  <2>2. low = memoryBreak'
    BY DEF low
  <2>3. \A b \in blocks' : Aligned(b.base)' = Aligned(b.base)
    BY DEF Aligned
  <2> QED  BY <1>11, <1>12, <2>1, <2>2, <2>3 DEF SpaceInv, Aligned, Before
<1>14. low = memoryBreak - AlignUp(size)
  BY <1>1, DownUp DEF SpaceInv
<1> QED  BY <1>11, <1>13, <1>14 DEF low

LEMMA ForgetFrees ==
  ASSUME memorySize \in MemorySizes, memorySize' = memorySize, Forget
  PROVE  /\ SpaceInv' /\ blocks' = {} /\ elements' = <<>> /\ format' = "unknown"
         /\ memoryBreak' = AlignDown(memorySize)
<1>1. memorySize \in Int /\ MinBuffer <= memorySize
  BY Constants
<1>2. Aligned(AlignDown(memorySize)) /\ MinBuffer <= AlignDown(memorySize)
  BY <1>1, Constants, Down
<1>3. memoryBreak' = AlignDown(memorySize) /\ blocks' = {}
  BY DEF Forget
<1>4. AlignDown(memorySize)' = AlignDown(memorySize) /\ AlignDown(memorySize) \in Int
  BY <1>2 DEF AlignDown, Aligned
<1>5. Aligned(memoryBreak') /\ MinBuffer <= memoryBreak' /\ memoryBreak' <= AlignDown(memorySize)'
  BY <1>2, <1>3, <1>4
<1>6. IsFiniteSet(blocks')
  BY <1>3, FS_EmptySet
<1>7. SpaceInv'
  BY <1>3, <1>5, <1>6 DEF SpaceInv, Aligned
<1> QED  BY <1>7 DEF Forget

\* The lines that need memory, counted one after the other.
LEMMA CountStep ==
  ASSUME NEW ls, NEW n \in Nat, NEW word
  PROVE  /\ Counted(ls, word, n) \in Nat
         /\ Counted(ls, word, n + 1) =
              Counted(ls, word, n) + (IF Keyword(ls[n + 1]) = word THEN 1 ELSE 0)
<1> DEFINE R == {j \in 1 .. n : Keyword(ls[j]) = word}
           S == {j \in 1 .. n + 1 : Keyword(ls[j]) = word}
<1>1. S \in SUBSET (1 .. n + 1) /\ IsFiniteSet(1 .. n + 1)
  BY FS_Interval
<1>2. n + 1 \in S <=> Keyword(ls[n + 1]) = word
  OBVIOUS
<1>3. R = S \ {n + 1}
  OBVIOUS
<1>4. Counted(ls, word, n) = Cardinality(R) /\ Counted(ls, word, n + 1) = Cardinality(S)
  BY DEF Counted
<1> HIDE DEF R, S
<1>5. IsFiniteSet(S)
  BY <1>1, FS_Subset
<1>6. /\ IsFiniteSet(R)
      /\ Cardinality(R) = IF n + 1 \in S THEN Cardinality(S) - 1 ELSE Cardinality(S)
  BY <1>3, <1>5, FS_RemoveElement
<1>7. Cardinality(R) \in Nat /\ Cardinality(S) \in Nat
  BY <1>5, <1>6, FS_CardinalityType
<1> QED  BY <1>2, <1>4, <1>6, <1>7

LEMMA NumberStep ==
  ASSUME NEW n \in Nat, NEW word
  PROVE  /\ NumberOf(word, n) \in Nat
         /\ NumberOf(word, n + 1) = NumberOf(word, n) + (IF Keyword(Lines[n + 1]) = word THEN 1 ELSE 0)
BY CountStep DEF NumberOf

SpaceOf(n) == CASE Keyword(Lines[n]) = "element" -> AlignUp(ElementSize)
                [] Keyword(Lines[n]) = "property" -> AlignUp(PropertySize)
                [] OTHER -> 0

LEMMA SpaceStep ==
  ASSUME NEW n \in Nat
  PROVE  /\ SpaceNeeded(n) \in Int /\ SpaceNeeded(n + 1) = SpaceNeeded(n) + SpaceOf(n + 1)
         /\ SpaceOf(n + 1) \in Int
<1> DEFINE e == NumberOf("element", n)
           p == NumberOf("property", n)
           e1 == NumberOf("element", n + 1)
           p1 == NumberOf("property", n + 1)
           u == AlignUp(ElementSize)
           v == AlignUp(PropertySize)
           isE == Keyword(Lines[n + 1]) = "element"
           isP == Keyword(Lines[n + 1]) = "property"
<1>1. /\ SpaceNeeded(n) = MinBuffer + e * u + p * v
      /\ SpaceNeeded(n + 1) = MinBuffer + e1 * u + p1 * v
  BY DEF SpaceNeeded, NumberOf, Counted
<1>2. e \in Nat /\ p \in Nat /\ e1 = e + (IF isE THEN 1 ELSE 0) /\ p1 = p + (IF isP THEN 1 ELSE 0)
  BY NumberStep
<1>3. u \in Int /\ v \in Int /\ MinBuffer \in Int
  BY Up, Constants DEF Aligned
<1>4. SpaceOf(n + 1) = IF isE THEN u ELSE IF isP THEN v ELSE 0
  BY DEF SpaceOf
<1>5. isE => ~isP
  OBVIOUS
<1> HIDE DEF e, p, e1, p1, u, v, isE, isP
<1>6. /\ e * u \in Int /\ p * v \in Int
      /\ (e + 1) * u = e * u + u /\ (p + 1) * v = p * v + v
  BY <1>2, <1>3
<1>7. /\ e1 * u = e * u + (IF isE THEN u ELSE 0)
      /\ p1 * v = p * v + (IF isP THEN v ELSE 0)
  BY <1>2, <1>3, <1>6
<1> QED  BY <1>1, <1>3, <1>4, <1>5, <1>6, <1>7

LEMMA SpaceStart == SpaceNeeded(0) = MinBuffer
<1>1. 1 .. 0 = {}
  OBVIOUS
<1>2. NumberOf("element", 0) = 0 /\ NumberOf("property", 0) = 0
  BY <1>1, FS_EmptySet DEF NumberOf, Counted
<1>3. SpaceNeeded(0) = MinBuffer + NumberOf("element", 0) * AlignUp(ElementSize)
                                 + NumberOf("property", 0) * AlignUp(PropertySize)
  BY DEF SpaceNeeded, NumberOf, Counted
<1>4. AlignUp(ElementSize) \in Int /\ AlignUp(PropertySize) \in Int /\ MinBuffer \in Int
  BY Up, Constants DEF Aligned
<1>5. \A u, v \in Int : MinBuffer + 0 * u + 0 * v = MinBuffer
  BY <1>4
<1> QED  BY <1>2, <1>3, <1>4, <1>5

-----------------------------------------------------------------------------
(* One description for each element and each property.                     *)

LEMMA SlotsOfNone == Slots(<<>>) = {}
BY DEF Slots

LEMMA SlotsAppend ==
  ASSUME NEW es \in Seq(Elements), NEW e \in Elements, e.props = <<>>, IsFiniteSet(Slots(es))
  PROVE  /\ IsFiniteSet(Slots(Append(es, e)))
         /\ Cardinality(Slots(Append(es, e))) = Cardinality(Slots(es)) + 1
<1> DEFINE n == Len(es)
           fs == Append(es, e)
           new == <<n + 1, 0>>
<1>1. /\ n \in Nat /\ Len(fs) = n + 1 /\ fs[n + 1] = e
      /\ \A i \in 1 .. n : fs[i] = es[i]
      /\ n + 1 \in 1 .. n + 1 /\ \A i \in 1 .. n + 1 : i \in 1 .. n \/ i = n + 1
      /\ \A i \in 1 .. n : i \in 1 .. n + 1 /\ i # n + 1
  OBVIOUS
<1>2. 0 .. Len(e.props) = {0}
  OBVIOUS
<1> HIDE DEF n, fs
<1>3. Slots(es) = UNION {{i} \X (0 .. Len(es[i].props)) : i \in 1 .. n}
  BY DEF Slots, n
<1>4. Slots(fs) = UNION {{i} \X (0 .. Len(fs[i].props)) : i \in 1 .. n + 1}
  BY <1>1 DEF Slots
<1>5. \A s : s \in Slots(fs) <=> s \in Slots(es) \/ s = new
  <2>1. \A s : s \in Slots(fs) <=> \E i \in 1 .. n + 1 : s \in {i} \X (0 .. Len(fs[i].props))
    BY <1>4
  <2>2. \A s : s \in Slots(es) <=> \E i \in 1 .. n : s \in {i} \X (0 .. Len(es[i].props))
    BY <1>3
  <2>3. \A s : s \in {n + 1} \X (0 .. Len(fs[n + 1].props)) <=> s = new
    BY <1>1, <1>2
  <2>4. ASSUME NEW s PROVE s \in Slots(fs) <=> s \in Slots(es) \/ s = new
    BY <1>1, <2>1, <2>2, <2>3
  <2> QED  BY <2>4
<1>6. new \notin Slots(es)
  <2>1. \A i \in 1 .. n : new \notin {i} \X (0 .. Len(es[i].props))
    BY <1>1
  <2> QED  BY <1>3, <2>1
<1>7. Slots(fs) = Slots(es) \cup {new}
  BY <1>5
<1> QED  BY <1>6, <1>7, FS_AddElement DEF fs

LEMMA OneMoreProperty ==
  ASSUME NEW e \in Elements, NEW p \in Properties
  PROVE  /\ AddProperty(e, p) \in Elements
         /\ AddProperty(e, p) = [e EXCEPT !.props = Append(@, p)]
         /\ AddProperty(e, p).props = Append(e.props, p)
<1>1. e.props \in Seq(Properties) /\ Append(e.props, p) \in Seq(Properties)
  BY DEF Elements
<1> DEFINE q == Append(e.props, p)
<1>2. AddProperty(e, p) = [e EXCEPT !.props = q]
  BY DEF AddProperty
<1> HIDE DEF q
<1>3. [e EXCEPT !.props = q] \in Elements /\ [e EXCEPT !.props = q].props = q
  BY <1>1 DEF Elements, q
<1> QED  BY <1>2, <1>3 DEF q

LEMMA SlotsExtend ==
  ASSUME NEW es \in Seq(Elements), es # <<>>, NEW p \in Properties, IsFiniteSet(Slots(es)),
         NEW fs, fs = [es EXCEPT ![Len(es)] = AddProperty(@, p)]
  PROVE  /\ fs \in Seq(Elements) /\ Len(fs) = Len(es)
         /\ \A i \in 1 .. Len(es) - 1 : fs[i] = es[i]
         /\ fs[Len(es)] = [es[Len(es)] EXCEPT !.props = Append(@, p)]
         /\ IsFiniteSet(Slots(fs)) /\ Cardinality(Slots(fs)) = Cardinality(Slots(es)) + 1
<1> DEFINE n == Len(es)
           k == Len(es[n].props)
           new == <<n, k + 1>>
<1>1. n \in Nat /\ n \in 1 .. n /\ es[n] \in Elements /\ es[n].props \in Seq(Properties) /\ k \in Nat
  <2>1. n \in Nat /\ n \in 1 .. n /\ es[n] \in Elements
    OBVIOUS
  <2> QED  BY <2>1 DEF Elements
<1>2. /\ AddProperty(es[n], p) \in Elements
      /\ AddProperty(es[n], p) = [es[n] EXCEPT !.props = Append(@, p)]
      /\ AddProperty(es[n], p).props = Append(es[n].props, p)
  BY <1>1, OneMoreProperty
<1>3. Len(AddProperty(es[n], p).props) = k + 1
  BY <1>1, <1>2
<1>4. /\ fs \in Seq(Elements) /\ Len(fs) = n /\ fs[n] = AddProperty(es[n], p)
      /\ \A i \in 1 .. n - 1 : fs[i] = es[i]
  <2> DEFINE e == AddProperty(es[n], p)
  <2>1. fs = [es EXCEPT ![n] = e] /\ e \in Elements
    BY <1>2 DEF AddProperty
  <2> HIDE DEF e
  <2>2. /\ fs \in Seq(Elements) /\ Len(fs) = n /\ fs[n] = e
        /\ \A i \in 1 .. n - 1 : fs[i] = es[i]
    BY <1>1, <2>1
  <2> QED  BY <2>2 DEF e
<1> HIDE DEF n, k
<1>5. /\ Slots(es) = UNION {{i} \X (0 .. Len(es[i].props)) : i \in 1 .. n}
      /\ Slots(fs) = UNION {{i} \X (0 .. Len(fs[i].props)) : i \in 1 .. n}
  BY <1>4 DEF Slots, n
<1>6. \A i \in 1 .. n : i \in 1 .. n - 1 \/ i = n
  BY <1>1
<1>7. \A i \in 1 .. n - 1 : i \in 1 .. n /\ i # n
  BY <1>1
<1>8. \A j : j \in 0 .. k + 1 <=> j \in 0 .. k \/ j = k + 1
  BY <1>1
<1>9. \A s : s \in {n} \X (0 .. k + 1) <=> s \in {n} \X (0 .. k) \/ s = new
  BY <1>8
<1>10. Len(es[n].props) = k /\ Len(fs[n].props) = k + 1
  BY <1>3, <1>4 DEF k
<1>11. \A s : s \in Slots(fs) <=> s \in Slots(es) \/ s = new
  <2>1. \A s : s \in Slots(fs) <=> \E i \in 1 .. n : s \in {i} \X (0 .. Len(fs[i].props))
    BY <1>5
  <2>2. \A s : s \in Slots(es) <=> \E i \in 1 .. n : s \in {i} \X (0 .. Len(es[i].props))
    BY <1>5
  <2>3. \A i \in 1 .. n - 1 : {i} \X (0 .. Len(fs[i].props)) = {i} \X (0 .. Len(es[i].props))
    BY <1>4
  <2>4. ASSUME NEW s PROVE s \in Slots(fs) <=> s \in Slots(es) \/ s = new
    BY <1>1, <1>6, <1>7, <1>9, <1>10, <2>1, <2>2, <2>3
  <2> QED  BY <2>4
<1>12. new \notin Slots(es)
  <2>1. k + 1 \notin 0 .. k
    BY <1>1
  <2>2. \A i \in 1 .. n : new \in {i} \X (0 .. Len(es[i].props)) => i = n /\ k + 1 \in 0 .. k
    BY <1>10
  <2> QED  BY <1>5, <2>1, <2>2
<1>13. Slots(fs) = Slots(es) \cup {new}
  BY <1>11
<1> QED  BY <1>2, <1>4, <1>12, <1>13, FS_AddElement DEF n

-----------------------------------------------------------------------------
(* What the lines of a readable file say.                                  *)

LEMMA KeptIsWord ==
  ASSUME NEW name \in Words
  PROVE  Kept(name) \in Words
BY HeaderAssumption DEF HeaderAssumption, Kept

KeptProperty(p) == [p EXCEPT !.name = Kept(@)]
LEMMA KeptIsProperty ==
  ASSUME NEW p \in Properties
  PROVE  KeptProperty(p) \in Properties
<1>1. Kept(p.name) \in Words
  BY KeptIsWord DEF Properties, PropertiesNamed
<1> QED  BY <1>1 DEF KeptProperty, Properties, PropertiesNamed

LEMMA WhatIsSaid ==
  ASSUME file \in Files, Readable(file), next \in Nat, next < Len(Lines),
         Word(1) \in {"format", "element", "property"},
         NEW e, e = ElementOf(Lines, next + 1),
         NEW p, p = Cardinality(PropertyLines(Lines, next + 1, e))
  PROVE  /\ Word(1) = "format" => SaysFormat(Line.words, file.format)
         /\ Word(1) = "element" => SaysElement(Line.words, file.elements[e])
         /\ Word(1) = "property" => e > 0 /\ SaysProperty(Line.words, file.elements[e].props[p])
<1>1. /\ Line = Lines[next + 1] /\ Keyword(Line) = Word(1) /\ next + 1 \in 1 .. Len(Lines)
      /\ Lines = file.lines /\ Lines \in Seq(HeaderLines)
  BY LineIs, FileIs DEF Lines
<1>2. Line.words # <<>> /\ Word(1) = Line.words[1]
  <2>1. Word(1) # ""
    BY Zenon
  <2> QED  BY <1>1, <2>1 DEF Keyword
<1>3. Describes(Lines, file.format, file.elements)
  BY <1>1, FileIs
<1>4. Keyword(Lines[Len(Lines)]) = "end_header"
  BY <1>3 DEF Describes
<1>5. next + 1 # Len(Lines)
  BY <1>1, <1>4
<1>6. next + 1 \in 1 .. Len(Lines) - 1
  BY <1>1, <1>5
<1>7. \/ Keyword(Line) = "comment"
      \/ SaysFormat(Line.words, file.format)
      \/ SaysElement(Line.words, file.elements[e])
      \/ e > 0 /\ SaysProperty(Line.words, file.elements[e].props[p])
  BY <1>1, <1>3, <1>6 DEF Describes
<1>8. SaysFormat(Line.words, file.format) => Line.words[1] = "format"
  BY DEF SaysFormat
<1>9. SaysElement(Line.words, file.elements[e]) => Line.words[1] = "element"
  BY DEF SaysElement
<1>10. SaysProperty(Line.words, file.elements[e].props[p]) => Line.words[1] = "property"
  BY DEF SaysProperty
<1> QED  BY <1>1, <1>2, <1>7, <1>8, <1>9, <1>10

\* The e-th element line, and the p-th property line after it, tell of what the
\* file has.
LEMMA TellsOf ==
  ASSUME file \in Files, Readable(file), NEW n \in Nat, n <= Len(Lines),
         NEW e \in Nat, e > 0, e <= ElementOf(Lines, n),
         NEW p \in Nat, p <= Cardinality(PropertyLines(Lines, n, e))
  PROVE  /\ e \in 1 .. Len(file.elements) /\ file.elements[e] \in Elements
         /\ p > 0 => p \in 1 .. Len(file.elements[e].props) /\ file.elements[e].props[p] \in Properties
<1>1. Lines = file.lines /\ Lines \in Seq(HeaderLines) /\ file.elements \in Seq(Elements)
  BY FileIs DEF Lines
<1>2. /\ Len(file.elements) = ElementOf(Lines, Len(Lines))
      /\ \A i \in 1 .. Len(file.elements) :
           Len(file.elements[i].props) = Cardinality(PropertyLines(Lines, Len(Lines), i))
  BY <1>1, FileIs DEF Describes
<1>3. Len(Lines) \in Nat
  BY <1>1
<1>4. ElementOf(Lines, n) \in Nat /\ ElementOf(Lines, n) <= ElementOf(Lines, Len(Lines))
  BY <1>3, ElementsGrow, ElementCount
<1>5. e \in 1 .. Len(file.elements)
  BY <1>1, <1>2, <1>4
<1>6. file.elements[e] \in Elements
  BY <1>1, <1>5
<1>7. /\ Cardinality(PropertyLines(Lines, n, e)) <= Len(file.elements[e].props)
      /\ Cardinality(PropertyLines(Lines, n, e)) \in Nat
  <2>1. Cardinality(PropertyLines(Lines, n, e)) <= Cardinality(PropertyLines(Lines, Len(Lines), e))
    BY <1>3, PropertiesGrow
  <2>2. Cardinality(PropertyLines(Lines, n, e)) \in Nat
    BY PropertyCount
  <2> QED  BY <1>2, <1>5, <2>1, <2>2
<1>8. file.elements[e].props \in Seq(Properties)
  BY <1>6 DEF Elements
<1>9. p > 0 => p \in 1 .. Len(file.elements[e].props)
  BY <1>7, <1>8
<1> QED  BY <1>5, <1>6, <1>8, <1>9

\* Only the property that the parser makes of a line is what the line says.
LEMMA OnlyDescribed ==
  ASSUME file \in Files, next \in Nat, next < Len(Lines),
         NEW p \in Properties, SaysProperty(Line.words, p)
  PROVE  p = Described
<1>1. /\ {1, 2, 3, 4, 5} \subseteq Nat \ {0} /\ p.list \in BOOLEAN
      /\ p = [name |-> p.name, list |-> p.list, type |-> p.type, lengthType |-> p.lengthType]
  BY DEF Properties, PropertiesNamed
<1>2. CASE p.list
  <2>1. /\ Len(Line.words) = 5 /\ Line.words[2] = "list" /\ Line.words[5] = p.name
        /\ p.lengthType = TypeOf(Line.words[3]) /\ p.type = TypeOf(Line.words[4])
    BY <1>2 DEF SaysProperty
  <2>2. 2 <= Len(Line.words) /\ 3 <= Len(Line.words) /\ 4 <= Len(Line.words) /\ 5 <= Len(Line.words)
    BY <2>1
  <2>3. /\ Word(2) = "list" /\ Word(3) = Line.words[3] /\ Word(4) = Line.words[4]
        /\ Word(5) = Line.words[5]
    BY <1>1, <2>1, <2>2, LineIs
  <2>4. (Word(2) = "list") = TRUE /\ (IF Word(2) = "list" THEN 4 ELSE 2) = 4 /\ 4 + 1 = 5
    BY <2>3
  <2>5. Described = [name |-> Word(5), list |-> TRUE, type |-> TypeOf(Word(4)),
                     lengthType |-> TypeOf(Word(3))]
    BY <2>3, <2>4 DEF Described
  <2>6. p.list = TRUE
    BY <1>1, <1>2
  <2> QED  BY <1>1, <2>1, <2>3, <2>5, <2>6
<1>3. CASE ~p.list
  <2>1. /\ Len(Line.words) = 3 /\ IsType(Line.words[2]) /\ Line.words[3] = p.name
        /\ p.type = TypeOf(Line.words[2]) /\ p.lengthType = "int8"
    BY <1>3 DEF SaysProperty
  <2>2. 2 <= Len(Line.words) /\ 3 <= Len(Line.words)
    BY <2>1
  <2>3. Word(2) = Line.words[2] /\ Word(3) = Line.words[3]
    BY <1>1, <2>2, LineIs
  <2>4. Word(2) # "list"
    BY <2>1, <2>3, TypeOfType
  <2>5. (Word(2) = "list") = FALSE /\ (IF Word(2) = "list" THEN 4 ELSE 2) = 2 /\ 2 + 1 = 3
    BY <2>4
  <2>6. Described = [name |-> Word(3), list |-> FALSE, type |-> TypeOf(Word(2)),
                     lengthType |-> "int8"]
    BY <2>4, <2>5 DEF Described
  <2>7. p.list = FALSE
    BY <1>1, <1>3
  <2> QED  BY <1>1, <2>1, <2>3, <2>6, <2>7
<1> QED  BY <1>2, <1>3

-----------------------------------------------------------------------------
(* One line after the other.                                               *)

\* The facts that each line needs.
LEMMA AtLineIs ==
  ASSUME HeaderInv, pc = "lines", next < Len(Lines)
  PROVE  /\ file \in Files /\ memorySize \in MemorySizes /\ elements \in Seq(Elements)
         /\ SpaceInv /\ Passed /\ (Readable(file) => Learnt)
         /\ next \in Nat /\ next + 1 \in 1 .. Len(Lines) /\ Len(Lines) \in Nat
         /\ Line = Lines[next + 1] /\ Keyword(Line) = Word(1)
<1>1. /\ file \in Files /\ memorySize \in MemorySizes /\ elements \in Seq(Elements)
      /\ SpaceInv /\ Passed /\ (Readable(file) => Learnt)
  BY DEF HeaderInv
<1>2. Len(Lines) \in Nat
  <2>1. Lines \in Seq(HeaderLines)
    BY <1>1, FileIs DEF Lines
  <2> QED  BY <2>1
<1>3. next \in Nat
  <2>1. next \in 0 .. Len(Lines)
    BY <1>1 DEF Passed
  <2> QED  BY <1>2, <2>1
<1> QED  BY <1>1, <1>2, <1>3, LineIs

LEMMA PassedOn ==
  ASSUME HeaderInv, pc = "lines", next < Len(Lines),
         file' = file, memorySize' = memorySize, next' = next + 1,
         ~Wrong(Lines, next + 1), Word(1) # "end_header",
         Len(elements') = Len(elements) + (IF Word(1) = "element" THEN 1 ELSE 0),
         memoryBreak' = memoryBreak - SpaceOf(next + 1),
         IsFiniteSet(Slots(elements')), Cardinality(blocks') = Cardinality(Slots(elements'))
  PROVE  Passed'
<1>1. /\ Passed /\ next \in Nat /\ next + 1 \in 1 .. Len(Lines) /\ Len(Lines) \in Nat
      /\ Keyword(Lines[next + 1]) = Word(1) /\ memorySize \in MemorySizes /\ SpaceInv
  BY AtLineIs
<1>2. Lines' = Lines /\ AlignDown(memorySize)' = AlignDown(memorySize)
  BY DEF Lines, AlignDown
<1>3. \A i \in 1 .. next + 1 : i \in 1 .. next \/ i = next + 1
  BY <1>1
<1>4. \A i \in 1 .. next + 1 : ~Wrong(Lines, i) /\ Keyword(Lines[i]) # "end_header"
  BY <1>1, <1>3 DEF Passed
<1>5. Len(elements') = ElementOf(Lines, next + 1)
  <2>1. ElementOf(Lines, next + 1) = ElementOf(Lines, next) + (IF Word(1) = "element" THEN 1 ELSE 0)
    BY <1>1, ElementCount
  <2>2. Len(elements) = ElementOf(Lines, next)
    BY <1>1 DEF Passed
  <2> QED  BY <2>1, <2>2
<1>6. memoryBreak' + SpaceNeeded(next + 1) = AlignDown(memorySize) + MinBuffer
  <2>1. /\ SpaceNeeded(next) \in Int /\ SpaceNeeded(next + 1) = SpaceNeeded(next) + SpaceOf(next + 1)
        /\ SpaceOf(next + 1) \in Int /\ memoryBreak \in Int
    BY <1>1, SpaceStep DEF SpaceInv, Aligned
  <2> QED  BY <1>1, <2>1 DEF Passed
<1>7. SpaceNeeded(next)' = SpaceNeeded(next + 1)
  BY <1>2 DEF SpaceNeeded
<1>8. next' \in 0 .. Len(Lines)
  BY <1>1
<1>9. IsFiniteSet(Slots(elements))' /\ (Cardinality(blocks) = Cardinality(Slots(elements)))'
  BY DEF Slots
<1>10. (\A i \in 1 .. next : ~Wrong(Lines, i) /\ Keyword(Lines[i]) # "end_header")'
  BY <1>2, <1>4
<1> QED  BY <1>2, <1>5, <1>6, <1>7, <1>8, <1>9, <1>10 DEF Passed

\* A line that describes nothing leaves what was learnt of the descriptions.
LEMMA LearntSame ==
  ASSUME HeaderInv, pc = "lines", next < Len(Lines), Readable(file),
         file' = file, elements' = elements, next' = next + 1,
         Word(1) \notin {"element", "property"},
         IF Word(1) = "format" THEN format' = file.format ELSE format' = format
  PROVE  Learnt'
<1>1. /\ Learnt /\ next \in Nat /\ Lines' = Lines
      /\ Keyword(Lines[next + 1]) = Word(1)
  <2>1. Lines' = Lines
    BY DEF Lines
  <2> QED  BY <2>1, AtLineIs
<1>2. \A i \in 1 .. next + 1 : i \in 1 .. next \/ i = next + 1
  BY <1>1
<1>3. next + 1 \in 1 .. next + 1 /\ \A i \in 1 .. next : i \in 1 .. next + 1
  BY <1>1
<1>4. format' = IF \E i \in 1 .. next + 1 : Keyword(Lines[i]) = "format" THEN file.format ELSE "unknown"
  BY <1>1, <1>2, <1>3 DEF Learnt
<1>5. ASSUME NEW e \in 1 .. Len(elements)
      PROVE  elements[e] = PartOf(e, Cardinality(PropertyLines(Lines, next + 1, e)))
  <2>1. Cardinality(PropertyLines(Lines, next + 1, e)) = Cardinality(PropertyLines(Lines, next, e))
    BY <1>1, PropertyCount
  <2> QED  BY <1>1, <2>1 DEF Learnt
<1>6. \A e, k : PartOf(e, k)' = PartOf(e, k')
  BY DEF PartOf
<1> QED  BY <1>1, <1>4, <1>5, <1>6 DEF Learnt

\* What does not touch the memory leaves it as it is.
LEMMA SpaceSame ==
  ASSUME SpaceInv, memorySize' = memorySize, memoryBreak' = memoryBreak, blocks' = blocks
  PROVE  SpaceInv'
BY DEF SpaceInv, Aligned, AlignDown, Before

LEMMA LineTaken ==
  ASSUME HeaderInv, pc = "lines", next < Len(Lines), GetLine
  PROVE  next' = next + 1
BY DEF GetLine

LEMMA FormatStep ==
  ASSUME HeaderInv, FormatLine
  PROVE  HeaderInv'
<1>1. /\ pc = "lines" /\ next < Len(Lines) /\ Word(1) = "format" /\ next' = next + 1
      /\ file' = file /\ memorySize' = memorySize /\ elements' = elements
      /\ memoryBreak' = memoryBreak /\ blocks' = blocks
      /\ pc' \in {"lines", "error"}
      /\ pc' = "lines" => Word(2) \in FormatWords /\ Word(3) = "1.0" /\ Word(4) = NULL
      /\ Word(2) \in FormatWords => format' = Word(2)
  <2>1. 3 + 1 = 4
    OBVIOUS
  <2> QED  BY <2>1 DEF FormatLine, AtLine, GetLine, GoOn, setup
<1>2. /\ file \in Files /\ memorySize \in MemorySizes /\ elements \in Seq(Elements)
      /\ SpaceInv /\ Passed /\ (Readable(file) => Learnt) /\ next \in Nat
      /\ Line = Lines[next + 1] /\ Keyword(Line) = Word(1)
  BY <1>1, AtLineIs
<1>3. SpaceInv'
  BY <1>1, <1>2, SpaceSame
<1>4. ASSUME pc' = "lines" PROVE Passed' /\ (Readable(file)' => Learnt')
  <2>1. SaysFormat(Line.words, Word(2)) /\ ~Wrong(Lines, next + 1)
    BY <1>1, <1>2, <1>4, FormatRight
  <2>2. SpaceOf(next + 1) = 0 /\ memoryBreak \in Int
    <3>1. Keyword(Lines[next + 1]) = "format"
      BY <1>1, <1>2
    <3> QED  BY <1>2, <3>1 DEF SpaceOf, SpaceInv, Aligned
  <2>3. Passed'
    <3>1. IsFiniteSet(Slots(elements')) /\ Cardinality(blocks') = Cardinality(Slots(elements'))
      BY <1>1, <1>2 DEF Passed
    <3>2. /\ Len(elements') = Len(elements) + (IF Word(1) = "element" THEN 1 ELSE 0)
          /\ memoryBreak' = memoryBreak - SpaceOf(next + 1)
      BY <1>1, <1>2, <2>2
    <3>3. Word(1) # "end_header"
      BY <1>1
    <3> QED  BY <1>1, <2>1, <3>1, <3>2, <3>3, PassedOn
  <2>4. ASSUME Readable(file) PROVE Learnt'
    <3>1. SaysFormat(Line.words, file.format)
      BY <1>1, <1>2, <2>4, WhatIsSaid
    <3>2. Word(2) = file.format
      <4>1. Line.words = <<"format", Word(2), "1.0">> /\ Line.words = <<"format", file.format, "1.0">>
        BY <2>1, <3>1 DEF SaysFormat
      <4> QED  BY <4>1
    <3>3. format' = file.format
      BY <1>1, <1>4, <3>2
    <3>4. Word(1) \notin {"element", "property"}
      BY <1>1
    <3> QED  BY <1>1, <2>4, <3>3, <3>4, LearntSame
  <2> QED  BY <1>1, <2>3, <2>4 DEF Readable
<1> QED  BY <1>1, <1>2, <1>3, <1>4 DEF HeaderInv, Streaming

LEMMA OtherStep ==
  ASSUME HeaderInv, OtherLine
  PROVE  HeaderInv'
<1>1. /\ pc = "lines" /\ next < Len(Lines) /\ Word(1) \notin {"format", "element", "property"}
      /\ next' = next + 1
      /\ file' = file /\ memorySize' = memorySize /\ elements' = elements
      /\ memoryBreak' = memoryBreak /\ blocks' = blocks /\ format' = format
      /\ pc' = "lines" => Word(1) = "comment"
      /\ pc' = "accepted" => Word(1) = "end_header"
      /\ pc' \in {"lines", "accepted", "error"}
  BY DEF OtherLine, GetLine, setup, learnt
<1>2. /\ file \in Files /\ memorySize \in MemorySizes /\ elements \in Seq(Elements)
      /\ SpaceInv /\ Passed /\ (Readable(file) => Learnt) /\ next \in Nat
      /\ next + 1 \in 1 .. Len(Lines) /\ Len(Lines) \in Nat
      /\ Line = Lines[next + 1] /\ Keyword(Line) = Word(1)
  BY <1>1, AtLineIs
<1>3. SpaceInv'
  BY <1>1, <1>2, SpaceSame
<1>4. ASSUME pc' = "lines" PROVE Passed' /\ (Readable(file)' => Learnt')
  <2>1. Word(1) = "comment" /\ ~Wrong(Lines, next + 1)
    BY <1>1, <1>2, <1>4 DEF Wrong
  <2>2. SpaceOf(next + 1) = 0 /\ memoryBreak \in Int
    <3>1. Keyword(Lines[next + 1]) = "comment"
      BY <1>2, <2>1
    <3> QED  BY <1>2, <3>1 DEF SpaceOf, SpaceInv, Aligned
  <2>3. Passed'
    <3>1. IsFiniteSet(Slots(elements')) /\ Cardinality(blocks') = Cardinality(Slots(elements'))
      BY <1>1, <1>2 DEF Passed
    <3>2. /\ Len(elements') = Len(elements) + (IF Word(1) = "element" THEN 1 ELSE 0)
          /\ memoryBreak' = memoryBreak - SpaceOf(next + 1)
      BY <1>1, <1>2, <2>1, <2>2
    <3>3. Word(1) # "end_header"
      BY <2>1
    <3> QED  BY <1>1, <2>1, <3>1, <3>2, <3>3, PassedOn
  <2>4. ASSUME Readable(file) PROVE Learnt'
    <3>1. Word(1) \notin {"element", "property"} /\ Word(1) # "format"
      BY <2>1
    <3> QED  BY <1>1, <2>4, <3>1, LearntSame
  <2> QED  BY <1>1, <2>3, <2>4 DEF Readable
<1>5. ASSUME pc' = "accepted" PROVE Complete'
  <2> DEFINE n == next + 1
  <2>1. /\ n \in 1 .. Len(Lines) /\ n \in Nat /\ Keyword(Lines[n]) = "end_header" /\ n - 1 = next
        /\ Lines = file.lines /\ Lines' = Lines
    BY <1>1, <1>2, <1>5 DEF Lines
  <2> HIDE DEF n
  <2>2. \A i \in 1 .. n - 1 : ~Wrong(Lines, i)
    BY <1>2, <2>1 DEF Passed
  <2>3. Readable(file)
    BY <1>2, <2>1, <2>2, FileIs
  <2>4. Learnt
    BY <1>2, <2>3
  <2>5. Describes(Lines, file.format, file.elements) /\ file.elements \in Seq(Elements)
    BY <1>2, <2>1, <2>3, FileIs
  <2>6. n = Len(Lines)
    <3>1. ASSUME n # Len(Lines) PROVE FALSE
      <4>1. n \in 1 .. Len(Lines) - 1
        BY <1>2, <2>1, <3>1
      <4> DEFINE e == ElementOf(Lines, n)
                 p == Cardinality(PropertyLines(Lines, n, e))
      <4>2. \/ Keyword(Lines[n]) = "comment"
            \/ SaysFormat(Lines[n].words, file.format)
            \/ SaysElement(Lines[n].words, file.elements[e])
            \/ e > 0 /\ SaysProperty(Lines[n].words, file.elements[e].props[p])
        BY <2>5, <4>1 DEF Describes
      <4> HIDE DEF e, p
      <4>3. Lines[n].words[1] \in {"format", "element", "property"}
        BY <2>1, <4>2 DEF SaysFormat, SaysElement, SaysProperty
      <4>4. Lines[n].words # <<>>
        BY <2>1 DEF Keyword
      <4> QED  BY <2>1, <4>3, <4>4 DEF Keyword
    <3> QED  BY <3>1
  <2>7. /\ next \in Nat /\ Lines[next + 1] = Lines[n] /\ next + 1 = n
        /\ Keyword(Lines[next + 1]) = "end_header"
    BY <1>2, <2>1 DEF n
  <2>8. Len(elements) = Len(file.elements)
    <3>1. ElementOf(Lines, next + 1) = ElementOf(Lines, next) /\ ElementOf(Lines, next) \in Nat
      BY <2>7, ElementCount
    <3>2. Len(file.elements) = ElementOf(Lines, Len(Lines)) /\ Len(elements) = ElementOf(Lines, next)
      BY <1>2, <2>5 DEF Describes, Passed
    <3> QED  BY <2>6, <2>7, <3>1, <3>2
  <2>9. ASSUME NEW e \in 1 .. Len(elements)
        PROVE  elements[e] = PartOf(e, Len(file.elements[e].props))
    <3>1. /\ Cardinality(PropertyLines(Lines, next + 1, e)) = Cardinality(PropertyLines(Lines, next, e))
          /\ Cardinality(PropertyLines(Lines, next, e)) \in Nat
      BY <2>7, PropertyCount
    <3>2. Len(file.elements[e].props) = Cardinality(PropertyLines(Lines, Len(Lines), e))
      BY <2>5, <2>8 DEF Describes
    <3>3. elements[e] = PartOf(e, Cardinality(PropertyLines(Lines, next, e)))
      BY <2>4 DEF Learnt
    <3> QED  BY <2>6, <2>7, <3>1, <3>2, <3>3
  <2>10. format = file.format
    <3>1. file.format = "unknown" \/ \E i \in 1 .. Len(Lines) : Keyword(Lines[i]) = "format"
      BY <2>5 DEF Describes
    <3>2. \A i \in 1 .. Len(Lines) : Keyword(Lines[i]) = "format" => i \in 1 .. next
      <4>1. \A i \in 1 .. Len(Lines) : i = n \/ i \in 1 .. next
        BY <1>2, <2>6, <2>7
      <4>2. Keyword(Lines[n]) # "format"
        BY <2>1
      <4> QED  BY <4>1, <4>2
    <3> QED  BY <2>4, <3>1, <3>2 DEF Learnt
  <2>11. next' = n
    BY <1>1, <2>7
  <2>12. \A e, k : PartOf(e, k)' = PartOf(e, k')
    BY <1>1 DEF PartOf
  <2> QED  BY <1>1, <2>1, <2>3, <2>8, <2>9, <2>10, <2>11, <2>12 DEF Complete, Readable
<1> QED  BY <1>1, <1>2, <1>3, <1>4, <1>5 DEF HeaderInv, Streaming

LEMMA NothingInIt ==
  ASSUME NEW f \in [1 .. 0 -> {}]
  PROVE  f = <<>>
<1>1. f \in Seq({}) /\ Len(f) = 0
  OBVIOUS
<1> QED  BY <1>1

LEMMA ElementStep ==
  ASSUME HeaderInv, ElementLine
  PROVE  HeaderInv'
<1> DEFINE good == Word(2) # NULL /\ Word(3) \in DOMAIN Numerals
           new == [name |-> Kept(Word(2)), tuples |-> Numerals[Word(3)], props |-> <<>>]
<1>1. /\ pc = "lines" /\ next < Len(Lines) /\ Word(1) = "element" /\ next' = next + 1
      /\ file' = file /\ memorySize' = memorySize /\ format' = format
      /\ MayReserve(ElementSize) /\ Reserve(ElementSize)
      /\ elements' = IF ~good THEN elements ELSE Append(elements, new)
      /\ pc' = IF good /\ Word(4) = NULL THEN "lines" ELSE "error"
  <2>1. 3 + 1 = 4
    OBVIOUS
  <2> QED  BY <2>1 DEF ElementLine, AtLine, GetLine, GoOn, setup
<1> HIDE DEF new
<1>2. /\ file \in Files /\ memorySize \in MemorySizes /\ elements \in Seq(Elements)
      /\ SpaceInv /\ Passed /\ (Readable(file) => Learnt) /\ next \in Nat
      /\ next + 1 \in 1 .. Len(Lines) /\ Len(Lines) \in Nat
      /\ Line = Lines[next + 1] /\ Keyword(Line) = Word(1)
  BY <1>1, AtLineIs
<1>3. /\ SpaceInv' /\ Cardinality(blocks') = Cardinality(blocks) + 1
      /\ memoryBreak' = memoryBreak - AlignUp(ElementSize)
  BY <1>1, <1>2, Constants, ReserveKeeps
<1>4. good => Kept(Word(2)) \in Words /\ Numerals[Word(3)] \in Nat
  <2>1. DOMAIN Numerals = {"0", "1", "2"} /\ \A w \in DOMAIN Numerals : Numerals[w] \in Nat
    BY DEF Numerals
  <2>2. good => Word(2) \in Words
    BY <1>1, <1>2, LineIs
  <2> QED  BY <2>1, <2>2, KeptIsWord
<1>5. good => new \in Elements
  BY <1>4 DEF new, Elements
<1>6. elements' \in Seq(Elements)
  BY <1>1, <1>2, <1>5
<1>7. ASSUME pc' = "lines" PROVE Passed' /\ (Readable(file)' => Learnt')
  <2>1. good /\ Word(4) = NULL /\ elements' = Append(elements, new) /\ new \in Elements
    BY <1>1, <1>5, <1>7
  <2>2. /\ Len(Line.words) = 3 /\ Word(2) = Line.words[2] /\ Word(3) = Line.words[3]
        /\ ~Wrong(Lines, next + 1)
    BY <1>1, <1>2, <2>1, ElementRight
  <2>3. /\ Len(elements) \in Nat /\ Len(elements') = Len(elements) + 1
        /\ elements'[Len(elements) + 1] = new
        /\ \A e \in 1 .. Len(elements) : elements'[e] = elements[e]
    BY <1>2, <2>1
  <2>4. Passed'
    <3>1. SpaceOf(next + 1) = AlignUp(ElementSize)
      BY <1>1, <1>2 DEF SpaceOf
    <3>2. IsFiniteSet(Slots(elements')) /\ Cardinality(Slots(elements')) = Cardinality(Slots(elements)) + 1
      <4>1. new.props = <<>> /\ IsFiniteSet(Slots(elements))
        BY <1>2 DEF new, Passed
      <4> QED  BY <1>2, <2>1, <4>1, SlotsAppend
    <3>3. Cardinality(blocks') = Cardinality(Slots(elements'))
      BY <1>2, <1>3, <3>2 DEF Passed
    <3>4. Len(elements') = Len(elements) + (IF Word(1) = "element" THEN 1 ELSE 0)
      BY <1>1, <2>3
    <3>5. Word(1) # "end_header"
      BY <1>1
    <3> QED  BY <1>1, <1>3, <2>2, <3>1, <3>2, <3>3, <3>4, <3>5, PassedOn
  <2>5. ASSUME Readable(file) PROVE Learnt'
    <3> DEFINE n == Len(elements) + 1
    <3>1. Learnt /\ Lines' = Lines /\ Len(elements) = ElementOf(Lines, next)
      BY <1>1, <1>2, <2>5 DEF Lines, Passed
    <3>2. n = ElementOf(Lines, next + 1) /\ n \in Nat /\ n > 0 /\ ElementOf(Lines, next) \in Nat
      <4>1. Keyword(Lines[next + 1]) = "element"
        BY <1>1, <1>2
      <4> QED  BY <1>2, <2>3, <3>1, <4>1, ElementCount
    <3>3. SaysElement(Line.words, file.elements[n])
      BY <1>1, <1>2, <2>5, <3>2, WhatIsSaid
    <3>4. \A e : Cardinality(PropertyLines(Lines, next + 1, e)) = Cardinality(PropertyLines(Lines, next, e))
      <4>1. Keyword(Lines[next + 1]) # "property"
        BY <1>1, <1>2
      <4> TAKE e
      <4>2. Cardinality(PropertyLines(Lines, next, e)) \in Nat
        BY <1>2, PropertyCount
      <4> QED  BY <1>2, <4>1, <4>2, PropertyCount
    <3>5. Cardinality(PropertyLines(Lines, next, n)) = 0
      <4>1. ElementOf(Lines, next) < n
        BY <3>1, <3>2
      <4> QED  BY <1>2, <3>2, <4>1, NoPropertiesYet
    <3>6. new = PartOf(n, 0)
      <4>1. <<>> = [p \in 1 .. 0 |-> [file.elements[n].props[p] EXCEPT !.name = Kept(@)]]
        <5> DEFINE f == [p \in 1 .. 0 |-> [file.elements[n].props[p] EXCEPT !.name = Kept(@)]]
        <5>1. \A p \in 1 .. 0 : FALSE
          OBVIOUS
        <5>2. f \in [1 .. 0 -> {}]
          BY <5>1
        <5> HIDE DEF f
        <5>3. f = <<>>
          BY <5>2, NothingInIt
        <5> QED  BY <5>3 DEF f
      <4>2. file.elements[n].name = Word(2) /\ file.elements[n].tuples = Numerals[Word(3)]
        BY <2>2, <3>3 DEF SaysElement
      <4> HIDE DEF n
      <4> QED  BY <4>1, <4>2 DEF new, PartOf
    <3>7. ASSUME NEW e \in 1 .. n
          PROVE  elements'[e] = PartOf(e, Cardinality(PropertyLines(Lines, next + 1, e)))
      <4>1. CASE e = n
        BY <2>3, <3>4, <3>5, <3>6, <4>1
      <4>2. CASE e # n
        <5>1. e \in 1 .. Len(elements)
          BY <2>3, <3>7, <4>2
        <5> QED  BY <2>3, <3>1, <3>4, <5>1 DEF Learnt
      <4> QED  BY <4>1, <4>2
    <3>8. format' = IF \E i \in 1 .. next + 1 : Keyword(Lines[i]) = "format" THEN file.format ELSE "unknown"
      <4>1. \A i \in 1 .. next + 1 : i \in 1 .. next \/ i = next + 1
        BY <1>2
      <4>2. \A i \in 1 .. next : i \in 1 .. next + 1
        BY <1>2
      <4>3. Keyword(Lines[next + 1]) # "format"
        BY <1>1, <1>2
      <4> QED  BY <1>1, <3>1, <4>1, <4>2, <4>3 DEF Learnt
    <3>9. \A e, k : PartOf(e, k)' = PartOf(e, k')
      BY <1>1 DEF PartOf
    <3>10. Len(elements') = n
      BY <2>3
    <3> HIDE DEF n
    <3> QED  BY <1>1, <3>1, <3>7, <3>8, <3>9, <3>10 DEF Learnt
  <2> QED  BY <1>1, <2>4, <2>5 DEF Readable
<1>8. pc' \in {"lines", "error"}
  BY <1>1
<1> QED  BY <1>1, <1>2, <1>3, <1>6, <1>7, <1>8 DEF HeaderInv, Streaming

LEMMA OneMore ==
  ASSUME NEW S, NEW f \in Seq(S), NEW x \in S, NEW g \in Seq(S),
         Len(g) = Len(f) + 1, g[Len(f) + 1] = x, \A p \in 1 .. Len(f) : f[p] = g[p]
  PROVE  g = Append(f, x)
OBVIOUS

LEMMA PropertyStep ==
  ASSUME HeaderInv, PropertyLine
  PROVE  HeaderInv'
<1> DEFINE k == IF Word(2) = "list" THEN 4 ELSE 2
           new == KeptProperty(Described)
           n == Len(elements)
<1>1. /\ pc = "lines" /\ next < Len(Lines) /\ Word(1) = "property" /\ next' = next + 1
      /\ file' = file /\ memorySize' = memorySize /\ format' = format
      /\ elements # <<>> /\ MayReserve(PropertySize) /\ Reserve(PropertySize)
  BY DEF PropertyLine, AtLine, GetLine, setup
<1>2. /\ RightProperty => elements' = [elements EXCEPT ![n] = AddProperty(@, new)]
      /\ ~RightProperty => elements' = elements
  <2>1. new = [name |-> Kept(Word(k + 1)), list |-> Word(2) = "list", type |-> TypeOf(Word(k)),
               lengthType |-> IF Word(2) = "list" THEN TypeOf(Word(3)) ELSE "int8"]
    BY DEF KeptProperty, Described
  <2> HIDE DEF new
  <2> QED  BY <2>1 DEF PropertyLine, RightProperty
<1>3. pc' \in {"lines", "error"} /\ (pc' = "lines" => RightProperty /\ Word(k + 2) = NULL)
  <2>1. (k + 1) + 1 = k + 2
    OBVIOUS
  <2> HIDE DEF new
  <2> QED  BY <2>1 DEF PropertyLine, RightProperty, GoOn
<1> HIDE DEF new
<1>4. /\ file \in Files /\ memorySize \in MemorySizes /\ elements \in Seq(Elements)
      /\ SpaceInv /\ Passed /\ (Readable(file) => Learnt) /\ next \in Nat
      /\ next + 1 \in 1 .. Len(Lines) /\ Len(Lines) \in Nat
      /\ Line = Lines[next + 1] /\ Keyword(Line) = Word(1)
  BY <1>1, AtLineIs
<1>5. /\ SpaceInv' /\ Cardinality(blocks') = Cardinality(blocks) + 1
      /\ memoryBreak' = memoryBreak - AlignUp(PropertySize)
  BY <1>1, <1>4, Constants, ReserveKeeps
<1>6. n \in Nat /\ n > 0 /\ n \in 1 .. n /\ elements[n] \in Elements
  BY <1>1, <1>4
<1>7. /\ ElementOf(Lines, next + 1) = n /\ n = ElementOf(Lines, next)
      /\ Keyword(Lines[next + 1]) = "property"
  <2>1. Keyword(Lines[next + 1]) = "property" /\ n = ElementOf(Lines, next)
    BY <1>1, <1>4 DEF Passed
  <2>2. ElementOf(Lines, next + 1) = ElementOf(Lines, next)
    <3>1. /\ ElementOf(Lines, next) \in Nat
          /\ ElementOf(Lines, next + 1) =
               ElementOf(Lines, next) + (IF Keyword(Lines[next + 1]) = "element" THEN 1 ELSE 0)
      BY <1>4, ElementCount
    <3> QED  BY <2>1, <3>1
  <2> QED  BY <2>1, <2>2
<1>8. RightProperty => Described \in Properties /\ new \in Properties
  <2>1. RightProperty => Described \in Properties
    BY <1>1, <1>4, <1>6, <1>7, PropertyRight
  <2> QED  BY <2>1, KeptIsProperty DEF new
<1>9. RightProperty =>
        /\ elements' \in Seq(Elements) /\ Len(elements') = n
        /\ \A i \in 1 .. n - 1 : elements'[i] = elements[i]
        /\ elements'[n] = [elements[n] EXCEPT !.props = Append(@, new)]
        /\ IsFiniteSet(Slots(elements')) /\ Cardinality(Slots(elements')) = Cardinality(Slots(elements)) + 1
  <2>1. IsFiniteSet(Slots(elements))
    BY <1>4 DEF Passed
  <2> QED  BY <1>1, <1>2, <1>4, <1>8, <2>1, SlotsExtend
<1>10. elements' \in Seq(Elements)
  BY <1>2, <1>4, <1>9
<1>11. ASSUME pc' = "lines" PROVE Passed' /\ (Readable(file)' => Learnt')
  <2>1. RightProperty /\ ~Wrong(Lines, next + 1)
    BY <1>1, <1>3, <1>4, <1>6, <1>7, <1>11, PropertyRight
  <2>2. Passed'
    <3>1. SpaceOf(next + 1) = AlignUp(PropertySize)
      BY <1>7 DEF SpaceOf
    <3>2. Cardinality(blocks') = Cardinality(Slots(elements'))
      BY <1>4, <1>5, <1>9, <2>1 DEF Passed
    <3>3. Len(elements') = Len(elements) + (IF Word(1) = "element" THEN 1 ELSE 0)
      BY <1>1, <1>6, <1>9, <2>1
    <3>4. Word(1) # "end_header"
      BY <1>1
    <3> QED  BY <1>1, <1>5, <1>9, <2>1, <3>1, <3>2, <3>3, <3>4, PassedOn
  <2>3. ASSUME Readable(file) PROVE Learnt'
    <3> DEFINE old == Cardinality(PropertyLines(Lines, next, n))
               now == Cardinality(PropertyLines(Lines, next + 1, n))
               said == file.elements[n].props[now]
    <3>1. Learnt /\ Lines' = Lines
      BY <1>1, <1>4, <2>3 DEF Lines
    <3>2. old \in Nat /\ now = old + 1
      BY <1>4, <1>7, PropertyCount
    <3>3. \A e : e # n => Cardinality(PropertyLines(Lines, next + 1, e)) = Cardinality(PropertyLines(Lines, next, e))
      <4> TAKE e
      <4>1. Cardinality(PropertyLines(Lines, next, e)) \in Nat
        BY <1>4, PropertyCount
      <4> QED  BY <1>4, <1>7, <4>1, PropertyCount
    <3>4. SaysProperty(Line.words, said)
      BY <1>1, <1>4, <1>7, <2>3, WhatIsSaid
    <3>5. said \in Properties
      <4>1. next + 1 \in Nat /\ next + 1 <= Len(Lines) /\ n <= ElementOf(Lines, next + 1)
            /\ now \in Nat /\ now > 0 /\ now <= Cardinality(PropertyLines(Lines, next + 1, n))
        BY <1>4, <1>6, <1>7, <3>2
      <4> QED  BY <1>4, <1>6, <2>3, <4>1, TellsOf
    <3>6. said = Described
      BY <1>1, <1>4, <3>4, <3>5, OnlyDescribed
    <3>7. elements'[n] = PartOf(n, now)
      <4> DEFINE f == [p \in 1 .. old |-> KeptProperty(file.elements[n].props[p])]
                 g == [p \in 1 .. now |-> KeptProperty(file.elements[n].props[p])]
                 name == Kept(file.elements[n].name)
                 tuples == file.elements[n].tuples
      <4>1. elements[n] = [name |-> name, tuples |-> tuples, props |-> f]
        <5>1. elements[n] = PartOf(n, old)
          BY <1>6, <3>1 DEF Learnt
        <5> QED  BY <5>1 DEF PartOf, KeptProperty
      <4>2. PartOf(n, now) = [name |-> name, tuples |-> tuples, props |-> g]
        BY DEF PartOf, KeptProperty
      <4>3. KeptProperty(file.elements[n].props[now]) = new
        BY <3>6 DEF new
      <4> HIDE DEF name, tuples, old, now
      <4>4. g = Append(f, new)
        <5>1. f \in Seq(Properties) /\ Len(f) = old
          <6>1. elements[n].props \in Seq(Properties) /\ elements[n].props = f
            BY <1>6, <4>1 DEF Elements
          <6>2. DOMAIN f = 1 .. old
            OBVIOUS
          <6> HIDE DEF f
          <6> QED  BY <3>2, <6>1, <6>2
        <5>2. \A p \in 1 .. old : f[p] = g[p]
          BY <3>2
        <5>3. g[now] = new /\ DOMAIN g = 1 .. now /\ g = [p \in 1 .. now |-> g[p]]
          BY <3>2, <4>3
        <5> HIDE DEF f, g
        <5>4. g \in Seq(Properties) /\ Len(g) = now
          <6>1. \A p \in 1 .. now : p \in 1 .. old \/ p = now
            BY <3>2
          <6>2. \A p \in 1 .. old : f[p] \in Properties
            BY <5>1
          <6>3. \A p \in 1 .. now : g[p] \in Properties
            BY <1>8, <2>1, <5>2, <5>3, <6>1, <6>2
          <6>4. g \in [1 .. now -> Properties] /\ now \in Nat
            BY <3>2, <5>3, <6>3
          <6> QED  BY <6>4
        <5> QED  BY <1>8, <2>1, <3>2, <5>1, <5>2, <5>3, <5>4, OneMore
      <4> HIDE DEF f, g
      <4>5. elements'[n] = [name |-> name, tuples |-> tuples, props |-> Append(f, new)]
        <5> DEFINE r == [name |-> name, tuples |-> tuples, props |-> f]
                   q == Append(f, new)
        <5>1. r.props = f /\ elements[n] = r
          BY <4>1
        <5>2. elements'[n] = [r EXCEPT !.props = q]
          BY <1>9, <2>1, <5>1
        <5> HIDE DEF q
        <5>3. [r EXCEPT !.props = q] = [name |-> name, tuples |-> tuples, props |-> q]
          OBVIOUS
        <5> QED  BY <5>2, <5>3 DEF q
      <4> QED  BY <4>2, <4>4, <4>5
    <3> HIDE DEF old, now, said
    <3>8. ASSUME NEW e \in 1 .. n
          PROVE  elements'[e] = PartOf(e, Cardinality(PropertyLines(Lines, next + 1, e)))
      <4>1. CASE e = n
        BY <3>7, <4>1 DEF now
      <4>2. CASE e # n
        <5>1. e \in 1 .. n - 1 /\ e \in 1 .. Len(elements)
          BY <1>6, <3>8, <4>2
        <5>2. elements'[e] = elements[e]
          BY <1>9, <2>1, <5>1
        <5> QED  BY <3>1, <3>3, <4>2, <5>1, <5>2 DEF Learnt
      <4> QED  BY <4>1, <4>2
    <3>9. format' = IF \E i \in 1 .. next + 1 : Keyword(Lines[i]) = "format" THEN file.format ELSE "unknown"
      <4>1. \A i \in 1 .. next + 1 : i \in 1 .. next \/ i = next + 1
        BY <1>4
      <4>2. \A i \in 1 .. next : i \in 1 .. next + 1
        BY <1>4
      <4> QED  BY <1>1, <1>7, <3>1, <4>1, <4>2 DEF Learnt
    <3>10. \A e, j : PartOf(e, j)' = PartOf(e, j')
      BY <1>1 DEF PartOf
    <3>11. Len(elements') = n
      BY <1>9, <2>1
    <3> HIDE DEF n
    <3> QED  BY <1>1, <3>1, <3>8, <3>9, <3>10, <3>11 DEF Learnt
  <2> QED  BY <1>1, <2>2, <2>3 DEF Readable
<1> QED  BY <1>1, <1>3, <1>4, <1>5, <1>10, <1>11 DEF HeaderInv, Streaming

\* The header is begun again.
LEMMA ForgottenStep ==
  ASSUME HeaderInv, pc = "start", Forget, UNCHANGED <<setup, next>>,
         pc' \in {"lines", "error", "failed"}
  PROVE  HeaderInv'
<1>1. /\ file' = file /\ memorySize' = memorySize /\ next' = next /\ next = 0
      /\ file \in Files /\ memorySize \in MemorySizes
  BY DEF setup, HeaderInv
<1>2. /\ SpaceInv' /\ blocks' = {} /\ elements' = <<>> /\ format' = "unknown"
      /\ memoryBreak' = AlignDown(memorySize)
  BY <1>1, ForgetFrees
<1>3. Lines' = Lines /\ Len(Lines) \in Nat /\ AlignDown(memorySize)' = AlignDown(memorySize)
  <2>1. Lines' = Lines /\ Lines \in Seq(HeaderLines)
    BY <1>1, FileIs DEF Lines
  <2> QED  BY <1>1, <2>1 DEF AlignDown
<1>4. elements' \in Seq(Elements) /\ Len(elements') = 0
  BY <1>2
<1>5. 1 .. 0 = {}
  OBVIOUS
<1>6. Passed'
  <2>1. ElementOf(Lines, 0) = 0
    BY <1>5, FS_EmptySet DEF ElementOf
  <2>2. SpaceNeeded(next)' = MinBuffer
    <3>1. SpaceNeeded(next)' = SpaceNeeded(0)
      BY <1>1, <1>3 DEF SpaceNeeded
    <3> QED  BY <3>1, SpaceStart
  <2>3. Slots(elements)' = {}
    <3>1. Slots(elements)' = Slots(elements')
      BY DEF Slots
    <3> QED  BY <1>2, <3>1, SlotsOfNone
  <2>4. IsFiniteSet(Slots(elements))' /\ (Cardinality(blocks) = Cardinality(Slots(elements)))'
    BY <1>2, <2>3, FS_EmptySet
  <2>5. next' \in 0 .. Len(Lines)
    BY <1>1, <1>3
  <2>6. (\A i \in 1 .. next : ~Wrong(Lines, i) /\ Keyword(Lines[i]) # "end_header")'
    BY <1>1, <1>5
  <2>7. (memoryBreak + SpaceNeeded(next) = AlignDown(memorySize) + MinBuffer)'
    BY <1>2, <1>3, <2>2
  <2>8. (Len(elements) = ElementOf(Lines, next))'
    BY <1>1, <1>3, <1>4, <2>1
  <2> QED  BY <1>3, <2>4, <2>5, <2>6, <2>7, <2>8 DEF Passed
<1>7. Learnt'
  BY <1>1, <1>2, <1>4, <1>5 DEF Learnt
<1> QED  BY <1>1, <1>2, <1>4, <1>6, <1>7 DEF HeaderInv, Streaming

\* What neither parses a line nor touches what was learnt.
LEMMA RestStep ==
  ASSUME HeaderInv, UNCHANGED <<file, memorySize, learnt>>,
         \/ next' = next /\ pc' \in Streaming /\ pc \in Streaming
         \/ pc' \notin {"start", "lines"} \cup Streaming
         \/ next' = next /\ pc' = pc
  PROVE  HeaderInv'
<1>1. /\ file' = file /\ memorySize' = memorySize /\ elements' = elements /\ format' = format
      /\ memoryBreak' = memoryBreak /\ blocks' = blocks
  BY DEF learnt
<1>2. Lines' = Lines
  BY <1>1 DEF Lines
<1>3. SpaceInv'
  BY <1>1, SpaceSame DEF HeaderInv
<1>4. ASSUME next' = next PROVE (Passed => Passed') /\ (Learnt => Learnt') /\ (Complete => Complete')
  <2>1. SpaceNeeded(next)' = SpaceNeeded(next) /\ AlignDown(memorySize)' = AlignDown(memorySize)
    BY <1>1, <1>2, <1>4 DEF SpaceNeeded, AlignDown
  <2>2. Passed => Passed'
    BY <1>1, <1>2, <1>4, <2>1 DEF Passed, Slots
  <2>3. \A e, k : PartOf(e, k)' = PartOf(e, k')
    BY <1>1 DEF PartOf
  <2>4. Learnt => Learnt'
    BY <1>1, <1>2, <1>4, <2>3 DEF Learnt
  <2>5. Complete => Complete'
    BY <1>1, <1>2, <1>4, <2>3 DEF Complete, Readable
  <2> QED  BY <2>2, <2>4, <2>5
<1> DEFINE S == Streaming
<1>5. S' = S /\ "start" \notin S /\ "lines" \notin S
  BY DEF Streaming
<1>6. Streaming = S
  OBVIOUS
<1> HIDE DEF S
<1>7. (pc = "start" => next = 0)' /\ (pc = "lines" => Passed /\ (Readable(file) => Learnt))'
      /\ (pc \in Streaming => Complete)'
  <2>1. CASE next' = next /\ pc' \in Streaming /\ pc \in Streaming
    BY <1>4, <1>5, <1>6, <2>1 DEF HeaderInv
  <2>2. CASE pc' \notin {"start", "lines"} \cup Streaming
    BY <1>5, <1>6, <2>2
  <2>3. CASE next' = next /\ pc' = pc
    BY <1>1, <1>4, <1>5, <1>6, <2>3 DEF HeaderInv, Readable
  <2> QED  BY <2>1, <2>2, <2>3
<1> QED  BY <1>1, <1>3, <1>7 DEF HeaderInv

LEMMA AgainStep ==
  ASSUME HeaderInv, Again
  PROVE  HeaderInv'
<1>1. /\ file' \in Files /\ memorySize' = memorySize /\ elements' = elements
      /\ memoryBreak' = memoryBreak /\ blocks' = blocks /\ next' = 0 /\ pc' = "start"
  BY FileAssumption DEF FileAssumption, Again, NewInput, learnt
<1>2. SpaceInv'
  BY <1>1, SpaceSame DEF HeaderInv
<1> QED  BY <1>1, <1>2 DEF HeaderInv, Streaming

LEMMA HeaderStarts == Init => HeaderInv
<1> SUFFICES ASSUME Init PROVE HeaderInv
  OBVIOUS
<1>1. /\ file \in Files /\ memorySize \in MemorySizes /\ next = 0 /\ elements = <<>>
      /\ memoryBreak = AlignDown(memorySize) /\ blocks = {} /\ pc = "start"
  BY DEF Init, HeaderInit
<1>2. memorySize \in Int /\ MinBuffer <= memorySize
  BY <1>1, Constants
<1>3. Aligned(AlignDown(memorySize)) /\ MinBuffer <= AlignDown(memorySize)
  BY <1>2, Constants, Down
<1>4. Aligned(memoryBreak) /\ MinBuffer <= memoryBreak /\ memoryBreak <= AlignDown(memorySize)
  BY <1>1, <1>3 DEF Aligned
<1>5. SpaceInv
  BY <1>1, <1>4, FS_EmptySet DEF SpaceInv
<1> QED  BY <1>1, <1>5 DEF HeaderInv, Streaming

LEMMA HeaderStays == HeaderInv /\ [Next]_vars => HeaderInv'
<1> SUFFICES ASSUME HeaderInv, [Next]_vars PROVE HeaderInv'
  OBVIOUS
<1>1. CASE Start
  <2>1. pc = "start" /\ Forget /\ UNCHANGED <<setup, next>> /\ pc' \in {"error", "lines"}
    BY <1>1 DEF Start
  <2> QED  BY <2>1, ForgottenStep
<1>2. CASE StartFails
  BY <1>2, ForgottenStep DEF StartFails
<1>3. CASE FormatLine
  BY <1>3, FormatStep
<1>4. CASE ElementLine
  BY <1>4, ElementStep
<1>5. CASE PropertyLine
  BY <1>5, PropertyStep
<1>6. CASE OtherLine
  BY <1>6, OtherStep
<1>7. CASE PropertyOfNothing \/ NoMemory \/ NoNewline \/ LineFails
  <2>1. UNCHANGED <<setup, learnt>> /\ pc' \in {"error", "crashed", "stale line", "failed"}
    BY <1>7 DEF PropertyOfNothing, NoMemory, NoNewline, LineFails
  <2> QED  BY <2>1, RestStep DEF setup, Streaming
<1>8. CASE Parse \/ RefillFails \/ CallbackFails
  <2>1. UNCHANGED headerOnly /\ pc \in Streaming
    BY <1>8 DEF Parse, RefillFails, CallbackFails, StartStreaming, AdvanceFirst, AdvanceInTuple,
         AdvanceToNextTuple, NoTupleEnd, ReadAstray, ReadStale, NoFormat, ReadScalar, ReadLength,
         ReadItem, AtTupleEnd, Astray, Streaming
  <2>2. pc' \in Streaming \cup {"crashed", "error", "astray", "stale", "failed"}
    BY <1>8 DEF Parse, RefillFails, CallbackFails, StartStreaming, AdvanceFirst, AdvanceInTuple,
         AdvanceToNextTuple, NoTupleEnd, ReadAstray, ReadStale, NoFormat, ReadScalar, ReadLength,
         ReadItem, ToNext, Streaming
  <2> QED  BY <2>1, <2>2, RestStep DEF headerOnly, setup, Streaming
<1>9. CASE Again
  BY <1>9, AgainStep
<1>10. CASE UNCHANGED vars
  BY <1>10, RestStep DEF vars, headerVars, setup
<1> QED  BY <1>1, <1>2, <1>3, <1>4, <1>5, <1>6, <1>7, <1>8, <1>9, <1>10
       DEF Next, HeaderNext, ProcessHeader

\* While the header is read, the memory and what is stored in it are what the
\* lines parsed so far ask for; what is streamed was described to the end.
THEOREM HeaderInvariant == Spec => []HeaderInv
<1>1. Init => HeaderInv
  BY HeaderStarts
<1>2. HeaderInv /\ [Next]_vars => HeaderInv'
  BY HeaderStays
<1> QED  BY <1>1, <1>2, PTL DEF Spec

-----------------------------------------------------------------------------
(* The properties of the header.                                           *)

\* The descriptions that ply_reserve makes room for are aligned, apart from
\* each other and from the buffer, in the memory, and one for each element and
\* property: BlocksApart, whatever the sizes are.
THEOREM BlocksStayApart == Spec => []BlocksApart
<1>1. ASSUME HeaderInv PROVE BlocksApart
  <2>1. /\ MinBuffer <= memoryBreak
        /\ \A b \in blocks : /\ b.base % Alignment = 0
                             /\ memoryBreak <= b.base /\ b.base + b.size <= memorySize
    BY <1>1 DEF HeaderInv, SpaceInv, Aligned
  <2>2. ASSUME NEW b \in blocks, NEW d \in blocks \ {b}
        PROVE  CellsIn(b) \cap CellsIn(d) = {}
    <3>1. /\ Before(b, d) \/ Before(d, b)
          /\ b.base \in Int /\ b.size \in Nat /\ d.base \in Int /\ d.size \in Nat
      BY <1>1, <2>2 DEF HeaderInv, SpaceInv, Aligned
    <3> QED  BY <3>1 DEF Before, CellsIn
  <2>3. pc = "lines" => Cardinality(blocks) = Cardinality(Slots(elements))
    BY <1>1 DEF HeaderInv, Passed
  <2> QED  BY <2>1, <2>2, <2>3 DEF BlocksApart, Slots
<1> QED  BY <1>1, HeaderInvariant, PTL

\* What is kept of a name is a name that another element or property may have.
LEMMA KeptIs ==
  ASSUME NEW name
  PROVE  /\ Kept(name) \notin DOMAIN LongNames
         /\ name \in DOMAIN LongNames => Kept(name) \in Range(LongNames)
         /\ name \notin DOMAIN LongNames => Kept(name) = name
BY HeaderAssumption DEF HeaderAssumption, Kept, Range

\* A description in the file with the name cut, and the same of all of them.
LEMMA ToldIs ==
  ASSUME NEW D \in {Properties, Elements}, NEW ds \in Seq(D)
  PROVE  /\ Told(ds) \in Seq(D) /\ Len(Told(ds)) = Len(ds)
         /\ \A i \in 1 .. Len(ds) : /\ Told(ds)[i] = [ds[i] EXCEPT !.name = Kept(@)]
                                    /\ Told(ds)[i].name = Kept(ds[i].name)
<1>1. \A i \in 1 .. Len(ds) : ds[i] \in D
  OBVIOUS
<1>2. \A d \in D : [d EXCEPT !.name = Kept(@)] \in D /\ [d EXCEPT !.name = Kept(@)].name = Kept(d.name)
  <2> TAKE d \in D
  <2> DEFINE kept == Kept(d.name)
  <2>1. d.name \in Words
    <3>1. CASE D = Properties
      BY <3>1 DEF Properties, PropertiesNamed
    <3>2. CASE D = Elements
      BY <3>2 DEF Elements
    <3> QED  BY <3>1, <3>2
  <2>2. kept \in Words /\ [d EXCEPT !.name = Kept(@)] = [d EXCEPT !.name = kept]
    BY <2>1, KeptIsWord
  <2> HIDE DEF kept
  <2>3. CASE D = Properties
    BY <2>2, <2>3 DEF Properties, PropertiesNamed, kept
  <2>4. CASE D = Elements
    BY <2>2, <2>4 DEF Elements, kept
  <2> QED  BY <2>3, <2>4
<1>3. \A i \in 1 .. Len(ds) : Told(ds)[i] = [ds[i] EXCEPT !.name = Kept(@)]
  BY DEF Told
<1>4. \A i \in 1 .. Len(ds) : Told(ds)[i] \in D /\ Told(ds)[i].name = Kept(ds[i].name)
  BY <1>1, <1>2, <1>3
<1>5. Told(ds) = [i \in 1 .. Len(ds) |-> Told(ds)[i]]
  BY DEF Told
<1>6. Told(ds) \in [1 .. Len(ds) -> D] /\ Len(ds) \in Nat
  BY <1>4, <1>5
<1>7. Told(ds) \in Seq(D) /\ Len(Told(ds)) = Len(ds)
  BY <1>6
<1> QED  BY <1>3, <1>4, <1>7

Namesakes(ds, name) == {k \in 1 .. Len(ds) : ds[k].name = name}
LEMMA FoundByName ==
  ASSUME NEW D \in {Properties, Elements}, NEW ds \in Seq(D), NEW i \in 1 .. Len(ds),
         NEW name, name = ds[i].name
  PROVE  IF name \in DOMAIN LongNames THEN FirstNamed(Told(ds), name) = None
         ELSE \/ name \in Range(LongNames)
              \/ FirstNamed(Told(ds), name) = Told(ds)[Min(Namesakes(ds, name))]
<1> DEFINE td == Told(ds)
           found == {k \in 1 .. Len(td) : td[k].name = name}
           named == {k \in 1 .. Len(ds) : ds[k].name = name}
<1>1. FirstNamed(td, name) = IF found = {} THEN None ELSE td[Min(found)]
  BY DEF FirstNamed
<1>2. Len(td) = Len(ds) /\ \A k \in 1 .. Len(ds) : td[k].name = Kept(ds[k].name)
  BY ToldIs
<1> HIDE DEF td
<1>3. CASE name \in DOMAIN LongNames
  <2>1. found = {}
    BY <1>2, <1>3, KeptIs
  <2> QED  BY <1>1, <1>3, <2>1 DEF td
<1>4. CASE name \notin DOMAIN LongNames /\ name \notin Range(LongNames)
  <2>1. \A k \in 1 .. Len(ds) : td[k].name = name <=> ds[k].name = name
    <3> TAKE k \in 1 .. Len(ds)
    <3>1. td[k].name = Kept(ds[k].name)
      BY <1>2
    <3> QED  BY <1>4, <3>1, KeptIs
  <2>2. found = named
    BY <1>2, <2>1
  <2>3. i \in named
    OBVIOUS
  <2> HIDE DEF found, named
  <2>4. FirstNamed(td, name) = td[Min(named)]
    BY <1>1, <2>2, <2>3
  <2> QED  BY <1>4, <2>4 DEF td, named, Namesakes
<1> QED  BY <1>3, <1>4

\* The accessors tell what the header says, from the moment it is accepted to
\* the end of the body: HeaderDescribed, for every header that a file may have.
THEOREM HeaderIsDescribed == Spec => []HeaderDescribed
<1>1. ASSUME HeaderInv, pc \in {"accepted", "advance", "done"}
      PROVE  LET es == [e \in 1 .. Len(file.elements) |->
                          [file.elements[e] EXCEPT !.props = Told(@)]]
             IN  /\ format = file.format
                 /\ \A i \in 0 .. Len(es) - 1 :
                      /\ GetElement(i) = Told(es)[i + 1]
                      /\ GetProperty(GetElement(i), Len(es[i + 1].props)) = None
                      /\ FindsByName(file.elements[i + 1].props,
                                     LAMBDA n : GetPropertyByName(GetElement(i), n))
                 /\ GetElement(Len(es)) = None
                 /\ FindsByName(es, GetElementByName)
  <2> DEFINE fs == file.elements
             es == [e \in 1 .. Len(fs) |-> [fs[e] EXCEPT !.props = Told(@)]]
  <2>1. /\ Readable(file) /\ file \in Files /\ format = file.format /\ elements \in Seq(Elements)
        /\ Len(elements) = Len(fs)
        /\ \A e \in 1 .. Len(elements) : elements[e] = PartOf(e, Len(fs[e].props))
    BY <1>1 DEF HeaderInv, Complete, Streaming
  <2>2. fs \in Seq(Elements) /\ Len(fs) \in Nat
    <3>1. fs \in Seq(Elements)
      BY <2>1, FileIs
    <3> QED  BY <3>1
  <2> HIDE DEF fs
  <2>3. \A e \in 1 .. Len(fs) : /\ fs[e] \in Elements /\ fs[e].props \in Seq(Properties)
                                /\ Told(fs[e].props) \in Seq(Properties)
                                /\ Len(Told(fs[e].props)) = Len(fs[e].props)
    <3> TAKE e \in 1 .. Len(fs)
    <3>1. fs[e] \in Elements
      BY <2>2
    <3>2. fs[e].props \in Seq(Properties)
      BY <3>1 DEF Elements
    <3> QED  BY <3>1, <3>2, ToldIs
  <2>4. \A e \in 1 .. Len(fs) : es[e] = [fs[e] EXCEPT !.props = Told(@)]
    OBVIOUS
  <2>5. \A e \in 1 .. Len(fs) : /\ es[e] \in Elements /\ es[e].name = fs[e].name
                                /\ es[e].props = Told(fs[e].props)
    BY <2>3, <2>4 DEF Elements
  <2>6. es \in Seq(Elements) /\ Len(es) = Len(fs)
    <3>1. es = [e \in 1 .. Len(fs) |-> es[e]]
      OBVIOUS
    <3> HIDE DEF es
    <3>2. es \in [1 .. Len(fs) -> Elements]
      BY <2>5, <3>1
    <3> QED  BY <2>2, <3>2
  <2>7. ASSUME NEW e \in 1 .. Len(fs) PROVE elements[e] = Told(es)[e] /\ elements[e].props = Told(fs[e].props)
    <3> DEFINE q == Told(fs[e].props)
    <3>1. PartOf(e, Len(fs[e].props)) = [name |-> Kept(fs[e].name), tuples |-> fs[e].tuples, props |-> q]
      BY DEF PartOf, Told, fs
    <3> HIDE DEF q
    <3>2. Told(es)[e] = [es[e] EXCEPT !.name = Kept(@)]
      BY <2>6, ToldIs
    <3>3. es[e] = [fs[e] EXCEPT !.props = q]
      BY <2>4 DEF q
    <3> HIDE DEF es
    <3>4. fs[e] = [name |-> fs[e].name, tuples |-> fs[e].tuples, props |-> fs[e].props]
      BY <2>3 DEF Elements
    <3>5. es[e] = [name |-> fs[e].name, tuples |-> fs[e].tuples, props |-> q]
      BY <3>3, <3>4
    <3>6. Told(es)[e] = [name |-> Kept(fs[e].name), tuples |-> fs[e].tuples, props |-> q]
      BY <3>2, <3>5
    <3> QED  BY <2>1, <3>1, <3>6 DEF q
  <2>8. ASSUME NEW i \in 0 .. Len(es) - 1
        PROVE  /\ GetElement(i) = Told(es)[i + 1]
               /\ GetProperty(GetElement(i), Len(es[i + 1].props)) = None
               /\ FindsByName(fs[i + 1].props, LAMBDA n : GetPropertyByName(GetElement(i), n))
    <3>1. i + 1 \in 1 .. Len(fs) /\ i < Len(elements)
      BY <2>1, <2>2, <2>6
    <3>2. GetElement(i) = elements[i + 1]
      BY <3>1 DEF GetElement
    <3> DEFINE ps == fs[i + 1].props
    <3>3. elements[i + 1] = Told(es)[i + 1] /\ elements[i + 1].props = Told(ps)
      BY <2>7, <3>1
    <3>4. ps \in Seq(Properties) /\ Len(Told(ps)) = Len(ps) /\ es[i + 1].props = Told(ps)
      BY <2>3, <2>5, <3>1
    <3> HIDE DEF es, ps
    <3>5. GetProperty(GetElement(i), Len(es[i + 1].props)) = None
      <4>1. GetElement(i).props = Told(ps) /\ ~(Len(Told(ps)) < Len(Told(ps)))
        BY <3>2, <3>3, <3>4
      <4> QED  BY <3>4, <4>1 DEF GetProperty
    <3>6. \A n : GetPropertyByName(GetElement(i), n) = FirstNamed(Told(ps), n)
      BY <3>2, <3>3 DEF GetPropertyByName
    <3>7. FindsByName(ps, LAMBDA n : GetPropertyByName(GetElement(i), n))
      <4> DEFINE Get(n) == GetPropertyByName(GetElement(i), n)
      <4>1. \A n : Get(n) = FirstNamed(Told(ps), n)
        BY <3>6
      <4>2. ASSUME NEW j \in 1 .. Len(ps), NEW name, name = ps[j].name
            PROVE  IF name \in DOMAIN LongNames THEN Get(name) = None
                   ELSE \/ name \in Range(LongNames)
                        \/ Get(name) = Told(ps)[Min(Namesakes(ps, name))]
        BY <3>4, <4>1, <4>2, FoundByName
      <4> HIDE DEF Get
      <4>3. FindsByName(ps, Get)
        BY <4>2 DEF FindsByName, Namesakes
      <4> QED  BY <4>3 DEF Get
    <3> QED  BY <3>2, <3>3, <3>5, <3>7 DEF ps
  <2>9. GetElement(Len(es)) = None
    BY <2>1, <2>2, <2>6 DEF GetElement
  <2>10. FindsByName(es, GetElementByName)
    <3>1. elements = Told(es)
      <4>1. Told(es) \in Seq(Elements) /\ Len(Told(es)) = Len(es)
        BY <2>6, ToldIs
      <4> HIDE DEF es
      <4> QED  BY <2>1, <2>6, <2>7, <4>1
    <3> HIDE DEF es
    <3>2. \A n : GetElementByName(n) = FirstNamed(Told(es), n)
      BY <3>1 DEF GetElementByName
    <3>3. ASSUME NEW j \in 1 .. Len(es), NEW name, name = es[j].name
          PROVE  IF name \in DOMAIN LongNames THEN GetElementByName(name) = None
                 ELSE \/ name \in Range(LongNames)
                      \/ GetElementByName(name) = Told(es)[Min(Namesakes(es, name))]
      BY <2>6, <3>2, <3>3, FoundByName
    <3> QED  BY <3>3 DEF FindsByName, Namesakes
  <2> QED  BY <2>1, <2>8, <2>9, <2>10 DEF fs
<1>2. HeaderInv => HeaderDescribed
  BY <1>1 DEF HeaderDescribed
<1> QED  BY <1>2, HeaderInvariant, PTL
=============================================================================
