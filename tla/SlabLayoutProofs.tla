-------------------------- MODULE SlabLayoutProofs --------------------------
(***************************************************************************)
(* Proofs about the arithmetic of tom_slab.h, for every size of pages,     *)
(* footers, words and elements: the bitmap of a page and the pointers its  *)
(* callers hold always agree, and elements lie apart from each other and   *)
(* from the footer.                                                        *)
(***************************************************************************)
EXTENDS SlabLayout, WellFoundedInduction, TLAPS

-----------------------------------------------------------------------------
(* Products and quotients.                                                 *)

\* What a product has in common with a sum: SMT does not see it by itself.
LEMMA Products ==
  ASSUME NEW a \in Int, NEW b \in Int, NEW d \in Int
  PROVE  /\ a * d \in Int /\ (a + b) * d = a * d + b * d /\ (a + 1) * d = a * d + d
         /\ d >= 0 /\ a <= b => a * d <= b * d
BY SMT

\* The quotient and the remainder of a division are those of the definition,
LEMMA DivMod ==
  ASSUME NEW n \in Int, NEW d \in Int, d > 0, NEW q, NEW r, q = n \div d, r = n % d
  PROVE  q \in Int /\ r \in 0 .. d - 1 /\ n = q * d + r
<1>1. q \in Int /\ r \in Int
  OBVIOUS
<1>2. r >= 0 /\ r < d
  OBVIOUS
<1>3. \A a \in Int : d * a = a * d /\ d * a \in Int
  OBVIOUS
<1>4. r = n - d * q
  OBVIOUS
<1>5. \A a, b \in Int : b = n - d * a => n = a * d + b
  BY <1>3
<1>6. n = q * d + r
  BY <1>1, <1>4, <1>5
<1> QED  BY <1>1, <1>2, <1>6

\* and no others.
LEMMA Quotient ==
  ASSUME NEW q \in Int, NEW d \in Int, d > 0, NEW r \in 0 .. d - 1
  PROVE  (q * d + r) \div d = q /\ (q * d + r) % d = r
BY SMT

\* A number that is not negative has a quotient that is not.
LEMMA DivNat ==
  ASSUME NEW n \in Nat, NEW d \in Int, d > 0
  PROVE  n \div d \in Nat
BY SMT

\* The quotient bounds the numbers whose product fits.
LEMMA DivBound ==
  ASSUME NEW n \in Int, NEW d \in Int, d > 0, NEW k \in Int, NEW q, q = n \div d
  PROVE  k < q <=> (k + 1) * d <= n
<1> DEFINE r == n % d
<1>1. r = n % d
  OBVIOUS
<1> HIDE DEF r
<1>2. q \in Int /\ r \in 0 .. d - 1 /\ n = q * d + r
  BY <1>1, DivMod
<1>3. /\ q * d \in Int /\ (k + 1) * d \in Int /\ (q + 1) * d = q * d + d
      /\ k + 1 <= q => (k + 1) * d <= q * d
      /\ q + 1 <= k + 1 => (q + 1) * d <= (k + 1) * d
  BY <1>2, Products
<1> DEFINE x == q * d
           y == (k + 1) * d
           z == (q + 1) * d
<1>4. /\ x \in Int /\ y \in Int /\ z = x + d /\ (k + 1 <= q => y <= x)
      /\ (q + 1 <= k + 1 => z <= y) /\ n = x + r
  BY <1>2, <1>3
<1> HIDE DEF x, y, z
<1>5. \A a \in Int : /\ k + 1 <= a \/ a + 1 <= k + 1
                     /\ k < a <=> k + 1 <= a
  OBVIOUS
<1>6. x <= n /\ n < x + d
  <2>1. r \in Int /\ 0 <= r /\ r < d
    BY <1>2
  <2>2. \A a, b \in Int : 0 <= b /\ b < d => a <= a + b /\ a + b < a + d
    OBVIOUS
  <2> QED  BY <1>4, <2>1, <2>2
<1>7. k < q <=> y <= n
  BY <1>2, <1>4, <1>5, <1>6
<1> QED  BY <1>7 DEF y

\* The least member of a set of numbers.
LEMMA LeastExists ==
  ASSUME NEW S \in SUBSET Nat, S # {}
  PROVE  Min(S) \in S /\ \A x \in S : Min(S) <= x
<1>1. PICK m \in S : \A x \in S : <<x, m>> \notin OpToRel(<, Nat)
  BY NatLessThanWellFounded, WFMin
<1>2. \A x \in S : m <= x
  <2> TAKE x \in S
  <2>1. x \in Nat /\ m \in Nat /\ <<x, m>> \notin OpToRel(<, Nat)
    BY <1>1
  <2> QED  BY <2>1 DEF OpToRel
<1> QED  BY <1>2 DEF Min

-----------------------------------------------------------------------------
(* The words of the bitmap.                                                *)

Positive == /\ IntMax \in Nat \ {0} /\ PageSize \in Nat \ {0} /\ FooterSize \in Nat \ {0}
            /\ Quantum \in Nat \ {0} /\ WordBits \in Nat \ {0}

LEMMA PositiveConstants == Positive
BY LayoutAssumption DEF Positive

Maps == [Words -> SUBSET Bits]
BitNumbers == 0 .. AvailWords * WordBits - 1

LEMMA WordCount == AvailWords \in Nat /\ PageSize \div Quantum <= AvailWords * WordBits
<1> DEFINE n == PageSize \div Quantum
           m == n + WordBits - 1
<1>1. n \in Nat /\ WordBits \in Nat /\ WordBits > 0
  BY PositiveConstants, DivNat DEF Positive
<1> HIDE DEF n
<1>2. m \in Nat
  BY <1>1
<1> HIDE DEF m
<1> DEFINE q == m \div WordBits
           r == m % WordBits
           p == q * WordBits
<1>3. q \in Nat /\ q = m \div WordBits /\ r = m % WordBits
  BY <1>1, <1>2, DivNat
<1> HIDE DEF q, r
<1>4. r \in 0 .. WordBits - 1 /\ m = p + r
  BY <1>1, <1>2, <1>3, DivMod
<1>5. p \in Int
  BY <1>1, <1>3, Products
<1> HIDE DEF p
<1>7. n <= p
  BY <1>1, <1>4, <1>5 DEF m
<1>6. AvailWords = q
  BY DEF AvailWords, q, m, n
<1> QED  BY <1>3, <1>6, <1>7 DEF p, n

WordOf(i) == i \div WordBits
BitOf(i) == i % WordBits

\* Each bit number in range has a word and a place in it, and they tell it.
LEMMA BitPlace ==
  ASSUME NEW i \in BitNumbers
  PROVE  /\ WordOf(i) \in Words /\ BitOf(i) \in Bits
         /\ i = (WordOf(i)) * WordBits + BitOf(i)
<1>1. WordBits \in Int /\ WordBits > 0 /\ AvailWords \in Int /\ i \in Nat
  BY PositiveConstants, WordCount DEF Positive, BitNumbers
<1>2. AvailWords * WordBits \in Int /\ i + 1 <= AvailWords * WordBits
  BY <1>1, Products DEF BitNumbers
<1> DEFINE q == WordOf(i)
           r == BitOf(i)
<1>3. q \in Nat /\ r \in 0 .. WordBits - 1 /\ i = q * WordBits + r
  <2>1. q = i \div WordBits /\ r = i % WordBits
    BY DEF WordOf, BitOf
  <2> HIDE DEF q, r
  <2>2. q \in Nat
    BY <1>1, <2>1, DivNat
  <2>3. r \in 0 .. WordBits - 1 /\ i = q * WordBits + r
    BY <1>1, <2>1, DivMod
  <2> QED  BY <2>2, <2>3
<1> HIDE DEF q, r
<1>4. q < AvailWords
  <2> SUFFICES ASSUME AvailWords <= q PROVE FALSE
    BY <1>1, <1>3
  <2>1. AvailWords * WordBits <= q * WordBits /\ q * WordBits \in Int
    BY <1>1, <1>3, Products
  <2> QED  BY <1>1, <1>2, <1>3, <2>1
<1>5. q \in Words /\ r \in Bits /\ i = q * WordBits + r
  BY <1>1, <1>3, <1>4 DEF Words, Bits
<1> QED  BY <1>5 DEF q, r

LEMMA PlaceBit ==
  ASSUME NEW w \in Words, NEW k \in Bits
  PROVE  /\ w * WordBits + k \in BitNumbers
         /\ WordOf(w * WordBits + k) = w /\ BitOf(w * WordBits + k) = k
<1>1. /\ WordBits \in Int /\ WordBits > 0 /\ AvailWords \in Int /\ w \in Nat /\ k \in Nat
      /\ w + 1 <= AvailWords /\ k \in 0 .. WordBits - 1
  BY PositiveConstants, WordCount DEF Positive, Words, Bits
<1>2. /\ (w + 1) * WordBits <= AvailWords * WordBits /\ AvailWords * WordBits \in Int
      /\ (w + 1) * WordBits = w * WordBits + WordBits
      /\ 0 * WordBits <= w * WordBits /\ w * WordBits \in Int /\ 0 * WordBits = 0
  BY <1>1, Products
<1>3. w * WordBits + k \in BitNumbers
  BY <1>1, <1>2 DEF BitNumbers
<1>4. (w * WordBits + k) \div WordBits = w /\ (w * WordBits + k) % WordBits = k
  BY <1>1, Quotient
<1> QED  BY <1>3, <1>4 DEF WordOf, BitOf

\* SLAB_SET_BIT and SLAB_CLR_BIT change the bit they are given and no other.
LEMMA SetOneBit ==
  ASSUME NEW b \in Maps, NEW i \in BitNumbers
  PROVE  /\ SetBit(b, i) \in Maps
         /\ \A j \in BitNumbers : GetBit(SetBit(b, i), j) <=> GetBit(b, j) \/ j = i
<1>1. \A j \in BitNumbers :
        WordOf(j) \in Words /\ BitOf(j) \in Bits /\ j = WordOf(j) * WordBits + BitOf(j)
  BY BitPlace
<1>2. SetBit(b, i) = [b EXCEPT ![WordOf(i)] = @ \cup {BitOf(i)}]
  BY DEF WordOf, BitOf, SetBit
<1>3. \A c : \A j \in BitNumbers : GetBit(c, j) <=> BitOf(j) \in c[WordOf(j)]
  BY DEF GetBit, WordOf, BitOf
<1>4. \A j \in BitNumbers : WordOf(j) = WordOf(i) /\ BitOf(j) = BitOf(i) => j = i
  BY <1>1
<1> QED  BY <1>1, <1>2, <1>3, <1>4 DEF Maps

LEMMA ClearOneBit ==
  ASSUME NEW b \in Maps, NEW i \in BitNumbers
  PROVE  /\ ClrBit(b, i) \in Maps
         /\ \A j \in BitNumbers : GetBit(ClrBit(b, i), j) <=> GetBit(b, j) /\ j # i
<1>1. \A j \in BitNumbers :
        WordOf(j) \in Words /\ BitOf(j) \in Bits /\ j = WordOf(j) * WordBits + BitOf(j)
  BY BitPlace
<1>2. ClrBit(b, i) = [b EXCEPT ![WordOf(i)] = @ \ {BitOf(i)}]
  BY DEF WordOf, BitOf, ClrBit
<1>3. \A c : \A j \in BitNumbers : GetBit(c, j) <=> BitOf(j) \in c[WordOf(j)]
  BY DEF GetBit, WordOf, BitOf
<1>4. \A j \in BitNumbers : WordOf(j) = WordOf(i) /\ BitOf(j) = BitOf(i) => j = i
  BY <1>1
<1> QED  BY <1>1, <1>2, <1>3, <1>4 DEF Maps

\* The bitmap of an empty page.
LEMMA FirstBits ==
  ASSUME NEW n
  PROVE  AllSet(n) \in Maps /\ \A i \in BitNumbers : GetBit(AllSet(n), i) <=> i < n
<1>1. AllSet(n) \in Maps
  BY DEF AllSet, Maps
<1>2. ASSUME NEW i \in BitNumbers PROVE GetBit(AllSet(n), i) <=> i < n
  <2>1. /\ WordOf(i) \in Words /\ BitOf(i) \in Bits
        /\ i = (WordOf(i)) * WordBits + BitOf(i)
    BY BitPlace
  <2> DEFINE w == WordOf(i)
             k == BitOf(i)
  <2>2. GetBit(AllSet(n), i) <=> k \in {b \in Bits : w * WordBits + b < n}
    <3>1. GetBit(AllSet(n), i) <=> k \in AllSet(n)[w]
      BY DEF GetBit, WordOf, BitOf
    <3> QED  BY <2>1, <3>1 DEF AllSet
  <2>3. k \in Bits /\ i = w * WordBits + k
    BY <2>1
  <2> HIDE DEF w, k
  <2> QED  BY <2>2, <2>3
<1> QED  BY <1>1, <1>2

\* The scan of slab_alloc finds a bit that is 1.
LEMMA ScanFinds ==
  ASSUME NEW b \in Maps, \E w \in Words : b[w] # {}
  PROVE  Scan(b) \in BitNumbers /\ GetBit(b, Scan(b))
<1> DEFINE w == Min({v \in Words : b[v] # {}})
           k == Min(b[w])
<1>1. w \in Words /\ b[w] # {}
  <2> DEFINE S == {v \in Words : b[v] # {}}
  <2>1. S \in SUBSET Nat /\ S # {}
    BY WordCount DEF Words
  <2>2. Min(S) \in S
    BY <2>1, LeastExists
  <2> QED  BY <2>2
<1> HIDE DEF w
<1>2. k \in b[w] /\ k \in Bits
  <2>1. b[w] \in SUBSET Bits /\ Bits \subseteq Nat
    BY <1>1 DEF Maps, Bits
  <2>2. b[w] \in SUBSET Nat
    BY <2>1
  <2> QED  BY <1>1, <2>1, <2>2, LeastExists
<1> HIDE DEF k
<1>3. Scan(b) = w * WordBits + k
  <2>1. Scan(b) = w * WordBits + (k + 1) - 1
    BY DEF Scan, Ffs, w, k
  <2>2. w \in Int /\ k \in Int /\ WordBits \in Int
    BY <1>1, <1>2, WordCount, PositiveConstants DEF Words, Bits, Positive
  <2>3. w * WordBits \in Int
    BY <2>2, Products
  <2> QED  BY <2>1, <2>2, <2>3
<1>4. /\ w * WordBits + k \in BitNumbers
      /\ WordOf(w * WordBits + k) = w /\ BitOf(w * WordBits + k) = k
  BY <1>1, <1>2, PlaceBit
<1> DEFINE i == w * WordBits + k
<1>5. GetBit(b, i) <=> BitOf(i) \in b[WordOf(i)]
  BY DEF GetBit, WordOf, BitOf
<1> QED  BY <1>2, <1>3, <1>4, <1>5

-----------------------------------------------------------------------------
(* The element size and the places of the elements.                        *)

Legal(s) == /\ s \in Nat /\ Quantum <= s /\ s <= PageSize - FooterSize
            /\ \E k \in Int : s = k * Quantum

\* slab_create rounds up to a multiple of 16, unless int overflows.
LEMMA Rounded ==
  ASSUME NEW sz \in Requests
  PROVE  /\ ElemSize(sz) \in Nat /\ Quantum <= ElemSize(sz)
         /\ \E k \in Int : ElemSize(sz) = k * Quantum
         /\ sz <= ElemSize(sz) \/ sz > IntMax - (Quantum - 1)
<1> DEFINE a == PlusInt(sz, Quantum - 1)
           q == DivInt(a, Quantum)
<1>1. /\ sz \in Int /\ -IntMax <= sz /\ sz <= IntMax
      /\ Quantum \in Nat /\ Quantum > 0 /\ IntMax \in Nat /\ Quantum < IntMax
      /\ PageSize \in Nat
  BY LayoutAssumption, PositiveConstants DEF Positive
<1>2. a \in Int /\ (sz <= IntMax - (Quantum - 1) => a = sz + Quantum - 1)
  BY <1>1 DEF PlusInt
<1> HIDE DEF a
<1>3. a \div Quantum \in Int /\ q \in Int
  BY <1>1, <1>2 DEF DivInt
<1>4. 0 <= a => q = a \div Quantum
  BY <1>1, <1>2 DEF DivInt
<1> HIDE DEF q
<1>5. RoundUp(sz) = q * Quantum /\ q * Quantum \in Int
  BY <1>1, <1>3, Products DEF RoundUp, q, a
<1>6. Quantum = 1 * Quantum
  BY <1>1
<1>7. /\ ElemSize(sz) \in Nat /\ Quantum <= ElemSize(sz)
      /\ ElemSize(sz) = Quantum \/ ElemSize(sz) = q * Quantum
      /\ q * Quantum <= ElemSize(sz)
  <2> DEFINE x == q * Quantum
  <2>1. x \in Int /\ RoundUp(sz) = x
    BY <1>5
  <2> HIDE DEF x
  <2>2. /\ ElemSize(sz) \in Nat /\ Quantum <= ElemSize(sz)
        /\ ElemSize(sz) = Quantum \/ ElemSize(sz) = x
        /\ x <= ElemSize(sz)
    BY <1>1, <2>1 DEF ElemSize
  <2> QED  BY <2>2 DEF x
<1>8. \E k \in Int : ElemSize(sz) = k * Quantum
  BY <1>3, <1>6, <1>7
<1>9. ASSUME sz <= IntMax - (Quantum - 1), 0 <= sz PROVE sz <= ElemSize(sz)
  <2>1. a = sz + Quantum - 1 /\ 0 <= a
    BY <1>1, <1>2, <1>9
  <2>2. q = a \div Quantum
    BY <1>4, <2>1
  <2>3. sz - 1 < q * Quantum
    <3> DEFINE r == a % Quantum
               x == q * Quantum
    <3>1. r = a % Quantum
      OBVIOUS
    <3> HIDE DEF r
    <3>2. r \in 0 .. Quantum - 1 /\ a = x + r
      <4>1. a \in Int /\ Quantum \in Int /\ Quantum > 0
        BY <1>1, <1>2
      <4> QED  BY <2>2, <3>1, <4>1, DivMod
    <3>3. x \in Int
      BY <1>5
    <3> HIDE DEF x
    <3>4. sz - 1 < x
      BY <1>1, <2>1, <3>2, <3>3
    <3> QED  BY <3>4 DEF x
  <2> DEFINE x == q * Quantum
  <2>4. x \in Int /\ sz - 1 < x /\ x <= ElemSize(sz)
    BY <1>5, <1>7, <2>3
  <2> HIDE DEF x
  <2> QED  BY <1>1, <1>7, <2>4
<1>10. ASSUME sz < 0 PROVE sz <= ElemSize(sz)
  BY <1>1, <1>7, <1>10
<1> QED  BY <1>1, <1>7, <1>8, <1>9, <1>10

\* Every element ends in front of the footer.
LEMMA ElementPlace ==
  ASSUME NEW s, Legal(s)
  PROVE  /\ MaxElems(s) \in Nat
         /\ \A i \in 0 .. MaxElems(s) - 1 : /\ i * s \in Nat
                                           /\ i * s + s <= PageSize - FooterSize
<1> DEFINE n == PageSize - FooterSize
           q == n \div s
<1>1. /\ s \in Int /\ s > 0 /\ Quantum \in Nat /\ n \in Nat
  BY PositiveConstants, LayoutAssumption DEF Positive, Legal
<1>2. MaxElems(s) = q
  BY DEF MaxElems
<1> HIDE DEF n
<1>3. q \in Nat /\ q = n \div s
  BY <1>1, DivNat
<1> HIDE DEF q
<1>4. ASSUME NEW i \in 0 .. q - 1
      PROVE  i * s \in Nat /\ i * s + s <= n
  <2>1. i \in Int /\ 0 <= i /\ i < q
    BY <1>3
  <2>2. (i + 1) * s <= n
    BY <1>1, <1>3, <2>1, DivBound
  <2>3. (i + 1) * s = i * s + s /\ i * s \in Int /\ 0 * s <= i * s /\ 0 * s = 0
    BY <1>1, <2>1, Products
  <2> DEFINE x == i * s
             y == (i + 1) * s
             z == 0 * s
  <2>4. y <= n /\ y = x + s /\ x \in Int /\ z <= x /\ z = 0
    BY <2>2, <2>3
  <2> HIDE DEF x, y, z
  <2>5. x \in Nat /\ x + s <= n
    BY <1>1, <2>4
  <2> QED  BY <2>5 DEF x
<1> QED  BY <1>2, <1>3, <1>4 DEF n

\* SLAB_AVAIL_WORDS words are enough.
LEMMA EnoughBits ==
  ASSUME NEW s, Legal(s)
  PROVE  0 .. MaxElems(s) - 1 \subseteq BitNumbers
<1> DEFINE m == MaxElems(s)
           n == PageSize - FooterSize
           p == PageSize \div Quantum
<1>1. /\ s \in Int /\ s > 0 /\ Quantum \in Nat /\ Quantum > 0 /\ n \in Nat
      /\ PageSize \in Nat /\ n <= PageSize /\ Quantum <= s /\ m \in Nat
  BY PositiveConstants, LayoutAssumption, ElementPlace DEF Positive, Legal
<1>2. m = n \div s
  BY DEF MaxElems
<1>3. p \in Nat /\ p = PageSize \div Quantum /\ p <= AvailWords * WordBits
  BY <1>1, DivNat, WordCount
<1> HIDE DEF m, n, p
<1>4. m - 1 \in Int /\ m - 1 < m /\ (m - 1) + 1 = m
  BY <1>1
<1>5. m * s <= n
  <2>1. m - 1 < m <=> ((m - 1) + 1) * s <= n
    BY <1>1, <1>2, <1>4, DivBound
  <2> QED  BY <1>4, <2>1
<1>6. m * Quantum <= m * s
  <2>1. Quantum * m <= s * m
    BY <1>1, Products
  <2>2. Quantum * m = m * Quantum /\ s * m = m * s
    BY <1>1
  <2> QED  BY <2>1, <2>2
<1>7. m * Quantum <= PageSize
  <2>1. m * Quantum \in Int /\ m * s \in Int
    BY <1>1, Products
  <2> DEFINE x == m * Quantum
             y == m * s
  <2>2. x \in Int /\ y \in Int /\ x <= y /\ y <= n
    BY <1>5, <1>6, <2>1
  <2> HIDE DEF x, y
  <2>3. x <= PageSize
    BY <1>1, <2>2
  <2> QED  BY <2>3 DEF x
<1>8. m - 1 < p
  <2>1. m - 1 < p <=> ((m - 1) + 1) * Quantum <= PageSize
    BY <1>1, <1>3, <1>4, DivBound
  <2> QED  BY <1>4, <1>7, <2>1
<1>9. AvailWords * WordBits \in Int
  BY WordCount, PositiveConstants, Products DEF Positive
<1> DEFINE b == AvailWords * WordBits
<1>10. BitNumbers = 0 .. b - 1 /\ b \in Int /\ p <= b
  BY <1>3, <1>9 DEF BitNumbers
<1> HIDE DEF b
<1>11. \A i \in 0 .. m - 1 : i \in 0 .. b - 1
  BY <1>1, <1>3, <1>8, <1>10
<1> QED  BY <1>10, <1>11 DEF m

\* From the bare pointer slab_free finds the page and the index again.
LEMMA PointerTells ==
  ASSUME base \in Bases, Legal(elemsz), NEW i \in 0 .. MaxElems(elemsz) - 1
  PROVE  /\ Address(i) \in Nat /\ Address(i) = base + i * elemsz
         /\ GetBase(Address(i)) = base
         /\ IndexOf(Address(i)) = i
<1> DEFINE x == i * elemsz
           a == base + x
<1>1. /\ base \in Nat /\ base % PageSize = 0 /\ PageSize \in Nat /\ PageSize > 0
      /\ FooterSize \in Nat /\ elemsz \in Nat /\ elemsz > 0
  BY PositiveConstants, LayoutAssumption DEF Positive, Legal
<1>2. /\ MaxElems(elemsz) \in Nat /\ x \in Nat /\ x + elemsz <= PageSize - FooterSize
  BY ElementPlace
<1>3. i \in Int
  BY <1>2
<1>4. x \div elemsz = i
  <2>1. 0 \in 0 .. elemsz - 1
    BY <1>1
  <2>2. (i * elemsz + 0) \div elemsz = i
    BY <1>1, <1>3, <2>1, Quotient
  <2>3. i * elemsz + 0 = x
    BY <1>2
  <2> QED  BY <2>2, <2>3
<1>5. Address(i) = a
  BY DEF Address
<1> HIDE DEF x
<1>6. x \in 0 .. PageSize - 1 /\ a \in Nat
  BY <1>1, <1>2
<1>7. a % PageSize = x
  <2> DEFINE q == base \div PageSize
             r == base % PageSize
             y == q * PageSize
  <2>1. q = base \div PageSize /\ r = base % PageSize /\ r = 0
    BY <1>1
  <2> HIDE DEF q, r
  <2>2. q \in Int /\ base = y + r
    BY <1>1, <2>1, DivMod
  <2>3. y \in Int /\ (y + x) % PageSize = x
    BY <1>1, <1>6, <2>2, Products, Quotient
  <2> HIDE DEF y
  <2>4. base = y
    BY <2>1, <2>2, <2>3
  <2> QED  BY <2>3, <2>4
<1>8. GetBase(a) = base
  BY <1>1, <1>6, <1>7 DEF GetBase
<1>9. a - base = x
  BY <1>1, <1>6
<1>10. IndexOf(a) = i
  BY <1>4, <1>8, <1>9 DEF IndexOf
<1> QED  BY <1>5, <1>6, <1>8, <1>10 DEF x

-----------------------------------------------------------------------------
(* The invariant.                                                          *)

\* slab_create accepted the size; the bitmap has its words.  With that,
\* BitmapMatches is inductive.
LayoutInv ==
  /\ request \in Requests /\ elemsz = ElemSize(request) /\ base \in Bases
  /\ FitsPage(elemsz)
  /\ avail \in Maps
  /\ BitmapMatches

LEMMA LegalSize ==
  ASSUME request \in Requests, elemsz = ElemSize(request), FitsPage(elemsz)
  PROVE  Legal(elemsz)
BY Rounded DEF Legal, FitsPage

LEMMA FreeIs == FreeIndices = {i \in BitNumbers : GetBit(avail, i)}
BY DEF FreeIndices, BitNumbers

\* Different elements have different addresses.
LEMMA OneAddress ==
  ASSUME base \in Bases, Legal(elemsz),
         NEW i \in 0 .. MaxElems(elemsz) - 1, NEW j \in 0 .. MaxElems(elemsz) - 1,
         Address(i) = Address(j)
  PROVE  i = j
BY PointerTells

LEMMA InitLayout == Init => LayoutInv
<1> SUFFICES ASSUME Init PROVE LayoutInv
  OBVIOUS
<1>1. PICK sz \in Requests, b \in Bases :
        /\ FitsPage(ElemSize(sz))
        /\ request = sz /\ elemsz = ElemSize(sz) /\ base = b
        /\ \E n \in 0 .. MaxElems(ElemSize(sz)) :
             /\ avail = [w \in Words |-> AllSet(MaxElems(ElemSize(sz)))[w] \ AllSet(n)[w]]
             /\ out = {b + i * ElemSize(sz) : i \in 0 .. n - 1}
        /\ doubled = FALSE
  BY DEF Init
<1> DEFINE m == MaxElems(elemsz)
<1>2. /\ Legal(elemsz) /\ m \in Nat /\ 0 .. m - 1 \subseteq BitNumbers
  BY <1>1, LegalSize, ElementPlace, EnoughBits
<1>3. PICK n \in 0 .. m :
        /\ avail = [w \in Words |-> AllSet(m)[w] \ AllSet(n)[w]]
        /\ out = {base + i * elemsz : i \in 0 .. n - 1}
  BY <1>1
<1> HIDE DEF m
<1>4. avail \in Maps
  BY <1>3, FirstBits DEF Maps
<1>5. \A i \in BitNumbers : GetBit(avail, i) <=> i < m /\ ~(i < n)
  <2> TAKE i \in BitNumbers
  <2> DEFINE w == WordOf(i)
             k == BitOf(i)
             c == AllSet(m)
             d == AllSet(n)
  <2>1. w \in Words /\ (GetBit(c, i) <=> i < m) /\ (GetBit(d, i) <=> i < n)
    <3>1. w \in Words
      BY BitPlace
    <3>2. GetBit(c, i) <=> i < m
      BY FirstBits
    <3>3. GetBit(d, i) <=> i < n
      BY FirstBits
    <3> QED  BY <3>1, <3>2, <3>3
  <2>2. \A m1 : GetBit(m1, i) <=> k \in m1[w]
    BY DEF GetBit, WordOf, BitOf
  <2>3. avail = [v \in Words |-> c[v] \ d[v]]
    BY <1>3
  <2> HIDE DEF w, k, c, d
  <2>4. GetBit(avail, i) <=> k \in c[w] /\ k \notin d[w]
    BY <2>1, <2>2, <2>3
  <2> QED  BY <2>1, <2>2, <2>4
<1>6. /\ FreeIndices \subseteq 0 .. m - 1
      /\ (0 .. m - 1) \ FreeIndices = 0 .. n - 1
  <2>1. \A i \in BitNumbers : i \in Nat
    BY DEF BitNumbers
  <2> QED  BY <1>2, <1>3, <1>5, <2>1, FreeIs
<1>7. out = {Address(i) : i \in (0 .. m - 1) \ FreeIndices}
  BY <1>3, <1>6 DEF Address
<1> QED  BY <1>1, <1>4, <1>6, <1>7 DEF LayoutInv, BitmapMatches, m

\* An operation that sets or clears one bit, and adds or takes away the
\* address of its element.
LEMMA OneElement ==
  ASSUME LayoutInv, UNCHANGED <<request, elemsz, base>>, ~doubled', avail' \in Maps,
         NEW i \in 0 .. MaxElems(elemsz) - 1,
         \/ /\ \A j \in BitNumbers : GetBit(avail', j) <=> GetBit(avail, j) /\ j # i
            /\ out' = out \cup {Address(i)}
         \/ /\ \A j \in BitNumbers : GetBit(avail', j) <=> GetBit(avail, j) \/ j = i
            /\ out' = out \ {Address(i)}
  PROVE  LayoutInv'
<1> DEFINE M == 0 .. MaxElems(elemsz) - 1
           F == FreeIndices
           F1 == {j \in BitNumbers : GetBit(avail', j)}
<1>1. /\ Legal(elemsz) /\ base \in Bases /\ M \subseteq BitNumbers
      /\ \A j, k \in M : Address(j) = Address(k) => j = k
  BY LegalSize, EnoughBits, OneAddress DEF LayoutInv
<1>2. /\ F = {j \in BitNumbers : GetBit(avail, j)} /\ F \subseteq M
      /\ out = {Address(j) : j \in M \ F}
  BY FreeIs DEF LayoutInv, BitmapMatches
<1>3. FreeIndices' = F1
  BY DEF FreeIndices, BitNumbers, GetBit
<1>4. \A j : Address(j)' = Address(j)
  BY DEF Address
<1>5. M' = M
  OBVIOUS
<1> HIDE DEF M, F, F1
<1>6. F1 \subseteq M /\ out' = {Address(j) : j \in M \ F1}
  <2>1. CASE /\ \A j \in BitNumbers : GetBit(avail', j) <=> GetBit(avail, j) /\ j # i
             /\ out' = out \cup {Address(i)}
    <3>1. F1 = F \ {i}
      BY <1>2, <2>1 DEF F1
    <3>2. i \in M
      BY DEF M
    <3> QED  BY <1>2, <2>1, <3>1, <3>2
  <2>2. CASE /\ \A j \in BitNumbers : GetBit(avail', j) <=> GetBit(avail, j) \/ j = i
             /\ out' = out \ {Address(i)}
    <3>2. i \in M
      BY DEF M
    <3>3. F1 = F \cup {i}
      BY <1>1, <1>2, <2>2, <3>2 DEF F1
    <3> QED  BY <1>1, <1>2, <2>2, <3>2, <3>3
  <2> QED  BY <2>1, <2>2
<1>7. BitmapMatches'
  BY <1>3, <1>4, <1>5, <1>6 DEF BitmapMatches, M
<1> QED  BY <1>7 DEF LayoutInv

LEMMA AllocKeeps ==
  ASSUME LayoutInv, Next, Alloc
  PROVE  LayoutInv'
<1> DEFINE i == Scan(avail)
<1>1. /\ avail \in Maps /\ i \in BitNumbers /\ GetBit(avail, i)
  BY ScanFinds DEF LayoutInv, Alloc
<1>2. i \in 0 .. MaxElems(elemsz) - 1
  BY <1>1, FreeIs DEF LayoutInv, BitmapMatches
<1>3. /\ avail' = ClrBit(avail, i) /\ out' = out \cup {Address(i)}
      /\ UNCHANGED <<request, elemsz, base>> /\ ~doubled'
  BY DEF Alloc, Next
<1> HIDE DEF i
<1>4. avail' \in Maps /\ \A j \in BitNumbers : GetBit(avail', j) <=> GetBit(avail, j) /\ j # i
  BY <1>1, <1>3, ClearOneBit
<1> QED  BY <1>2, <1>3, <1>4, OneElement

LEMMA FreeKeeps ==
  ASSUME LayoutInv, NEW ptr \in Freeable, Free(ptr)
  PROVE  LayoutInv'
<1>1. ptr \in out
  BY DEF Freeable
<1>2. PICK i \in (0 .. MaxElems(elemsz) - 1) \ FreeIndices : ptr = Address(i)
  BY <1>1 DEF LayoutInv, BitmapMatches
<1>3. Legal(elemsz) /\ avail \in Maps /\ i \in BitNumbers /\ IndexOf(ptr) = i
  BY <1>2, LegalSize, EnoughBits, PointerTells DEF LayoutInv
<1>4. ~GetBit(avail, i)
  BY <1>2, <1>3, FreeIs
<1>5. /\ avail' = SetBit(avail, i) /\ out' = out \ {Address(i)}
      /\ UNCHANGED <<request, elemsz, base>> /\ ~doubled'
  BY <1>2, <1>3, <1>4 DEF Free
<1>6. avail' \in Maps /\ \A j \in BitNumbers : GetBit(avail', j) <=> GetBit(avail, j) \/ j = i
  BY <1>3, <1>5, SetOneBit
<1> QED  BY <1>2, <1>5, <1>6, OneElement

LEMMA ResetKeeps ==
  ASSUME LayoutInv, Next, Reset
  PROVE  LayoutInv'
<1> DEFINE m == MaxElems(elemsz)
<1>1. /\ avail' = AllSet(m) /\ out' = {} /\ UNCHANGED <<request, elemsz, base>> /\ ~doubled'
  BY DEF Reset, Next
<1>2. m \in Nat /\ 0 .. m - 1 \subseteq BitNumbers
  BY LegalSize, ElementPlace, EnoughBits DEF LayoutInv
<1>3. MaxElems(elemsz)' = m
  BY <1>1
<1> HIDE DEF m
<1>4. avail' \in Maps /\ \A i \in BitNumbers : GetBit(avail', i) <=> i < m
  BY <1>1, FirstBits
<1>5. FreeIndices' = {i \in BitNumbers : GetBit(avail', i)}
  BY DEF FreeIndices, BitNumbers, GetBit
<1>6. FreeIndices' = 0 .. m - 1
  <2>1. \A i \in BitNumbers : i \in Nat
    BY DEF BitNumbers
  <2> QED  BY <1>2, <1>4, <1>5, <2>1
<1>7. BitmapMatches'
  BY <1>1, <1>3, <1>6 DEF BitmapMatches
<1> QED  BY <1>1, <1>4, <1>7 DEF LayoutInv

(***************************************************************************)
(* The inductive invariant of a page, its bitmap and its pointers.         *)
(***************************************************************************)
THEOREM LayoutInvariant == Spec => []LayoutInv
<1>1. LayoutInv /\ [Next]_vars => LayoutInv'
  <2> SUFFICES ASSUME LayoutInv, [Next]_vars PROVE LayoutInv'
    OBVIOUS
  <2>1. CASE UNCHANGED vars
    BY <2>1 DEF vars, LayoutInv, BitmapMatches, FreeIndices, GetBit, Address
  <2> QED  BY <2>1, AllocKeeps, FreeKeeps, ResetKeeps DEF Next
<1> QED  BY <1>1, InitLayout, PTL DEF Spec

(***************************************************************************)
(* The bits and the pointers in the callers' hands always say the same, so *)
(* slab_free never takes one element for another.                          *)
(***************************************************************************)
THEOREM BitsTellPointers == Spec => []BitmapMatches
<1>1. LayoutInv => BitmapMatches
  BY DEF LayoutInv
<1> QED  BY <1>1, LayoutInvariant, PTL

LEMMA Multiples ==
  ASSUME NEW i \in Int, NEW s, Legal(s)
  PROVE  (i * s) % Quantum = 0
<1>1. PICK k \in Int : s = k * Quantum
  BY DEF Legal
<1>2. Quantum \in Int /\ Quantum > 0 /\ 0 \in 0 .. Quantum - 1
  BY PositiveConstants DEF Positive
<1>3. i * (k * Quantum) = (i * k) * Quantum /\ i * k \in Int
  BY <1>2
<1> DEFINE q == i * k
           x == q * Quantum
<1>4. i * s = x /\ q \in Int
  BY <1>1, <1>3
<1> HIDE DEF q
<1>5. x \in Int /\ (q * Quantum + 0) % Quantum = 0
  BY <1>2, <1>4, Products, Quotient
<1> HIDE DEF x
<1>6. x + 0 = x
  BY <1>5
<1> QED  BY <1>4, <1>5, <1>6 DEF x

\* The next element starts where this one ends.
LEMMA Steps ==
  ASSUME NEW i \in Int, NEW j \in Int, NEW s \in Nat, NEW a \in Int,
         i * s < a, a < i * s + s
  PROVE  j * s # a
<1> DEFINE x == i * s
           y == j * s
           z == (i + 1) * s
<1>1. /\ x \in Int /\ y \in Int /\ z \in Int /\ z = x + s
      /\ (j <= i => y <= x) /\ (i + 1 <= j => z <= y)
  BY Products
<1>2. x < a /\ a < x + s
  OBVIOUS
<1>3. j <= i \/ i + 1 <= j
  OBVIOUS
<1> HIDE DEF x, y, z
<1>4. CASE j <= i
  <2>1. y <= x
    BY <1>1, <1>4
  <2>2. y < a
    BY <1>1, <1>2, <2>1
  <2> QED  BY <1>1, <2>2 DEF y
<1>5. CASE i + 1 <= j
  <2>1. x + s <= y
    BY <1>1, <1>5
  <2>2. a < y
    BY <1>1, <1>2, <2>1
  <2> QED  BY <1>1, <2>2 DEF y
<1> QED  BY <1>3, <1>4, <1>5

(***************************************************************************)
(* Whatever the sizes of pages, footers and words are: no caller can write *)
(* to another one's element, the bitmap or the list node.                  *)
(***************************************************************************)
THEOREM ElementsKeepApart == Spec => []ElementsApart
<1>1. LayoutInv => ElementsApart
  <2> SUFFICES ASSUME LayoutInv PROVE ElementsApart
    OBVIOUS
  <2> DEFINE M == 0 .. MaxElems(elemsz) - 1
  <2>1. Legal(elemsz) /\ base \in Bases /\ base \in Nat
    BY LegalSize, LayoutAssumption DEF LayoutInv
  <2>2. /\ \A i \in M : /\ i \in Int /\ i * elemsz \in Nat
                       /\ i * elemsz + elemsz <= PageSize - FooterSize
        /\ \A i \in M : Address(i) = base + i * elemsz /\ GetBase(Address(i)) = base
    BY <2>1, ElementPlace, PointerTells
  <2>3. \A p \in out : \E i \in M : p = Address(i)
    BY DEF LayoutInv, BitmapMatches
  <2>4. /\ PageSize \in Nat /\ FooterSize \in Nat /\ elemsz \in Nat
    BY <2>1, PositiveConstants DEF Positive, Legal
  <2> HIDE DEF M
  <2>5. request <= elemsz \/ request > IntMax - (Quantum - 1)
    BY Rounded DEF LayoutInv
  <2>6. ASSUME NEW p \in out
        PROVE  /\ p >= base /\ p + elemsz <= base + PageSize - FooterSize
               /\ (p - base) % Quantum = 0
               /\ GetBase(p) = base
               /\ \A a \in p + 1 .. p + elemsz - 1 : a \notin out
    <3>1. PICK i \in M : p = Address(i)
      BY <2>3
    <3> DEFINE x == i * elemsz
    <3>2. /\ x \in Nat /\ x + elemsz <= PageSize - FooterSize
          /\ p = base + x /\ GetBase(p) = base /\ x % Quantum = 0 /\ i \in Int
      BY <2>1, <2>2, <3>1, Multiples
    <3>3. ASSUME NEW a \in p + 1 .. p + elemsz - 1, a \in out PROVE FALSE
      <4>1. PICK j \in M : a = Address(j)
        BY <2>3, <3>3
      <4> DEFINE y == j * elemsz
                 b == a - base
      <4>2. a = base + y /\ y \in Nat /\ j \in Int
        BY <2>2, <4>1
      <4>3. y = b /\ b \in Int /\ x < b /\ b < x + elemsz
        <5> HIDE DEF x, y
        <5> QED  BY <2>1, <2>4, <3>2, <3>3, <4>2
      <4> HIDE DEF b
      <4>4. y # b
        BY <2>4, <3>2, <4>2, <4>3, Steps
      <4> QED  BY <4>3, <4>4
    <3> HIDE DEF x
    <3>4. p - base = x /\ p >= base /\ p + elemsz <= base + PageSize - FooterSize
      BY <2>1, <2>4, <3>2
    <3> QED  BY <3>2, <3>3, <3>4
  <2> QED  BY <2>5, <2>6 DEF ElementsApart
<1> QED  BY <1>1, LayoutInvariant, PTL
=============================================================================
