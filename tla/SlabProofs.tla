----------------------------- MODULE SlabProofs -----------------------------
(***************************************************************************)
(* Proofs about the slab allocator, for every set of pages and threads and *)
(* every number of elements per page.  First its pages: what the allocator *)
(* counts and which list a page is on, an invariant that needs nothing of  *)
(* the callers.  Then its elements and who owns them: the allocator never  *)
(* hands out an element twice, none of its assertions fails, and it        *)
(* implements module SlabPool.  That needs callers that keep slab_reset    *)
(* apart from other calls (Quiescent): a free that overlaps a reset gives  *)
(* back an element that is free already.                                   *)
(***************************************************************************)
EXTENDS Slab, FiniteSetTheorems, SequenceTheorems, WellFoundedInduction, TLAPS

-----------------------------------------------------------------------------
(* Lists of pages.                                                         *)

LEMMA ElementsType ==
  ASSUME NEW S, NEW s \in Seq(S)
  PROVE  ElementsIn(s) \subseteq S
BY DEF ElementsIn

\* slab_list_push_back adds its node to the list and nothing else.
LEMMA AppendElements ==
  ASSUME NEW S, NEW s \in Seq(S), NEW p \in S
  PROVE  /\ Append(s, p) \in Seq(S)
         /\ ElementsIn(Append(s, p)) = ElementsIn(s) \cup {p}
         /\ Distinct(s) /\ p \notin ElementsIn(s) => Distinct(Append(s, p))
<1>1. /\ Append(s, p) \in Seq(S)
      /\ Len(Append(s, p)) = Len(s) + 1
      /\ \A i \in 1 .. Len(s) : Append(s, p)[i] = s[i]
      /\ Append(s, p)[Len(s) + 1] = p
  BY AppendProperties
<1>2. /\ DOMAIN s = 1 .. Len(s)
      /\ DOMAIN Append(s, p) = 1 .. Len(s) + 1
      /\ Len(s) \in Nat
  BY <1>1, LenProperties
<1>3. ElementsIn(Append(s, p)) = ElementsIn(s) \cup {p}
  <2>1. ElementsIn(Append(s, p)) \subseteq ElementsIn(s) \cup {p}
    BY <1>1, <1>2 DEF ElementsIn
  <2>2. ElementsIn(s) \subseteq ElementsIn(Append(s, p))
    BY <1>1, <1>2 DEF ElementsIn
  <2>3. p \in ElementsIn(Append(s, p))
    BY <1>1, <1>2 DEF ElementsIn
  <2> QED  BY <2>1, <2>2, <2>3
<1>4. Distinct(s) /\ p \notin ElementsIn(s) => Distinct(Append(s, p))
  BY <1>1, <1>2 DEF Distinct, ElementsIn
<1> QED  BY <1>1, <1>3, <1>4

\* slab_list_pop_front takes the first node off the list and nothing else.
LEMMA TailElements ==
  ASSUME NEW S, NEW s \in Seq(S), s # <<>>
  PROVE  /\ Tail(s) \in Seq(S) /\ Head(s) \in S
         /\ Len(Tail(s)) = Len(s) - 1
         /\ Head(s) \in ElementsIn(s)
         /\ ElementsIn(s) = ElementsIn(Tail(s)) \cup {Head(s)}
         /\ Distinct(s) => /\ Distinct(Tail(s))
                           /\ Head(s) \notin ElementsIn(Tail(s))
<1>1. /\ Head(s) \in S /\ Tail(s) \in Seq(S)
      /\ Len(Tail(s)) = Len(s) - 1
      /\ \A i \in 1 .. Len(Tail(s)) : Tail(s)[i] = s[i + 1]
  BY HeadTailProperties
<1>2. /\ DOMAIN s = 1 .. Len(s) /\ Len(s) \in Nat \ {0}
      /\ DOMAIN Tail(s) = 1 .. Len(s) - 1
      /\ Head(s) = s[1]
  BY <1>1, LenProperties, EmptySeq
<1>3. Head(s) \in ElementsIn(s)
  BY <1>2 DEF ElementsIn
<1>4. ElementsIn(Tail(s)) \subseteq ElementsIn(s)
  BY <1>1, <1>2 DEF ElementsIn
<1>5. ElementsIn(s) \subseteq ElementsIn(Tail(s)) \cup {Head(s)}
  <2> SUFFICES ASSUME NEW i \in 1 .. Len(s), i # 1
               PROVE  s[i] \in ElementsIn(Tail(s))
    BY <1>2 DEF ElementsIn
  <2>1. i - 1 \in 1 .. Len(Tail(s)) /\ s[i] = Tail(s)[i - 1]
    BY <1>1, <1>2
  <2> QED  BY <2>1, <1>1, <1>2 DEF ElementsIn
<1>6. Distinct(s) => Distinct(Tail(s)) /\ Head(s) \notin ElementsIn(Tail(s))
  BY <1>1, <1>2 DEF Distinct, ElementsIn
<1> QED  BY <1>1, <1>3, <1>4, <1>5, <1>6

\* Moving the nodes of one list to the end of another, one by one.
LEMMA ConcatElements ==
  ASSUME NEW S, NEW s \in Seq(S), NEW u \in Seq(S)
  PROVE  /\ s \o u \in Seq(S)
         /\ ElementsIn(s \o u) = ElementsIn(s) \cup ElementsIn(u)
         /\ /\ Distinct(s) /\ Distinct(u)
            /\ ElementsIn(s) \cap ElementsIn(u) = {}
            => Distinct(s \o u)
<1>1. /\ s \o u \in Seq(S)
      /\ Len(s \o u) = Len(s) + Len(u)
      /\ \A i \in 1 .. Len(s) + Len(u) :
           (s \o u)[i] = IF i <= Len(s) THEN s[i] ELSE u[i - Len(s)]
  BY ConcatProperties
<1>2. /\ DOMAIN s = 1 .. Len(s) /\ DOMAIN u = 1 .. Len(u)
      /\ DOMAIN (s \o u) = 1 .. Len(s) + Len(u)
      /\ Len(s) \in Nat /\ Len(u) \in Nat
  BY <1>1, LenProperties
<1>3. ElementsIn(s \o u) \subseteq ElementsIn(s) \cup ElementsIn(u)
  BY <1>1, <1>2 DEF ElementsIn
<1>4. ElementsIn(s) \subseteq ElementsIn(s \o u)
  BY <1>1, <1>2 DEF ElementsIn
<1>5. ElementsIn(u) \subseteq ElementsIn(s \o u)
  <2> SUFFICES ASSUME NEW i \in 1 .. Len(u)
               PROVE  u[i] \in ElementsIn(s \o u)
    BY <1>2 DEF ElementsIn
  <2>1. i + Len(s) \in 1 .. Len(s) + Len(u) /\ (s \o u)[i + Len(s)] = u[i]
    BY <1>1, <1>2
  <2> QED  BY <2>1, <1>2 DEF ElementsIn
<1>6. ASSUME Distinct(s), Distinct(u), ElementsIn(s) \cap ElementsIn(u) = {}
      PROVE  Distinct(s \o u)
  <2> SUFFICES ASSUME NEW i \in 1 .. Len(s) + Len(u),
                      NEW j \in 1 .. Len(s) + Len(u),
                      (s \o u)[i] = (s \o u)[j]
               PROVE  i = j
    BY <1>2 DEF Distinct
  <2>1. CASE i <= Len(s) /\ j <= Len(s)
    BY <2>1, <1>1, <1>2, <1>6 DEF Distinct
  <2>2. CASE i > Len(s) /\ j > Len(s)
    <3>1. u[i - Len(s)] = u[j - Len(s)]
      BY <2>2, <1>1, <1>2
    <3>2. i - Len(s) \in 1 .. Len(u) /\ j - Len(s) \in 1 .. Len(u)
      BY <2>2, <1>2
    <3>3. i - Len(s) = j - Len(s)
      BY <3>1, <3>2, <1>2, <1>6 DEF Distinct
    <3> QED  BY <3>3, <1>2
  <2>3. CASE i <= Len(s) /\ j > Len(s)
    <3>1. s[i] = u[j - Len(s)] /\ j - Len(s) \in 1 .. Len(u)
      BY <2>3, <1>1, <1>2
    <3>2. s[i] \in ElementsIn(s) /\ u[j - Len(s)] \in ElementsIn(u)
      BY <3>1, <2>3, <1>2 DEF ElementsIn
    <3> QED  BY <3>1, <3>2, <1>6
  <2>4. CASE i > Len(s) /\ j <= Len(s)
    <3>1. s[j] = u[i - Len(s)] /\ i - Len(s) \in 1 .. Len(u)
      BY <2>4, <1>1, <1>2
    <3>2. s[j] \in ElementsIn(s) /\ u[i - Len(s)] \in ElementsIn(u)
      BY <3>1, <2>4, <1>2 DEF ElementsIn
    <3> QED  BY <3>1, <3>2, <1>6
  <2> QED  BY <2>1, <2>2, <2>3, <2>4, <1>2
<1> QED  BY <1>1, <1>3, <1>4, <1>5, <1>6

\* slab_list_remove takes its node off the list and nothing else.
LEMMA UnlinkElements ==
  ASSUME NEW S, NEW s \in Seq(S), NEW p \in ElementsIn(s), Distinct(s)
  PROVE  /\ Unlink(s, p) \in Seq(S)
         /\ Len(Unlink(s, p)) = Len(s) - 1
         /\ ElementsIn(Unlink(s, p)) = ElementsIn(s) \ {p}
         /\ Distinct(Unlink(s, p))
<1> DEFINE k == PositionOf(s, p)
           n == Len(s) - 1
           u == [i \in 1 .. n |-> IF i < k THEN s[i] ELSE s[i + 1]]
<1>1. DOMAIN s = 1 .. Len(s) /\ Len(s) \in Nat /\ s \in [1 .. Len(s) -> S]
  BY LenProperties
<1>2. k \in 1 .. Len(s) /\ s[k] = p
  BY <1>1 DEF ElementsIn, PositionOf
<1>3. n \in Nat /\ Unlink(s, p) = u
  BY <1>1, <1>2 DEF Unlink
<1> HIDE DEF k
<1>4. \A i \in 1 .. n : (IF i < k THEN s[i] ELSE s[i + 1]) \in S
  BY <1>1, <1>2
<1>5. u \in Seq(S) /\ Len(u) = n
  <2>1. u \in [1 .. n -> S]
    BY <1>4
  <2> QED  BY <2>1, <1>3
<1>6. DOMAIN u = 1 .. n /\ \A i \in 1 .. n : u[i] = IF i < k THEN s[i] ELSE s[i + 1]
  OBVIOUS
<1> HIDE DEF u
<1>7. \A i \in 1 .. n : \E j \in 1 .. Len(s) : j # k /\ u[i] = s[j]
  <2> TAKE i \in 1 .. n
  <2>1. CASE i < k
    <3> WITNESS i \in 1 .. Len(s)
    <3> QED  BY <2>1, <1>6, <1>1, <1>2
  <2>2. CASE i >= k
    <3>1. i + 1 \in 1 .. Len(s)
      BY <1>1
    <3> WITNESS i + 1 \in 1 .. Len(s)
    <3> QED  BY <2>2, <1>6, <1>1, <1>2
  <2> QED  BY <2>1, <2>2, <1>1, <1>2
<1>8. \A j \in 1 .. Len(s) : j # k => \E i \in 1 .. n : u[i] = s[j]
  <2> SUFFICES ASSUME NEW j \in 1 .. Len(s), j # k
               PROVE  \E i \in 1 .. n : u[i] = s[j]
    OBVIOUS
  <2>1. CASE j < k
    <3>1. j \in 1 .. n
      BY <2>1, <1>1, <1>2
    <3> QED  BY <3>1, <2>1, <1>6
  <2>2. CASE j > k
    <3>1. j - 1 \in 1 .. n /\ ~(j - 1 < k) /\ (j - 1) + 1 = j
      BY <2>2, <1>1, <1>2
    <3> QED  BY <3>1, <1>6
  <2> QED  BY <2>1, <2>2, <1>1, <1>2
<1>9. ElementsIn(u) = ElementsIn(s) \ {p}
  <2>1. ASSUME NEW x \in ElementsIn(u) PROVE x \in ElementsIn(s) \ {p}
    <3>1. PICK i \in 1 .. n : x = u[i]
      BY <1>6 DEF ElementsIn
    <3>2. PICK j \in 1 .. Len(s) : j # k /\ u[i] = s[j]
      BY <1>7
    <3> QED  BY <3>1, <3>2, <1>1, <1>2 DEF ElementsIn, Distinct
  <2>2. ASSUME NEW x \in ElementsIn(s) \ {p} PROVE x \in ElementsIn(u)
    <3>1. PICK j \in 1 .. Len(s) : x = s[j]
      BY <1>1 DEF ElementsIn
    <3>2. j # k
      BY <3>1, <1>2
    <3>3. PICK i \in 1 .. n : u[i] = s[j]
      BY <3>2, <1>8
    <3> QED  BY <3>1, <3>3, <1>6 DEF ElementsIn
  <2> QED  BY <2>1, <2>2
<1>10. Distinct(u)
  <2> SUFFICES ASSUME NEW i \in 1 .. n, NEW j \in 1 .. n, u[i] = u[j]
               PROVE  i = j
    BY <1>6 DEF Distinct
  <2> DEFINE a == IF i < k THEN i ELSE i + 1
             b == IF j < k THEN j ELSE j + 1
  <2>1. a \in 1 .. Len(s) /\ b \in 1 .. Len(s)
    BY <1>1, <1>2
  <2>2. u[i] = s[a] /\ u[j] = s[b]
    BY <1>6
  <2>3. a = b
    BY <2>1, <2>2, <1>1 DEF Distinct
  <2> QED  BY <2>3, <1>1, <1>2
<1> QED  BY <1>3, <1>5, <1>9, <1>10

\* slab_trim takes pages off the front of a list and leaves the others.
LEMMA SuffixElements ==
  ASSUME NEW S, NEW s \in Seq(S), Distinct(s), NEW k \in 0 .. Len(s)
  PROVE  LET u   == SubSeq(s, k + 1, Len(s))
             cut == {s[j] : j \in 1 .. k}
         IN  /\ u \in Seq(S) /\ Len(u) = Len(s) - k
             /\ ElementsIn(u) = ElementsIn(s) \ cut
             /\ cut \subseteq ElementsIn(s)
             /\ Distinct(u)
<1> DEFINE u   == SubSeq(s, k + 1, Len(s))
           cut == {s[j] : j \in 1 .. k}
           n   == Len(s) - k
<1>1. DOMAIN s = 1 .. Len(s) /\ Len(s) \in Nat /\ s \in [1 .. Len(s) -> S]
  BY LenProperties
<1>2. /\ u \in Seq(S) /\ Len(u) = n /\ n \in Nat
      /\ \A i \in 1 .. n : u[i] = s[i + k]
  <2>1. \A i \in k + 1 .. Len(s) : s[i] \in S
    BY <1>1
  <2>2. /\ u \in Seq(S)
        /\ Len(u) = IF k + 1 <= Len(s) THEN Len(s) - (k + 1) + 1 ELSE 0
        /\ \A i \in 1 .. Len(s) - (k + 1) + 1 : u[i] = s[(k + 1) + i - 1]
    BY <2>1, <1>1, SubSeqProperties
  <2> HIDE DEF u
  <2>3. n \in Nat /\ Len(s) - (k + 1) + 1 = n
    BY <1>1
  <2>4. \A i \in 1 .. n : (k + 1) + i - 1 = i + k
    BY <1>1
  <2>5. Len(u) = n
    <3>1. k \in Nat /\ k <= Len(s) /\ Len(s) \in Nat
      BY <1>1
    <3>2. CASE k + 1 <= Len(s)
      BY <3>1, <3>2, <2>2
    <3>3. CASE ~(k + 1 <= Len(s))
      BY <3>1, <3>3, <2>2
    <3> QED  BY <3>2, <3>3
  <2>6. ASSUME NEW i \in 1 .. n PROVE u[i] = s[i + k]
    BY <2>2, <2>3, <2>4
  <2> QED  BY <2>2, <2>3, <2>5, <2>6
<1>3. DOMAIN u = 1 .. n
  BY <1>2, LenProperties
<1> HIDE DEF u
<1>4. cut \subseteq ElementsIn(s)
  BY <1>1 DEF ElementsIn
<1>5. ASSUME NEW x \in ElementsIn(u) PROVE x \in ElementsIn(s) \ cut
  <2>1. PICK i \in 1 .. n : x = u[i]
    BY <1>3 DEF ElementsIn
  <2>2. x = s[i + k] /\ i + k \in 1 .. Len(s)
    BY <2>1, <1>1, <1>2
  <2>3. \A j \in 1 .. k : s[j] # s[i + k]
    BY <2>2, <1>1 DEF Distinct
  <2> QED  BY <2>2, <2>3, <1>1 DEF ElementsIn
<1>6. ASSUME NEW x \in ElementsIn(s) \ cut PROVE x \in ElementsIn(u)
  <2>1. PICK j \in 1 .. Len(s) : x = s[j]
    BY <1>1 DEF ElementsIn
  <2>2. j > k
    BY <2>1, <1>1
  <2>3. j - k \in 1 .. n /\ (j - k) + k = j
    BY <2>2, <1>1
  <2>4. u[j - k] = s[j]
    BY <2>3, <1>2
  <2> QED  BY <2>1, <2>3, <2>4, <1>3 DEF ElementsIn
<1>7. Distinct(u)
  <2> SUFFICES ASSUME NEW i \in 1 .. n, NEW j \in 1 .. n, u[i] = u[j]
               PROVE  i = j
    BY <1>3 DEF Distinct
  <2>1. i + k \in 1 .. Len(s) /\ j + k \in 1 .. Len(s)
    BY <1>1
  <2>2. i + k = j + k
    BY <2>1, <1>1, <1>2 DEF Distinct
  <2> QED  BY <2>2, <1>1
<1> QED  BY <1>2, <1>4, <1>5, <1>6, <1>7 DEF u

-----------------------------------------------------------------------------
(* Bitmaps.                                                                *)

\* The word scan of slab_alloc finds an index whose bit is set.
LEMMA FirstAvailIsAvail ==
  ASSUME NEW S \in SUBSET Slots, S # {}
  PROVE  FirstAvail(S) \in S /\ FirstAvail(S) \in Slots
<1>1. S \subseteq Nat
  BY SlabAssumption DEF Slots
<1>2. PICK i \in S : \A j \in S : ~(<<j, i>> \in OpToRel(<, Nat))
  BY <1>1, NatLessThanWellFounded, WFMin
<1>3. \A j \in S : i <= j
  <2> TAKE j \in S
  <2>1. ~(j < i)
    BY <1>1, <1>2 DEF OpToRel
  <2> QED  BY <2>1, <1>1
<1> QED  BY <1>3 DEF FirstAvail

LEMMA SlotsFinite ==
  ASSUME NEW S \in SUBSET Slots
  PROVE  /\ IsFiniteSet(S) /\ Cardinality(S) \in Nat
         /\ Cardinality(Slots) = MaxElems
         /\ IsFiniteSet(Slots \ S)
<1>1. IsFiniteSet(Slots) /\ Cardinality(Slots) = MaxElems
  <2>1. 0 \in Int /\ MaxElems - 1 \in Int /\ ~(0 > MaxElems - 1)
    BY SlabAssumption
  <2>2. (MaxElems - 1) - 0 + 1 = MaxElems
    BY SlabAssumption
  <2> QED  BY <2>1, <2>2, FS_Interval DEF Slots
<1>2. IsFiniteSet(S) /\ IsFiniteSet(Slots \ S)
  BY <1>1, FS_Subset
<1> QED  BY <1>1, <1>2, FS_CardinalityType

\* A page whose counter is below maxelems has a free slot, since the counter
\* bounds its allocated slots: the scan cannot come back with idx = -1.
LEMMA RoomLeft ==
  ASSUME NEW free \in SUBSET Slots, NEW n \in Nat,
         Cardinality(Slots \ free) <= n, n < MaxElems
  PROVE  /\ free # {}
         /\ Cardinality(Slots \ (free \ {FirstAvail(free)})) <= n + 1
<1>1. free # {}
  <2> SUFFICES ASSUME free = {} PROVE FALSE
    OBVIOUS
  <2>1. Slots \ free = Slots
    OBVIOUS
  <2> QED  BY <2>1, SlotsFinite, SlabAssumption
<1>2. FirstAvail(free) \in free /\ FirstAvail(free) \in Slots
  BY <1>1, FirstAvailIsAvail
<1> DEFINE i == FirstAvail(free)
           U == Slots \ free
<1>3. Slots \ (free \ {i}) = U \cup {i} /\ i \notin U
  BY <1>2
<1>4. IsFiniteSet(U) /\ Cardinality(U) \in Nat
  BY SlotsFinite
<1>5. Cardinality(U \cup {i}) = Cardinality(U) + 1
  BY <1>3, <1>4, FS_AddElement
<1> QED  BY <1>1, <1>3, <1>4, <1>5

\* Freeing an allocated slot leaves one less.
LEMMA SlotFreed ==
  ASSUME NEW free \in SUBSET Slots, NEW i \in Slots, i \notin free,
         NEW n \in Nat, Cardinality(Slots \ free) <= n
  PROVE  /\ n > 0
         /\ Cardinality(Slots \ (free \cup {i})) <= n - 1
<1> DEFINE U == Slots \ free
<1>1. Slots \ (free \cup {i}) = U \ {i} /\ i \in U
  OBVIOUS
<1>2. IsFiniteSet(U) /\ Cardinality(U) \in Nat
  BY SlotsFinite
<1>3. Cardinality(U \ {i}) = Cardinality(U) - 1
  BY <1>1, <1>2, FS_RemoveElement
<1>4. Cardinality(U) > 0
  BY <1>1, <1>2, FS_EmptySet
<1>5. Cardinality(U) <= n
  OBVIOUS
<1>6. n > 0 /\ Cardinality(U \ {i}) <= n - 1
  <2> HIDE DEF U
  <2> QED  BY <1>2, <1>3, <1>4, <1>5
<1> QED  BY <1>1, <1>6

-----------------------------------------------------------------------------
(* The lists and the counters.                                             *)

\* PagesListedOnce and Accounting speak of the lists only; the steps of
\* slab_free also need to know that the thread in it has an element to free,
\* and slab_create that there is no page left from before and no call either.
ListInv ==
  /\ TypeOK
  /\ PagesListedOnce
  /\ Accounting
  /\ ~created => empty = <<>> /\ partial = <<>> /\ full = <<>>
  /\ \A t \in Threads : /\ pc[t] = "free" => arg[t] \in Elements
                        /\ pc[t] # "idle" => created

\* The end of slab_alloc, whichever way it got the list q whose first page p
\* it allocates from.
LEMMA TakeFromLists ==
  ASSUME TypeOK, NEW t \in Threads, NEW p \in Pages, NEW q \in Seq(Pages),
         NEW free \in SUBSET Slots, NEW n \in Nat,
         TakeFrom(t, p, free, n, q),
         n < MaxElems, Cardinality(Slots \ free) <= n,
         q # <<>>, Head(q) = p,
         empty' \in Seq(Pages), Distinct(empty'), Distinct(q), Distinct(full),
         ElementsIn(empty') \cap ElementsIn(q) = {},
         ElementsIn(empty') \cap ElementsIn(full) = {},
         ElementsIn(q) \cap ElementsIn(full) = {},
         pages' = ElementsIn(empty') \cup ElementsIn(q) \cup ElementsIn(full),
         \A r \in pages' \ {p} :
           /\ PageAccount(r)
           /\ r \in ElementsIn(empty') => r \in ElementsIn(empty)
           /\ r \in ElementsIn(q) => r \in ElementsIn(partial)
  PROVE  /\ PagesListedOnce' /\ Accounting'
         /\ partial' \in Seq(Pages) /\ full' \in Seq(Pages)
         /\ avail' \in [Pages -> SUBSET Slots] /\ numelems' \in [Pages -> Nat]
         /\ ret' \in [Threads -> Elements \cup {None}]
         /\ aborted' = FALSE
<1> DEFINE idx == FirstAvail(free)
<1>1. free # {} /\ Cardinality(Slots \ (free \ {idx})) <= n + 1
  BY RoomLeft
<1>2. idx \in Slots
  BY <1>1, FirstAvailIsAvail
<1>3. /\ avail' = [avail EXCEPT ![p] = free \ {idx}]
      /\ numelems' = [numelems EXCEPT ![p] = n + 1]
      /\ ret' = [ret EXCEPT ![t] = <<p, idx>>]
      /\ aborted' = (n >= MaxElems \/ free = {})
      /\ Fills(n) => partial' = Tail(q) /\ full' = Append(full, p)
      /\ ~Fills(n) => partial' = q /\ full' = full
  BY DEF TakeFrom
<1> HIDE DEF idx
<1>4. /\ avail' \in [Pages -> SUBSET Slots] /\ numelems' \in [Pages -> Nat]
      /\ ret' \in [Threads -> Elements \cup {None}]
      /\ aborted' = FALSE
  <2>1. avail' \in [Pages -> SUBSET Slots]
    BY <1>3 DEF TypeOK
  <2>2. numelems' \in [Pages -> Nat]
    BY <1>3 DEF TypeOK
  <2>3. ret' \in [Threads -> Elements \cup {None}]
    BY <1>2, <1>3 DEF TypeOK, Elements
  <2>4. aborted' = FALSE
    <3>1. ~(n >= MaxElems \/ free = {})
      BY <1>1, SlabAssumption
    <3> QED  BY <3>1, <1>3, Zenon
  <2> QED  BY <2>1, <2>2, <2>3, <2>4
<1>5. /\ avail'[p] = free \ {idx} /\ numelems'[p] = n + 1
      /\ \A r \in Pages \ {p} : avail'[r] = avail[r] /\ numelems'[r] = numelems[r]
  BY <1>3 DEF TypeOK
<1>6. /\ Tail(q) \in Seq(Pages)
      /\ ElementsIn(q) = ElementsIn(Tail(q)) \cup {p}
      /\ Distinct(Tail(q)) /\ p \notin ElementsIn(Tail(q))
  BY TailElements
<1>7. /\ Append(full, p) \in Seq(Pages)
      /\ ElementsIn(Append(full, p)) = ElementsIn(full) \cup {p}
      /\ Distinct(Append(full, p))
  <2>1. p \notin ElementsIn(full) /\ full \in Seq(Pages)
    BY <1>6 DEF TypeOK
  <2> QED  BY <2>1, AppendElements
<1>8. /\ partial' \in Seq(Pages) /\ full' \in Seq(Pages)
      /\ Distinct(partial') /\ Distinct(full')
      /\ Fills(n)  => /\ ElementsIn(partial') = ElementsIn(q) \ {p}
                      /\ ElementsIn(full') = ElementsIn(full) \cup {p}
      /\ ~Fills(n) => /\ ElementsIn(partial') = ElementsIn(q)
                      /\ ElementsIn(full') = ElementsIn(full)
  <2>1. CASE Fills(n)
    BY <2>1, <1>3, <1>6, <1>7
  <2>2. CASE ~Fills(n)
    BY <2>2, <1>3 DEF TypeOK
  <2> QED  BY <2>1, <2>2
<1>9. PagesListedOnce'
  BY <1>6, <1>8 DEF PagesListedOnce
<1>10. Accounting'
  <2> SUFFICES ASSUME NEW r \in pages' PROVE PageAccount(r)'
    BY DEF Accounting
  <2>0. pages' \subseteq Pages
    <3>1. /\ ElementsIn(empty') \subseteq Pages
          /\ ElementsIn(q) \subseteq Pages
          /\ ElementsIn(full) \subseteq Pages
      BY ElementsType DEF TypeOK
    <3> QED  BY <3>1
  <2>1. CASE r = p
    <3>1. Used(p)' = Slots \ (free \ {idx})
      BY <1>5 DEF Used
    <3>2. Cardinality(Used(p)') <= numelems'[p] /\ numelems'[p] <= MaxElems
      BY <3>1, <1>1, <1>5, SlabAssumption
    <3>3. numelems'[p] = MaxElems <=> Fills(n)
      BY <1>5 DEF Fills
    <3>4. p \in ElementsIn(full') <=> Fills(n)
      BY <1>6, <1>8
    <3>5. p \notin ElementsIn(empty')
      BY <1>6
    <3>6. numelems'[p] > 0
      BY <1>5
    <3> QED  BY <2>1, <3>2, <3>3, <3>4, <3>5, <3>6 DEF PageAccount
  <2>2. CASE r # p
    <3>1. /\ PageAccount(r)
          /\ r \in ElementsIn(empty') => r \in ElementsIn(empty)
          /\ r \in ElementsIn(q) => r \in ElementsIn(partial)
      BY <2>2
    <3>2. Used(r)' = Used(r) /\ numelems'[r] = numelems[r]
      BY <2>0, <2>2, <1>5 DEF Used
    <3>3. /\ r \in ElementsIn(full') <=> r \in ElementsIn(full)
          /\ r \in ElementsIn(partial') <=> r \in ElementsIn(q)
      BY <2>2, <1>8
    <3> QED  BY <3>1, <3>2, <3>3 DEF PageAccount
  <2> QED  BY <2>1, <2>2
<1> QED  BY <1>4, <1>8, <1>9, <1>10

\* Steps outside the critical sections change neither lists nor footers.
LEMMA ListInvUnchanged ==
  ASSUME ListInv, TypeOK', UNCHANGED slabVars,
         \A t \in Threads : /\ pc'[t] = "free" => arg'[t] \in Elements
                            /\ pc'[t] # "idle" => created
  PROVE  ListInv'
<1>1. /\ pages' = pages /\ empty' = empty /\ partial' = partial /\ full' = full
      /\ avail' = avail /\ numelems' = numelems /\ created' = created
  BY DEF slabVars
<1>2. PagesListedOnce'
  BY <1>1 DEF ListInv, PagesListedOnce
<1>3. Accounting'
  BY <1>1 DEF ListInv, Accounting, PageAccount, Used
<1> QED  BY <1>1, <1>2, <1>3 DEF ListInv

\* What slab_alloc's three ways to find a page have in common.
LEMMA ListInvAlloc ==
  ASSUME ListInv, NEW t \in Threads,
         AllocFromPartial(t) \/ AllocFromEmpty(t) \/ \E p \in Pages : AllocGrow(t, p)
  PROVE  ListInv' /\ aborted' = FALSE
<1> USE DEF ListInv
<1>1. /\ Enter(t, "alloc") /\ arg' = arg /\ held' = held /\ created' = created
      /\ created
  <2>1. /\ Enter(t, "alloc") /\ arg' = arg /\ held' = held /\ created' = created
    BY DEF AllocFromPartial, AllocFromEmpty, AllocGrow
  <2> QED  BY <2>1 DEF Enter
<1>2. \A u \in Threads : /\ pc'[u] = "free" => arg'[u] \in Elements
                         /\ pc'[u] # "idle" => created'
  BY <1>1 DEF Enter, TypeOK
<1>3. /\ pc' \in [Threads -> {"idle", "alloc", "free", "reset", "unlock", "return"}]
      /\ lock' \in Threads \cup {None} /\ arg' \in [Threads -> Elements \cup {None}]
      /\ held' \in SUBSET Elements /\ created' \in BOOLEAN
  BY <1>1 DEF Enter, TypeOK
<1>4. \A r \in pages : r \in Pages /\ PageAccount(r)
  BY DEF Accounting, TypeOK
<1>5. ASSUME empty' \in Seq(Pages), pages' \in SUBSET Pages,
             constructed' \in SUBSET Elements,
             PagesListedOnce' /\ Accounting'
             /\ partial' \in Seq(Pages) /\ full' \in Seq(Pages)
             /\ avail' \in [Pages -> SUBSET Slots] /\ numelems' \in [Pages -> Nat]
             /\ ret' \in [Threads -> Elements \cup {None}]
             /\ aborted' = FALSE
      PROVE  ListInv' /\ aborted' = FALSE
  BY <1>1, <1>2, <1>3, <1>5 DEF TypeOK
<1>6. CASE AllocFromPartial(t)
  <2> DEFINE p == Head(partial)
  <2>1. /\ partial # <<>> /\ empty' = empty /\ pages' = pages
        /\ constructed' = constructed
        /\ TakeFrom(t, p, avail[p], numelems[p], partial)
    BY <1>6 DEF AllocFromPartial
  <2>2. p \in Pages /\ p \in ElementsIn(partial)
    BY <2>1, TailElements DEF TypeOK
  <2>3. p \in pages /\ p \notin ElementsIn(full)
    BY <2>2 DEF PagesListedOnce
  <2>4. PageAccount(p) /\ avail[p] \in SUBSET Slots /\ numelems[p] \in Nat
    BY <2>2, <2>3, <1>4 DEF TypeOK
  <2>5. numelems[p] < MaxElems /\ Cardinality(Slots \ avail[p]) <= numelems[p]
    BY <2>3, <2>4, SlabAssumption DEF PageAccount, Used
  <2>6. /\ Distinct(empty') /\ Distinct(partial) /\ Distinct(full)
        /\ ElementsIn(empty') \cap ElementsIn(partial) = {}
        /\ ElementsIn(empty') \cap ElementsIn(full) = {}
        /\ ElementsIn(partial) \cap ElementsIn(full) = {}
        /\ pages' = ElementsIn(empty') \cup ElementsIn(partial) \cup ElementsIn(full)
    BY <2>1 DEF PagesListedOnce
  <2>7. empty' \in Seq(Pages) /\ partial \in Seq(Pages)
    BY <2>1 DEF TypeOK
  <2>8. \A r \in pages' \ {p} :
           /\ PageAccount(r)
           /\ r \in ElementsIn(empty') => r \in ElementsIn(empty)
           /\ r \in ElementsIn(partial) => r \in ElementsIn(partial)
    BY <2>1, <1>4
  <2> HIDE DEF p
  <2>9. /\ PagesListedOnce' /\ Accounting'
        /\ partial' \in Seq(Pages) /\ full' \in Seq(Pages)
        /\ avail' \in [Pages -> SUBSET Slots] /\ numelems' \in [Pages -> Nat]
        /\ ret' \in [Threads -> Elements \cup {None}]
        /\ aborted' = FALSE
    <3>1. Head(partial) = p
      BY DEF p
    <3> QED  BY <3>1, <2>1, <2>2, <2>4, <2>5, <2>6, <2>7, <2>8, TakeFromLists
  <2>10. pages' \in SUBSET Pages /\ constructed' \in SUBSET Elements
    BY <2>1 DEF TypeOK
  <2> QED  BY <2>7, <2>9, <2>10, <1>5
<1>7. CASE AllocFromEmpty(t)
  <2> DEFINE p == Head(empty)
             q == Append(partial, p)
  <2>1. /\ partial = <<>> /\ empty # <<>> /\ empty' = Tail(empty) /\ pages' = pages
        /\ constructed' = constructed
        /\ TakeFrom(t, p, avail[p], numelems[p], q)
    BY <1>7 DEF AllocFromEmpty
  <2>2. /\ p \in Pages /\ p \in ElementsIn(empty) /\ Tail(empty) \in Seq(Pages)
        /\ Distinct(Tail(empty)) /\ p \notin ElementsIn(Tail(empty))
        /\ ElementsIn(empty) = ElementsIn(Tail(empty)) \cup {p}
    BY <2>1, TailElements DEF TypeOK, PagesListedOnce
  <2>3. q \in Seq(Pages) /\ q # <<>> /\ Head(q) = p
    BY <2>1, <2>2
  <2>4. ElementsIn(q) = {p} /\ Distinct(q) /\ ElementsIn(partial) = {}
    BY <2>1, <2>2, AppendElements DEF ElementsIn, Distinct
  <2>5. p \in pages /\ p \notin ElementsIn(full)
    BY <2>2 DEF PagesListedOnce
  <2>6. PageAccount(p) /\ avail[p] \in SUBSET Slots /\ numelems[p] \in Nat
    BY <2>2, <2>5, <1>4 DEF TypeOK
  <2>7. numelems[p] < MaxElems /\ Cardinality(Slots \ avail[p]) <= numelems[p]
    BY <2>2, <2>6, SlabAssumption DEF PageAccount, Used
  <2>8. /\ Distinct(empty') /\ Distinct(full)
        /\ ElementsIn(empty') \cap ElementsIn(q) = {}
        /\ ElementsIn(empty') \cap ElementsIn(full) = {}
        /\ ElementsIn(q) \cap ElementsIn(full) = {}
        /\ pages' = ElementsIn(empty') \cup ElementsIn(q) \cup ElementsIn(full)
    BY <2>1, <2>2, <2>4, <2>5 DEF PagesListedOnce
  <2>9. \A r \in pages' \ {p} :
           /\ PageAccount(r)
           /\ r \in ElementsIn(empty') => r \in ElementsIn(empty)
           /\ r \in ElementsIn(q) => r \in ElementsIn(partial)
    BY <2>1, <2>2, <2>4, <1>4
  <2>10. pages' \in SUBSET Pages /\ constructed' \in SUBSET Elements
         /\ empty' \in Seq(Pages)
    BY <2>1, <2>2 DEF TypeOK
  <2> HIDE DEF p, q
  <2>11. /\ PagesListedOnce' /\ Accounting'
         /\ partial' \in Seq(Pages) /\ full' \in Seq(Pages)
         /\ avail' \in [Pages -> SUBSET Slots] /\ numelems' \in [Pages -> Nat]
         /\ ret' \in [Threads -> Elements \cup {None}]
         /\ aborted' = FALSE
    BY <2>1, <2>2, <2>3, <2>4, <2>6, <2>7, <2>8, <2>9, <2>10, TakeFromLists
  <2> QED  BY <2>10, <2>11, <1>5
<1>8. ASSUME NEW p \in Pages, AllocGrow(t, p)
      PROVE  ListInv' /\ aborted' = FALSE
  <2> DEFINE q == Append(partial, p)
  <2>1. /\ partial = <<>> /\ empty = <<>> /\ empty' = <<>> /\ p \notin pages
        /\ pages' = pages \cup {p}
        /\ constructed' = constructed \cup PageElements({p})
        /\ TakeFrom(t, p, Slots, 0, q)
    BY <1>8 DEF AllocGrow
  <2>2. q \in Seq(Pages) /\ q # <<>> /\ Head(q) = p
    BY <2>1
  <2>3. /\ ElementsIn(q) = {p} /\ Distinct(q)
        /\ ElementsIn(partial) = {} /\ ElementsIn(empty) = {}
    BY <2>1, AppendElements DEF ElementsIn, Distinct
  <2>4. 0 < MaxElems /\ Cardinality(Slots \ Slots) <= 0
    <3>1. Slots \ Slots = {}
      OBVIOUS
    <3>2. Cardinality(Slots \ Slots) = 0
      BY <3>1, FS_EmptySet
    <3> QED  BY <3>2, SlabAssumption
  <2>5. /\ Distinct(empty') /\ Distinct(full)
        /\ ElementsIn(empty') = {}
        /\ ElementsIn(q) \cap ElementsIn(full) = {}
        /\ pages' = ElementsIn(empty') \cup ElementsIn(q) \cup ElementsIn(full)
    BY <2>1, <2>3 DEF PagesListedOnce, ElementsIn, Distinct
  <2>6. \A r \in pages' \ {p} :
           /\ PageAccount(r)
           /\ r \in ElementsIn(empty') => r \in ElementsIn(empty)
           /\ r \in ElementsIn(q) => r \in ElementsIn(partial)
    BY <2>1, <2>3, <2>5, <1>4
  <2>7. pages' \in SUBSET Pages /\ constructed' \in SUBSET Elements
         /\ empty' \in Seq(Pages)
    BY <2>1 DEF TypeOK, PageElements, Elements
  <2> HIDE DEF q
  <2>8. /\ PagesListedOnce' /\ Accounting'
        /\ partial' \in Seq(Pages) /\ full' \in Seq(Pages)
        /\ avail' \in [Pages -> SUBSET Slots] /\ numelems' \in [Pages -> Nat]
        /\ ret' \in [Threads -> Elements \cup {None}]
        /\ aborted' = FALSE
    <3>1. Slots \in SUBSET Slots /\ 0 \in Nat
      OBVIOUS
    <3> QED  BY <3>1, <2>1, <2>2, <2>3, <2>4, <2>5, <2>6, <2>7, TakeFromLists
  <2> QED  BY <2>7, <2>8, <1>5
<1> QED  BY <1>6, <1>7, <1>8

\* slab_free: first the page changes its list, then the unused pages in
\* excess leave the front of slab->empty.
LEMMA ListInvFree ==
  ASSUME ListInv, NEW t \in Threads, Free(t)
  PROVE  ListInv'
<1> USE DEF ListInv
<1> DEFINE p == arg[t][1]
           i == arg[t][2]
           toPartial == numelems[p] = MaxElems
           toEmpty   == ~toPartial /\ numelems[p] = 1
           lost      == toEmpty /\ avail[p] \cup {i} # Slots
           unlisted  == \/ toPartial /\ p \notin ElementsIn(full)
                        \/ toEmpty /\ p \notin ElementsIn(partial)
           F == IF toPartial THEN Unlink(full, p) ELSE full
           P == IF toPartial THEN Append(partial, p)
                ELSE IF toEmpty THEN Unlink(partial, p) ELSE partial
           E == IF toEmpty THEN Append(empty, p) ELSE empty
           k == TrimCount(Len(E), Len(P), Len(F))
           trimmed == {E[j] : j \in 1 .. k}
           stop == FreePanics(p, i) \/ lost \/ unlisted
<1>1. /\ Enter(t, "free")
      /\ arg' = [arg EXCEPT ![t] = None]
      /\ ret' = ret /\ held' = held
      /\ stop => aborted' = TRUE /\ UNCHANGED slabVars
      /\ ~stop => /\ avail' = [avail EXCEPT ![p] = @ \cup {i}]
                  /\ numelems' = [numelems EXCEPT ![p] = CounterAfterFree(@)]
                  /\ full' = F /\ partial' = P
                  /\ empty' = SubSeq(E, k + 1, Len(E))
                  /\ pages' = pages \ trimmed
                  /\ constructed' = constructed \ PageElements(trimmed)
                  /\ created' = created /\ aborted' = aborted
  BY DEF Free
<1>2. arg[t] \in Elements /\ p \in Pages /\ i \in Slots /\ created
  BY <1>1 DEF Enter, Elements
<1>3. \A u \in Threads : /\ pc'[u] = "free" => arg'[u] \in Elements
                         /\ pc'[u] # "idle" => created
  BY <1>1, <1>2 DEF Enter, TypeOK
<1>4. /\ pc' \in [Threads -> {"idle", "alloc", "free", "reset", "unlock", "return"}]
      /\ lock' \in Threads \cup {None} /\ arg' \in [Threads -> Elements \cup {None}]
      /\ ret' \in [Threads -> Elements \cup {None}] /\ held' \in SUBSET Elements
  BY <1>1 DEF Enter, TypeOK
<1>5. CASE stop
  <2>1. UNCHANGED slabVars /\ aborted' = TRUE
    BY <1>1, <1>5
  <2>2. TypeOK'
    BY <2>1, <1>4 DEF TypeOK, slabVars
  <2> HIDE DEF stop
  <2> QED  BY <2>1, <2>2, <1>3, ListInvUnchanged
<1>6. CASE ~stop
  <2>1. /\ p \in pages /\ i \notin avail[p] /\ numelems[p] > 0
        /\ toPartial => p \in ElementsIn(full)
        /\ toEmpty => p \in ElementsIn(partial) /\ avail[p] \cup {i} = Slots
    BY <1>6, <1>2 DEF FreePanics, TypeOK
  <2>2. /\ avail' = [avail EXCEPT ![p] = @ \cup {i}]
        /\ numelems' = [numelems EXCEPT ![p] = CounterAfterFree(@)]
        /\ full' = F /\ partial' = P
        /\ empty' = SubSeq(E, k + 1, Len(E))
        /\ pages' = pages \ trimmed
        /\ constructed' = constructed \ PageElements(trimmed)
        /\ created' = created /\ aborted' = aborted
    BY <1>1, <1>6
  <2> HIDE DEF stop
  <2>3. PageAccount(p) /\ numelems[p] \in Nat /\ avail[p] \in SUBSET Slots
    BY <2>1, <1>2 DEF Accounting, TypeOK
  <2>4. /\ empty \in Seq(Pages) /\ partial \in Seq(Pages) /\ full \in Seq(Pages)
        /\ Distinct(empty) /\ Distinct(partial) /\ Distinct(full)
    BY DEF TypeOK, PagesListedOnce
  \* where p ends up
  <2>5. /\ E \in Seq(Pages) /\ P \in Seq(Pages) /\ F \in Seq(Pages)
        /\ Distinct(E) /\ Distinct(P) /\ Distinct(F)
        /\ ElementsIn(F) = IF toPartial THEN ElementsIn(full) \ {p} ELSE ElementsIn(full)
        /\ ElementsIn(P) = IF toPartial THEN ElementsIn(partial) \cup {p}
                           ELSE IF toEmpty THEN ElementsIn(partial) \ {p}
                                           ELSE ElementsIn(partial)
        /\ ElementsIn(E) = IF toEmpty THEN ElementsIn(empty) \cup {p} ELSE ElementsIn(empty)
    <3>1. CASE toPartial
      <4>1. p \notin ElementsIn(partial)
        BY <2>1, <3>1 DEF PagesListedOnce
      <4>2. /\ F \in Seq(Pages) /\ Distinct(F)
            /\ ElementsIn(F) = ElementsIn(full) \ {p}
        BY <2>1, <2>4, <3>1, UnlinkElements
      <4>3. /\ P \in Seq(Pages) /\ Distinct(P)
            /\ ElementsIn(P) = ElementsIn(partial) \cup {p}
        BY <1>2, <2>4, <3>1, <4>1, AppendElements
      <4> QED  BY <3>1, <4>2, <4>3, <2>4
    <3>2. CASE toEmpty
      <4>1. p \notin ElementsIn(empty)
        BY <2>1, <3>2 DEF PagesListedOnce
      <4>2. /\ P \in Seq(Pages) /\ Distinct(P)
            /\ ElementsIn(P) = ElementsIn(partial) \ {p}
        BY <2>1, <2>4, <3>2, UnlinkElements
      <4>3. /\ E \in Seq(Pages) /\ Distinct(E)
            /\ ElementsIn(E) = ElementsIn(empty) \cup {p}
        BY <1>2, <2>4, <3>2, <4>1, AppendElements
      <4> QED  BY <3>2, <4>2, <4>3, <2>4
    <3>3. CASE ~toPartial /\ ~toEmpty
      BY <3>3, <2>4
    <3> QED  BY <3>1, <3>2, <3>3
  <2>6. /\ pages = ElementsIn(E) \cup ElementsIn(P) \cup ElementsIn(F)
        /\ ElementsIn(E) \cap ElementsIn(P) = {}
        /\ ElementsIn(E) \cap ElementsIn(F) = {}
        /\ ElementsIn(P) \cap ElementsIn(F) = {}
    <3>1. CASE toPartial
      BY <3>1, <2>1, <2>5 DEF PagesListedOnce
    <3>2. CASE toEmpty
      BY <3>2, <2>1, <2>5 DEF PagesListedOnce
    <3>3. CASE ~toPartial /\ ~toEmpty
      BY <3>3, <2>5 DEF PagesListedOnce
    <3> QED  BY <3>1, <3>2, <3>3
  \* what its counter and its bitmap say
  <2>7. /\ avail'[p] = avail[p] \cup {i} /\ numelems'[p] = CounterAfterFree(numelems[p])
        /\ \A r \in Pages \ {p} : avail'[r] = avail[r] /\ numelems'[r] = numelems[r]
    BY <2>2, <1>2 DEF TypeOK
  <2>8. /\ Cardinality(Slots \ avail[p]) <= numelems[p]
        /\ Cardinality(Slots \ avail'[p]) <= numelems[p] - 1
    BY <2>1, <2>3, <2>7, <1>2, SlotFreed DEF PageAccount, Used
  <2>9. /\ CounterAfterFree(numelems[p]) \in Nat
        /\ numelems[p] - 1 <= CounterAfterFree(numelems[p])
        /\ CounterAfterFree(numelems[p]) < MaxElems
    <3>1. numelems[p] <= MaxElems
      BY <2>3 DEF PageAccount
    <3> QED  BY <3>1, <2>1, <2>3, SlabAssumption DEF CounterAfterFree
  <2>10. p \notin ElementsIn(F)
    BY <2>3, <2>5 DEF PageAccount
  <2>11. p \in ElementsIn(E) => CounterAfterFree(numelems[p]) = 0
    <3>1. p \in ElementsIn(empty) => numelems[p] = 0
      BY <2>3 DEF PageAccount
    <3>2. ASSUME p \in ElementsIn(E) PROVE toEmpty
      BY <3>1, <3>2, <2>1, <2>5
    <3> QED  BY <3>2, SlabAssumption DEF CounterAfterFree
  <2>12. p \in ElementsIn(P) => CounterAfterFree(numelems[p]) > 0 \/ MaxElems = 1
    <3>1. ASSUME p \in ElementsIn(P) PROVE ~toEmpty
      BY <3>1, <2>5
    <3> QED  BY <3>1, <2>1, <2>3, SlabAssumption DEF CounterAfterFree
  \* the trimming
  <2>13. k \in 0 .. Len(E)
    <3>1. Len(E) \in Nat /\ Len(P) \in Nat /\ Len(F) \in Nat
      BY <2>5, LenProperties
    <3> HIDE DEF E, P, F
    <3> QED  BY <3>1 DEF TrimCount
  <2> HIDE DEF k
  <2>14. /\ empty' \in Seq(Pages) /\ Distinct(empty')
         /\ ElementsIn(empty') = ElementsIn(E) \ trimmed
         /\ trimmed \subseteq ElementsIn(E)
    <3> HIDE DEF E
    <3> QED  BY <2>2, <2>5, <2>13, SuffixElements
  <2> HIDE DEF E, P, F, trimmed
  <2>15. PagesListedOnce'
    BY <2>2, <2>5, <2>6, <2>14 DEF PagesListedOnce
  <2>16. Accounting'
    <3> SUFFICES ASSUME NEW r \in pages' PROVE PageAccount(r)'
      BY DEF Accounting
    <3>1. r \in pages /\ r \in Pages
      BY <2>2 DEF TypeOK
    <3>2. r \in ElementsIn(empty') => r \in ElementsIn(E)
      BY <2>14
    <3>3. CASE r = p
      <4>0. Used(r)' = Slots \ avail'[p]
        BY <3>3 DEF Used
      <4>1. Cardinality(Used(r)') <= numelems'[p]
        <5>1. Cardinality(Used(r)') <= numelems[p] - 1
          BY <4>0, <2>8
        <5>2. Slots \ avail'[p] \in SUBSET Slots
          OBVIOUS
        <5>3. Cardinality(Used(r)') \in Nat
          BY <4>0, <5>2, SlotsFinite
        <5> QED  BY <5>1, <5>3, <2>3, <2>7, <2>9
      <4>2. numelems'[p] < MaxElems
        BY <2>7, <2>9
      <4>3. /\ p \notin ElementsIn(full')
            /\ p \in ElementsIn(empty') => numelems'[p] = 0
            /\ p \in ElementsIn(partial') => numelems'[p] > 0 \/ MaxElems = 1
        BY <3>2, <3>3, <2>2, <2>7, <2>10, <2>11, <2>12
      <4> QED  BY <3>3, <4>1, <4>2, <4>3, <2>7, <2>9, SlabAssumption DEF PageAccount
    <3>4. CASE r # p
      <4>1. PageAccount(r) /\ Used(r)' = Used(r) /\ numelems'[r] = numelems[r]
        BY <3>1, <3>4, <2>7 DEF Accounting, Used
      <4>2. /\ r \in ElementsIn(full') <=> r \in ElementsIn(full)
            /\ r \in ElementsIn(partial') <=> r \in ElementsIn(partial)
            /\ r \in ElementsIn(empty') => r \in ElementsIn(empty)
        BY <3>2, <3>4, <2>2, <2>5
      <4> QED  BY <4>1, <4>2 DEF PageAccount
    <3> QED  BY <3>3, <3>4
  <2>17. TypeOK'
    <3>1. numelems' \in [Pages -> Nat] /\ avail' \in [Pages -> SUBSET Slots]
      BY <2>2, <2>9, <1>2 DEF TypeOK
    <3>2. /\ pages' \in SUBSET Pages /\ constructed' \in SUBSET Elements
          /\ full' \in Seq(Pages) /\ partial' \in Seq(Pages)
          /\ created' \in BOOLEAN /\ aborted' \in BOOLEAN
      BY <2>2, <2>5 DEF TypeOK
    <3> QED  BY <3>1, <3>2, <2>14, <1>4 DEF TypeOK
  <2> QED  BY <2>2, <2>15, <2>16, <2>17, <1>2, <1>3
<1> QED  BY <1>5, <1>6

LEMMA ListInvReset ==
  ASSUME ListInv, NEW t \in Threads, Reset(t)
  PROVE  ListInv'
<1> USE DEF ListInv
<1> DEFINE moved == ElementsIn(partial) \cup ElementsIn(full)
<1>1. /\ Enter(t, "reset")
      /\ avail' = [p \in Pages |-> IF p \in moved THEN Slots ELSE avail[p]]
      /\ numelems' = [p \in Pages |-> IF p \in moved THEN 0 ELSE numelems[p]]
      /\ empty' = empty \o partial \o full /\ partial' = <<>> /\ full' = <<>>
      /\ held' = {}
      /\ created' = created /\ pages' = pages /\ constructed' = constructed
      /\ arg' = arg /\ ret' = ret /\ aborted' = aborted
  BY DEF Reset
<1>2. \A u \in Threads : /\ pc'[u] = "free" => arg'[u] \in Elements
                         /\ pc'[u] # "idle" => created'
  BY <1>1 DEF Enter, TypeOK
<1>3. /\ empty \in Seq(Pages) /\ partial \in Seq(Pages) /\ full \in Seq(Pages)
      /\ Distinct(empty) /\ Distinct(partial) /\ Distinct(full)
  BY DEF TypeOK, PagesListedOnce
<1>4. /\ empty \o partial \in Seq(Pages) /\ Distinct(empty \o partial)
      /\ ElementsIn(empty \o partial) = ElementsIn(empty) \cup ElementsIn(partial)
  BY <1>3, ConcatElements DEF PagesListedOnce
<1>5. /\ empty' \in Seq(Pages) /\ Distinct(empty')
      /\ ElementsIn(empty') = pages
  <2>1. ElementsIn(empty \o partial) \cap ElementsIn(full) = {}
    BY <1>4 DEF PagesListedOnce
  <2> DEFINE s == empty \o partial
  <2>2. /\ s \o full \in Seq(Pages) /\ Distinct(s \o full)
        /\ ElementsIn(s \o full) = ElementsIn(s) \cup ElementsIn(full)
    <3> HIDE DEF s
    <3>1. s \in Seq(Pages) /\ Distinct(s) /\ ElementsIn(s) \cap ElementsIn(full) = {}
      BY <1>4, <2>1 DEF s
    <3> QED  BY <3>1, <1>3, ConcatElements
  <2>3. empty' = s \o full
    BY <1>1
  <2> QED  BY <2>2, <2>3, <1>4 DEF PagesListedOnce
<1>6. /\ ElementsIn(partial') = {} /\ ElementsIn(full') = {}
      /\ Distinct(partial') /\ Distinct(full')
  BY <1>1 DEF ElementsIn, Distinct
<1>7. PagesListedOnce'
  BY <1>1, <1>5, <1>6 DEF PagesListedOnce
<1>8. Accounting'
  <2> SUFFICES ASSUME NEW r \in pages PROVE PageAccount(r)'
    BY <1>1 DEF Accounting
  <2>1. r \in Pages /\ PageAccount(r)
    BY DEF TypeOK, Accounting
  <2>2. CASE r \in moved
    <3>1. Used(r)' = {} /\ numelems'[r] = 0
      BY <2>1, <2>2, <1>1 DEF Used
    <3>2. Cardinality(Used(r)') = 0
      BY <3>1, FS_EmptySet
    <3> QED  BY <3>1, <3>2, <1>6, SlabAssumption DEF PageAccount
  <2>3. CASE r \notin moved
    <3>1. Used(r)' = Used(r) /\ numelems'[r] = numelems[r] /\ r \in ElementsIn(empty)
      BY <2>1, <2>3, <1>1 DEF Used, PagesListedOnce
    <3>2. numelems[r] = 0
      BY <3>1, <2>1 DEF PageAccount
    <3> QED  BY <3>1, <3>2, <2>1, <1>6, SlabAssumption DEF PageAccount
  <2> QED  BY <2>2, <2>3
<1>9. TypeOK'
  <2>1. numelems' \in [Pages -> Nat] /\ avail' \in [Pages -> SUBSET Slots]
    BY <1>1 DEF TypeOK
  <2>2. /\ pc' \in [Threads -> {"idle", "alloc", "free", "reset", "unlock", "return"}]
        /\ lock' \in Threads \cup {None}
    BY <1>1 DEF Enter, TypeOK
  <2> QED  BY <1>1, <1>5, <2>1, <2>2 DEF TypeOK
<1>10. created'
  BY <1>1 DEF Enter
<1> QED  BY <1>2, <1>7, <1>8, <1>9, <1>10

LEMMA ListInvDestroy ==
  ASSUME ListInv, Destroy
  PROVE  ListInv'
<1> USE DEF ListInv
<1>1. /\ \A t \in Threads : pc[t] = "idle"
      /\ pages' = pages \ (ElementsIn(empty) \cup ElementsIn(partial) \cup ElementsIn(full))
      /\ constructed' \subseteq constructed
      /\ empty' = <<>> /\ partial' = <<>> /\ full' = <<>>
      /\ held' = {} /\ created' = FALSE
      /\ UNCHANGED <<avail, numelems, lock, pc, arg, ret, aborted>>
  BY DEF Destroy
<1>2. pages' = {} /\ ElementsIn(<<>>) = {} /\ Distinct(<<>>)
  BY <1>1 DEF PagesListedOnce, ElementsIn, Distinct
<1>3. PagesListedOnce' /\ Accounting'
  BY <1>1, <1>2 DEF PagesListedOnce, Accounting
<1>4. TypeOK'
  <2>1. <<>> \in Seq(Pages) /\ {} \in SUBSET Pages /\ {} \in SUBSET Elements
    OBVIOUS
  <2>2. created' \in BOOLEAN /\ aborted' \in BOOLEAN
    BY <1>1, Zenon DEF TypeOK
  <2>3. constructed' \in SUBSET Elements
    BY <1>1 DEF TypeOK
  <2> QED  BY <1>1, <1>2, <2>1, <2>2, <2>3 DEF TypeOK
<1> QED  BY <1>1, <1>3, <1>4

LEMMA ListInvInit == Init => ListInv
<1> SUFFICES ASSUME Init PROVE ListInv
  OBVIOUS
<1>1. ElementsIn(<<>>) = {} /\ Distinct(<<>>)
  BY DEF ElementsIn, Distinct
<1>2. PagesListedOnce /\ Accounting
  BY <1>1 DEF Init, PagesListedOnce, Accounting
<1>3. TypeOK
  <2>1. /\ <<>> \in Seq(Pages) /\ {} \in SUBSET Pages /\ {} \in SUBSET Elements
        /\ {} \in SUBSET Slots /\ 0 \in Nat /\ None \in Threads \cup {None}
        /\ None \in Elements \cup {None} /\ TRUE \in BOOLEAN /\ FALSE \in BOOLEAN
    OBVIOUS
  <2>2. avail \in [Pages -> SUBSET Slots] /\ numelems \in [Pages -> Nat]
    BY <2>1 DEF Init
  <2>3. /\ pc \in [Threads -> {"idle", "alloc", "free", "reset", "unlock", "return"}]
        /\ arg \in [Threads -> Elements \cup {None}]
        /\ ret \in [Threads -> Elements \cup {None}]
    BY <2>1 DEF Init
  <2> QED  BY <2>1, <2>2, <2>3 DEF Init, TypeOK
<1>4. \A t \in Threads : pc[t] = "idle"
  BY DEF Init
<1> QED  BY <1>2, <1>3, <1>4 DEF ListInv, Init

LEMMA ListInvNext == ListInv /\ [Next]_vars => ListInv'
<1> SUFFICES ASSUME ListInv, [Next]_vars PROVE ListInv'
  OBVIOUS
<1> USE DEF ListInv
<1>1. ASSUME Create PROVE ListInv'
  <2>1. /\ empty = <<>> /\ partial = <<>> /\ full = <<>>
        /\ UNCHANGED <<pages, empty, partial, full, avail, numelems, constructed,
                       threadVars, aborted>>
        /\ created' = TRUE
    BY <1>1 DEF Create
  <2>2. PagesListedOnce'
    BY <2>1 DEF PagesListedOnce
  <2>3. Accounting'
    BY <2>1 DEF Accounting, PageAccount, Used
  <2>4. TypeOK'
    BY <2>1 DEF TypeOK, threadVars
  <2>5. \A t \in Threads : pc'[t] = "free" => arg'[t] \in Elements
    BY <2>1 DEF threadVars
  <2> QED  BY <2>1, <2>2, <2>3, <2>4, <2>5
<1>2. ASSUME Destroy PROVE ListInv'
  BY <1>2, ListInvDestroy
<1>3. ASSUME NEW t \in Threads, CallAlloc(t) PROVE ListInv'
  <2>1. TypeOK'
    BY <1>3 DEF CallAlloc, TypeOK, slabVars
  <2>2. \A u \in Threads : /\ pc'[u] = "free" => arg'[u] \in Elements
                           /\ pc'[u] # "idle" => created
    BY <1>3 DEF CallAlloc, TypeOK
  <2> QED  BY <1>3, <2>1, <2>2, ListInvUnchanged DEF CallAlloc
<1>4. ASSUME NEW t \in Threads, NEW e \in Elements, CallFree(t, e) PROVE ListInv'
  <2>1. TypeOK'
    BY <1>4 DEF CallFree, TypeOK, slabVars
  <2>2. \A u \in Threads : /\ pc'[u] = "free" => arg'[u] \in Elements
                           /\ pc'[u] # "idle" => created
    BY <1>4 DEF CallFree, TypeOK
  <2> QED  BY <1>4, <2>1, <2>2, ListInvUnchanged DEF CallFree
<1>5. ASSUME NEW t \in Threads, CallReset(t) PROVE ListInv'
  <2>1. TypeOK'
    BY <1>5 DEF CallReset, TypeOK, slabVars
  <2>2. \A u \in Threads : /\ pc'[u] = "free" => arg'[u] \in Elements
                           /\ pc'[u] # "idle" => created
    BY <1>5 DEF CallReset, TypeOK
  <2> QED  BY <1>5, <2>1, <2>2, ListInvUnchanged DEF CallReset
<1>6. ASSUME NEW t \in Threads, AllocFail(t) PROVE ListInv'
  <2>1. TypeOK'
    BY <1>6 DEF AllocFail, Enter, TypeOK, slabVars
  <2>2. \A u \in Threads : /\ pc'[u] = "free" => arg'[u] \in Elements
                           /\ pc'[u] # "idle" => created
    BY <1>6 DEF AllocFail, Enter, TypeOK
  <2> QED  BY <1>6, <2>1, <2>2, ListInvUnchanged DEF AllocFail
<1>7. ASSUME NEW t \in Threads, CriticalSection(t) PROVE ListInv'
  BY <1>6, <1>7, ListInvAlloc, ListInvFree, ListInvReset DEF CriticalSection
<1>8. ASSUME NEW t \in Threads, Unlock(t) PROVE ListInv'
  <2>1. TypeOK'
    BY <1>8 DEF Unlock, TypeOK, slabVars
  <2>2. \A u \in Threads : /\ pc'[u] = "free" => arg'[u] \in Elements
                           /\ pc'[u] # "idle" => created
    BY <1>8 DEF Unlock, TypeOK
  <2> QED  BY <1>8, <2>1, <2>2, ListInvUnchanged DEF Unlock
<1>9. ASSUME NEW t \in Threads, Return(t) PROVE ListInv'
  <2>1. TypeOK'
    BY <1>9 DEF Return, TypeOK, slabVars
  <2>2. \A u \in Threads : /\ pc'[u] = "free" => arg'[u] \in Elements
                           /\ pc'[u] # "idle" => created
    BY <1>9 DEF Return, TypeOK
  <2> QED  BY <1>9, <2>1, <2>2, ListInvUnchanged DEF Return
<1>10. ASSUME UNCHANGED vars PROVE ListInv'
  <2>1. TypeOK'
    BY <1>10 DEF vars, slabVars, threadVars, TypeOK
  <2>2. \A u \in Threads : /\ pc'[u] = "free" => arg'[u] \in Elements
                           /\ pc'[u] # "idle" => created
    BY <1>10 DEF vars, threadVars
  <2> QED  BY <1>10, <2>1, <2>2, ListInvUnchanged DEF vars
<1> QED
  BY <1>1, <1>2, <1>3, <1>4, <1>5, <1>7, <1>8, <1>9, <1>10 DEF Next, Call

THEOREM ListsInvariant == Spec => []ListInv
<1>1. Init => ListInv
  BY ListInvInit
<1>2. ListInv /\ [Next]_vars => ListInv'
  BY ListInvNext
<1> QED  BY <1>1, <1>2, PTL DEF Spec

(***************************************************************************)
(* Every variable of the allocator keeps its type, whatever the callers do *)
(* (slab_reset included, at any time).                                     *)
(***************************************************************************)
THEOREM TypeCorrect == Spec => []TypeOK
<1>1. ListInv => TypeOK
  BY DEF ListInv
<1> QED  BY <1>1, ListsInvariant, PTL

(***************************************************************************)
(* No page is leaked and no freed page stays on a list: slab_alloc,        *)
(* slab_free with its slab_trim, slab_reset and slab_destroy keep every    *)
(* page they hold on exactly one of empty, partial and full, even when     *)
(* slab_reset races with other calls.                                      *)
(***************************************************************************)
THEOREM NoPageLost == Spec => []PagesListedOnce
<1>1. ListInv => PagesListedOnce
  BY DEF ListInv
<1> QED  BY <1>1, ListsInvariant, PTL

(***************************************************************************)
(* For every number of elements per page, footer->numelems bounds the      *)
(* allocated slots of its page and names the list the page is on, although *)
(* slab_free decrements it on two of its three paths only.                 *)
(***************************************************************************)
THEOREM CounterSound == Spec => []Accounting
<1>1. ListInv => Accounting
  BY DEF ListInv
<1> QED  BY <1>1, ListsInvariant, PTL

-----------------------------------------------------------------------------
(* The cache of unused pages.                                              *)

\* What slab_alloc takes from the empty list it adds to another one.
LEMMA TakeFromLengths ==
  ASSUME NEW t, NEW p \in Pages, NEW free, NEW n, NEW q \in Seq(Pages),
         TakeFrom(t, p, free, n, q), q # <<>>, full \in Seq(Pages)
  PROVE  /\ partial' \in Seq(Pages) /\ full' \in Seq(Pages)
         /\ Len(partial') + Len(full') = Len(q) + Len(full)
<1>1. \/ partial' = Tail(q) /\ full' = Append(full, p)
      \/ partial' = q /\ full' = full
  BY DEF TakeFrom
<1>2. /\ Tail(q) \in Seq(Pages) /\ Len(Tail(q)) = Len(q) - 1
      /\ Append(full, p) \in Seq(Pages) /\ Len(Append(full, p)) = Len(full) + 1
  BY HeadTailProperties, AppendProperties
<1>3. Len(q) \in Nat /\ Len(full) \in Nat
  BY LenProperties
<1>4. CASE partial' = Tail(q) /\ full' = Append(full, p)
  BY <1>2, <1>3, <1>4
<1>5. CASE partial' = q /\ full' = full
  BY <1>5
<1> QED  BY <1>1, <1>4, <1>5

\* slab_free ends with slab_trim.
LEMMA FreeTrims ==
  ASSUME ListInv, NEW t \in Threads, Free(t), EmptyBounded
  PROVE  EmptyBounded'
<1> DEFINE p == arg[t][1]
           i == arg[t][2]
           toPartial == numelems[p] = MaxElems
           toEmpty   == ~toPartial /\ numelems[p] = 1
           lost      == toEmpty /\ avail[p] \cup {i} # Slots
           unlisted  == \/ toPartial /\ p \notin ElementsIn(full)
                        \/ toEmpty /\ p \notin ElementsIn(partial)
           F == IF toPartial THEN Unlink(full, p) ELSE full
           P == IF toPartial THEN Append(partial, p)
                ELSE IF toEmpty THEN Unlink(partial, p) ELSE partial
           E == IF toEmpty THEN Append(empty, p) ELSE empty
           k == TrimCount(Len(E), Len(P), Len(F))
           stop == FreePanics(p, i) \/ lost \/ unlisted
<1>1. /\ Enter(t, "free")
      /\ stop => UNCHANGED slabVars
      /\ ~stop => full' = F /\ partial' = P /\ empty' = SubSeq(E, k + 1, Len(E))
  BY DEF Free
<1>2. CASE stop
  <2>1. UNCHANGED <<empty, partial, full>>
    BY <1>1, <1>2 DEF slabVars
  <2> QED  BY <2>1 DEF EmptyBounded
<1>3. CASE ~stop
  <2>1. p \in Pages
    BY <1>1 DEF ListInv, Enter, Elements
  <2>2. /\ empty \in Seq(Pages) /\ partial \in Seq(Pages) /\ full \in Seq(Pages)
        /\ Distinct(empty) /\ Distinct(partial) /\ Distinct(full)
    BY DEF ListInv, TypeOK, PagesListedOnce
  <2>3. /\ toPartial => p \in ElementsIn(full)
        /\ toEmpty => p \in ElementsIn(partial)
    BY <1>3
  <2>4. /\ Append(empty, p) \in Seq(Pages) /\ Append(partial, p) \in Seq(Pages)
        /\ toPartial => Unlink(full, p) \in Seq(Pages)
        /\ toEmpty => Unlink(partial, p) \in Seq(Pages)
    BY <2>1, <2>2, <2>3, AppendElements, UnlinkElements
  <2>5. E \in Seq(Pages) /\ P \in Seq(Pages) /\ F \in Seq(Pages)
    <3> HIDE DEF toPartial, toEmpty
    <3> QED  BY <2>2, <2>4
  <2>6. full' = F /\ partial' = P /\ empty' = SubSeq(E, k + 1, Len(E))
    BY <1>1, <1>3
  <2> HIDE DEF E, P, F, stop
  <2>7. Len(E) \in Nat /\ Len(P) \in Nat /\ Len(F) \in Nat
    BY <2>5, LenProperties
  <2>8. k \in 0 .. Len(E) /\ Len(E) - k <= Len(P) + Len(F)
    <3>1. CASE Len(E) > Len(P) + Len(F)
      <4>1. k = Len(E) - (Len(P) + Len(F))
        BY <3>1 DEF TrimCount
      <4> HIDE DEF k
      <4> QED  BY <2>7, <3>1, <4>1
    <3>2. CASE ~(Len(E) > Len(P) + Len(F))
      <4>1. k = 0
        BY <3>2 DEF TrimCount
      <4> HIDE DEF k
      <4> QED  BY <2>7, <3>2, <4>1
    <3> QED  BY <3>1, <3>2
  <2> HIDE DEF k
  <2>9. Len(SubSeq(E, k + 1, Len(E))) = Len(E) - k
    <3>1. \A j \in k + 1 .. Len(E) : E[j] \in Pages
      BY <2>5, <2>8, LenProperties
    <3>2. Len(SubSeq(E, k + 1, Len(E)))
            = IF k + 1 <= Len(E) THEN Len(E) - (k + 1) + 1 ELSE 0
      BY <3>1, <2>7, <2>8, SubSeqProperties
    <3> QED  BY <3>2, <2>7, <2>8
  <2> QED  BY <2>6, <2>8, <2>9 DEF EmptyBounded
<1> QED  BY <1>2, <1>3

LEMMA BoundKept ==
  ASSUME ListInv, [Next]_vars, EmptyBounded
  PROVE  EmptyBounded' \/ \E t \in Threads : Reset(t)
<1>1. /\ empty \in Seq(Pages) /\ partial \in Seq(Pages) /\ full \in Seq(Pages)
      /\ Len(empty) \in Nat /\ Len(partial) \in Nat /\ Len(full) \in Nat
      /\ Len(empty) <= Len(partial) + Len(full)
      /\ Len(<<>>) = 0 /\ <<>> \in Seq(Pages)
  BY LenProperties DEF ListInv, TypeOK, EmptyBounded
<1>2. ASSUME UNCHANGED <<empty, partial, full>> PROVE EmptyBounded'
  BY <1>1, <1>2 DEF EmptyBounded
<1>3. ASSUME Create \/ Destroy PROVE EmptyBounded'
  <2>1. empty' = <<>> /\ partial' = <<>> /\ full' = <<>>
    BY <1>3 DEF Create, Destroy
  <2> QED  BY <2>1, <1>1 DEF EmptyBounded
<1>4. ASSUME NEW t \in Threads, AllocFromPartial(t) PROVE EmptyBounded'
  <2>1. /\ partial # <<>> /\ empty' = empty
        /\ TakeFrom(t, Head(partial), avail[Head(partial)], numelems[Head(partial)], partial)
    BY <1>4 DEF AllocFromPartial
  <2>2. Head(partial) \in Pages
    BY <2>1, <1>1, HeadTailProperties
  <2>3. Len(partial') + Len(full') = Len(partial) + Len(full)
    BY <2>1, <2>2, <1>1, TakeFromLengths
  <2> QED  BY <2>1, <2>3, <1>1 DEF EmptyBounded
<1>5. ASSUME NEW t \in Threads, AllocFromEmpty(t) PROVE EmptyBounded'
  <2> DEFINE p == Head(empty)
  <2>1. /\ empty # <<>> /\ empty' = Tail(empty)
        /\ TakeFrom(t, p, avail[p], numelems[p], Append(partial, p))
    BY <1>5 DEF AllocFromEmpty
  <2>2. p \in Pages /\ Len(Tail(empty)) = Len(empty) - 1
    BY <2>1, <1>1, HeadTailProperties
  <2> HIDE DEF p
  <2>3. /\ Append(partial, p) \in Seq(Pages) /\ Append(partial, p) # <<>>
        /\ Len(Append(partial, p)) = Len(partial) + 1
    BY <2>2, <1>1, AppendProperties
  <2>4. Len(partial') + Len(full') = Len(partial) + 1 + Len(full)
    BY <2>1, <2>2, <2>3, <1>1, TakeFromLengths
  <2> QED  BY <2>1, <2>2, <2>4, <1>1 DEF EmptyBounded
<1>6. ASSUME NEW t \in Threads, NEW p \in Pages, AllocGrow(t, p) PROVE EmptyBounded'
  <2>1. /\ empty = <<>> /\ empty' = empty
        /\ TakeFrom(t, p, Slots, 0, Append(partial, p))
    BY <1>6 DEF AllocGrow
  <2>2. Append(partial, p) \in Seq(Pages) /\ Append(partial, p) # <<>>
    BY <1>1, AppendProperties
  <2>3. partial' \in Seq(Pages) /\ full' \in Seq(Pages)
    BY <2>1, <2>2, <1>1, TakeFromLengths
  <2>4. Len(partial') \in Nat /\ Len(full') \in Nat
    BY <2>3, LenProperties
  <2> QED  BY <2>1, <2>4, <1>1 DEF EmptyBounded
<1>7. ASSUME NEW t \in Threads, CriticalSection(t)
      PROVE  EmptyBounded' \/ Reset(t)
  <2>1. CASE AllocFail(t)
    BY <2>1, <1>2 DEF AllocFail, slabVars
  <2> QED  BY <2>1, <1>4, <1>5, <1>6, <1>7, FreeTrims DEF CriticalSection
<1>8. ASSUME NEW t \in Threads, Call(t) \/ Unlock(t) \/ Return(t) PROVE EmptyBounded'
  <2>1. UNCHANGED slabVars
    BY <1>8 DEF Call, CallAlloc, CallReset, CallFree, Unlock, Return
  <2> QED  BY <2>1, <1>2 DEF slabVars
<1>9. ASSUME UNCHANGED vars PROVE EmptyBounded'
  BY <1>9, <1>2 DEF vars, slabVars
<1> QED  BY <1>3, <1>7, <1>8, <1>9 DEF Next

(***************************************************************************)
(* The pages slab_trim leaves in the cache never outnumber those in use,   *)
(* through every interleaving of calls, until a slab_reset.                *)
(***************************************************************************)
THEOREM CacheBounded == Spec => TrimBoundsCache
<1>1. ListInv /\ [Next]_vars
        => [EmptyBounded => EmptyBounded' \/ \E t \in Threads : Reset(t)]_vars
  BY BoundKept
<1> QED  BY <1>1, ListsInvariant, PTL DEF Spec, TrimBoundsCache

-----------------------------------------------------------------------------
(* Who owns the elements.                                                  *)

\* Where the threads are in their calls, and what they hold there.
CallsInv ==
  \A t \in Threads :
    /\ lock = t <=> pc[t] = "unlock"
    /\ pc[t] = "free" <=> arg[t] # None
    /\ ret[t] # None => pc[t] \in {"unlock", "return"}
    /\ pc[t] = "reset" => \A u \in Threads \ {t} : pc[u] = "idle"

\* ListInv says which list a page is on; that a free is legal, so that no
\* check of slab_free can fail, follows from who owns the elements.  The
\* elements of a page are constructed as long as the allocator has the page.
OwnInv ==
  /\ ListInv
  /\ CallsInv
  /\ OneOwner
  /\ constructed = PageElements(pages)
  /\ ~aborted

-----------------------------------------------------------------------------
(* What each operation does to the allocated elements.                     *)

\* An empty page has no allocated element.
LEMMA EmptyPagesFree ==
  ASSUME ListInv, NEW p \in ElementsIn(empty)
  PROVE  avail[p] = Slots
<1>1. p \in pages /\ p \in Pages /\ avail[p] \in SUBSET Slots
  BY DEF ListInv, PagesListedOnce, TypeOK
<1>2. Cardinality(Used(p)) <= 0
  BY <1>1 DEF ListInv, Accounting, PageAccount
<1>3. IsFiniteSet(Used(p)) /\ Cardinality(Used(p)) \in Nat
  BY <1>1, SlotsFinite DEF Used
<1>4. Used(p) = {}
  BY <1>2, <1>3, FS_EmptySet
<1> QED  BY <1>1, <1>4 DEF Used

\* slab_alloc, once it has a page, gives an element that was not allocated.
LEMMA TakeFromGives ==
  ASSUME TypeOK, NEW t \in Threads, NEW p \in Pages, NEW q,
         NEW free \in SUBSET Slots, NEW n \in Nat,
         TakeFrom(t, p, free, n, q), aborted' = FALSE,
         pages' = pages \cup {p}, p \in pages => free = avail[p],
         p \notin pages => free = Slots
  PROVE  \E e \in Elements \ Live : /\ Live' = Live \cup {e}
                                    /\ ret' = [ret EXCEPT ![t] = e]
<1> DEFINE idx == FirstAvail(free)
           e == <<p, idx>>
<1>1. /\ avail' = [avail EXCEPT ![p] = free \ {idx}]
      /\ ret' = [ret EXCEPT ![t] = e]
      /\ aborted' = (n >= MaxElems \/ free = {})
  BY DEF TakeFrom
<1>2. free # {}
  BY <1>1
<1>3. idx \in free /\ idx \in Slots
  BY <1>2, FirstAvailIsAvail
<1> HIDE DEF idx
<1>4. e \in Elements /\ e \notin Live
  BY <1>3 DEF Elements, Live
<1>5. \A r \in Pages : avail'[r] = IF r = p THEN free \ {idx} ELSE avail[r]
  BY <1>1 DEF TypeOK
<1>6. \A x \in Elements : x \in Live' <=> x \in Live \cup {e}
  <2> TAKE x \in Elements
  <2>1. PICK r \in Pages, i \in Slots : x = <<r, i>>
    BY DEF Elements
  <2>2. /\ x \in Live <=> r \in pages /\ i \notin avail[r]
        /\ x \in Live' <=> r \in pages' /\ i \notin avail'[r]
        /\ x = e <=> r = p /\ i = idx
    BY <2>1 DEF Live
  <2>3. CASE r = p
    BY <2>2, <2>3, <1>3, <1>5
  <2>4. CASE r # p
    BY <2>2, <2>4, <1>5
  <2> QED  BY <2>3, <2>4
<1>7. Live' = Live \cup {e}
  BY <1>4, <1>6 DEF Live
<1> QED  BY <1>1, <1>4, <1>7

AllocTakes(t) ==
  AllocFromPartial(t) \/ AllocFromEmpty(t) \/ \E p \in Pages : AllocGrow(t, p)

LEMMA AllocGives ==
  ASSUME OwnInv, NEW t \in Threads, AllocTakes(t)
  PROVE  /\ \E e \in Elements \ Live : /\ Live' = Live \cup {e}
                                       /\ ret' = [ret EXCEPT ![t] = e]
         /\ Enter(t, "alloc") /\ ~aborted'
         /\ created' = created /\ arg' = arg /\ held' = held
         /\ constructed' = PageElements(pages')
<1>1. ListInv' /\ aborted' = FALSE
  BY ListInvAlloc DEF AllocTakes, OwnInv
<1>2. TypeOK /\ PagesListedOnce /\ constructed = PageElements(pages)
  BY DEF OwnInv, ListInv
<1>3. CASE AllocFromPartial(t)
  <2> DEFINE p == Head(partial)
  <2>1. /\ partial # <<>> /\ pages' = pages /\ constructed' = constructed
        /\ TakeFrom(t, p, avail[p], numelems[p], partial)
        /\ Enter(t, "alloc")
        /\ created' = created /\ arg' = arg /\ held' = held
    BY <1>3 DEF AllocFromPartial
  <2>2. p \in ElementsIn(partial)
    BY <2>1, <1>2, TailElements DEF TypeOK
  <2>3. /\ p \in pages /\ p \in Pages
        /\ avail[p] \in SUBSET Slots /\ numelems[p] \in Nat
    BY <2>2, <1>2 DEF TypeOK, PagesListedOnce
  <2> HIDE DEF p
  <2>4. pages' = pages \cup {p} /\ constructed' = PageElements(pages')
    BY <2>1, <2>3, <1>2 DEF PageElements
  <2>5. \E e \in Elements \ Live : Live' = Live \cup {e} /\ ret' = [ret EXCEPT ![t] = e]
    BY <2>1, <2>3, <2>4, <1>1, <1>2, TakeFromGives
  <2> QED  BY <2>1, <2>4, <2>5, <1>1
<1>4. CASE AllocFromEmpty(t)
  <2> DEFINE p == Head(empty)
  <2>1. /\ empty # <<>> /\ pages' = pages /\ constructed' = constructed
        /\ TakeFrom(t, p, avail[p], numelems[p], Append(partial, p))
        /\ Enter(t, "alloc")
        /\ created' = created /\ arg' = arg /\ held' = held
    BY <1>4 DEF AllocFromEmpty
  <2>2. p \in ElementsIn(empty)
    BY <2>1, <1>2, TailElements DEF TypeOK
  <2>3. /\ p \in pages /\ p \in Pages
        /\ avail[p] \in SUBSET Slots /\ numelems[p] \in Nat
    BY <2>2, <1>2 DEF TypeOK, PagesListedOnce
  <2> HIDE DEF p
  <2>4. pages' = pages \cup {p} /\ constructed' = PageElements(pages')
    BY <2>1, <2>3, <1>2 DEF PageElements
  <2>5. \E e \in Elements \ Live : Live' = Live \cup {e} /\ ret' = [ret EXCEPT ![t] = e]
    BY <2>1, <2>3, <2>4, <1>1, <1>2, TakeFromGives
  <2> QED  BY <2>1, <2>4, <2>5, <1>1
<1>5. ASSUME NEW p \in Pages, AllocGrow(t, p)
      PROVE  /\ \E e \in Elements \ Live : /\ Live' = Live \cup {e}
                                           /\ ret' = [ret EXCEPT ![t] = e]
             /\ Enter(t, "alloc")
             /\ created' = created /\ arg' = arg /\ held' = held
             /\ constructed' = PageElements(pages')
  <2>1. /\ p \notin pages /\ pages' = pages \cup {p}
        /\ constructed' = constructed \cup PageElements({p})
        /\ TakeFrom(t, p, Slots, 0, Append(partial, p))
        /\ Enter(t, "alloc")
        /\ created' = created /\ arg' = arg /\ held' = held
    BY <1>5 DEF AllocGrow
  <2>2. constructed' = PageElements(pages')
    BY <2>1, <1>2 DEF PageElements
  <2>3. \E e \in Elements \ Live : Live' = Live \cup {e} /\ ret' = [ret EXCEPT ![t] = e]
    BY <2>1, <1>1, <1>2, TakeFromGives
  <2> QED  BY <2>1, <2>2, <2>3
<1> QED  BY <1>1, <1>3, <1>4, <1>5 DEF AllocTakes

\* A free that its caller owns passes every check of slab_free, and takes back
\* exactly its element, whatever slab_trim does with the pages that are empty.
LEMMA FreeGives ==
  ASSUME OwnInv, NEW t \in Threads, Free(t)
  PROVE  /\ arg[t] \in Live /\ Live' = Live \ {arg[t]}
         /\ Enter(t, "free") /\ ~aborted'
         /\ arg' = [arg EXCEPT ![t] = None]
         /\ created' = created /\ ret' = ret /\ held' = held
         /\ constructed' = PageElements(pages')
<1> DEFINE p == arg[t][1]
           i == arg[t][2]
           toPartial == numelems[p] = MaxElems
           toEmpty   == ~toPartial /\ numelems[p] = 1
           lost      == toEmpty /\ avail[p] \cup {i} # Slots
           unlisted  == \/ toPartial /\ p \notin ElementsIn(full)
                        \/ toEmpty /\ p \notin ElementsIn(partial)
           F == IF toPartial THEN Unlink(full, p) ELSE full
           P == IF toPartial THEN Append(partial, p)
                ELSE IF toEmpty THEN Unlink(partial, p) ELSE partial
           E == IF toEmpty THEN Append(empty, p) ELSE empty
           k == TrimCount(Len(E), Len(P), Len(F))
           trimmed == {E[j] : j \in 1 .. k}
           stop == FreePanics(p, i) \/ lost \/ unlisted
<1>1. /\ Enter(t, "free")
      /\ arg' = [arg EXCEPT ![t] = None]
      /\ ret' = ret /\ held' = held
      /\ ~stop => /\ avail' = [avail EXCEPT ![p] = @ \cup {i}]
                  /\ pages' = pages \ trimmed
                  /\ constructed' = constructed \ PageElements(trimmed)
                  /\ created' = created /\ aborted' = aborted
  BY DEF Free
<1>2. /\ ListInv /\ TypeOK /\ PagesListedOnce /\ Accounting
      /\ constructed = PageElements(pages) /\ ~aborted
  BY DEF OwnInv, ListInv
\* the element is allocated, and its page is on the list the counter says
<1>3. arg[t] \in Live /\ arg[t] = <<p, i>> /\ p \in pages /\ i \notin avail[p]
      /\ p \in Pages /\ i \in Slots
  <2>1. arg[t] \in Elements
    BY <1>1, <1>2 DEF Enter, ListInv
  <2>2. arg[t] # None
    BY <1>1 DEF OwnInv, CallsInv, Enter
  <2>3. arg[t] \in Live
    BY <2>1, <2>2 DEF OwnInv, OneOwner, InFlight
  <2> QED  BY <2>1, <2>3 DEF Live, Elements
<1>4. PageAccount(p) /\ avail[p] \in SUBSET Slots /\ numelems[p] \in Nat
  BY <1>2, <1>3 DEF Accounting, TypeOK
<1>5. /\ numelems[p] > 0
      /\ Cardinality(Slots \ (avail[p] \cup {i})) <= numelems[p] - 1
  BY <1>3, <1>4, SlotFreed DEF PageAccount, Used
<1>6. toEmpty => avail[p] \cup {i} = Slots /\ p \in ElementsIn(partial)
  <2> SUFFICES ASSUME toEmpty
               PROVE  avail[p] \cup {i} = Slots /\ p \in ElementsIn(partial)
    OBVIOUS
  <2> DEFINE rest == Slots \ (avail[p] \cup {i})
  <2>1. IsFiniteSet(rest) /\ Cardinality(rest) \in Nat
    BY <1>3, <1>4, SlotsFinite
  <2>2. Cardinality(rest) <= 0
    BY <1>5
  <2>3. rest = {}
    <3> HIDE DEF rest
    <3> QED  BY <2>1, <2>2, FS_EmptySet
  <2>4. p \notin ElementsIn(full) /\ p \notin ElementsIn(empty)
    BY <1>4 DEF PageAccount
  <2> QED  BY <2>3, <2>4, <1>2, <1>3, <1>4 DEF PagesListedOnce
<1>7. ~stop
  <2>1. ~FreePanics(p, i)
    BY <1>3, <1>4, <1>5 DEF FreePanics
  <2>2. toPartial => p \in ElementsIn(full)
    BY <1>4 DEF PageAccount
  <2> QED  BY <2>1, <2>2, <1>6
\* no allocated element is on a page that is trimmed
<1>8. /\ empty \in Seq(Pages) /\ partial \in Seq(Pages) /\ full \in Seq(Pages)
      /\ Distinct(partial) /\ Distinct(full)
  BY <1>2 DEF TypeOK, PagesListedOnce
<1>9. /\ E \in Seq(Pages)
      /\ ElementsIn(E) = IF toEmpty THEN ElementsIn(empty) \cup {p}
                                    ELSE ElementsIn(empty)
  <2>1. /\ Append(empty, p) \in Seq(Pages)
        /\ ElementsIn(Append(empty, p)) = ElementsIn(empty) \cup {p}
    BY <1>3, <1>8, AppendElements
  <2> HIDE DEF toEmpty
  <2> QED  BY <2>1, <1>8
<1>10. k \in 0 .. Len(E)
  <2>1. F \in Seq(Pages)
    BY <1>3, <1>7, <1>8, UnlinkElements
  <2>2. P \in Seq(Pages)
    <3>1. Append(partial, p) \in Seq(Pages)
      BY <1>3, <1>8, AppendElements
    <3>2. toEmpty => Unlink(partial, p) \in Seq(Pages)
      BY <1>6, <1>8, UnlinkElements
    <3> QED  BY <3>1, <3>2, <1>8
  <2>3. Len(E) \in Nat /\ Len(P) \in Nat /\ Len(F) \in Nat
    BY <1>9, <2>1, <2>2, LenProperties
  <2> HIDE DEF E, P, F
  <2> QED  BY <2>3 DEF TrimCount
<1>11. \A r \in trimmed : IF r = p THEN avail[p] \cup {i} = Slots ELSE avail[r] = Slots
  <2> TAKE r \in trimmed
  <2>1. r \in ElementsIn(E)
    <3> HIDE DEF E, k
    <3> QED  BY <1>9, <1>10, LenProperties DEF ElementsIn
  <2> HIDE DEF trimmed, E
  <2>2. CASE r \in ElementsIn(empty)
    <3>1. avail[r] = Slots
      BY <2>2, <1>2, EmptyPagesFree
    <3> QED  BY <3>1, <1>3
  <2>3. CASE r \notin ElementsIn(empty)
    BY <1>9, <2>1, <2>3, <1>6
  <2> QED  BY <2>2, <2>3
<1>12. /\ pages' = pages \ trimmed
      /\ \A r \in Pages : avail'[r] = IF r = p THEN avail[p] \cup {i} ELSE avail[r]
  BY <1>1, <1>2, <1>3, <1>7 DEF TypeOK
<1>13. constructed' = PageElements(pages')
  BY <1>1, <1>2, <1>7 DEF PageElements
<1>14. created' = created /\ ~aborted'
  BY <1>1, <1>2, <1>7
<1> HIDE DEF trimmed, stop
<1>15. \A x \in Elements : x \in Live' <=> x \in Live /\ x # <<p, i>>
  <2> TAKE x \in Elements
  <2>1. PICK r \in Pages, n \in Slots : x = <<r, n>>
    BY DEF Elements
  <2>2. /\ x \in Live <=> r \in pages /\ n \notin avail[r]
        /\ x \in Live' <=> r \in pages' /\ n \notin avail'[r]
        /\ x = <<p, i>> <=> r = p /\ n = i
    BY <2>1 DEF Live
  <2>3. r \in trimmed /\ r \in pages => n \in avail'[r]
    BY <1>11, <1>12
  <2> QED  BY <2>2, <2>3, <1>3, <1>12
<1>16. Live' = Live \ {arg[t]}
  BY <1>3, <1>15 DEF Live
<1> QED  BY <1>1, <1>3, <1>13, <1>14, <1>16

LEMMA ResetGives ==
  ASSUME OwnInv, NEW t \in Threads, Reset(t)
  PROVE  /\ Live' = {} /\ held' = {}
         /\ Enter(t, "reset") /\ ~aborted'
         /\ created' = created /\ arg' = arg /\ ret' = ret
         /\ constructed' = PageElements(pages')
<1> DEFINE moved == ElementsIn(partial) \cup ElementsIn(full)
<1>1. /\ Enter(t, "reset")
      /\ avail' = [p \in Pages |-> IF p \in moved THEN Slots ELSE avail[p]]
      /\ held' = {}
      /\ created' = created /\ pages' = pages /\ constructed' = constructed
      /\ arg' = arg /\ ret' = ret /\ aborted' = aborted
  BY DEF Reset
<1>2. /\ ListInv /\ TypeOK /\ PagesListedOnce
      /\ constructed = PageElements(pages) /\ ~aborted
  BY DEF OwnInv, ListInv
<1>3. \A p \in pages : p \in Pages /\ avail'[p] = Slots
  <2> TAKE p \in pages
  <2>1. p \in Pages /\ (p \in moved \/ p \in ElementsIn(empty))
    BY <1>2 DEF TypeOK, PagesListedOnce
  <2> QED  BY <2>1, <1>1, <1>2, EmptyPagesFree
<1>4. Live' = {}
  BY <1>1, <1>3 DEF Live, Elements
<1>5. constructed' = PageElements(pages')
  BY <1>1, <1>2 DEF PageElements
<1> QED  BY <1>1, <1>2, <1>4, <1>5

LEMMA DestroyGives ==
  ASSUME OwnInv, Destroy
  PROVE  /\ Live' = {} /\ held' = {} /\ pages' = {} /\ constructed' = {}
         /\ UNCHANGED <<lock, pc, arg, ret, aborted>>
<1>1. /\ pages' = pages \ (ElementsIn(empty) \cup ElementsIn(partial) \cup ElementsIn(full))
      /\ constructed' = constructed \ PageElements(ElementsIn(empty) \cup ElementsIn(partial)
                                                     \cup ElementsIn(full))
      /\ held' = {} /\ UNCHANGED <<lock, pc, arg, ret, aborted>>
  BY DEF Destroy
<1>2. PagesListedOnce /\ constructed = PageElements(pages)
  BY DEF OwnInv, ListInv
<1>3. pages' = {} /\ constructed' = {}
  BY <1>1, <1>2 DEF PagesListedOnce
<1> QED  BY <1>1, <1>3 DEF Live

-----------------------------------------------------------------------------
(* The invariant.                                                          *)

LEMMA OwnInvInit == Init => OwnInv
<1> SUFFICES ASSUME Init PROVE OwnInv
  OBVIOUS
<1>1. ListInv
  BY ListInvInit
<1>2. CallsInv /\ ~aborted
  BY SlabAssumption DEF Init, CallsInv
<1>3. Live = {} /\ InFlight(ret) = {} /\ InFlight(arg) = {}
  BY DEF Init, Live, InFlight
<1>4. OneOwner
  BY <1>3 DEF Init, OneOwner
<1>5. constructed = PageElements(pages)
  BY DEF Init, PageElements
<1> QED  BY <1>1, <1>2, <1>4, <1>5 DEF OwnInv

\* The element that slab_alloc found has no owner yet, and gets one.
LEMMA OwnInvAlloc ==
  ASSUME OwnInv, NEW t \in Threads, AllocTakes(t)
  PROVE  OwnInv'
<1>1. PICK e \in Elements \ Live : /\ Live' = Live \cup {e}
                                   /\ ret' = [ret EXCEPT ![t] = e]
  BY AllocGives
<1>2. /\ pc[t] = "alloc" /\ lock = None /\ lock' = t
      /\ pc' = [pc EXCEPT ![t] = "unlock"]
      /\ arg' = arg /\ held' = held /\ ~aborted'
      /\ constructed' = PageElements(pages')
  BY AllocGives DEF Enter
<1>3. TypeOK /\ CallsInv /\ OneOwner
  BY DEF OwnInv, ListInv
<1>4. ret[t] = None /\ e # None
  BY <1>1, <1>2, <1>3, SlabAssumption DEF CallsInv, Elements, Slots
<1>5. \A u \in Threads : ret'[u] = IF u = t THEN e ELSE ret[u]
  BY <1>1, <1>3 DEF TypeOK
<1>6. InFlight(ret') = InFlight(ret) \cup {e} /\ InFlight(arg') = InFlight(arg)
  BY <1>2, <1>4, <1>5 DEF InFlight
<1>7. e \notin held \cup InFlight(ret) \cup InFlight(arg)
  BY <1>1, <1>3 DEF OneOwner
<1>8. OneOwner'
  <2>1. \A u \in Threads : ret[u] # e
    BY <1>4, <1>7 DEF InFlight
  <2>2. \A u, v \in Threads :
          u # v => /\ ret'[u] = ret'[v] => ret'[u] = None
                   /\ arg'[u] = arg'[v] => arg'[u] = None
    BY <1>2, <1>3, <1>5, <2>1 DEF OneOwner
  <2>3. /\ InFlight(ret)' = InFlight(ret) \cup {e}
        /\ InFlight(arg)' = InFlight(arg)
    BY <1>6 DEF InFlight
  <2> QED  BY <1>1, <1>2, <1>3, <1>7, <2>2, <2>3 DEF OneOwner
<1>9. CallsInv'
  <2> SUFFICES ASSUME NEW u \in Threads
               PROVE  /\ lock' = u <=> pc'[u] = "unlock"
                      /\ pc'[u] = "free" <=> arg'[u] # None
                      /\ ret'[u] # None => pc'[u] \in {"unlock", "return"}
                      /\ pc'[u] = "reset" => \A v \in Threads \ {u} : pc'[v] = "idle"
    BY DEF CallsInv
  <2>1. \A v \in Threads : pc'[v] = IF v = t THEN "unlock" ELSE pc[v]
    BY <1>2, <1>3 DEF TypeOK
  <2> QED  BY <1>2, <1>3, <1>5, <2>1, SlabAssumption DEF CallsInv
<1>10. ListInv'
  BY ListInvAlloc DEF AllocTakes, OwnInv
<1> QED  BY <1>2, <1>8, <1>9, <1>10 DEF OwnInv

LEMMA OwnInvFree ==
  ASSUME OwnInv, NEW t \in Threads, Free(t)
  PROVE  OwnInv'
<1>1. /\ arg[t] \in Live /\ Live' = Live \ {arg[t]}
      /\ pc[t] = "free" /\ lock = None /\ lock' = t
      /\ pc' = [pc EXCEPT ![t] = "unlock"]
      /\ arg' = [arg EXCEPT ![t] = None]
      /\ ret' = ret /\ held' = held /\ ~aborted'
      /\ constructed' = PageElements(pages')
  BY FreeGives DEF Enter
<1>2. TypeOK /\ CallsInv /\ OneOwner
  BY DEF OwnInv, ListInv
<1>3. arg[t] # None
  BY <1>1, <1>2 DEF CallsInv
<1>4. \A u \in Threads : /\ arg'[u] = IF u = t THEN None ELSE arg[u]
                         /\ pc'[u] = IF u = t THEN "unlock" ELSE pc[u]
  BY <1>1, <1>2 DEF TypeOK
<1>5. \A u \in Threads : u # t => arg[u] # arg[t]
  BY <1>2, <1>3 DEF OneOwner
<1>6. InFlight(arg)' = InFlight(arg) \ {arg[t]} /\ InFlight(ret)' = InFlight(ret)
  BY <1>1, <1>4, <1>5 DEF InFlight
<1>7. arg[t] \in InFlight(arg)
  BY <1>3 DEF InFlight
<1>8. OneOwner'
  <2>1. \A u, v \in Threads :
          u # v => /\ ret'[u] = ret'[v] => ret'[u] = None
                   /\ arg'[u] = arg'[v] => arg'[u] = None
    BY <1>1, <1>2, <1>4 DEF OneOwner
  <2> QED  BY <1>1, <1>2, <1>6, <1>7, <2>1 DEF OneOwner
<1>9. CallsInv'
  BY <1>1, <1>2, <1>4, SlabAssumption DEF CallsInv
<1>10. ListInv'
  BY ListInvFree DEF OwnInv
<1> QED  BY <1>1, <1>8, <1>9, <1>10 DEF OwnInv

\* No other call is on its way, so nobody owns an element afterwards.
LEMMA OwnInvReset ==
  ASSUME OwnInv, NEW t \in Threads, Reset(t)
  PROVE  OwnInv'
<1>1. /\ Live' = {} /\ held' = {}
      /\ pc[t] = "reset" /\ lock = None /\ lock' = t
      /\ pc' = [pc EXCEPT ![t] = "unlock"]
      /\ arg' = arg /\ ret' = ret /\ ~aborted'
      /\ constructed' = PageElements(pages')
  BY ResetGives DEF Enter
<1>2. TypeOK /\ CallsInv /\ OneOwner
  BY DEF OwnInv, ListInv
<1>3. \A u \in Threads : arg[u] = None /\ ret[u] = None
  BY <1>1, <1>2 DEF CallsInv
<1>4. InFlight(arg)' = {} /\ InFlight(ret)' = {}
  BY <1>1, <1>3 DEF InFlight
<1>5. OneOwner'
  BY <1>1, <1>3, <1>4 DEF OneOwner
<1>6. \A u \in Threads : pc'[u] = IF u = t THEN "unlock" ELSE pc[u]
  BY <1>1, <1>2 DEF TypeOK
<1>7. CallsInv'
  BY <1>1, <1>2, <1>3, <1>6, SlabAssumption DEF CallsInv
<1>8. ListInv'
  BY ListInvReset DEF OwnInv
<1> QED  BY <1>1, <1>5, <1>7, <1>8 DEF OwnInv

\* What a step that leaves the pages alone does not change.
LEMMA SamePages ==
  ASSUME UNCHANGED <<pages, avail>>
  PROVE  Live' = Live
BY DEF Live

\* The caller gives up its element with the call of slab_free.
LEMMA OwnInvCallFree ==
  ASSUME OwnInv, Quiescent, NEW t \in Threads, NEW e \in Elements, CallFree(t, e)
  PROVE  OwnInv'
<1>1. /\ pc[t] = "idle" /\ e \in held /\ Calls({"reset"}) = {}
      /\ pc' = [pc EXCEPT ![t] = "free"]
      /\ arg' = [arg EXCEPT ![t] = e]
      /\ held' = held \ {e}
      /\ UNCHANGED <<slabVars, lock, ret, aborted>>
  BY DEF CallFree
<1>2. TypeOK /\ CallsInv /\ OneOwner /\ constructed = PageElements(pages) /\ ~aborted
  BY DEF OwnInv, ListInv
<1>3. \A u \in Threads : /\ arg'[u] = IF u = t THEN e ELSE arg[u]
                         /\ pc'[u] = IF u = t THEN "free" ELSE pc[u]
  BY <1>1, <1>2 DEF TypeOK
<1>4. arg[t] = None /\ ret[t] = None /\ e # None
  BY <1>1, <1>2, SlabAssumption DEF CallsInv, Elements, Slots
<1>5. Live' = Live /\ InFlight(ret)' = InFlight(ret)
  BY <1>1, SamePages DEF slabVars, InFlight
<1>6. InFlight(arg)' = InFlight(arg) \cup {e}
  BY <1>3, <1>4 DEF InFlight
<1>7. \A u \in Threads : arg[u] # e /\ ret[u] # e
  BY <1>1, <1>2, <1>4 DEF OneOwner, InFlight
<1>8. OneOwner'
  <2>1. \A u, v \in Threads :
          u # v => /\ ret'[u] = ret'[v] => ret'[u] = None
                   /\ arg'[u] = arg'[v] => arg'[u] = None
    BY <1>1, <1>2, <1>3, <1>7 DEF OneOwner
  <2>2. /\ Live = held \cup InFlight(ret) \cup InFlight(arg)
        /\ held \cap (InFlight(ret) \cup InFlight(arg)) = {}
        /\ InFlight(ret) \cap InFlight(arg) = {}
    BY <1>2 DEF OneOwner
  <2>3. /\ Live' = held' \cup InFlight(ret)' \cup InFlight(arg)'
        /\ held' \cap (InFlight(ret)' \cup InFlight(arg)') = {}
        /\ InFlight(ret)' \cap InFlight(arg)' = {}
    BY <1>1, <1>5, <1>6, <2>2
  <2> QED  BY <2>1, <2>3 DEF OneOwner
<1>9. CallsInv'
  <2>1. \A u \in Threads : pc[u] # "reset"
    BY <1>1 DEF Calls
  <2> QED  BY <1>1, <1>2, <1>3, <1>4, <2>1 DEF CallsInv
<1>10. constructed' = PageElements(pages') /\ ~aborted'
  BY <1>1, <1>2 DEF slabVars, PageElements
<1>11. ListInv'
  <2>1. CallFree(t, e) => [Next]_vars
    BY <1>2 DEF Next, Call
  <2> QED  BY <2>1, ListInvNext DEF OwnInv
<1> QED  BY <1>8, <1>9, <1>10, <1>11 DEF OwnInv

\* The caller of slab_alloc owns what the call returned.
LEMMA OwnInvReturn ==
  ASSUME OwnInv, NEW t \in Threads, Return(t)
  PROVE  OwnInv'
<1>1. /\ pc[t] = "return"
      /\ pc' = [pc EXCEPT ![t] = "idle"]
      /\ held' = IF ret[t] = None THEN held ELSE held \cup {ret[t]}
      /\ ret' = [ret EXCEPT ![t] = None]
      /\ UNCHANGED <<slabVars, lock, arg, aborted>>
  BY DEF Return
<1>2. TypeOK /\ CallsInv /\ OneOwner /\ constructed = PageElements(pages) /\ ~aborted
  BY DEF OwnInv, ListInv
<1>3. \A u \in Threads : /\ ret'[u] = IF u = t THEN None ELSE ret[u]
                         /\ pc'[u] = IF u = t THEN "idle" ELSE pc[u]
  BY <1>1, <1>2 DEF TypeOK
<1>4. Live' = Live /\ InFlight(arg)' = InFlight(arg)
  BY <1>1, SamePages DEF slabVars, InFlight
<1>5. InFlight(ret)' = InFlight(ret) \ {ret[t]}
  BY <1>2, <1>3 DEF InFlight, OneOwner
<1>6. /\ Live = held \cup InFlight(ret) \cup InFlight(arg)
      /\ held \cap (InFlight(ret) \cup InFlight(arg)) = {}
      /\ InFlight(ret) \cap InFlight(arg) = {}
  BY <1>2 DEF OneOwner
<1>7. /\ Live' = held' \cup InFlight(ret)' \cup InFlight(arg)'
      /\ held' \cap (InFlight(ret)' \cup InFlight(arg)') = {}
      /\ InFlight(ret)' \cap InFlight(arg)' = {}
  <2>1. CASE ret[t] = None
    BY <2>1, <1>1, <1>4, <1>5, <1>6 DEF InFlight
  <2>2. CASE ret[t] # None
    <3>1. ret[t] \in InFlight(ret)
      BY <2>2 DEF InFlight
    <3> QED  BY <3>1, <2>2, <1>1, <1>4, <1>5, <1>6
  <2> QED  BY <2>1, <2>2
<1>8. OneOwner'
  <2>1. \A u, v \in Threads :
          u # v => /\ ret'[u] = ret'[v] => ret'[u] = None
                   /\ arg'[u] = arg'[v] => arg'[u] = None
    BY <1>1, <1>2, <1>3 DEF OneOwner
  <2> QED  BY <1>7, <2>1 DEF OneOwner
<1>9. CallsInv'
  BY <1>1, <1>2, <1>3 DEF CallsInv
<1>10. constructed' = PageElements(pages') /\ ~aborted'
  BY <1>1, <1>2 DEF slabVars, PageElements
<1>11. ListInv'
  <2>1. Return(t) => [Next]_vars
    BY <1>2 DEF Next
  <2> QED  BY <2>1, ListInvNext DEF OwnInv
<1> QED  BY <1>8, <1>9, <1>10, <1>11 DEF OwnInv

\* The steps that change where a thread is, and no owner: the other calls, the
\* failing slab_alloc and the unlock.
LEMMA OwnInvMove ==
  ASSUME OwnInv, OwnInv => ListInv', CallsInv',
         UNCHANGED <<pages, avail, constructed, arg, ret, held, aborted>>
  PROVE  OwnInv'
<1>1. Live' = Live /\ InFlight(arg)' = InFlight(arg) /\ InFlight(ret)' = InFlight(ret)
  BY SamePages DEF InFlight
<1>2. OneOwner'
  BY <1>1 DEF OwnInv, OneOwner
<1>3. constructed' = PageElements(pages') /\ ~aborted'
  BY DEF OwnInv, PageElements
<1> QED  BY <1>2, <1>3 DEF OwnInv

LEMMA OwnInvNext == Quiescent /\ OwnInv /\ [Next]_vars => OwnInv'
<1> SUFFICES ASSUME Quiescent, OwnInv, [Next]_vars PROVE OwnInv'
  OBVIOUS
<1>0. TypeOK /\ CallsInv /\ ListInv'
  BY ListInvNext DEF OwnInv, ListInv
<1>1. ASSUME Create PROVE OwnInv'
  <2>1. UNCHANGED <<pages, avail, constructed, threadVars, aborted>>
    BY <1>1 DEF Create
  <2>2. CallsInv'
    BY <2>1, <1>0 DEF CallsInv, threadVars
  <2> QED  BY <2>1, <2>2, <1>0, OwnInvMove DEF threadVars
<1>2. ASSUME Destroy PROVE OwnInv'
  <2>1. /\ Live' = {} /\ held' = {} /\ pages' = {} /\ constructed' = {}
        /\ UNCHANGED <<lock, pc, arg, ret, aborted>>
        /\ \A t \in Threads : pc[t] = "idle"
    BY <1>2, DestroyGives DEF Destroy
  <2>2. \A t \in Threads : arg[t] = None /\ ret[t] = None
    BY <2>1, <1>0 DEF CallsInv
  <2>3. InFlight(arg)' = {} /\ InFlight(ret)' = {}
    BY <2>1, <2>2 DEF InFlight
  <2>4. OneOwner'
    BY <2>1, <2>2, <2>3 DEF OneOwner
  <2>5. CallsInv'
    BY <2>1, <1>0 DEF CallsInv
  <2>6. constructed' = PageElements(pages') /\ ~aborted'
    BY <2>1 DEF OwnInv, PageElements
  <2> QED  BY <2>4, <2>5, <2>6, <1>0 DEF OwnInv
<1>3. ASSUME NEW t \in Threads, CallAlloc(t) PROVE OwnInv'
  <2>1. /\ pc[t] = "idle" /\ Calls({"reset"}) = {} /\ pc' = [pc EXCEPT ![t] = "alloc"]
        /\ UNCHANGED <<slabVars, lock, arg, ret, held, aborted>>
    BY <1>3 DEF CallAlloc
  <2>2. \A u \in Threads : pc[u] # "reset" /\ pc'[u] = IF u = t THEN "alloc" ELSE pc[u]
    BY <2>1, <1>0 DEF Calls, TypeOK
  <2>3. CallsInv'
    BY <2>1, <2>2, <1>0 DEF CallsInv
  <2> QED  BY <2>1, <2>3, <1>0, OwnInvMove DEF slabVars
<1>4. ASSUME NEW t \in Threads, CallReset(t) PROVE OwnInv'
  <2>1. /\ \A u \in Threads : pc[u] = "idle"
        /\ pc' = [pc EXCEPT ![t] = "reset"]
        /\ UNCHANGED <<slabVars, lock, arg, ret, held, aborted>>
    BY <1>4 DEF CallReset
  <2>2. \A u \in Threads : pc'[u] = IF u = t THEN "reset" ELSE pc[u]
    BY <2>1, <1>0 DEF TypeOK
  <2>3. CallsInv'
    BY <2>1, <2>2, <1>0 DEF CallsInv
  <2> QED  BY <2>1, <2>3, <1>0, OwnInvMove DEF slabVars
<1>5. ASSUME NEW t \in Threads, AllocFail(t) PROVE OwnInv'
  <2>1. /\ pc[t] = "alloc" /\ lock = None /\ lock' = t
        /\ pc' = [pc EXCEPT ![t] = "unlock"]
        /\ ret' = [ret EXCEPT ![t] = None]
        /\ UNCHANGED <<slabVars, arg, held, aborted>>
    BY <1>5 DEF AllocFail, Enter
  <2>2. ret' = ret
    BY <2>1, <1>0 DEF CallsInv, TypeOK
  <2>3. \A u \in Threads : pc'[u] = IF u = t THEN "unlock" ELSE pc[u]
    BY <2>1, <1>0 DEF TypeOK
  <2>4. CallsInv'
    BY <2>1, <2>2, <2>3, <1>0, SlabAssumption DEF CallsInv
  <2> QED  BY <2>1, <2>2, <2>4, <1>0, OwnInvMove DEF slabVars
<1>6. ASSUME NEW t \in Threads, Unlock(t) PROVE OwnInv'
  <2>1. /\ pc[t] = "unlock" /\ lock = t /\ lock' = None
        /\ pc' = [pc EXCEPT ![t] = "return"]
        /\ UNCHANGED <<slabVars, arg, ret, held, aborted>>
    BY <1>6 DEF Unlock
  <2>2. \A u \in Threads : pc'[u] = IF u = t THEN "return" ELSE pc[u]
    BY <2>1, <1>0 DEF TypeOK
  <2>3. CallsInv'
    BY <2>1, <2>2, <1>0, SlabAssumption DEF CallsInv
  <2> QED  BY <2>1, <2>3, <1>0, OwnInvMove DEF slabVars
<1>7. ASSUME NEW t \in Threads, CriticalSection(t) PROVE OwnInv'
  BY <1>5, <1>7, OwnInvAlloc, OwnInvFree, OwnInvReset DEF CriticalSection, AllocTakes
<1>8. ASSUME NEW t \in Threads, Call(t) PROVE OwnInv'
  BY <1>3, <1>4, <1>8, OwnInvCallFree DEF Call
<1>9. ASSUME UNCHANGED vars PROVE OwnInv'
  <2>1. CallsInv'
    BY <1>9, <1>0 DEF CallsInv, vars, threadVars
  <2> QED  BY <1>9, <2>1, <1>0, OwnInvMove DEF vars, slabVars, threadVars
<1> QED
  BY <1>1, <1>2, <1>6, <1>7, <1>8, <1>9, OwnInvReturn DEF Next

THEOREM OwnershipInvariant == Quiescent => (Spec => []OwnInv)
<1> SUFFICES ASSUME Quiescent PROVE Spec => []OwnInv
  OBVIOUS
<1>1. Init => OwnInv
  BY OwnInvInit
<1>2. OwnInv /\ [Next]_vars => OwnInv'
  BY OwnInvNext
<1> QED  BY <1>1, <1>2, PTL DEF Spec

(***************************************************************************)
(* An allocated element has exactly one owner: no interleaving of calls    *)
(* makes slab_alloc hand out an element twice, nor loses one.              *)
(***************************************************************************)
THEOREM EveryElementOwnedOnce == Quiescent => (Spec => []OneOwner)
<1>1. OwnInv => OneOwner
  BY DEF OwnInv
<1> QED  BY <1>1, OwnershipInvariant, PTL

(***************************************************************************)
(* No assertion of slab_alloc fails and slab_free never panics for callers *)
(* that free only what they own.                                           *)
(***************************************************************************)
THEOREM NeverAborts == Quiescent => (Spec => []NoAbort)
<1>1. OwnInv => NoAbort
  BY DEF OwnInv, NoAbort
<1> QED  BY <1>1, OwnershipInvariant, PTL

(***************************************************************************)
(* What a caller owns or is about to get has been constructed and not      *)
(* destructed: pages are trimmed only when none of their elements is owned.*)
(***************************************************************************)
THEOREM ElementsConstructed == Quiescent => (Spec => []OwnedIsConstructed)
<1>1. OwnInv => OwnedIsConstructed
  <2> SUFFICES ASSUME OwnInv PROVE held \cup InFlight(ret) \subseteq constructed
    BY DEF OwnedIsConstructed
  <2>1. Live \subseteq PageElements(pages)
    BY DEF Live, Elements, PageElements
  <2> QED  BY <2>1 DEF OwnInv, OneOwner
<1> QED  BY <1>1, OwnershipInvariant, PTL

-----------------------------------------------------------------------------
(* The refinement: between its call and its return, every operation takes  *)
(* effect at once, in its critical section.                                *)

PoolPc == [t \in Threads |-> IF pc[t] = "unlock" THEN "return" ELSE pc[t]]

\* How the program counters of the pool move with those of the allocator.
LEMMA PoolPcMoves ==
  ASSUME TypeOK, NEW t \in Threads, NEW a, pc' = [pc EXCEPT ![t] = a]
  PROVE  PoolPc' = [PoolPc EXCEPT ![t] = IF a = "unlock" THEN "return" ELSE a]
BY DEF PoolPc, TypeOK

LEMMA PoolInit == Init => Pool!Init
<1> SUFFICES ASSUME Init PROVE Pool!Init
  OBVIOUS
<1>1. Live = {}
  BY DEF Init, Live
<1>2. [t \in Threads |-> IF pc[t] = "unlock" THEN "return" ELSE pc[t]]
        = [t \in Threads |-> "idle"]
  BY DEF Init
<1> QED  BY <1>1, <1>2 DEF Init, Pool!Init

\* A critical section is the atomic operation of the pool.
LEMMA PoolCriticalSection ==
  ASSUME OwnInv, NEW t \in Threads, CriticalSection(t)
  PROVE  Pool!Next
<1>1. TypeOK /\ CallsInv
  BY DEF OwnInv, ListInv
<1>2. \A u \in Threads : PoolPc[u] = IF pc[u] = "unlock" THEN "return" ELSE pc[u]
  BY DEF PoolPc
<1>3. CASE AllocTakes(t)
  <2>1. PICK e \in Elements \ Live : /\ Live' = Live \cup {e}
                                     /\ ret' = [ret EXCEPT ![t] = e]
    BY <1>3, AllocGives
  <2>2. /\ pc[t] = "alloc" /\ pc' = [pc EXCEPT ![t] = "unlock"]
        /\ UNCHANGED <<created, held, arg>>
    BY <1>3, AllocGives DEF Enter
  <2>3. PoolPc' = [PoolPc EXCEPT ![t] = "return"] /\ PoolPc[t] = "alloc"
    BY <2>2, <1>1, <1>2, PoolPcMoves
  <2>4. Pool!Alloc(t, e)
    BY <2>1, <2>2, <2>3 DEF Pool!Alloc, Pool!TakeEffect, PoolPc
  <2> QED  BY <2>1, <2>4 DEF Pool!Next
<1>4. CASE AllocFail(t)
  <2>1. /\ pc[t] = "alloc" /\ pc' = [pc EXCEPT ![t] = "unlock"]
        /\ ret' = [ret EXCEPT ![t] = None]
        /\ UNCHANGED <<slabVars, arg, held>>
    BY <1>4 DEF AllocFail, Enter
  <2>2. ret' = ret
    BY <2>1, <1>1 DEF CallsInv, TypeOK
  <2>3. Live' = Live
    BY <2>1, SamePages DEF slabVars
  <2>4. PoolPc' = [PoolPc EXCEPT ![t] = "return"] /\ PoolPc[t] = "alloc"
    BY <2>1, <1>1, <1>2, PoolPcMoves
  <2>5. Pool!Fail(t)
    BY <2>1, <2>2, <2>3, <2>4 DEF Pool!Fail, Pool!TakeEffect, PoolPc, slabVars
  <2> QED  BY <2>5 DEF Pool!Next
<1>5. CASE Free(t)
  <2>1. /\ arg[t] \in Live /\ Live' = Live \ {arg[t]}
        /\ pc[t] = "free" /\ pc' = [pc EXCEPT ![t] = "unlock"]
        /\ arg' = [arg EXCEPT ![t] = None]
        /\ UNCHANGED <<created, held, ret>>
    BY <1>5, FreeGives DEF Enter
  <2>2. PoolPc' = [PoolPc EXCEPT ![t] = "return"] /\ PoolPc[t] = "free"
    BY <2>1, <1>1, <1>2, PoolPcMoves
  <2>3. Pool!Free(t)
    BY <2>1, <2>2 DEF Pool!Free, Pool!TakeEffect, PoolPc
  <2> QED  BY <2>3 DEF Pool!Next
<1>6. CASE Reset(t)
  <2>1. /\ Live' = {} /\ held' = {}
        /\ pc[t] = "reset" /\ pc' = [pc EXCEPT ![t] = "unlock"]
        /\ UNCHANGED <<created, arg, ret>>
    BY <1>6, ResetGives DEF Enter
  <2>2. PoolPc' = [PoolPc EXCEPT ![t] = "return"] /\ PoolPc[t] = "reset"
    BY <2>1, <1>1, <1>2, PoolPcMoves
  <2>3. Pool!Reset(t)
    BY <2>1, <2>2 DEF Pool!Reset, Pool!TakeEffect, PoolPc
  <2> QED  BY <2>3 DEF Pool!Next
<1> QED  BY <1>3, <1>4, <1>5, <1>6 DEF CriticalSection, AllocTakes

\* A call and a return are those of the pool; to release the lock is nothing.
LEMMA PoolCall ==
  ASSUME OwnInv, Quiescent, NEW t \in Threads,
         Call(t) \/ Unlock(t) \/ Return(t)
  PROVE  Pool!Next \/ UNCHANGED Pool!vars
<1>1. TypeOK
  BY DEF OwnInv, ListInv
<1>2. \A u \in Threads : PoolPc[u] = IF pc[u] = "unlock" THEN "return" ELSE pc[u]
  BY DEF PoolPc
<1>3. UNCHANGED <<created, pages, avail>> /\ Live' = Live
  BY SamePages
     DEF Call, CallAlloc, CallReset, CallFree, Unlock, Return, slabVars
<1>4. CASE CallAlloc(t)
  <2>1. PoolPc[t] = "idle" /\ PoolPc' = [PoolPc EXCEPT ![t] = "alloc"]
    BY <1>1, <1>2, <1>4, PoolPcMoves DEF CallAlloc
  <2>2. Pool!InvokeAlloc(t)
    BY <2>1, <1>3, <1>4 DEF CallAlloc, Pool!InvokeAlloc, Pool!Invoke, PoolPc
  <2> QED  BY <2>2 DEF Pool!Next
<1>5. CASE CallReset(t)
  <2>1. PoolPc[t] = "idle" /\ PoolPc' = [PoolPc EXCEPT ![t] = "reset"]
    BY <1>1, <1>2, <1>5, PoolPcMoves DEF CallReset
  <2>2. \A u \in Threads : PoolPc[u] = "idle"
    BY <1>2, <1>5 DEF CallReset
  <2>3. Pool!InvokeReset(t)
    BY <2>1, <2>2, <1>3, <1>5
       DEF CallReset, Pool!InvokeReset, Pool!Invoke, Pool!Idle, PoolPc
  <2> QED  BY <2>3 DEF Pool!Next
<1>6. ASSUME NEW e \in Elements, CallFree(t, e) PROVE Pool!Next
  <2>1. PoolPc[t] = "idle" /\ PoolPc' = [PoolPc EXCEPT ![t] = "free"]
    BY <1>1, <1>2, <1>6, PoolPcMoves DEF CallFree
  <2>2. Pool!InvokeFree(t, e)
    BY <2>1, <1>3, <1>6 DEF CallFree, Pool!InvokeFree, Pool!Invoke, PoolPc
  <2> QED  BY <2>2 DEF Pool!Next
<1>7. CASE Unlock(t)
  <2>1. /\ pc[t] = "unlock" /\ pc' = [pc EXCEPT ![t] = "return"]
        /\ UNCHANGED <<arg, ret, held>>
    BY <1>7 DEF Unlock
  <2>2. PoolPc' = [PoolPc EXCEPT ![t] = "return"] /\ PoolPc[t] = "return"
    BY <2>1, <1>1, <1>2, PoolPcMoves
  <2>3. PoolPc' = PoolPc
    BY <2>2 DEF PoolPc
  <2> QED  BY <2>1, <2>3, <1>3 DEF Pool!vars, PoolPc
<1>8. CASE Return(t)
  <2>1. PoolPc[t] = "return" /\ PoolPc' = [PoolPc EXCEPT ![t] = "idle"]
    BY <1>1, <1>2, <1>8, PoolPcMoves DEF Return
  <2>2. Pool!Return(t)
    BY <2>1, <1>3, <1>8 DEF Return, Pool!Return, PoolPc
  <2> QED  BY <2>2 DEF Pool!Next
<1> QED  BY <1>4, <1>5, <1>6, <1>7, <1>8 DEF Call

LEMMA PoolNext ==
  ASSUME OwnInv, Quiescent, [Next]_vars
  PROVE  [Pool!Next]_Pool!vars
<1>1. CASE Create
  <2>1. Live' = Live
    BY <1>1, SamePages DEF Create
  <2>2. Pool!Create
    BY <1>1, <2>1 DEF Create, Pool!Create, threadVars
  <2> QED  BY <2>2 DEF Pool!Next
<1>2. CASE Destroy
  <2>1. Live' = {} /\ held' = {} /\ UNCHANGED <<pc, arg, ret>>
    BY <1>2, DestroyGives
  <2>2. created /\ created' = FALSE /\ \A t \in Threads : pc[t] = "idle"
    BY <1>2 DEF Destroy
  <2>3. Pool!Destroy
    BY <2>1, <2>2 DEF Pool!Destroy, Pool!Idle
  <2> QED  BY <2>3 DEF Pool!Next
<1>3. CASE UNCHANGED vars
  <2>1. Live' = Live
    BY <1>3, SamePages DEF vars, slabVars
  <2> QED  BY <1>3, <2>1 DEF vars, slabVars, threadVars, Pool!vars
<1> QED
  BY <1>1, <1>2, <1>3, PoolCriticalSection, PoolCall DEF Next

(***************************************************************************)
(* The allocator implements the pool of SlabPool, with its lists, pages,   *)
(* counters and the lock hidden.                                           *)
(***************************************************************************)
THEOREM Refinement == Quiescent => (Spec => ImplementsPool)
<1> SUFFICES ASSUME Quiescent PROVE Spec => Pool!Spec
  BY DEF ImplementsPool
<1>1. Init => Pool!Init
  BY PoolInit
<1>2. OwnInv /\ [Next]_vars => [Pool!Next]_Pool!vars
  BY PoolNext
<1>3. Spec => []OwnInv
  BY OwnershipInvariant
<1> QED  BY <1>1, <1>2, <1>3, PTL DEF Spec, Pool!Spec

=============================================================================
