----------------------------- MODULE SlabLayout -----------------------------
(***************************************************************************)
(* The arithmetic of tom_slab.h: how slab_create rounds the element size,  *)
(* how a page is cut into elements with its footer at the end, how the     *)
(* free elements are kept in the words of footer->avail, and how slab_free *)
(* finds the page, the footer and the bit again from the bare pointer.     *)
(* One page is modelled, and the elements of it that are allocated.        *)
(***************************************************************************)
EXTENDS Integers, FiniteSets, FiniteSetsExt

CONSTANTS
  IntMax,      \* INT_MAX: slab_create computes with int
  PageSize,    \* SLAB_PAGE_SIZE
  FooterSize,  \* sizeof (struct slab_footer)
  Quantum,     \* 16, which is also SLAB_MIN_ALLOC
  WordBits,    \* SLAB_WORD_BITS
  Bases,       \* addresses a page can have
  Requests,    \* the sizes slab_create is asked for
  MaxHoles     \* bound: how many elements are freed below an allocated one

ASSUME LayoutAssumption ==
  /\ {IntMax, PageSize, FooterSize, Quantum, WordBits} \subseteq Nat \ {0}
  /\ FooterSize + Quantum <= PageSize /\ PageSize + Quantum <= IntMax
  /\ \A b \in Bases : b \in Nat /\ b % PageSize = 0   \* posix_memalign
  /\ \A r \in Requests : r \in Int /\ -IntMax <= r /\ r <= IntMax
  /\ MaxHoles \in Nat

VARIABLES
  request,  \* the elemsz argument of slab_create
  elemsz,   \* slab->elemsz
  base,     \* the address of the page
  avail,    \* footer->avail: for each word, the set of its bits that are 1
  out,      \* the addresses slab_alloc has returned and slab_free not taken back
  doubled   \* did slab_free find its element free already?

vars == <<request, elemsz, base, avail, out, doubled>>

-----------------------------------------------------------------------------
(* slab_create                                                             *)

\* The sum of two int, wrapping around at INT_MAX as the compilers build it
\* (it is undefined in C); no intermediate result exceeds IntMax.
PlusInt(a, b) == IF a > IntMax - b THEN (a - IntMax) + b - IntMax - 2 ELSE a + b

\* a / b in C rounds towards zero.
DivInt(a, b) == IF a < 0 /\ a % b # 0 THEN a \div b + 1 ELSE a \div b

RoundUp(sz) == DivInt(PlusInt(sz, Quantum - 1), Quantum) * Quantum

ElemSize(sz) == IF RoundUp(sz) < Quantum THEN Quantum ELSE RoundUp(sz)

\* Otherwise slab_create returns NULL.
FitsPage(size) == size <= PageSize - FooterSize

ElemsWholePage(size) == PageSize \div size                \* mutant
MaxElems(size) == (PageSize - FooterSize) \div size

\* The number of words of footer->avail: SLAB_AVAIL_WORDS.
AvailWordsOneShort ==                                     \* mutant
  (PageSize \div Quantum + WordBits - 1) \div WordBits - 1
AvailWords == (PageSize \div Quantum + WordBits - 1) \div WordBits

Words == 0 .. AvailWords - 1
Bits  == 0 .. WordBits - 1

-----------------------------------------------------------------------------
(* footer->avail                                                           *)

SetBit(b, i) == [b EXCEPT ![i \div WordBits] = @ \cup {i % WordBits}]
ClrBit(b, i) == [b EXCEPT ![i \div WordBits] = @ \ {i % WordBits}]
GetBit(b, i) == i % WordBits \in b[i \div WordBits]

\* The bitmap slab_grow and slab_reset leave: one bit for each element.
AllSet(n) == [w \in Words |-> {b \in Bits : w * WordBits + b < n}]

\* SLAB_ffs counts bits from 1 on.
Ffs(word) == Min(word) + 1

\* The scan of slab_alloc stops at the first word that is not 0.
Scan(b) ==
  LET w == Min({v \in Words : b[v] # {}})
  IN  w * WordBits + Ffs(b[w]) - 1

Address(i) == base + i * elemsz

\* SLAB_GET_BASE clears the low bits of the pointer.
GetBase(ptr) == ptr - (ptr % PageSize)
IndexOf(ptr) == (ptr - GetBase(ptr)) \div elemsz

-----------------------------------------------------------------------------
\* A page in which the first n elements have been allocated.
Init ==
  \E sz \in Requests, b \in Bases :
    LET size == ElemSize(sz)
    IN  /\ FitsPage(size)
        /\ request = sz /\ elemsz = size /\ base = b
        /\ \E n \in 0 .. MaxElems(size) :
             /\ avail = [w \in Words |-> AllSet(MaxElems(size))[w] \ AllSet(n)[w]]
             /\ out = {b + i * size : i \in 0 .. n - 1}
        /\ doubled = FALSE

Alloc ==
  /\ \E w \in Words : avail[w] # {}
  /\ avail' = ClrBit(avail, Scan(avail))
  /\ out' = out \cup {Address(Scan(avail))}
  /\ UNCHANGED <<request, elemsz, base, doubled>>

\* What the callers free: the last element of all, or one that leaves at
\* most MaxHoles free elements in front of it.
Freeable ==
  LET last == {p \in out : \A q \in out : q <= p}
      free == (IndexOf(CHOOSE p \in last : TRUE) + 1) - Cardinality(out)
  IN  IF out # {} /\ free < MaxHoles THEN out ELSE last

Free(ptr) ==
  /\ doubled' = GetBit(avail, IndexOf(ptr))
  /\ avail' = IF doubled' THEN avail ELSE SetBit(avail, IndexOf(ptr))
  /\ out' = out \ {ptr}
  /\ UNCHANGED <<request, elemsz, base>>

Reset ==
  /\ avail' = AllSet(MaxElems(elemsz))
  /\ out' = {}
  /\ UNCHANGED <<request, elemsz, base, doubled>>

Next == ~doubled /\ (Alloc \/ Reset \/ \E ptr \in Freeable : Free(ptr))

Spec == Init /\ [][Next]_vars

-----------------------------------------------------------------------------
(* Properties.                                                             *)

FreeIndices == {i \in 0 .. AvailWords * WordBits - 1 : GetBit(avail, i)}

(***************************************************************************)
(* The bitmap and the pointers say the same: the bits that are 0 are those *)
(* of the elements handed out.  So the index slab_free computes from a     *)
(* pointer is the one slab_alloc computed the pointer from, SLAB_AVAIL_    *)
(* WORDS words hold all bits, and no bit beyond maxelems is ever set.      *)
(***************************************************************************)
BitmapMatches ==
  /\ ~doubled
  /\ out = {Address(i) : i \in (0 .. MaxElems(elemsz) - 1) \ FreeIndices}
  /\ FreeIndices \subseteq 0 .. MaxElems(elemsz) - 1

(***************************************************************************)
(* Elements lie in their page, in front of the footer, aligned, and apart  *)
(* from each other by their size: nothing a caller writes to one element   *)
(* reaches another one, the bitmap or the list node.  And they are at      *)
(* least as large as what slab_create was asked for ("any non-negative     *)
(* value"), but for the last sizes up to INT_MAX, where rounding up        *)
(* overflows and passes the checks that follow.                            *)
(***************************************************************************)
ElementsApart ==
  /\ request <= elemsz \/ request > IntMax - (Quantum - 1)
  /\ \A p \in out :
       /\ p >= base /\ p + elemsz <= base + PageSize - FooterSize
       /\ (p - base) % Quantum = 0
       /\ GetBase(p) = base
       /\ \A a \in p + 1 .. p + elemsz - 1 : a \notin out
=============================================================================
