-------------------------------- MODULE Slab --------------------------------
(***************************************************************************)
(* The SLAB allocator of tom_slab.h: one `struct slab`, the pages it owns, *)
(* and the threads that call it.                                           *)
(*                                                                         *)
(* Everything slab_alloc, slab_free and slab_reset do to the allocator     *)
(* happens between SLAB_mutex_lock and SLAB_mutex_unlock on coarse_lock,   *)
(* and nothing else reads that state, so taking the lock and running the   *)
(* critical section is one action; releasing the lock and returning to the *)
(* caller are two more.  A list of pages is the sequence of the nodes met  *)
(* from head.next on (module SlabList is about the pointers), and the      *)
(* bitmap footer->avail is the set of the indices whose bit is set (module *)
(* SlabLayout is about words and addresses).                               *)
(***************************************************************************)
EXTENDS Integers, FiniteSets, Sequences

CONSTANTS
  Pages,      \* the page frames SLAB_alloc_page can hand out
  MaxElems,   \* slab->maxelems, the elements of one page
  Threads,    \* the threads that call the allocator
  None,       \* NULL: no element, no page, no thread
  Quiescent   \* do the callers keep slab_reset apart from all other calls?

ASSUME SlabAssumption ==
  /\ MaxElems \in Nat \ {0}
  /\ None \notin Pages /\ None \notin Threads /\ None \notin Pages \X Nat
  /\ Quiescent \in BOOLEAN

VARIABLES
  created,      \* has slab_create succeeded, and slab_destroy not run since?
  pages,        \* pages got from SLAB_alloc_page and not yet freed
  empty,        \* slab->empty
  partial,      \* slab->partial
  full,         \* slab->full
  avail,        \* footer->avail of each page
  numelems,     \* footer->numelems of each page
  constructed,  \* elements whose ctor has run and whose dtor has not
  lock,         \* the thread that holds coarse_lock
  pc,           \* where each thread is in its call
  arg,          \* the element a thread is freeing
  ret,          \* the element slab_alloc is about to return
  held,         \* the elements the callers own
  aborted       \* has a SLAB_assert failed or SLAB_panic been called?

slabVars   == <<created, pages, empty, partial, full, avail, numelems,
                constructed>>
threadVars == <<lock, pc, arg, ret, held>>
vars       == <<slabVars, threadVars, aborted>>

Slots    == 0 .. MaxElems - 1
Elements == Pages \X Slots

Used(p) == Slots \ avail[p]
Live    == {e \in Elements : e[1] \in pages /\ e[2] \notin avail[e[1]]}


\* The elements the ctor loop of slab_grow, and the dtor loop of slab_release,
\* walk through on each of the pages P.
PageElementsButLast(P) == P \X (Slots \ {MaxElems - 1})   \* mutant
PageElements(P) == P \X Slots

ElementsIn(s)   == {s[i] : i \in DOMAIN s}

-----------------------------------------------------------------------------
(* Operations on one list of pages.                                        *)

\* slab_list_remove of a node that is somewhere in the list.
PositionOf(s, p) == CHOOSE i \in DOMAIN s : s[i] = p
UnlinkNothing(s, p) == s                                  \* mutant
Unlink(s, p) ==
  LET k == PositionOf(s, p)
  IN  [i \in 1 .. Len(s) - 1 |-> IF i < k THEN s[i] ELSE s[i + 1]]

\* How many pages slab_trim takes off the front of slab->empty, when the
\* lengths of the three lists are these.
TrimCountLate(e, p, f) ==                                 \* mutant
  IF e > p + f + 1 THEN e - (p + f) ELSE 0
TrimCount(e, p, f) == IF e > p + f THEN e - (p + f) ELSE 0

\* The index the word scan and SLAB_ffs find: the lowest bit that is set.
FirstAvail(S) == CHOOSE i \in S : \A j \in S : i <= j

-----------------------------------------------------------------------------
Init ==
  /\ created = FALSE
  /\ pages = {}
  /\ empty = <<>> /\ partial = <<>> /\ full = <<>>
  /\ avail = [p \in Pages |-> {}]
  /\ numelems = [p \in Pages |-> 0]
  /\ constructed = {}
  /\ lock = None
  /\ pc = [t \in Threads |-> "idle"]
  /\ arg = [t \in Threads |-> None]
  /\ ret = [t \in Threads |-> None]
  /\ held = {}
  /\ aborted = FALSE

\* slab_create; when SLAB_malloc fails nothing changes.
Create ==
  /\ ~created
  /\ created' = TRUE
  /\ empty' = <<>> /\ partial' = <<>> /\ full' = <<>>
  /\ UNCHANGED <<pages, avail, numelems, constructed, threadVars, aborted>>

\* slab_destroy takes no lock: its caller has ended every other call.
Destroy ==
  /\ created
  /\ \A t \in Threads : pc[t] = "idle"
  /\ created' = FALSE
  /\ pages' = pages \ (ElementsIn(empty) \cup ElementsIn(partial)
                         \cup ElementsIn(full))
  /\ constructed' = constructed
                      \ PageElements(ElementsIn(empty) \cup ElementsIn(partial)
                                       \cup ElementsIn(full))
  /\ empty' = <<>> /\ partial' = <<>> /\ full' = <<>>
  /\ held' = {}
  /\ UNCHANGED <<avail, numelems, lock, pc, arg, ret, aborted>>

-----------------------------------------------------------------------------
(* The callers.  A caller frees only what it owns, and ownership ends with *)
(* the call; with Quiescent, slab_reset overlaps no other call.            *)

Calls(ops) == {t \in Threads : pc[t] \in ops}

CallAlloc(t) ==
  /\ created /\ pc[t] = "idle"
  /\ Quiescent => Calls({"reset"}) = {}
  /\ pc' = [pc EXCEPT ![t] = "alloc"]
  /\ UNCHANGED <<slabVars, lock, arg, ret, held, aborted>>

CallFree(t, e) ==
  /\ created /\ pc[t] = "idle"
  /\ Quiescent => Calls({"reset"}) = {}
  /\ e \in held
  /\ pc' = [pc EXCEPT ![t] = "free"]
  /\ arg' = [arg EXCEPT ![t] = e]
  /\ held' = held \ {e}
  /\ UNCHANGED <<slabVars, lock, ret, aborted>>

CallReset(t) ==
  /\ created /\ pc[t] = "idle"
  /\ Quiescent => \A u \in Threads : pc[u] = "idle"
  /\ pc' = [pc EXCEPT ![t] = "reset"]
  /\ UNCHANGED <<slabVars, lock, arg, ret, held, aborted>>

\* coarse_lock is granted to t, whose call is op; its critical section follows.
Enter(t, op) ==
  /\ pc[t] = op
  /\ lock = None
  /\ lock' = t
  /\ pc' = [pc EXCEPT ![t] = "unlock"]

-----------------------------------------------------------------------------
(* slab_alloc.  TakeFrom is the end of the function, from the assertion on *)
(* numelems: page p is the first of the list q, its free slots are `free`  *)
(* and its counter is n.                                                   *)

\* Does one more allocation fill a page whose counter is n?
FillsLate(n) == n = MaxElems                              \* mutant
Fills(n) == n + 1 = MaxElems

TakeFromKeepBit(t, p, free, n, q) ==                      \* mutant
  LET idx == FirstAvail(free)
  IN  /\ avail' = [avail EXCEPT ![p] = free]
      /\ numelems' = [numelems EXCEPT ![p] = n + 1]
      /\ IF Fills(n) THEN partial' = Tail(q) /\ full' = Append(full, p)
                     ELSE partial' = q /\ full' = full
      /\ ret' = [ret EXCEPT ![t] = <<p, idx>>]
      /\ aborted' = (n >= MaxElems \/ free = {})
TakeFromNextSlot(t, p, free, n, q) ==                     \* mutant
  LET idx == FirstAvail(free)
  IN  /\ avail' = [avail EXCEPT ![p] = free \ {idx}]
      /\ numelems' = [numelems EXCEPT ![p] = n + 1]
      /\ IF Fills(n) THEN partial' = Tail(q) /\ full' = Append(full, p)
                     ELSE partial' = q /\ full' = full
      /\ ret' = [ret EXCEPT ![t] = <<p, idx + 1>>]
      /\ aborted' = (n >= MaxElems \/ free = {})
TakeFrom(t, p, free, n, q) ==
  LET idx == FirstAvail(free)
  IN  /\ avail' = [avail EXCEPT ![p] = free \ {idx}]
      /\ numelems' = [numelems EXCEPT ![p] = n + 1]
      /\ IF Fills(n)
         THEN partial' = Tail(q) /\ full' = Append(full, p)
         ELSE partial' = q /\ full' = full
      /\ ret' = [ret EXCEPT ![t] = <<p, idx>>]
      /\ aborted' = (n >= MaxElems \/ free = {})

AllocFromPartial(t) ==
  /\ Enter(t, "alloc")
  /\ partial # <<>>
  /\ TakeFrom(t, Head(partial), avail[Head(partial)],
              numelems[Head(partial)], partial)
  /\ UNCHANGED <<created, pages, empty, constructed, arg, held>>

AllocFromEmpty(t) ==
  /\ Enter(t, "alloc")
  /\ partial = <<>> /\ empty # <<>>
  /\ empty' = Tail(empty)
  /\ TakeFrom(t, Head(empty), avail[Head(empty)], numelems[Head(empty)],
              Append(partial, Head(empty)))
  /\ UNCHANGED <<created, pages, constructed, arg, held>>

\* slab_grow got page p: its footer is cleared, every element constructed.
AllocGrow(t, p) ==
  /\ Enter(t, "alloc")
  /\ partial = <<>> /\ empty = <<>>
  /\ p \notin pages
  /\ pages' = pages \cup {p}
  /\ constructed' = constructed \cup PageElements({p})
  /\ TakeFrom(t, p, Slots, 0, Append(partial, p))
  /\ UNCHANGED <<created, empty, arg, held>>

\* SLAB_alloc_page failed: unlock and return NULL.
AllocFailKeepLock(t) ==                                   \* mutant
  /\ pc[t] = "alloc" /\ lock = None
  /\ partial = <<>> /\ empty = <<>>
  /\ lock' = t
  /\ pc' = [pc EXCEPT ![t] = "return"]
  /\ UNCHANGED <<slabVars, arg, ret, held, aborted>>

AllocFail(t) ==
  /\ Enter(t, "alloc")
  /\ partial = <<>> /\ empty = <<>>
  /\ ret' = [ret EXCEPT ![t] = None]
  /\ UNCHANGED <<slabVars, arg, held, aborted>>

-----------------------------------------------------------------------------
(* slab_free, with the slab_trim at its end.                               *)

\* footer->numelems after one element of its page is freed: one branch of
\* slab_free decrements it for a full page, one for a page with one element,
\* and there is no third branch.
CounterAfterFreeStuck(n) == IF n = 1 THEN 0 ELSE n        \* mutant
CounterAfterFree(n) == IF n \in {1, MaxElems} THEN n - 1 ELSE n

\* The checks of slab_free that stop the program.  A page that was given back
\* no longer has the signature (and reading it is undefined).
FreePanics(p, i) ==
  \/ p \notin pages
  \/ i \in avail[p]
  \/ numelems[p] <= 0

Free(t) ==
  LET p == arg[t][1]
      i == arg[t][2]
      toPartial == numelems[p] = MaxElems
      toEmpty   == ~toPartial /\ numelems[p] = 1
      lost      == toEmpty /\ avail[p] \cup {i} # Slots
      unlisted  == \/ toPartial /\ p \notin ElementsIn(full)
                   \/ toEmpty /\ p \notin ElementsIn(partial)
      F == IF toPartial THEN Unlink(full, p) ELSE full
      P == IF toPartial THEN Append(partial, p)
           ELSE IF toEmpty THEN Unlink(partial, p) ELSE partial
      E == IF toEmpty THEN Append(empty, p) ELSE empty
      k == TrimCount(Len(E), Len(P), Len(F))
      trimmed == {E[j] : j \in 1 .. k}
  IN  /\ Enter(t, "free")
      /\ arg' = [arg EXCEPT ![t] = None]
      /\ IF FreePanics(p, i) \/ lost \/ unlisted
         THEN aborted' = TRUE /\ UNCHANGED slabVars
         ELSE /\ avail' = [avail EXCEPT ![p] = @ \cup {i}]
              /\ numelems' = [numelems EXCEPT ![p] = CounterAfterFree(@)]
              /\ full' = F
              /\ partial' = P
              /\ empty' = SubSeq(E, k + 1, Len(E))
              /\ pages' = pages \ trimmed
              /\ constructed' = constructed \ PageElements(trimmed)
              /\ UNCHANGED <<created, aborted>>
      /\ UNCHANGED <<ret, held>>

-----------------------------------------------------------------------------
(* slab_reset moves the pages of partial, then those of full, to empty.    *)
(* The callers forget what they owned.                                     *)

ResetPartialOnly(t) ==                                    \* mutant
  LET moved == ElementsIn(partial)
  IN  /\ Enter(t, "reset")
      /\ avail' = [p \in Pages |-> IF p \in moved THEN Slots ELSE avail[p]]
      /\ numelems' = [p \in Pages |-> IF p \in moved THEN 0 ELSE numelems[p]]
      /\ empty' = empty \o partial /\ partial' = <<>>
      /\ held' = {}
      /\ UNCHANGED <<created, pages, full, constructed, arg, ret, aborted>>

Reset(t) ==
  LET moved == ElementsIn(partial) \cup ElementsIn(full)
  IN  /\ Enter(t, "reset")
      /\ avail' = [p \in Pages |-> IF p \in moved THEN Slots ELSE avail[p]]
      /\ numelems' = [p \in Pages |-> IF p \in moved THEN 0 ELSE numelems[p]]
      /\ empty' = empty \o partial \o full
      /\ partial' = <<>>
      /\ full' = <<>>
      /\ held' = {}
      /\ UNCHANGED <<created, pages, constructed, arg, ret, aborted>>

-----------------------------------------------------------------------------
Unlock(t) ==
  /\ lock = t /\ pc[t] = "unlock"
  /\ lock' = None
  /\ pc' = [pc EXCEPT ![t] = "return"]
  /\ UNCHANGED <<slabVars, arg, ret, held, aborted>>

\* The call returns; the caller of slab_alloc owns the element it got.
Return(t) ==
  /\ pc[t] = "return"
  /\ pc' = [pc EXCEPT ![t] = "idle"]
  /\ held' = IF ret[t] = None THEN held ELSE held \cup {ret[t]}
  /\ ret' = [ret EXCEPT ![t] = None]
  /\ UNCHANGED <<slabVars, lock, arg, aborted>>

Call(t) == CallAlloc(t) \/ CallReset(t) \/ \E e \in Elements : CallFree(t, e)

CriticalSection(t) ==
  \/ AllocFromPartial(t)
  \/ AllocFromEmpty(t)
  \/ \E p \in Pages : AllocGrow(t, p)
  \/ AllocFail(t)
  \/ Free(t)
  \/ Reset(t)

Next ==
  /\ ~aborted
  /\ \/ Create
     \/ Destroy
     \/ \E t \in Threads : Call(t) \/ CriticalSection(t) \/ Unlock(t) \/ Return(t)

Spec == Init /\ [][Next]_vars

\* A free mutex goes to one of the threads that wait for it, though mtx_lock
\* does not say to which; a thread that holds it runs on.
Fairness ==
  /\ WF_vars(~aborted /\ \E t \in Threads : CriticalSection(t))
  /\ \A t \in Threads : WF_vars(~aborted /\ Unlock(t))
  /\ \A t \in Threads : WF_vars(~aborted /\ Return(t))

FairSpec == Spec /\ Fairness

-----------------------------------------------------------------------------
(* Properties.                                                             *)

(***************************************************************************)
(* Every variable has its type; the ghost sets constructed and held speak  *)
(* of elements of the pages only.                                          *)
(***************************************************************************)
TypeOK ==
  /\ created \in BOOLEAN /\ aborted \in BOOLEAN
  /\ pages \in SUBSET Pages
  /\ empty \in Seq(Pages) /\ partial \in Seq(Pages) /\ full \in Seq(Pages)
  /\ avail \in [Pages -> SUBSET Slots]
  /\ numelems \in [Pages -> Nat]
  /\ constructed \in SUBSET Elements
  /\ held \in SUBSET Elements
  /\ lock \in Threads \cup {None}
  /\ pc \in [Threads -> {"idle", "alloc", "free", "reset", "unlock", "return"}]
  /\ arg \in [Threads -> Elements \cup {None}]
  /\ ret \in [Threads -> Elements \cup {None}]

\* No page occurs twice in the list s.
Distinct(s) == \A i, j \in DOMAIN s : s[i] = s[j] => i = j

(***************************************************************************)
(* Between two critical sections, the pages taken from SLAB_alloc_page and *)
(* not given back are exactly those on the three lists, each on one list   *)
(* and once: slab_alloc, slab_free, slab_trim and slab_reset neither leak  *)
(* a page nor leave one they freed on a list.                              *)
(***************************************************************************)
PagesListedOnce ==
  /\ pages = ElementsIn(empty) \cup ElementsIn(partial) \cup ElementsIn(full)
  /\ ElementsIn(empty) \cap ElementsIn(partial) = {}
  /\ ElementsIn(empty) \cap ElementsIn(full) = {}
  /\ ElementsIn(partial) \cap ElementsIn(full) = {}
  /\ Distinct(empty) /\ Distinct(partial) /\ Distinct(full)

(***************************************************************************)
(* What the counter footer->numelems is good for.  slab_free does not      *)
(* decrement it on every path, so it only bounds the allocated slots from  *)
(* above; still it tells the list the page is on, which is what the        *)
(* slab_list_remove calls of slab_alloc and slab_free rely on.  With one   *)
(* element per page, a page of the partial list may have the counter 0.    *)
(***************************************************************************)
PageAccount(p) ==
  /\ Cardinality(Used(p)) <= numelems[p]
  /\ numelems[p] <= MaxElems
  /\ p \in ElementsIn(full) <=> numelems[p] = MaxElems
  /\ p \in ElementsIn(empty) => numelems[p] = 0
  /\ p \in ElementsIn(partial) => numelems[p] > 0 \/ MaxElems = 1

Accounting == \A p \in pages : PageAccount(p)

(***************************************************************************)
(* No assertion of the allocator fails and slab_free does not panic, as    *)
(* long as the callers free only what they own: the check on numelems in   *)
(* slab_alloc, the word scan finding a bit, the checks on the bitmap and   *)
(* numelems in slab_free, and the removal of a page from the list it is on.*)
(***************************************************************************)
NoAbort == ~aborted

InFlight(f) == {f[t] : t \in Threads} \ {None}

(***************************************************************************)
(* Every allocated slot has one owner: the callers hold it, or one         *)
(* slab_alloc is returning it, or one slab_free is about to take it back.  *)
(* So slab_alloc never hands out an element twice, and no element is lost. *)
(***************************************************************************)
OneOwner ==
  /\ Live = held \cup InFlight(ret) \cup InFlight(arg)
  /\ held \cap (InFlight(ret) \cup InFlight(arg)) = {}
  /\ InFlight(ret) \cap InFlight(arg) = {}
  /\ \A t, u \in Threads :
       t # u => /\ ret[t] = ret[u] => ret[t] = None
                /\ arg[t] = arg[u] => arg[t] = None

(***************************************************************************)
(* The destructor runs only after an element has been freed, and the       *)
(* constructor before it is allocated: whatever a caller owns, or is about *)
(* to get, is constructed, although both run a page at a time.             *)
(***************************************************************************)
OwnedIsConstructed == held \cup InFlight(ret) \subseteq constructed

EmptyBounded == Len(empty) <= Len(partial) + Len(full)

(***************************************************************************)
(* The cache of unused pages stays bounded by the pages in use, through    *)
(* every interleaving of calls: only slab_reset, which does not trim, can  *)
(* exceed the bound.                                                       *)
(***************************************************************************)
TrimBoundsCache ==
  [][EmptyBounded => EmptyBounded' \/ \E t \in Threads : Reset(t)]_vars

(***************************************************************************)
(* Whenever a call waits for coarse_lock, some call gets through: every    *)
(* path of slab_alloc, slab_free and slab_reset, the failing one of        *)
(* slab_alloc included, releases the lock it took.                         *)
(***************************************************************************)
SomeCallReturns ==
  (Calls({"alloc", "free", "reset"}) # {}) ~> (Calls({"return"}) # {})

\* The pool the callers see: a thread that has left its critical section, but
\* not yet released the lock, is about to return.
Pool == INSTANCE SlabPool WITH
          live <- Live,
          pc   <- [t \in Threads |-> IF pc[t] = "unlock" THEN "return"
                                                        ELSE pc[t]]

(***************************************************************************)
(* The allocator implements the pool: every critical section is one atomic *)
(* operation on the set of allocated elements, although pages come and go, *)
(* change lists, and are trimmed inside it.                                *)
(***************************************************************************)
ImplementsPool == Pool!Spec

(***************************************************************************)
(* A page of the partial list has an allocated element: when the last one  *)
(* is freed the page goes "partial -> empty".                              *)
(***************************************************************************)
PartialIsInUse == \A p \in ElementsIn(partial) : Used(p) # {}
=============================================================================
