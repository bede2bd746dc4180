------------------------------ MODULE SlabList ------------------------------
(***************************************************************************)
(* The page lists of tom_slab.h as the code keeps them: circular, doubly   *)
(* linked through footer->node, each with a sentinel `head` and a count.   *)
(* Module Slab writes a list as the sequence of its pages; this one does   *)
(* with next and prev pointers what slab_alloc, slab_free, slab_trim,      *)
(* slab_reset and slab_destroy do to the lists, the loops of the last two  *)
(* one page at a time.  coarse_lock serialises the calls, so there is one  *)
(* process.                                                                *)
(***************************************************************************)
EXTENDS Naturals, Sequences

CONSTANTS Pages, Empty, Partial, Full, None

Lists == {Empty, Partial, Full}     \* the sentinels: &slab->empty.head, ...
Nodes == Pages \cup Lists

ASSUME ListAssumption ==
  /\ Pages \cap (Lists \cup {None}) = {} /\ None \notin Lists
  /\ Empty # Partial /\ Empty # Full /\ Partial # Full

VARIABLES
  links,   \* the next and prev pointers of the nodes
  count,   \* list->count
  loop,    \* the lists that a loop of slab_reset or slab_destroy still visits
  doing,   \* what that loop does: "reset", "destroy", or "nothing"
  node,    \* the page the loop is at, or the sentinel that ends it
  failed   \* did the consistency check of slab_list_remove fail?

vars == <<links, count, loop, doing, node, failed>>

-----------------------------------------------------------------------------
(* The list operations, on a pair m of pointer maps.                       *)

Link(m, n1, n2) ==
  [next |-> [m.next EXCEPT ![n1] = n2], prev |-> [m.prev EXCEPT ![n2] = n1]]

PushFront(m, list, n) ==                                  \* mutant
  Link(Link(m, n, m.next[list]), list, n)
PushBack(m, list, n) == Link(Link(m, m.prev[list], n), n, list)

UnlinkForward(m, n) ==                                    \* mutant
  [next |-> [m.next EXCEPT ![m.prev[n]] = m.next[n], ![n] = None],
   prev |-> [m.prev EXCEPT ![n] = None]]
Unlink(m, n) ==
  LET k == Link(m, m.prev[n], m.next[n])
  IN  [next |-> [k.next EXCEPT ![n] = None], prev |-> [k.prev EXCEPT ![n] = None]]

\* The consistency check at the end of slab_list_remove.
SaysEmpty(m, list, n) == {n = 0, m.next[list] = list, m.prev[list] = list}
CheckFails(m, list, n) == SaysEmpty(m, list, n) = {TRUE, FALSE}

\* slab_list_remove from one list, slab_list_push_back to another.
MoveTo(n, from, to) ==
  LET out == Unlink(links, n)
  IN  /\ links' = PushBack(out, to, n)
      /\ count' = [count EXCEPT ![from] = @ - 1, ![to] = @ + 1]
      /\ failed' = CheckFails(out, from, count[from] - 1)

\* slab_release: the page leaves its list and is given back.
Drop(n, from) ==
  LET out == Unlink(links, n)
  IN  /\ links' = out
      /\ count' = [count EXCEPT ![from] = @ - 1]
      /\ failed' = CheckFails(out, from, count[from] - 1)

\* The nodes met from the sentinel on, and the pages among them.
Walk(list) ==
  LET step[i \in 0 .. count[list] + 1] ==
        IF i = 0 THEN list
        ELSE IF step[i - 1] = None THEN None ELSE links.next[step[i - 1]]
  IN  step
PagesOn(list) == [i \in 1 .. count[list] |-> Walk(list)[i]]
On(list) == {Walk(list)[i] : i \in 1 .. count[list]}

-----------------------------------------------------------------------------
Init ==
  /\ links = [next |-> [n \in Nodes |-> IF n \in Lists THEN n ELSE None],
              prev |-> [n \in Nodes |-> IF n \in Lists THEN n ELSE None]]
  /\ count = [list \in Lists |-> 0]
  /\ loop = <<>>
  /\ doing = "nothing"
  /\ node = None
  /\ failed = FALSE

Sequential == doing = "nothing" /\ UNCHANGED <<loop, doing, node>>

\* slab_grow
Grow(p) ==
  /\ Sequential
  /\ links.next[p] = None
  /\ links.next[Empty] = Empty /\ links.next[Partial] = Partial
  /\ links' = PushBack(links, Empty, p)
  /\ count' = [count EXCEPT ![Empty] = @ + 1]
  /\ UNCHANGED failed

\* slab_alloc: pop_front of empty, when partial is empty
EmptyToPartial ==
  /\ Sequential
  /\ links.next[Partial] = Partial
  /\ links.next[Empty] # Empty
  /\ MoveTo(links.next[Empty], Empty, Partial)

\* slab_alloc: the first page of partial became full
PartialToFull ==
  /\ Sequential
  /\ links.next[Partial] # Partial
  /\ MoveTo(links.next[Partial], Partial, Full)

\* slab_free: a page somewhere in full, or in partial, changes its list
FullToPartial(p)  == Sequential /\ p \in On(Full) /\ MoveTo(p, Full, Partial)
PartialToEmpty(p) == Sequential /\ p \in On(Partial) /\ MoveTo(p, Partial, Empty)

\* one round of the loop of slab_trim
Trim ==
  /\ Sequential
  /\ count[Empty] > count[Full] + count[Partial]
  /\ Drop(links.next[Empty], Empty)

\* slab_reset visits partial and full, slab_destroy visits all three.
StartLoop(op, lists) ==
  /\ doing = "nothing"
  /\ doing' = op
  /\ loop' = lists
  /\ node' = links.next[Head(lists)]
  /\ UNCHANGED <<links, count, failed>>

StartResetPartial == StartLoop("reset", <<Partial>>)      \* mutant
StartReset   == StartLoop("reset", <<Partial, Full>>)
StartDestroy == StartLoop("destroy", <<Empty, Partial, Full>>)

\* One round: `next` is read before the page is moved or freed.
Round ==
  /\ doing # "nothing" /\ node # Head(loop)
  /\ IF doing = "reset" THEN MoveTo(node, Head(loop), Empty)
                        ELSE Drop(node, Head(loop))
  /\ node' = links.next[node]
  /\ UNCHANGED <<loop, doing>>

EndOfList ==
  /\ doing # "nothing" /\ node = Head(loop)
  /\ loop' = Tail(loop)
  /\ IF Tail(loop) = <<>> THEN doing' = "nothing" /\ node' = None
     ELSE doing' = doing /\ node' = links.next[Head(Tail(loop))]
  /\ UNCHANGED <<links, count, failed>>

Next ==
  /\ ~failed
  /\ \/ \E p \in Pages : Grow(p) \/ FullToPartial(p) \/ PartialToEmpty(p)
     \/ EmptyToPartial \/ PartialToFull \/ Trim
     \/ StartReset \/ StartDestroy \/ Round \/ EndOfList

Spec == Init /\ [][Next]_vars

-----------------------------------------------------------------------------
(* Properties.                                                             *)

Circular(list) ==
  LET w == Walk(list)
  IN  /\ w[count[list] + 1] = list
      /\ \A i \in 1 .. count[list] : w[i] \in Pages
      /\ \A i \in 0 .. count[list] : links.prev[w[i + 1]] = w[i]

(***************************************************************************)
(* After every list operation each list is a circle of exactly `count`     *)
(* pages that reads the same backwards, no page is on two lists, and a     *)
(* page on none has null pointers, which is what slab_grow and the next    *)
(* slab_list_push_back rely on.  So the consistency check of               *)
(* slab_list_remove never fails, also in the middle of the loops.          *)
(***************************************************************************)
WellLinked ==
  /\ ~failed
  /\ \A list \in Lists : Circular(list)
  /\ \A l1, l2 \in Lists : l1 # l2 => On(l1) \cap On(l2) = {}
  /\ \A p \in Pages \ (On(Empty) \cup On(Partial) \cup On(Full)) :
       links.next[p] = None /\ links.prev[p] = None

\* What a loop still has to do: a round for each page of the lists it has
\* not finished, and a step to the next list.
Left(list) == IF \E i \in DOMAIN loop : loop[i] = list THEN count[list] + 1 ELSE 0
ToDo == Left(Empty) + Left(Partial) + Left(Full)

(***************************************************************************)
(* The loops of slab_reset_list and slab_release_list, which unlink the    *)
(* page they stand on, neither skip a page nor walk on into the list they  *)
(* move pages to: each step leaves less to do, so that they end, and when  *)
(* slab_reset or slab_destroy is done, the lists it visited are empty.     *)
(***************************************************************************)
LoopsComplete ==
  [][/\ doing # "nothing" => ToDo' < ToDo
     /\ doing = "reset" /\ doing' = "nothing" => On(Partial) \cup On(Full) = {}
     /\ doing = "destroy" /\ doing' = "nothing" =>
          On(Empty) \cup On(Partial) \cup On(Full) = {}]_vars

\* A sequence without its element p.
Without(s, p) ==
  LET k == CHOOSE i \in DOMAIN s : s[i] = p
  IN  [i \in 1 .. Len(s) - 1 |-> IF i < k THEN s[i] ELSE s[i + 1]]

(***************************************************************************)
(* On sequences, the operations are those module Slab uses: append at the  *)
(* end, take from the front, remove from anywhere without disturbing the   *)
(* order of the rest.                                                      *)
(***************************************************************************)
MovesOnePage ==
  [][links' # links =>
       \E p \in Pages :
         \E from, to \in Lists \cup {None} :
           /\ from # to /\ (from # None => p \in On(from))
           /\ \A list \in Lists :
                PagesOn(list)' =
                  IF list = to THEN Append(PagesOn(list), p)
                  ELSE IF list = from THEN Without(PagesOn(list), p)
                  ELSE PagesOn(list)]_vars
=============================================================================
