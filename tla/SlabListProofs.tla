--------------------------- MODULE SlabListProofs ---------------------------
(***************************************************************************)
(* Proofs, for every set of pages, that the pointers of tom_slab.h always  *)
(* make three circles, that the list operations act on them as module Slab *)
(* acts on sequences, and that the loops of slab_reset and slab_destroy,   *)
(* which unlink the page they stand on, end and leave the lists they visit *)
(* empty.                                                                  *)
(*                                                                         *)
(* A chain is the way along the pointers of each list as a function from   *)
(* positions to nodes.  The lemmas say what the two pointer operations do  *)
(* to the chain of a list, and that Walk finds it.                         *)
(***************************************************************************)
EXTENDS SlabList, SequenceTheorems, WellFoundedInduction, TLAPS

Maps == [Nodes -> Nodes \cup {None}]

\* In the lists m, which have k nodes each, the nodes w make circles, no page
\* has two places in them, and one that has none is linked to nothing.
Circles(m, k, w) ==
  \A l \in Lists :
    /\ w[l][0] = l /\ w[l][k[l] + 1] = l
    /\ \A i \in 1 .. k[l] : w[l][i] \in Pages
    /\ \A i \in 0 .. k[l] : /\ m.next[w[l][i]] = w[l][i + 1]
                            /\ m.prev[w[l][i + 1]] = w[l][i]
OnePlace(k, w) ==
  \A l1, l2 \in Lists : \A i \in 1 .. k[l1], j \in 1 .. k[l2] :
    w[l1][i] = w[l2][j] => l1 = l2 /\ i = j
Unlinked(m, k, w) ==
  \A p \in Pages :
    (\A l \in Lists : \A i \in 1 .. k[l] : w[l][i] # p) => m.next[p] = None /\ m.prev[p] = None

Chain(m, k, w) ==
  /\ m.next \in Maps /\ m.prev \in Maps /\ k \in [Lists -> Nat]
  /\ Circles(m, k, w) /\ OnePlace(k, w) /\ Unlinked(m, k, w)

LEMMA Names ==
  /\ None \notin Nodes /\ Pages \cap Lists = {}
  /\ Empty \in Lists /\ Partial \in Lists /\ Full \in Lists
  /\ Empty # Partial /\ Empty # Full /\ Partial # Full
  /\ Pages \subseteq Nodes /\ Lists \subseteq Nodes
BY ListAssumption DEF Nodes, Lists

-----------------------------------------------------------------------------
(* The recursion behind Walk.                                              *)

LEMMA NatInduct ==
  ASSUME NEW T \in SUBSET Nat, 0 \in T, \A n \in T : n + 1 \in T
  PROVE  T = Nat
<1>1. ASSUME Nat \ T # {} PROVE FALSE
  <2>1. PICK n \in Nat \ T : \A m \in Nat \ T : <<m, n>> \notin OpToRel(<, Nat)
    BY <1>1, NatLessThanWellFounded, WFMin
  <2>2. n # 0 /\ n - 1 \in Nat /\ n - 1 < n /\ (n - 1) + 1 = n
    OBVIOUS
  <2>3. n - 1 \in T
    BY <2>1, <2>2 DEF OpToRel
  <2> QED  BY <2>1, <2>2, <2>3
<1> QED  BY <1>1

\* f goes k steps from node l along the next pointers of m.
Along(m, k, l, f) ==
  f = [i \in 0 .. k |-> IF i = 0 THEN l
                        ELSE IF f[i - 1] = None THEN None ELSE m.next[f[i - 1]]]

LEMMA AlongExists ==
  ASSUME NEW m, NEW l, NEW n \in Nat
  PROVE  \E f : Along(m, n, l, f)
<1> DEFINE T == {k \in Nat : \E f : Along(m, k, l, f)}
<1>1. 0 \in T
  <2>1. \A i \in 0 .. 0 : i = 0
    OBVIOUS
  <2>2. Along(m, 0, l, [i \in 0 .. 0 |-> l])
    BY <2>1 DEF Along
  <2> QED  BY <2>2
<1>2. ASSUME NEW k \in T PROVE k + 1 \in T
  <2>1. k \in Nat
    OBVIOUS
  <2>2. PICK f : Along(m, k, l, f)
    OBVIOUS
  <2> DEFINE g == [i \in 0 .. k + 1 |->
                     IF i = 0 THEN l
                     ELSE IF f[i - 1] = None THEN None ELSE m.next[f[i - 1]]]
  <2>3. \A i \in 0 .. k : i \in 0 .. k + 1
    BY <2>1
  <2>4. \A i \in 0 .. k : g[i] = f[i]
    BY <2>2, <2>3 DEF Along
  <2>5. \A i \in 0 .. k + 1 : i # 0 => i - 1 \in 0 .. k
    BY <2>1
  <2>6. \A i \in 0 .. k + 1 : i # 0 => g[i - 1] = f[i - 1]
    BY <2>4, <2>5
  <2>7. Along(m, k + 1, l, g)
    <3> HIDE DEF g
    <3>1. g = [i \in 0 .. k + 1 |->
                 IF i = 0 THEN l
                 ELSE IF f[i - 1] = None THEN None ELSE m.next[f[i - 1]]]
      BY DEF g
    <3> QED  BY <2>6, <3>1 DEF Along
  <2> QED  BY <2>1, <2>7
<1> HIDE DEF T
<1>3. T = Nat
  BY <1>1, <1>2, NatInduct DEF T
<1> QED  BY <1>3 DEF T

LEMMA WalkAlong ==
  ASSUME NEW l \in Lists, count[l] \in Nat
  PROVE  Along(links, count[l] + 1, l, Walk(l))
<1>1. Walk(l) = CHOOSE f : Along(links, count[l] + 1, l, f)
  BY DEF Walk, Along
<1>2. count[l] + 1 \in Nat
  OBVIOUS
<1>3. \E f : Along(links, count[l] + 1, l, f)
  BY <1>2, AlongExists
<1> QED  BY <1>1, <1>3

\* There is one way along a chain.
LEMMA AlongChain ==
  ASSUME NEW m, NEW k, NEW w, Chain(m, k, w), NEW l \in Lists,
         NEW f, Along(m, k[l] + 1, l, f)
  PROVE  \A i \in 0 .. k[l] + 1 : f[i] = w[l][i]
<1> DEFINE T == {i \in Nat : i <= k[l] + 1 => f[i] = w[l][i]}
<1>1. k[l] \in Nat
  BY DEF Chain, Circles
<1>2. 0 \in T
  <2>1. f[0] = l
    BY <1>1 DEF Along
  <2> QED  BY <2>1 DEF Chain, Circles
<1>3. ASSUME NEW i \in T PROVE i + 1 \in T
  <2>1. i \in Nat
    OBVIOUS
  <2>2. CASE i <= k[l]
    <3>1. f[i] = w[l][i] /\ i \in 0 .. k[l] /\ i + 1 \in 0 .. k[l] + 1 /\ i + 1 # 0
          /\ (i + 1) - 1 = i
      BY <1>1, <2>2
    <3>2. w[l][i] \in Nodes
      <4>1. i = 0 \/ i \in 1 .. k[l]
        BY <3>1, <1>1
      <4> QED  BY <4>1, Names DEF Chain, Circles
    <3>3. f[i + 1] = m.next[f[i]]
      <4>1. f[i + 1] = IF f[(i + 1) - 1] = None THEN None ELSE m.next[f[(i + 1) - 1]]
        BY <3>1 DEF Along
      <4> QED  BY <3>1, <3>2, <4>1, Names
    <3>4. f[i + 1] = w[l][i + 1]
      BY <3>1, <3>3 DEF Chain, Circles
    <3> QED  BY <3>4
  <2>3. CASE ~(i <= k[l])
    BY <1>1, <2>1, <2>3
  <2> QED  BY <2>2, <2>3
<1> HIDE DEF T
<1>4. T = Nat
  BY <1>2, <1>3, NatInduct DEF T
<1> QED  BY <1>1, <1>4 DEF T

\* A node of a circle has one place in it, and is in no other.
LEMMA Positions ==
  ASSUME NEW m, NEW k, NEW w, Chain(m, k, w), NEW l1 \in Lists, NEW l2 \in Lists
  PROVE  /\ \A i \in 0 .. k[l1] + 1 : w[l1][i] \in Nodes
         /\ \A i \in 0 .. k[l1], j \in 0 .. k[l2] : w[l1][i] = w[l2][j] => l1 = l2 /\ i = j
         /\ \A i \in 1 .. k[l1] + 1, j \in 1 .. k[l2] + 1 :
              w[l1][i] = w[l2][j] => l1 = l2 /\ i = j
<1>1. k[l1] \in Nat /\ k[l2] \in Nat
  BY DEF Chain
<1>2. /\ \A i \in 0 .. k[l1] + 1 : i = 0 \/ i = k[l1] + 1 \/ i \in 1 .. k[l1]
      /\ \A j \in 0 .. k[l2] + 1 : j = 0 \/ j = k[l2] + 1 \/ j \in 1 .. k[l2]
      /\ \A i \in 0 .. k[l1] : i = 0 \/ i \in 1 .. k[l1]
      /\ \A j \in 0 .. k[l2] : j = 0 \/ j \in 1 .. k[l2]
      /\ \A i \in 1 .. k[l1] + 1 : i = k[l1] + 1 \/ i \in 1 .. k[l1]
      /\ \A j \in 1 .. k[l2] + 1 : j = k[l2] + 1 \/ j \in 1 .. k[l2]
  BY <1>1
<1>3. /\ w[l1][0] = l1 /\ w[l1][k[l1] + 1] = l1 /\ \A i \in 1 .. k[l1] : w[l1][i] \in Pages
      /\ w[l2][0] = l2 /\ w[l2][k[l2] + 1] = l2 /\ \A j \in 1 .. k[l2] : w[l2][j] \in Pages
  BY DEF Chain, Circles
<1>4. \A i \in 1 .. k[l1], j \in 1 .. k[l2] : w[l1][i] = w[l2][j] => l1 = l2 /\ i = j
  BY DEF Chain, OnePlace
<1>5. \A i \in 0 .. k[l1] + 1 : w[l1][i] \in Nodes
  BY <1>2, <1>3, Names
<1>6. ASSUME NEW i \in 0 .. k[l1], NEW j \in 0 .. k[l2], w[l1][i] = w[l2][j]
      PROVE  l1 = l2 /\ i = j
  BY <1>2, <1>3, <1>4, <1>6, Names
<1>7. ASSUME NEW i \in 1 .. k[l1] + 1, NEW j \in 1 .. k[l2] + 1, w[l1][i] = w[l2][j]
      PROVE  l1 = l2 /\ i = j
  BY <1>2, <1>3, <1>4, <1>7, Names
<1> QED  BY <1>5, <1>6, <1>7

-----------------------------------------------------------------------------
(* What the pointer operations do to a chain.                              *)

\* l with p at its end.
Longer(k, w, l, p) ==
  [w EXCEPT ![l] = [i \in 0 .. k[l] + 2 |->
                      IF i <= k[l] THEN w[l][i] ELSE IF i = k[l] + 1 THEN p ELSE l]]

\* l without its node at x.
Shorter(k, w, l, x) ==
  [w EXCEPT ![l] = [i \in 0 .. k[l] |-> IF i < x THEN w[l][i] ELSE w[l][i + 1]]]

\* slab_list_push_back.
LEMMA PushBackChain ==
  ASSUME NEW m, NEW k, NEW w, w = [l \in Lists |-> w[l]], Chain(m, k, w), NEW to \in Lists,
         NEW p \in Pages, \A l \in Lists : \A i \in 1 .. k[l] : w[l][i] # p
  PROVE  Chain(PushBack(m, to, p), [k EXCEPT ![to] = @ + 1], Longer(k, w, to, p))
<1> DEFINE last == m.prev[to]
           o == PushBack(m, to, p)
           k1 == [k EXCEPT ![to] = @ + 1]
           w1 == Longer(k, w, to, p)
<1>1. m.next \in Maps /\ m.prev \in Maps /\ k \in [Lists -> Nat] /\ k[to] \in Nat
  BY DEF Chain, Circles
<1>2. /\ w[to][0] = to /\ w[to][k[to] + 1] = to
      /\ \A i \in 1 .. k[to] : w[to][i] \in Pages
  BY DEF Chain, Circles
<1>3. last = w[to][k[to]] /\ last \in Nodes /\ last # p
  <2>1. k[to] \in 0 .. k[to] /\ (k[to] = 0 \/ k[to] \in 1 .. k[to])
    BY <1>1
  <2> QED  BY <1>2, <2>1, Names DEF Chain, Circles
<1>4. p \in Nodes /\ to \in Nodes /\ p # to
  BY Names
<1>5. /\ o.next \in Maps /\ o.prev \in Maps
      /\ \A n \in Nodes :
           /\ o.next[n] = IF n = p THEN to ELSE IF n = last THEN p ELSE m.next[n]
           /\ o.prev[n] = IF n = to THEN p ELSE IF n = p THEN last ELSE m.prev[n]
  <2>1. /\ o.next = [[m.next EXCEPT ![last] = p] EXCEPT ![p] = to]
        /\ o.prev = [[m.prev EXCEPT ![p] = last] EXCEPT ![to] = p]
    BY DEF PushBack, Link
  <2> HIDE DEF o, last
  <2> QED  BY <1>1, <1>3, <1>4, <2>1 DEF Maps
<1>6. k1 \in [Lists -> Nat] /\ k1[to] = k[to] + 1 /\ \A l \in Lists \ {to} : k1[l] = k[l]
  BY <1>1
<1>7. /\ \A l \in Lists \ {to} : w1[l] = w[l]
      /\ \A i \in 0 .. k[to] : w1[to][i] = w[to][i]
      /\ w1[to][k[to] + 1] = p /\ w1[to][k[to] + 2] = to
  <2>1. \A i \in 0 .. k[to] : i \in 0 .. k[to] + 2 /\ i <= k[to]
    BY <1>1
  <2>2. /\ k[to] + 1 \in 0 .. k[to] + 2 /\ ~(k[to] + 1 <= k[to])
        /\ k[to] + 2 \in 0 .. k[to] + 2 /\ ~(k[to] + 2 <= k[to]) /\ k[to] + 2 # k[to] + 1
    BY <1>1
  <2> QED  BY <2>1, <2>2 DEF Longer
<1> HIDE DEF o, k1, w1, last
\* A node of a list is no node that is touched, but for the sentinel and the last.
<1>8. ASSUME NEW l \in Lists, NEW i \in 0 .. k[l]
      PROVE  /\ w[l][i] \in Nodes /\ w[l][i + 1] \in Nodes
             /\ w[l][i] # p /\ w[l][i + 1] # p
             /\ w[l][i] = last => l = to /\ i = k[to]
             /\ w[l][i + 1] = to => l = to /\ i = k[to]
  <2>1. /\ k[l] \in Nat /\ i \in Nat /\ i + 1 \in Nat
        /\ i = 0 \/ i \in 1 .. k[l]
        /\ i = k[l] \/ i + 1 \in 1 .. k[l]
    BY <1>1
  <2>2. w[l][0] = l /\ w[l][k[l] + 1] = l /\ \A j \in 1 .. k[l] : w[l][j] \in Pages
    BY DEF Chain, Circles
  <2>3. w[l][i] \in Nodes /\ w[l][i + 1] \in Nodes
    BY <2>1, <2>2, Names
  <2>4. w[l][i] # p /\ w[l][i + 1] # p
    BY <2>1, <2>2, Names
  <2>5. ASSUME w[l][i + 1] = to PROVE l = to /\ i = k[to]
    BY <2>1, <2>2, <2>5, Names
  <2>6. ASSUME w[l][i] = last PROVE l = to /\ i = k[to]
    <3>1. k[to] = 0 \/ k[to] \in 1 .. k[to]
      BY <1>1
    <3>2. CASE i = 0
      BY <1>1, <1>2, <1>3, <2>2, <2>6, <3>1, <3>2, Names
    <3>3. CASE i \in 1 .. k[l]
      <4>1. k[to] # 0
        BY <1>2, <1>3, <2>2, <2>6, <3>3, Names
      <4> QED  BY <1>3, <2>6, <3>1, <3>3, <4>1 DEF Chain, OnePlace
    <3> QED  BY <2>1, <3>2, <3>3
  <2> QED  BY <2>3, <2>4, <2>5, <2>6
<1>9. ASSUME NEW l \in Lists
      PROVE  /\ w1[l][0] = l /\ w1[l][k1[l] + 1] = l
             /\ \A i \in 1 .. k1[l] : w1[l][i] \in Pages
  <2>1. CASE l # to
    BY <1>6, <1>7, <2>1 DEF Chain, Circles
  <2>2. CASE l = to
    <3>1. 0 \in 0 .. k[to] /\ k1[to] + 1 = k[to] + 2
          /\ \A i \in 1 .. k1[to] : i = k[to] + 1 \/ (i \in 1 .. k[to] /\ i \in 0 .. k[to])
      BY <1>1, <1>6
    <3> QED  BY <1>2, <1>7, <2>2, <3>1
  <2> QED  BY <2>1, <2>2
<1>10. ASSUME NEW l \in Lists, NEW i \in 0 .. k1[l]
       PROVE  o.next[w1[l][i]] = w1[l][i + 1] /\ o.prev[w1[l][i + 1]] = w1[l][i]
  <2>1. ASSUME NEW j \in 0 .. k[l], l # to \/ j # k[to], w1[l][j] = w[l][j],
               w1[l][j + 1] = w[l][j + 1]
        PROVE  o.next[w1[l][j]] = w1[l][j + 1] /\ o.prev[w1[l][j + 1]] = w1[l][j]
    <3>1. m.next[w[l][j]] = w[l][j + 1] /\ m.prev[w[l][j + 1]] = w[l][j]
      BY DEF Chain, Circles
    <3> QED  BY <1>5, <1>8, <2>1, <3>1
  <2>2. CASE l # to
    BY <1>6, <1>7, <2>1, <2>2
  <2>3. CASE l = to
    <3>1. i \in 0 .. k[to] + 1 /\ k[to] \in 0 .. k[to]
          /\ (i = k[to] + 1 \/ i = k[to] \/ (i \in 0 .. k[to] /\ i + 1 \in 0 .. k[to] /\ i # k[to]))
      BY <1>1, <1>6, <2>3
    <3>2. CASE i = k[to] + 1
      <4>1. w1[to][i] = p /\ w1[to][i + 1] = to
        <5>1. i + 1 = k[to] + 2
          BY <1>1, <3>2
        <5> QED  BY <1>7, <3>2, <5>1
      <4> QED  BY <1>4, <1>5, <2>3, <4>1
    <3>3. CASE i = k[to]
      <4>1. w1[to][i] = last /\ w1[to][i + 1] = p
        BY <1>3, <1>7, <3>1, <3>3
      <4> QED  BY <1>3, <1>4, <1>5, <2>3, <4>1
    <3>4. CASE i \in 0 .. k[to] /\ i + 1 \in 0 .. k[to] /\ i # k[to]
      BY <1>7, <2>1, <2>3, <3>4
    <3> QED  BY <3>1, <3>2, <3>3, <3>4
  <2> QED  BY <2>2, <2>3
<1>11. ASSUME NEW l1 \in Lists, NEW l2 \in Lists,
              NEW i \in 1 .. k1[l1], NEW j \in 1 .. k1[l2], w1[l1][i] = w1[l2][j]
       PROVE  l1 = l2 /\ i = j
  <2>1. ASSUME NEW l \in Lists, NEW x \in 1 .. k1[l]
        PROVE  \/ x \in 1 .. k[l] /\ w1[l][x] = w[l][x] /\ w1[l][x] # p
               \/ l = to /\ x = k[to] + 1 /\ w1[l][x] = p
    <3>1. CASE l # to
      BY <1>6, <1>7, <2>1, <3>1
    <3>2. CASE l = to
      <4>1. x = k[to] + 1 \/ (x \in 1 .. k[to] /\ x \in 0 .. k[to])
        BY <1>1, <1>6, <3>2
      <4> QED  BY <1>7, <3>2, <4>1
    <3> QED  BY <3>1, <3>2
  <2>2. \/ i \in 1 .. k[l1] /\ w1[l1][i] = w[l1][i] /\ w1[l1][i] # p
        \/ l1 = to /\ i = k[to] + 1 /\ w1[l1][i] = p
    BY <2>1
  <2>3. \/ j \in 1 .. k[l2] /\ w1[l2][j] = w[l2][j] /\ w1[l2][j] # p
        \/ l2 = to /\ j = k[to] + 1 /\ w1[l2][j] = p
    BY <2>1
  <2>4. CASE w1[l1][i] = p
    BY <1>11, <2>2, <2>3, <2>4
  <2>5. CASE w1[l1][i] # p
    <3>1. i \in 1 .. k[l1] /\ j \in 1 .. k[l2] /\ w[l1][i] = w[l2][j]
      BY <1>11, <2>2, <2>3, <2>5
    <3> QED  BY <3>1 DEF Chain, OnePlace
  <2> QED  BY <2>4, <2>5
<1>12. ASSUME NEW q \in Pages, \A l \in Lists : \A i \in 1 .. k1[l] : w1[l][i] # q
       PROVE  o.next[q] = None /\ o.prev[q] = None
  <2>1. \A l \in Lists : \A i \in 1 .. k[l] : i \in 1 .. k1[l] /\ w1[l][i] = w[l][i]
    <3> TAKE l \in Lists
    <3> TAKE i \in 1 .. k[l]
    <3>1. k[l] \in Nat /\ i \in 0 .. k[l] /\ i \in 1 .. k[l] + 1
      BY <1>1
    <3> QED  BY <1>6, <1>7, <3>1
  <2>2. m.next[q] = None /\ m.prev[q] = None
    BY <1>12, <2>1 DEF Chain, Unlinked
  <2>3. k[to] + 1 \in 1 .. k1[to]
    BY <1>1, <1>6
  <2>4. q # p
    BY <1>7, <1>12, <2>3
  <2>5. q # last /\ q # to
    <3>1. q # to
      BY Names
    <3>2. CASE k[to] = 0
      BY <1>2, <1>3, <3>1, <3>2
    <3>3. CASE k[to] \in 1 .. k[to]
      BY <1>3, <1>12, <2>1, <3>1, <3>3
    <3> QED  BY <1>1, <3>1, <3>2, <3>3
  <2> QED  BY <1>5, <2>2, <2>4, <2>5, Names
<1>13. Chain(o, k1, w1)
  <2>1. Circles(o, k1, w1)
    BY <1>9, <1>10 DEF Circles
  <2>2. OnePlace(k1, w1)
    BY <1>11 DEF OnePlace
  <2>3. Unlinked(o, k1, w1)
    BY <1>12 DEF Unlinked
  <2> QED  BY <1>5, <1>6, <2>1, <2>2, <2>3 DEF Chain
<1> QED  BY <1>13 DEF o, k1, w1

\* slab_list_remove; its consistency check finds nothing.
LEMMA UnlinkChain ==
  ASSUME NEW m, NEW k, NEW w, w = [l \in Lists |-> w[l]], Chain(m, k, w), NEW from \in Lists,
         NEW x \in 1 .. k[from]
  PROVE  /\ Chain(Unlink(m, w[from][x]), [k EXCEPT ![from] = @ - 1], Shorter(k, w, from, x))
         /\ ~CheckFails(Unlink(m, w[from][x]), from, k[from] - 1)
         /\ w[from][x] \in Pages
         /\ \A l \in Lists : \A i \in 1 .. [k EXCEPT ![from] = @ - 1][l] :
              Shorter(k, w, from, x)[l][i] # w[from][x]
<1> DEFINE p == w[from][x]
           a == w[from][x - 1]
           b == w[from][x + 1]
           o == Unlink(m, p)
           k1 == [k EXCEPT ![from] = @ - 1]
           w1 == Shorter(k, w, from, x)
<1>1. /\ m.next \in Maps /\ m.prev \in Maps /\ k \in [Lists -> Nat] /\ k[from] \in Nat
      /\ k1 \in [Lists -> Nat] /\ k1[from] = k[from] - 1
      /\ \A l \in Lists \ {from} : k1[l] = k[l]
  BY DEF Chain
<1>2. /\ x \in 0 .. k[from] /\ x - 1 \in 0 .. k[from] /\ (x - 1) + 1 = x
      /\ x \in 0 .. k[from] + 1 /\ x - 1 \in 0 .. k[from] + 1 /\ x + 1 \in 0 .. k[from] + 1
      /\ x \in 1 .. k[from] + 1 /\ x + 1 \in 1 .. k[from] + 1
  BY <1>1
<1>3. /\ p \in Pages /\ p \in Nodes /\ a \in Nodes /\ b \in Nodes
      /\ m.next[p] = b /\ m.prev[p] = a
  <2>1. p \in Pages /\ a \in Nodes /\ b \in Nodes
    BY <1>2, Positions DEF Chain, Circles
  <2>2. m.next[w[from][x]] = w[from][x + 1] /\ m.prev[w[from][(x - 1) + 1]] = w[from][x - 1]
    BY <1>2 DEF Chain, Circles
  <2> QED  BY <1>2, <2>1, <2>2, Names
<1>4. /\ o.next \in Maps /\ o.prev \in Maps
      /\ \A n \in Nodes :
           /\ o.next[n] = IF n = p THEN None ELSE IF n = a THEN b ELSE m.next[n]
           /\ o.prev[n] = IF n = p THEN None ELSE IF n = b THEN a ELSE m.prev[n]
  <2>1. /\ o.next = [[m.next EXCEPT ![a] = b] EXCEPT ![p] = None]
        /\ o.prev = [[m.prev EXCEPT ![b] = a] EXCEPT ![p] = None]
    BY <1>3 DEF Unlink, Link
  <2> HIDE DEF o, p, a, b
  <2> QED  BY <1>1, <1>3, <2>1 DEF Maps
<1>5. /\ \A l \in Lists \ {from} : w1[l] = w[l]
      /\ \A i \in 0 .. k[from] : w1[from][i] = IF i < x THEN w[from][i] ELSE w[from][i + 1]
  BY DEF Shorter
<1> HIDE DEF p, a, b, o, k1, w1
\* Every other node has its own neighbours.
<1>6. ASSUME NEW l \in Lists, NEW i \in 0 .. k[l], l # from \/ (i # x /\ i # x - 1)
      PROVE  o.next[w[l][i]] = w[l][i + 1] /\ o.prev[w[l][i + 1]] = w[l][i]
  <2>1. i + 1 \in 1 .. k[l] + 1 /\ i \in 0 .. k[l] + 1 /\ i + 1 \in 0 .. k[l] + 1
        /\ (i + 1 = x => i = x - 1) /\ (i + 1 = x + 1 => i = x)
    BY <1>1
  <2>2. w[l][i] \in Nodes /\ w[l][i + 1] \in Nodes
    BY <2>1, Positions
  <2>3. w[l][i] # p /\ w[l][i] # a
    BY <1>2, <1>6, Positions DEF p, a
  <2>4. w[l][i + 1] # p /\ w[l][i + 1] # b
    BY <1>2, <1>6, <2>1, Positions DEF p, b
  <2>5. m.next[w[l][i]] = w[l][i + 1] /\ m.prev[w[l][i + 1]] = w[l][i]
    BY DEF Chain, Circles
  <2> QED  BY <1>4, <2>2, <2>3, <2>4, <2>5
<1>7. o.next[a] = b /\ o.prev[b] = a
  <2>1. a # p /\ b # p
    <3>1. x # x - 1 /\ x # x + 1
      BY <1>1
    <3>2. a # p
      BY <1>2, <3>1, Positions DEF a, p
    <3>3. b # p
      BY <1>2, <3>1, Positions DEF b, p
    <3> QED  BY <3>2, <3>3
  <2> QED  BY <1>3, <1>4, <2>1
<1>8. ASSUME NEW l \in Lists
      PROVE  /\ w1[l][0] = l /\ w1[l][k1[l] + 1] = l
             /\ \A i \in 1 .. k1[l] : w1[l][i] \in Pages
  <2>1. w[l][0] = l /\ w[l][k[l] + 1] = l /\ \A i \in 1 .. k[l] : w[l][i] \in Pages
    BY DEF Chain, Circles
  <2>2. CASE l # from
    BY <1>1, <1>5, <2>1, <2>2
  <2>3. CASE l = from
    <3>1. /\ 0 \in 0 .. k[from] /\ 0 < x
          /\ k1[from] + 1 = k[from] /\ k[from] \in 0 .. k[from] /\ ~(k[from] < x)
      BY <1>1
    <3>2. \A i \in 1 .. k1[from] : i \in 0 .. k[from] /\ i \in 1 .. k[from] /\ i + 1 \in 1 .. k[from]
      BY <1>1
    <3> QED  BY <1>5, <2>1, <2>3, <3>1, <3>2
  <2> QED  BY <2>2, <2>3
<1>9. ASSUME NEW l \in Lists, NEW i \in 0 .. k1[l]
      PROVE  o.next[w1[l][i]] = w1[l][i + 1] /\ o.prev[w1[l][i + 1]] = w1[l][i]
  <2>1. CASE l # from
    BY <1>1, <1>5, <1>6, <2>1
  <2>2. CASE l = from
    <3>1. i \in 0 .. k[from] /\ i + 1 \in 0 .. k[from]
      BY <1>1, <2>2
    <3>2. CASE i + 1 < x
      <4>1. i < x /\ i # x /\ i # x - 1
        BY <1>2, <3>1, <3>2
      <4> QED  BY <1>5, <1>6, <2>2, <3>1, <3>2, <4>1
    <3>3. CASE i + 1 = x
      <4>1. i < x /\ ~(i + 1 < x) /\ i = x - 1
        BY <1>2, <3>1, <3>3
      <4>2. w1[from][i] = a /\ w1[from][i + 1] = b
        BY <1>5, <3>1, <3>3, <4>1 DEF a, b
      <4> QED  BY <1>7, <2>2, <4>2
    <3>4. CASE i + 1 > x
      <4>1. ~(i < x) /\ ~(i + 1 < x) /\ i + 1 # x /\ i + 1 # x - 1
        BY <1>2, <3>1, <3>4
      <4> QED  BY <1>5, <1>6, <2>2, <3>1, <4>1
    <3> QED  BY <1>2, <3>1, <3>2, <3>3, <3>4
  <2> QED  BY <2>1, <2>2
\* Where the nodes that are left were.
<1>10. ASSUME NEW l \in Lists, NEW i \in 1 .. k1[l]
       PROVE  LET y == IF l = from /\ ~(i < x) THEN i + 1 ELSE i
              IN  y \in 1 .. k[l] /\ w1[l][i] = w[l][y] /\ (l = from => y # x)
  <2>1. CASE l # from
    BY <1>1, <1>5, <2>1
  <2>2. CASE l = from
    <3>1. i \in 0 .. k[from] /\ i \in 1 .. k[from] /\ i + 1 \in 1 .. k[from]
          /\ (i < x => i # x) /\ (~(i < x) => i + 1 # x)
      BY <1>1, <2>2
    <3> QED  BY <1>5, <2>2, <3>1
  <2> QED  BY <2>1, <2>2
<1>11. ASSUME NEW l1 \in Lists, NEW l2 \in Lists,
              NEW i \in 1 .. k1[l1], NEW j \in 1 .. k1[l2], w1[l1][i] = w1[l2][j]
       PROVE  l1 = l2 /\ i = j
  <2> DEFINE y == IF l1 = from /\ ~(i < x) THEN i + 1 ELSE i
             z == IF l2 = from /\ ~(j < x) THEN j + 1 ELSE j
  <2>1. y \in 1 .. k[l1] /\ z \in 1 .. k[l2] /\ w[l1][y] = w[l2][z]
    BY <1>10, <1>11
  <2> HIDE DEF y, z
  <2>2. l1 = l2 /\ y = z
    BY <2>1 DEF Chain, OnePlace
  <2>3. i \in Int /\ j \in Int /\ x \in Int
    BY <1>1
  <2> QED  BY <2>2, <2>3 DEF y, z
<1>12. ASSUME NEW q \in Pages, \A l \in Lists : \A i \in 1 .. k1[l] : w1[l][i] # q
       PROVE  o.next[q] = None /\ o.prev[q] = None
  <2>1. CASE q = p
    BY <1>3, <1>4, <2>1
  <2>2. CASE q # p
    <3>1. \A l \in Lists : \A i \in 1 .. k[l] : w[l][i] # q
      <4> SUFFICES ASSUME NEW l \in Lists, NEW i \in 1 .. k[l], w[l][i] = q PROVE FALSE
        OBVIOUS
      <4>1. CASE l # from
        BY <1>1, <1>5, <1>12, <4>1
      <4>2. CASE l = from /\ i < x
        <5>1. i \in 0 .. k[from] /\ i \in 1 .. k1[from]
          BY <1>1, <4>2
        <5> QED  BY <1>5, <1>12, <4>2, <5>1
      <4>3. CASE l = from /\ i > x
        <5>1. i - 1 \in 0 .. k[from] /\ i - 1 \in 1 .. k1[from] /\ ~(i - 1 < x) /\ (i - 1) + 1 = i
          BY <1>1, <4>3
        <5> QED  BY <1>5, <1>12, <4>3, <5>1
      <4>4. CASE l = from /\ i = x
        BY <2>2, <4>4 DEF p
      <4>5. i < x \/ i > x \/ i = x
        BY <1>1
      <4> QED  BY <4>1, <4>2, <4>3, <4>4, <4>5
    <3>2. m.next[q] = None /\ m.prev[q] = None
      BY <3>1 DEF Chain, Unlinked
    \* The neighbours of p are sentinels, or nodes of the list.
    <3>3. q # a /\ q # b
      <4>1. x - 1 = 0 \/ x - 1 \in 1 .. k[from]
        BY <1>1
      <4>2. x + 1 = k[from] + 1 \/ x + 1 \in 1 .. k[from]
        BY <1>1
      <4>3. w[from][0] = from /\ w[from][k[from] + 1] = from /\ q # from
        BY Names DEF Chain, Circles
      <4> QED  BY <3>1, <4>1, <4>2, <4>3 DEF a, b
    <3> QED  BY <1>4, <2>2, <3>2, <3>3, Names
  <2> QED  BY <2>1, <2>2
<1>13. Chain(o, k1, w1)
  <2>1. Circles(o, k1, w1)
    BY <1>8, <1>9 DEF Circles
  <2>2. OnePlace(k1, w1)
    BY <1>11 DEF OnePlace
  <2>3. Unlinked(o, k1, w1)
    BY <1>12 DEF Unlinked
  <2> QED  BY <1>1, <1>4, <2>1, <2>2, <2>3 DEF Chain
<1>14. ~CheckFails(o, from, k[from] - 1)
  <2>1. /\ 0 \in 0 .. k1[from] /\ k1[from] \in 0 .. k1[from]
        /\ k1[from] = 0 \/ (1 \in 1 .. k1[from] /\ k1[from] \in 1 .. k1[from])
    BY <1>1
  <2>2. o.next[from] = w1[from][1] /\ o.prev[from] = w1[from][k1[from]]
    <3>1. o.next[w1[from][0]] = w1[from][0 + 1]
      BY <1>9, <2>1
    <3>2. o.prev[w1[from][k1[from] + 1]] = w1[from][k1[from]]
      BY <1>9, <2>1
    <3> QED  BY <1>8, <3>1, <3>2
  <2>3. CASE k1[from] = 0
    <3>1. w1[from][1] = from /\ w1[from][0] = from
      BY <1>8, <2>3
    <3> QED  BY <1>1, <2>2, <2>3, <3>1 DEF CheckFails, SaysEmpty
  <2>4. CASE k1[from] # 0
    <3>1. w1[from][1] # from /\ w1[from][k1[from]] # from
      BY <1>8, <2>1, <2>4, Names
    <3> QED  BY <1>1, <2>2, <2>4, <3>1 DEF CheckFails, SaysEmpty
  <2> QED  BY <2>3, <2>4
<1>15. \A l \in Lists : \A i \in 1 .. k1[l] : w1[l][i] # p
  <2> SUFFICES ASSUME NEW l \in Lists, NEW i \in 1 .. k1[l], w1[l][i] = p PROVE FALSE
    OBVIOUS
  <2> DEFINE y == IF l = from /\ ~(i < x) THEN i + 1 ELSE i
  <2>1. y \in 1 .. k[l] /\ w[l][y] = w[from][x] /\ (l = from => y # x)
    BY <1>10 DEF p
  <2> HIDE DEF y
  <2> QED  BY <2>1 DEF Chain, OnePlace
<1> QED  BY <1>3, <1>13, <1>14, <1>15 DEF o, k1, w1, p

-----------------------------------------------------------------------------
(* The invariant.                                                          *)

Typed == links.next \in Maps /\ links.prev \in Maps /\ count \in [Lists -> Nat]

\* No page is on a list twice.
Apart ==
  \A l \in Lists : \A i, j \in 1 .. count[l] : Walk(l)[i] = Walk(l)[j] => i = j

\* A loop stands on the first page that is left, and the lists behind it are
\* empty.
LoopAt ==
  /\ doing \in {"nothing", "reset", "destroy"}
  /\ doing = "reset" =>
       \/ loop = <<Partial, Full>>
       \/ loop = <<Full>> /\ count[Partial] = 0
  /\ doing = "destroy" =>
       \/ loop = <<Empty, Partial, Full>>
       \/ loop = <<Partial, Full>> /\ count[Empty] = 0
       \/ loop = <<Full>> /\ count[Empty] = 0 /\ count[Partial] = 0
  /\ doing # "nothing" => node = links.next[Head(loop)]

LinkInv == Typed /\ WellLinked /\ Apart /\ LoopAt

Ways == [l \in Lists |-> Walk(l)]

\* What is well linked is a chain,
LEMMA WaysChain ==
  ASSUME Typed, WellLinked, Apart
  PROVE  Chain(links, count, Ways) /\ Ways = [l \in Lists |-> Ways[l]]
<1> USE DEF Ways
<1>1. ASSUME NEW l \in Lists
      PROVE  /\ Walk(l)[0] = l /\ Walk(l)[count[l] + 1] = l
             /\ \A i \in 1 .. count[l] : Walk(l)[i] \in Pages
             /\ \A i \in 0 .. count[l] : /\ links.next[Walk(l)[i]] = Walk(l)[i + 1]
                                        /\ links.prev[Walk(l)[i + 1]] = Walk(l)[i]
  <2>1. count[l] \in Nat /\ Along(links, count[l] + 1, l, Walk(l))
    BY WalkAlong DEF Typed
  <2>2. /\ Walk(l)[count[l] + 1] = l
        /\ \A i \in 1 .. count[l] : Walk(l)[i] \in Pages
        /\ \A i \in 0 .. count[l] : links.prev[Walk(l)[i + 1]] = Walk(l)[i]
    BY DEF WellLinked, Circular
  <2> DEFINE f == Walk(l)
  <2> HIDE DEF f
  <2>3. f = [i \in 0 .. count[l] + 1 |->
               IF i = 0 THEN l ELSE IF f[i - 1] = None THEN None ELSE links.next[f[i - 1]]]
    BY <2>1 DEF Along, f
  <2>4. f[0] = l
    BY <2>1, <2>3
  <2>5. ASSUME NEW i \in 0 .. count[l] PROVE links.next[f[i]] = f[i + 1]
    <3>1. i + 1 \in 0 .. count[l] + 1 /\ i + 1 # 0 /\ (i + 1) - 1 = i
          /\ (i = 0 \/ i \in 1 .. count[l])
      BY <2>1
    <3>2. f[i + 1] = IF f[(i + 1) - 1] = None THEN None ELSE links.next[f[(i + 1) - 1]]
      BY <2>3, <3>1
    <3>3. f[i] # None
      BY <2>2, <2>4, <3>1, Names DEF f
    <3> QED  BY <3>1, <3>2, <3>3
  <2> QED  BY <2>2, <2>4, <2>5 DEF f
<1>2. Circles(links, count, Ways)
  BY <1>1 DEF Circles
<1>3. OnePlace(count, Ways)
  <2> SUFFICES ASSUME NEW l1 \in Lists, NEW l2 \in Lists, NEW i \in 1 .. count[l1],
                      NEW j \in 1 .. count[l2], Walk(l1)[i] = Walk(l2)[j]
               PROVE  l1 = l2 /\ i = j
    BY DEF OnePlace
  <2>1. Walk(l1)[i] \in On(l1) /\ Walk(l2)[j] \in On(l2)
    BY DEF On
  <2>2. l1 = l2
    BY <2>1 DEF WellLinked
  <2> QED  BY <2>2 DEF Apart
<1>4. Unlinked(links, count, Ways)
  <2> SUFFICES ASSUME NEW p \in Pages, \A l \in Lists : \A i \in 1 .. count[l] : Walk(l)[i] # p
               PROVE  links.next[p] = None /\ links.prev[p] = None
    BY DEF Unlinked
  <2>1. p \notin On(Empty) \cup On(Partial) \cup On(Full)
    BY Names DEF On
  <2> QED  BY <2>1 DEF WellLinked
<1> QED  BY <1>2, <1>3, <1>4 DEF Chain, Typed

\* and Walk finds what a chain says.
ChainFound ==
  \A w : Chain(links, count, w) /\ ~failed =>
    /\ Typed /\ WellLinked /\ Apart
    /\ \A l \in Lists : \A i \in 1 .. count[l] : Walk(l)[i] = w[l][i]

LEMMA ChainIsFound == ChainFound
<1> SUFFICES ASSUME NEW w, Chain(links, count, w), ~failed
             PROVE  /\ Typed /\ WellLinked /\ Apart
                    /\ \A l \in Lists : \A i \in 1 .. count[l] : Walk(l)[i] = w[l][i]
  BY DEF ChainFound
<1>1. ASSUME NEW l \in Lists
      PROVE  /\ \A i \in 0 .. count[l] + 1 : Walk(l)[i] = w[l][i]
             /\ count[l] \in Nat
  <2>1. count[l] \in Nat
    BY DEF Chain
  <2> QED  BY <2>1, WalkAlong, AlongChain
<1>2. Typed
  BY DEF Typed, Chain
<1>3. \A l \in Lists : \A i \in 1 .. count[l] : Walk(l)[i] = w[l][i]
  BY <1>1
<1>4. ASSUME NEW l \in Lists PROVE Circular(l)
  <2>1. /\ count[l] + 1 \in 0 .. count[l] + 1
        /\ \A i \in 0 .. count[l] : i \in 0 .. count[l] + 1 /\ i + 1 \in 0 .. count[l] + 1
    BY <1>1
  <2>2. /\ w[l][count[l] + 1] = l
        /\ \A i \in 1 .. count[l] : w[l][i] \in Pages
        /\ \A i \in 0 .. count[l] : links.prev[w[l][i + 1]] = w[l][i]
    BY DEF Chain, Circles
  <2> QED  BY <1>1, <1>3, <2>1, <2>2 DEF Circular
<1>5. \A l \in Lists : On(l) = {w[l][i] : i \in 1 .. count[l]}
  BY <1>3 DEF On
<1>6. \A l1, l2 \in Lists : l1 # l2 => On(l1) \cap On(l2) = {}
  BY <1>5 DEF Chain, OnePlace
<1>7. ASSUME NEW p \in Pages \ (On(Empty) \cup On(Partial) \cup On(Full))
      PROVE  links.next[p] = None /\ links.prev[p] = None
  <2>1. \A l \in Lists : \A i \in 1 .. count[l] : w[l][i] # p
    BY <1>5 DEF Lists
  <2> QED  BY <2>1 DEF Chain, Unlinked
<1>8. Apart
  BY <1>3 DEF Apart, Chain, OnePlace
<1> QED  BY <1>2, <1>3, <1>4, <1>6, <1>7, <1>8 DEF WellLinked

-----------------------------------------------------------------------------
(* What a step does to the lists.                                          *)

\* A page that is on no list is appended to one.
Appended(p, to) ==
  /\ \A l \in Lists : \A i \in 1 .. count[l] : Walk(l)[i] # p
  /\ links' = PushBack(links, to, p)
  /\ count' = [count EXCEPT ![to] = @ + 1]
  /\ UNCHANGED failed

\* The pages of a chain are moved in one of these ways.
Still == UNCHANGED <<links, count, failed>>
Leaves(from, x) == Drop(Walk(from)[x], from)
Moves(from, x, to) == from # to /\ MoveTo(Walk(from)[x], from, to)

LEMMA AppendedChain ==
  ASSUME Typed, WellLinked, Apart, NEW to \in Lists, NEW p \in Pages, Appended(p, to)
  PROVE  Chain(links', count', Longer(count, Ways, to, p)) /\ ~failed'
<1>1. Chain(links, count, Ways) /\ Ways = [l \in Lists |-> Ways[l]]
  BY WaysChain
<1>2. \A l \in Lists : \A i \in 1 .. count[l] : Ways[l][i] # p
  BY DEF Appended, Ways
<1>3. links' = PushBack(links, to, p) /\ count' = [count EXCEPT ![to] = @ + 1] /\ ~failed'
  BY DEF Appended, WellLinked
<1> QED  BY <1>1, <1>2, <1>3, PushBackChain

LEMMA LeavesChain ==
  ASSUME Typed, WellLinked, Apart, NEW from \in Lists, NEW x \in 1 .. count[from],
         Leaves(from, x)
  PROVE  Chain(links', count', Shorter(count, Ways, from, x)) /\ ~failed'
<1>1. Chain(links, count, Ways) /\ Ways = [l \in Lists |-> Ways[l]] /\ Walk(from)[x] = Ways[from][x]
  BY WaysChain DEF Ways
<1>2. /\ links' = Unlink(links, Walk(from)[x])
      /\ count' = [count EXCEPT ![from] = @ - 1]
      /\ failed' = CheckFails(Unlink(links, Walk(from)[x]), from, count[from] - 1)
  BY DEF Leaves, Drop
<1> QED  BY <1>1, <1>2, UnlinkChain

LEMMA MovesChain ==
  ASSUME Typed, WellLinked, Apart, NEW from \in Lists, NEW x \in 1 .. count[from],
         NEW to \in Lists, Moves(from, x, to)
  PROVE  /\ Chain(links', count',
                  Longer([count EXCEPT ![from] = @ - 1], Shorter(count, Ways, from, x),
                         to, Walk(from)[x]))
         /\ ~failed'
<1> DEFINE p == Walk(from)[x]
           k1 == [count EXCEPT ![from] = @ - 1]
           w1 == Shorter(count, Ways, from, x)
           m1 == Unlink(links, p)
<1>1. Chain(links, count, Ways) /\ Ways = [l \in Lists |-> Ways[l]] /\ p = Ways[from][x]
  BY WaysChain DEF Ways
<1>2. /\ Chain(m1, k1, w1) /\ ~CheckFails(m1, from, count[from] - 1) /\ p \in Pages
      /\ \A l \in Lists : \A i \in 1 .. k1[l] : w1[l][i] # p
  BY <1>1, UnlinkChain, SMTT(30)
<1>3. /\ links' = PushBack(m1, to, p)
      /\ count' = [count EXCEPT ![from] = @ - 1, ![to] = @ + 1]
      /\ failed' = CheckFails(m1, from, count[from] - 1)
  BY DEF Moves, MoveTo
<1>4. w1 = [l \in Lists |-> w1[l]]
  BY <1>1 DEF Shorter
<1>5. count' = [k1 EXCEPT ![to] = @ + 1]
  <2>1. from # to /\ count \in [Lists -> Nat]
    BY DEF Moves, Typed
  <2> QED  BY <1>3, <2>1
<1> HIDE DEF p, k1, w1, m1
<1>6. Chain(PushBack(m1, to, p), [k1 EXCEPT ![to] = @ + 1], Longer(k1, w1, to, p))
  BY <1>2, <1>4, PushBackChain
<1> QED  BY <1>2, <1>3, <1>5, <1>6 DEF p, k1, w1

\* A list that is not empty begins with a page.
LEMMA FirstPage ==
  ASSUME Typed, WellLinked, Apart, NEW l \in Lists
  PROVE  /\ links.next[l] = Walk(l)[1]
         /\ links.next[l] # l \/ count[l] > 0 => 1 \in 1 .. count[l] /\ links.next[l] \in Pages
         /\ links.next[l] = l <=> count[l] = 0
<1>1. Chain(links, count, Ways) /\ Ways[l] = Walk(l) /\ count[l] \in Nat
  BY WaysChain DEF Ways, Typed
<1>2. /\ Walk(l)[0] = l /\ Walk(l)[count[l] + 1] = l
      /\ \A i \in 1 .. count[l] : Walk(l)[i] \in Pages
      /\ links.next[Walk(l)[0]] = Walk(l)[0 + 1]
  BY <1>1 DEF Chain, Circles
<1>3. count[l] = 0 \/ (count[l] > 0 /\ 1 \in 1 .. count[l])
  BY <1>1
<1>4. CASE count[l] = 0
  BY <1>2, <1>4
<1>5. CASE count[l] > 0 /\ 1 \in 1 .. count[l]
  BY <1>1, <1>2, <1>5, Names
<1> QED  BY <1>3, <1>4, <1>5

\* Each step is of one of these kinds.
LEMMA StepKinds ==
  ASSUME LinkInv, [Next]_vars
  PROVE  \/ Still
         \/ \E p \in Pages : Appended(p, Empty) /\ UNCHANGED <<loop, doing, node>>
         \/ \E from \in Lists : \E x \in 1 .. count[from] :
              \/ Leaves(from, x)
              \/ \E to \in Lists : Moves(from, x, to)
<1> DEFINE Goes(from, x) == Leaves(from, x) \/ \E to \in Lists : Moves(from, x, to)
<1>1. /\ Typed /\ WellLinked /\ Apart /\ LoopAt
      /\ Chain(links, count, Ways) /\ \A l \in Lists : Ways[l] = Walk(l)
  BY WaysChain DEF LinkInv, Ways
<1>2. ASSUME NEW l \in Lists, links.next[l] # l
      PROVE  1 \in 1 .. count[l] /\ links.next[l] = Walk(l)[1]
  BY <1>1, <1>2, FirstPage
<1>3. ASSUME NEW p \in Pages, Grow(p) PROVE Appended(p, Empty) /\ UNCHANGED <<loop, doing, node>>
  <2>1. ASSUME NEW l \in Lists, NEW i \in 1 .. count[l], Walk(l)[i] = p PROVE FALSE
    <3>1. i \in 0 .. count[l] /\ i + 1 \in 0 .. count[l] + 1
      BY <1>1 DEF Typed
    <3>2. links.next[Walk(l)[i]] = Walk(l)[i + 1] /\ Walk(l)[i + 1] \in Nodes
      BY <1>1, <3>1, Positions DEF Chain, Circles
    <3> QED  BY <1>3, <2>1, <3>2, Names DEF Grow
  <2> QED  BY <1>3, <2>1 DEF Grow, Appended, Sequential
<1>4. CASE EmptyToPartial
  <2>1. 1 \in 1 .. count[Empty] /\ links.next[Empty] = Walk(Empty)[1]
    BY <1>2, <1>4, Names DEF EmptyToPartial
  <2>2. Moves(Empty, 1, Partial)
    BY <1>4, <2>1, Names DEF EmptyToPartial, Moves
  <2> QED  BY <2>1, <2>2, Names
<1>5. CASE PartialToFull
  <2>1. 1 \in 1 .. count[Partial] /\ links.next[Partial] = Walk(Partial)[1]
    BY <1>2, <1>5, Names DEF PartialToFull
  <2>2. Moves(Partial, 1, Full)
    BY <1>5, <2>1, Names DEF PartialToFull, Moves
  <2> QED  BY <2>1, <2>2, Names
<1>6. ASSUME NEW p \in Pages, FullToPartial(p)
      PROVE  \E x \in 1 .. count[Full] : Moves(Full, x, Partial)
  BY <1>6, Names DEF FullToPartial, On, Moves
<1>7. ASSUME NEW p \in Pages, PartialToEmpty(p)
      PROVE  \E x \in 1 .. count[Partial] : Moves(Partial, x, Empty)
  BY <1>7, Names DEF PartialToEmpty, On, Moves
<1>8. CASE Trim
  <2>1. count[Empty] > 0
    <3>1. count[Empty] \in Nat /\ count[Full] \in Nat /\ count[Partial] \in Nat
      BY <1>1, Names DEF Typed
    <3> QED  BY <1>8, <3>1 DEF Trim
  <2>2. 1 \in 1 .. count[Empty] /\ links.next[Empty] = Walk(Empty)[1]
    BY <1>1, <2>1, FirstPage, Names
  <2>3. Leaves(Empty, 1)
    BY <1>8, <2>2 DEF Trim, Leaves
  <2> QED  BY <2>2, <2>3, Names
<1>9. CASE Round
  <2>1. /\ Head(loop) \in Lists /\ links.next[Head(loop)] # Head(loop)
        /\ node = links.next[Head(loop)]
        /\ doing = "reset" => Head(loop) # Empty
    BY <1>1, <1>9, Names DEF Round, LoopAt
  <2>2. 1 \in 1 .. count[Head(loop)] /\ node = Walk(Head(loop))[1]
    BY <1>2, <2>1
  <2>3. Moves(Head(loop), 1, Empty) \/ Leaves(Head(loop), 1)
    BY <1>9, <2>1, <2>2 DEF Round, Moves, Leaves
  <2> QED  BY <2>1, <2>2, <2>3, Names
<1>10. CASE StartReset \/ StartDestroy \/ EndOfList
  BY <1>10 DEF StartReset, StartDestroy, StartLoop, EndOfList, Still
<1>11. CASE UNCHANGED vars
  BY <1>11 DEF vars, Still
<1> QED
  BY <1>3, <1>4, <1>5, <1>6, <1>7, <1>8, <1>9, <1>10, <1>11, Names DEF Next

LEMMA ListsKept ==
  ASSUME LinkInv, [Next]_vars
  PROVE  Typed' /\ WellLinked' /\ Apart'
<1>1. Typed /\ WellLinked /\ Apart
  BY DEF LinkInv
<1>2. ChainFound'
  BY ChainIsFound, PTL
<1>3. ASSUME NEW w, Chain(links', count', w), ~failed'
      PROVE  Typed' /\ WellLinked' /\ Apart'
  BY <1>2, <1>3 DEF ChainFound
<1>4. CASE Still
  <2>1. Chain(links', count', Ways) /\ ~failed'
    BY <1>1, <1>4, WaysChain DEF Still, WellLinked
  <2> QED  BY <1>3, <2>1
<1>5. ASSUME NEW p \in Pages, Appended(p, Empty) PROVE Typed' /\ WellLinked' /\ Apart'
  BY <1>1, <1>3, <1>5, AppendedChain, Names
<1>6. ASSUME NEW from \in Lists, NEW x \in 1 .. count[from], Leaves(from, x)
      PROVE  Typed' /\ WellLinked' /\ Apart'
  BY <1>1, <1>3, <1>6, LeavesChain
<1>7. ASSUME NEW from \in Lists, NEW x \in 1 .. count[from], NEW to \in Lists, Moves(from, x, to)
      PROVE  Typed' /\ WellLinked' /\ Apart'
  BY <1>1, <1>3, <1>7, MovesChain
<1> QED  BY <1>4, <1>5, <1>6, <1>7, StepKinds

\* The page behind the first one is the next first one.
LEMMA RoundGoesOn ==
  ASSUME LinkInv, Round
  PROVE  LoopAt'
<1> DEFINE h == Head(loop)
           k1 == [count EXCEPT ![h] = @ - 1]
           w1 == Shorter(count, Ways, h, 1)
<1>1. /\ Typed /\ WellLinked /\ Apart /\ LoopAt
      /\ Chain(links, count, Ways) /\ \A l \in Lists : Ways[l] = Walk(l)
      /\ Ways = [l \in Lists |-> Ways[l]]
  BY WaysChain DEF LinkInv, Ways
<1>2. /\ h \in Lists /\ node = links.next[h] /\ node # h
      /\ doing = "reset" => h \in {Partial, Full} /\ h # Empty
      /\ doing # "reset" => doing = "destroy"
  BY <1>1, Names DEF Round, LoopAt
<1>3. 1 \in 1 .. count[h] /\ node = Walk(h)[1] /\ node \in Pages /\ count \in [Lists -> Nat]
  BY <1>1, <1>2, FirstPage DEF Typed
<1>4. links.next[node] = Walk(h)[2]
  <2>1. 1 \in 0 .. count[h] /\ 1 + 1 = 2
    BY <1>2, <1>3
  <2> QED  BY <1>1, <1>2, <1>3, <2>1 DEF Chain, Circles
<1>5. w1[h][1] = Walk(h)[2]
  <2>1. 1 \in 0 .. count[h] /\ ~(1 < 1) /\ 1 + 1 = 2
    BY <1>2, <1>3
  <2> QED  BY <1>1, <1>2, <2>1 DEF Shorter
<1>6. ASSUME NEW w, Chain(links', count', w), w[h] = w1[h] PROVE links'.next[h] = Walk(h)[2]
  <2>1. count'[h] \in Nat
    BY <1>2, <1>6 DEF Chain
  <2>2. 0 \in 0 .. count'[h] /\ 0 + 1 = 1
    BY <2>1
  <2>3. w[h][0] = h /\ links'.next[w[h][0]] = w[h][0 + 1]
    BY <1>2, <1>6, <2>2 DEF Chain, Circles
  <2> QED  BY <1>5, <1>6, <2>2, <2>3
<1>7. w1 = [l \in Lists |-> w1[l]]
  BY <1>1 DEF Shorter
<1>8. CASE doing = "reset"
  <2>1. Moves(h, 1, Empty)
    BY <1>2, <1>3, <1>8 DEF Round, Moves
  <2> DEFINE w2 == Longer(k1, w1, Empty, Walk(h)[1])
  <2>2. Chain(links', count', w2)
    BY <1>1, <1>2, <1>3, <2>1, MovesChain, Names
  <2>3. w2[h] = w1[h]
    BY <1>2, <1>7, <1>8 DEF Longer
  <2>4. links'.next[h] = Walk(h)[2]
    <3> HIDE DEF w2
    <3> QED  BY <1>6, <2>2, <2>3
  <2>5. count'[Partial] = count[Partial] \/ h = Partial
    BY <1>3, <2>1, Names DEF Moves, MoveTo
  <2> QED  BY <1>1, <1>2, <1>4, <1>8, <2>4, <2>5, Names DEF LoopAt, Round
<1>9. CASE doing = "destroy"
  <2>1. Leaves(h, 1)
    BY <1>2, <1>3, <1>9 DEF Round, Leaves
  <2>2. Chain(links', count', w1)
    BY <1>1, <1>2, <1>3, <2>1, LeavesChain
  <2>3. links'.next[h] = Walk(h)[2]
    <3> HIDE DEF w1
    <3> QED  BY <1>6, <2>2
  <2>4. \A l \in Lists \ {h} : count'[l] = count[l]
    BY <1>3, <2>1 DEF Leaves, Drop
  <2> QED  BY <1>1, <1>2, <1>4, <1>9, <2>3, <2>4, Names DEF LoopAt, Round
<1> QED  BY <1>2, <1>8, <1>9

\* What is left of the lists a loop visits.
LEMMA Tails ==
  /\ Tail(<<Full>>) = <<>>
  /\ Tail(<<Partial, Full>>) = <<Full>> /\ <<Full>> # <<>>
  /\ Tail(<<Empty, Partial, Full>>) = <<Partial, Full>> /\ <<Partial, Full>> # <<>>
  /\ Head(<<Full>>) = Full /\ Head(<<Partial, Full>>) = Partial
  /\ Head(<<Empty, Partial, Full>>) = Empty
OBVIOUS

LEMMA Visits ==
  ASSUME NEW list
  PROVE  /\ ~ \E i \in DOMAIN <<>> : <<>>[i] = list
         /\ (\E i \in DOMAIN <<Full>> : <<Full>>[i] = list) <=> list = Full
         /\ (\E i \in DOMAIN <<Partial, Full>> : <<Partial, Full>>[i] = list)
              <=> list \in {Partial, Full}
         /\ (\E i \in DOMAIN <<Empty, Partial, Full>> : <<Empty, Partial, Full>>[i] = list)
              <=> list \in Lists
<1>1. /\ DOMAIN <<>> = {} /\ DOMAIN <<Full>> = {1} /\ <<Full>>[1] = Full
      /\ DOMAIN <<Partial, Full>> = {1, 2}
      /\ <<Partial, Full>>[1] = Partial /\ <<Partial, Full>>[2] = Full
      /\ DOMAIN <<Empty, Partial, Full>> = {1, 2, 3}
      /\ <<Empty, Partial, Full>>[1] = Empty /\ <<Empty, Partial, Full>>[2] = Partial
      /\ <<Empty, Partial, Full>>[3] = Full
  OBVIOUS
<1> QED  BY <1>1 DEF Lists

ToDoIs ==
  /\ loop = <<>> => ToDo = 0
  /\ loop = <<Full>> => ToDo = count[Full] + 1
  /\ loop = <<Partial, Full>> => ToDo = count[Partial] + count[Full] + 2
  /\ loop = <<Empty, Partial, Full>> =>
       ToDo = count[Empty] + count[Partial] + count[Full] + 3

LEMMA ToDoCounts == Typed => ToDoIs
<1> SUFFICES ASSUME Typed PROVE ToDoIs
  OBVIOUS
<1> USE DEF ToDoIs
<1>1. count[Empty] \in Nat /\ count[Partial] \in Nat /\ count[Full] \in Nat
  BY Names DEF Typed
<1>2. CASE loop = <<>>
  BY <1>2, Visits, Names DEF ToDo, Left
<1>3. CASE loop = <<Full>>
  <2>1. Left(Empty) = 0 /\ Left(Partial) = 0 /\ Left(Full) = count[Full] + 1
    BY <1>3, Visits, Names DEF Left
  <2> QED  BY <1>1, <1>3, <2>1, Tails DEF ToDo
<1>4. CASE loop = <<Partial, Full>>
  <2>1. Left(Empty) = 0 /\ Left(Partial) = count[Partial] + 1 /\ Left(Full) = count[Full] + 1
    BY <1>4, Visits, Names DEF Left
  <2> QED  BY <1>1, <1>4, <2>1 DEF ToDo
<1>5. CASE loop = <<Empty, Partial, Full>>
  <2>1. /\ Left(Empty) = count[Empty] + 1 /\ Left(Partial) = count[Partial] + 1
        /\ Left(Full) = count[Full] + 1
    BY <1>5, Visits, Names DEF Left
  <2> QED  BY <1>1, <1>5, <2>1 DEF ToDo
<1> QED  BY <1>2, <1>3, <1>4, <1>5

\* Each step of a loop leaves less to do.
LEMMA LoopGetsOn ==
  ASSUME LinkInv, LinkInv', Next, doing # "nothing"
  PROVE  ToDo' < ToDo
<1>1. /\ LoopAt /\ count \in [Lists -> Nat] /\ count' \in [Lists -> Nat]
      /\ Head(loop) \in Lists
  BY Tails, Names DEF LinkInv, Typed, LoopAt
<1>2. /\ count[Empty] \in Nat /\ count[Partial] \in Nat /\ count[Full] \in Nat
  BY <1>1, Names
<1>3. ToDoIs /\ ToDoIs'
  <2>1. Typed /\ Typed'
    BY DEF LinkInv
  <2> QED  BY <2>1, ToDoCounts, PTL
<1>4. CASE EndOfList
  <2>1. loop' = Tail(loop) /\ count' = count
    BY <1>4 DEF EndOfList
  <2>2. CASE loop = <<Full>>
    BY <1>2, <1>3, <2>1, <2>2, Tails DEF ToDoIs
  <2>3. CASE loop = <<Partial, Full>>
    BY <1>2, <1>3, <2>1, <2>3, Tails DEF ToDoIs
  <2>4. CASE loop = <<Empty, Partial, Full>>
    BY <1>2, <1>3, <2>1, <2>4, Tails DEF ToDoIs
  <2> QED  BY <1>1, <2>2, <2>3, <2>4 DEF LoopAt
<1>5. CASE Round
  <2>1. loop' = loop
    BY <1>5 DEF Round
  <2>2. CASE doing = "reset"
    <3>1. count' = [count EXCEPT ![Head(loop)] = @ - 1, ![Empty] = @ + 1]
      BY <1>5, <2>2 DEF Round, MoveTo
    <3> QED  BY <1>1, <1>2, <1>3, <2>1, <2>2, <3>1, Tails, Names DEF LoopAt, ToDoIs
  <2>3. CASE doing # "reset"
    <3>1. count' = [count EXCEPT ![Head(loop)] = @ - 1]
      BY <1>5, <2>3 DEF Round, Drop
    <3> QED  BY <1>1, <1>2, <1>3, <2>1, <2>3, <3>1, Tails, Names DEF LoopAt, ToDoIs
  <2> QED  BY <2>2, <2>3
<1> QED
  BY <1>4, <1>5
  DEF Next, Grow, FullToPartial, PartialToEmpty, EmptyToPartial, PartialToFull, Trim, Sequential,
      StartReset, StartDestroy, StartLoop

LEMMA LoopAtKept ==
  ASSUME LinkInv, [Next]_vars
  PROVE  LoopAt'
<1>1. Typed /\ WellLinked /\ Apart /\ LoopAt
  BY DEF LinkInv
<1>2. CASE StartReset \/ StartDestroy
  <2>1. /\ UNCHANGED <<links, count>> /\ node' = links.next[Head(loop')]
        /\ \/ doing' = "reset" /\ loop' = <<Partial, Full>>
           \/ doing' = "destroy" /\ loop' = <<Empty, Partial, Full>>
    BY <1>2 DEF StartReset, StartDestroy, StartLoop
  <2> QED  BY <2>1 DEF LoopAt
<1>3. CASE EndOfList
  <2>1. /\ node = Head(loop) /\ doing # "nothing" /\ UNCHANGED <<links, count>>
        /\ loop' = Tail(loop)
        /\ IF Tail(loop) = <<>> THEN doing' = "nothing" /\ node' = None
           ELSE doing' = doing /\ node' = links.next[Head(Tail(loop))]
    BY <1>3 DEF EndOfList
  <2>2. Head(loop) \in Lists /\ links.next[Head(loop)] = Head(loop)
    BY <1>1, <2>1, Names DEF LoopAt
  <2>3. count[Head(loop)] = 0
    BY <1>1, <2>2, FirstPage
  <2>4. CASE doing = "reset"
    BY <1>1, <2>1, <2>3, <2>4, Tails DEF LoopAt
  <2>5. CASE doing = "destroy"
    BY <1>1, <2>1, <2>3, <2>5, Tails DEF LoopAt
  <2> QED  BY <1>1, <2>1, <2>4, <2>5 DEF LoopAt
<1>4. CASE Round
  BY <1>4, RoundGoesOn
<1>5. ASSUME doing = "nothing", UNCHANGED doing PROVE LoopAt'
  BY <1>5 DEF LoopAt
<1>6. CASE (\E p \in Pages : Grow(p) \/ FullToPartial(p) \/ PartialToEmpty(p))
           \/ EmptyToPartial \/ PartialToFull \/ Trim
  BY <1>5, <1>6
  DEF Grow, FullToPartial, PartialToEmpty, EmptyToPartial, PartialToFull, Trim, Sequential
<1>7. CASE UNCHANGED vars
  BY <1>1, <1>7 DEF vars, LoopAt
<1> QED  BY <1>2, <1>3, <1>4, <1>6, <1>7 DEF Next

-----------------------------------------------------------------------------
(***************************************************************************)
(* The inductive invariant of the lists.                                   *)
(***************************************************************************)
THEOREM LinkInvariant == Spec => []LinkInv
<1>1. Init => LinkInv
  <2> SUFFICES ASSUME Init PROVE LinkInv
    OBVIOUS
  <2> DEFINE w == [l \in Lists |-> [i \in 0 .. 1 |-> l]]
  <2>1. /\ links.next = [n \in Nodes |-> IF n \in Lists THEN n ELSE None]
        /\ links.prev = [n \in Nodes |-> IF n \in Lists THEN n ELSE None]
        /\ count \in [Lists -> Nat] /\ \A l \in Lists : count[l] = 0
        /\ ~failed
    BY DEF Init
  <2>2. \A l \in Lists : w[l][0] = l /\ w[l][0 + 1] = l
    OBVIOUS
  <2>3. \A i \in 1 .. 0 : FALSE
    OBVIOUS
  <2>4. \A i \in 0 .. 0 : i = 0
    OBVIOUS
  <2> HIDE DEF w
  <2>5. Circles(links, count, w)
    BY <2>1, <2>2, <2>3, <2>4, Names DEF Circles
  <2>6. OnePlace(count, w)
    BY <2>1, <2>3 DEF OnePlace
  <2>7. Unlinked(links, count, w)
    BY <2>1, Names DEF Unlinked
  <2>8. Chain(links, count, w)
    BY <2>1, <2>5, <2>6, <2>7, Names DEF Chain, Maps
  <2>9. LoopAt
    BY DEF Init, LoopAt
  <2> QED  BY <2>1, <2>8, <2>9, ChainIsFound DEF ChainFound, LinkInv
<1>2. LinkInv /\ [Next]_vars => LinkInv'
  BY ListsKept, LoopAtKept DEF LinkInv
<1> QED  BY <1>1, <1>2, PTL DEF Spec

(***************************************************************************)
(* The pointers are always those of three circles of `count` pages, and    *)
(* the consistency check of slab_list_remove never fails.                  *)
(***************************************************************************)
THEOREM ListsWellLinked == Spec => []WellLinked
<1>1. LinkInv => WellLinked
  BY DEF LinkInv
<1> QED  BY <1>1, LinkInvariant, PTL

(***************************************************************************)
(* The loops of slab_reset and slab_destroy get on with each step and      *)
(* leave no page on the lists they visit.                                  *)
(***************************************************************************)
THEOREM NoPageSkipped == Spec => LoopsComplete
<1> DEFINE Done ==
      /\ doing = "reset" /\ doing' = "nothing" => On(Partial) \cup On(Full) = {}
      /\ doing = "destroy" /\ doing' = "nothing" =>
           On(Empty) \cup On(Partial) \cup On(Full) = {}
          GetsOn == doing # "nothing" => ToDo' < ToDo
<1>1. LinkInv /\ [Next]_vars => [Done]_vars
  <2> SUFFICES ASSUME LinkInv, Next, doing # "nothing", doing' = "nothing"
               PROVE  /\ On(Partial) \cup On(Full) = {}
                      /\ doing = "destroy" => On(Empty) = {}
    BY DEF LinkInv, LoopAt
  <2>1. Typed /\ WellLinked /\ Apart /\ LoopAt
    BY DEF LinkInv
  <2>2. EndOfList
    BY DEF Next, Grow, FullToPartial, PartialToEmpty, EmptyToPartial, PartialToFull, Trim,
           Sequential, StartReset, StartDestroy, StartLoop, Round
  <2>3. node = Head(loop) /\ Tail(loop) = <<>>
    BY <2>2 DEF EndOfList
  <2>4. /\ loop = <<Full>> /\ count[Partial] = 0 /\ (doing = "destroy" => count[Empty] = 0)
        /\ links.next[Full] = Full
    BY <2>1, <2>3, Tails DEF LoopAt
  <2>5. count[Full] = 0
    BY <2>1, <2>4, FirstPage, Names
  <2>6. \A l \in Lists : count[l] = 0 => On(l) = {}
    BY DEF On
  <2> QED  BY <2>4, <2>5, <2>6, Names
<1>2. LinkInv /\ LinkInv' /\ [Next]_vars => [GetsOn]_vars
  BY LoopGetsOn
<1> DEFINE Both == /\ GetsOn
                   /\ doing = "reset" /\ doing' = "nothing" => On(Partial) \cup On(Full) = {}
                   /\ doing = "destroy" /\ doing' = "nothing" =>
                        On(Empty) \cup On(Partial) \cup On(Full) = {}
<1>3. [Done]_vars /\ [GetsOn]_vars => [Both]_vars
  OBVIOUS
<1> HIDE DEF Done, Both, GetsOn
<1>4. Spec => [][Both]_vars
  BY <1>1, <1>2, <1>3, LinkInvariant, PTL DEF Spec
<1> QED  BY <1>4 DEF LoopsComplete, Both, GetsOn

-----------------------------------------------------------------------------
(* The lists as sequences.                                                 *)

\* The pages of list l of a chain.
Read(k, w, l) == [i \in 1 .. k[l] |-> w[l][i]]

\* The sequence s with p behind it.
With(s, p) == Append(s, p)

LEMMA UpToNext == ASSUME NEW n \in Nat, NEW i \in 1 .. n + 1
                  PROVE  i \in 1 .. n \/ i = n + 1
OBVIOUS

LEMMA ItsElements == ASSUME NEW S, NEW q \in Seq(S)
                     PROVE  q = [i \in 1 .. Len(q) |-> q[i]]
OBVIOUS

LEMMA ReadLonger ==
  ASSUME NEW m, NEW k, NEW w, w = [l \in Lists |-> w[l]], Chain(m, k, w), NEW to \in Lists,
         NEW p \in Pages, NEW l \in Lists
  PROVE  Read([k EXCEPT ![to] = @ + 1], Longer(k, w, to, p), l) =
           IF l = to THEN With(Read(k, w, l), p) ELSE Read(k, w, l)
<1> DEFINE k1 == [k EXCEPT ![to] = @ + 1]
           w1 == Longer(k, w, to, p)
           s == Read(k, w, to)
<1>1. /\ k[to] \in Nat /\ k1[to] = k[to] + 1 /\ (l # to => k1[l] = k[l] /\ w1[l] = w[l])
      /\ \A i \in 1 .. k[to] : w[to][i] \in Pages
  BY DEF Chain, Circles, Longer
<1>2. \A i \in 0 .. k[to] + 2 :
        w1[to][i] = IF i <= k[to] THEN w[to][i] ELSE IF i = k[to] + 1 THEN p ELSE to
  BY DEF Longer
<1>3. s \in Seq(Pages) /\ Len(s) = k[to] /\ \A i \in 1 .. k[to] : s[i] = w[to][i]
  BY <1>1 DEF Read
<1> HIDE DEF k1, w1, s
<1>4. /\ Append(s, p) \in Seq(Pages) /\ Len(Append(s, p)) = k[to] + 1
      /\ \A i \in 1 .. k[to] : Append(s, p)[i] = w[to][i]
      /\ Append(s, p)[k[to] + 1] = p
  BY <1>3, AppendProperties
<1>5. CASE l = to
  <2>1. \A i \in 1 .. k[to] + 1 : w1[to][i] = Append(s, p)[i]
    <3> TAKE i \in 1 .. k[to] + 1
    <3>1. i \in 0 .. k[to] + 2 /\ i \in Nat
      BY <1>1
    <3>2. CASE i \in 1 .. k[to]
      BY <1>1, <1>2, <1>4, <3>1, <3>2
    <3>3. CASE i = k[to] + 1
      BY <1>1, <1>2, <1>4, <3>1, <3>3
    <3> QED  BY <1>1, <3>2, <3>3, UpToNext
  <2>2. Append(s, p) = [i \in 1 .. k[to] + 1 |-> Append(s, p)[i]]
    <3> DEFINE q == Append(s, p)
    <3>1. q \in Seq(Pages) /\ Len(q) = k[to] + 1
      BY <1>4
    <3> HIDE DEF q
    <3>2. q = [i \in 1 .. Len(q) |-> q[i]]
      BY <3>1, ItsElements
    <3>3. q = [i \in 1 .. k[to] + 1 |-> q[i]]
      BY <3>1, <3>2
    <3> QED  BY <3>3 DEF q
  <2>3. Read(k1, w1, to) = [i \in 1 .. k[to] + 1 |-> w1[to][i]]
    BY <1>1 DEF Read
  <2>4. Read(k1, w1, to) = Append(s, p)
    BY <2>1, <2>2, <2>3
  <2> QED  BY <1>5, <2>4 DEF k1, w1, s, With
<1>6. CASE l # to
  <2>1. Read(k1, w1, l) = Read(k, w, l)
    BY <1>1, <1>6 DEF Read
  <2> QED  BY <1>6, <2>1 DEF k1, w1
<1> QED  BY <1>5, <1>6

LEMMA ReadShorter ==
  ASSUME NEW m, NEW k, NEW w, w = [l \in Lists |-> w[l]], Chain(m, k, w), NEW from \in Lists,
         NEW x \in 1 .. k[from], NEW l \in Lists
  PROVE  Read([k EXCEPT ![from] = @ - 1], Shorter(k, w, from, x), l) =
           IF l = from THEN Without(Read(k, w, l), w[from][x]) ELSE Read(k, w, l)
<1> DEFINE k1 == [k EXCEPT ![from] = @ - 1]
           w1 == Shorter(k, w, from, x)
           s == Read(k, w, from)
           p == w[from][x]
           at == CHOOSE i \in DOMAIN s : s[i] = p
<1>1. /\ k[from] \in Nat /\ k1[from] = k[from] - 1 /\ (l # from => k1[l] = k[l] /\ w1[l] = w[l])
      /\ \A i \in 1 .. k[from] : w[from][i] \in Pages
  BY DEF Chain, Circles, Shorter
<1>2. \A i \in 0 .. k[from] : w1[from][i] = IF i < x THEN w[from][i] ELSE w[from][i + 1]
  BY DEF Shorter
<1>3. /\ DOMAIN s = 1 .. k[from] /\ Len(s) = k[from] /\ s \in Seq(Pages)
      /\ \A i \in 1 .. k[from] : s[i] = w[from][i]
  BY <1>1 DEF Read
<1>4. at = x
  <2>1. x \in DOMAIN s /\ s[x] = p
    BY <1>3
  <2>2. \A i \in DOMAIN s : s[i] = p => i = x
    BY <1>3 DEF Chain, OnePlace
  <2> HIDE DEF p, s
  <2> QED  BY <2>1, <2>2
<1>5. Without(s, p) = [i \in 1 .. Len(s) - 1 |-> IF i < at THEN s[i] ELSE s[i + 1]]
  BY DEF Without
<1> HIDE DEF k1, w1, s, p, at
<1>6. CASE l = from
  <2>1. \A i \in 1 .. k[from] - 1 : w1[from][i] = IF i < x THEN s[i] ELSE s[i + 1]
    <3> TAKE i \in 1 .. k[from] - 1
    <3>1. i \in 0 .. k[from] /\ i \in 1 .. k[from] /\ i + 1 \in 1 .. k[from]
      BY <1>1
    <3> QED  BY <1>2, <1>3, <3>1
  <2>2. Read(k1, w1, from) = [i \in 1 .. k[from] - 1 |-> w1[from][i]]
    BY <1>1 DEF Read
  <2>3. Read(k1, w1, from) = Without(s, p)
    BY <1>3, <1>4, <1>5, <2>1, <2>2
  <2> QED  BY <1>6, <2>3 DEF k1, w1, s, p
<1>7. CASE l # from
  <2>1. Read(k1, w1, l) = Read(k, w, l)
    BY <1>1, <1>7 DEF Read
  <2> QED  BY <1>7, <2>1 DEF k1, w1
<1> QED  BY <1>6, <1>7

(***************************************************************************)
(* On sequences the list operations are those of module Slab.              *)
(***************************************************************************)
THEOREM OnSequences == Spec => MovesOnePage
<1> DEFINE Does(p, from, to) ==
             /\ from # to /\ (from # None => p \in On(from))
             /\ \A list \in Lists :
                  PagesOn(list)' =
                    IF list = to THEN Append(PagesOn(list), p)
                    ELSE IF list = from THEN Without(PagesOn(list), p)
                    ELSE PagesOn(list)
           Moved == links' # links =>
                      \E p \in Pages : \E from, to \in Lists \cup {None} : Does(p, from, to)
<1>1. LinkInv /\ [Next]_vars => [Moved]_vars
  <2> SUFFICES ASSUME LinkInv, [Next]_vars, links' # links
               PROVE  \E p \in Pages : \E from, to \in Lists \cup {None} : Does(p, from, to)
    OBVIOUS
  <2>1. /\ Typed /\ WellLinked /\ Apart
        /\ Chain(links, count, Ways) /\ Ways = [l \in Lists |-> Ways[l]]
        /\ \A l \in Lists : Ways[l] = Walk(l)
    BY WaysChain DEF LinkInv, Ways
  <2>2. \A l \in Lists : PagesOn(l) = Read(count, Ways, l)
    BY <2>1 DEF PagesOn, Read
  <2>3. ChainFound'
    BY ChainIsFound, PTL
  <2>4. ASSUME NEW w, Chain(links', count', w), ~failed', NEW l \in Lists
        PROVE  PagesOn(l)' = Read(count', w, l)
    <3>1. \A i \in 1 .. count'[l] : Walk(l)'[i] = w[l][i]
      BY <2>3, <2>4 DEF ChainFound
    <3> QED  BY <3>1 DEF PagesOn, Read
  <2>5. ASSUME NEW p \in Pages, Appended(p, Empty) PROVE Does(p, None, Empty)
    <3>1. /\ Chain(links', count', Longer(count, Ways, Empty, p)) /\ ~failed'
          /\ count' = [count EXCEPT ![Empty] = @ + 1]
      BY <2>1, <2>5, AppendedChain, Names DEF Appended
    <3>2. \A l \in Lists : PagesOn(l)' = IF l = Empty THEN Append(PagesOn(l), p) ELSE PagesOn(l)
      <4> TAKE l \in Lists
      <4> DEFINE k1 == [count EXCEPT ![Empty] = @ + 1]
                 w1 == Longer(count, Ways, Empty, p)
      <4>1. PagesOn(l)' = Read(count', w1, l)
        BY <2>4, <3>1
      <4>2. Read(k1, w1, l) =
              IF l = Empty THEN With(Read(count, Ways, l), p) ELSE Read(count, Ways, l)
        BY <2>1, ReadLonger, Names
      <4>3. PagesOn(l) = Read(count, Ways, l)
        BY <2>2
      <4> HIDE DEF w1
      <4> QED  BY <3>1, <4>1, <4>2, <4>3 DEF With
    <3> QED  BY <3>2, Names
  <2>6. ASSUME NEW from \in Lists, NEW x \in 1 .. count[from], Leaves(from, x)
        PROVE  Walk(from)[x] \in Pages /\ Does(Walk(from)[x], from, None)
    <3> DEFINE p == Walk(from)[x]
               w1 == Shorter(count, Ways, from, x)
    <3>1. Chain(links', count', w1) /\ ~failed'
      BY <2>1, <2>6, LeavesChain
    <3>2. count' = [count EXCEPT ![from] = @ - 1]
      BY <2>6 DEF Leaves, Drop
    <3>3. p \in Pages /\ p = Ways[from][x]
      BY <2>1 DEF Chain, Circles
    <3>4. p \in On(from)
      BY DEF On
    <3>5. \A l \in Lists : PagesOn(l)' =
            IF l = from THEN Without(PagesOn(l), p) ELSE PagesOn(l)
      <4> TAKE l \in Lists
      <4>1. PagesOn(l)' = Read(count', w1, l)
        BY <2>4, <3>1
      <4>2. Read([count EXCEPT ![from] = @ - 1], w1, l) =
              IF l = from THEN Without(Read(count, Ways, l), Ways[from][x])
              ELSE Read(count, Ways, l)
        BY <2>1, ReadShorter
      <4>3. PagesOn(l) = Read(count, Ways, l)
        BY <2>2
      <4> HIDE DEF w1, p
      <4> QED  BY <3>2, <3>3, <4>1, <4>2, <4>3
    <3> HIDE DEF p
    <3>6. from # None /\ None \notin Lists
      BY Names
    <3> QED  BY <3>3, <3>4, <3>5, <3>6 DEF p
  <2>7. ASSUME NEW from \in Lists, NEW x \in 1 .. count[from], NEW to \in Lists, Moves(from, x, to)
        PROVE  Walk(from)[x] \in Pages /\ Does(Walk(from)[x], from, to)
    <3> DEFINE p == Walk(from)[x]
               k1 == [count EXCEPT ![from] = @ - 1]
               w1 == Shorter(count, Ways, from, x)
               m1 == Unlink(links, p)
    <3>1. from # to /\ count' = [k1 EXCEPT ![to] = @ + 1]
      <4>1. from # to /\ count \in [Lists -> Nat]
        BY <2>1, <2>7 DEF Moves, Typed
      <4> QED  BY <2>7, <4>1 DEF Moves, MoveTo
    <3>2. Chain(links', count', Longer(k1, w1, to, p)) /\ ~failed'
      BY <2>1, <2>7, MovesChain
    <3>3. Chain(m1, k1, w1) /\ p \in Pages
      BY <2>1, UnlinkChain
    <3>4. w1 = [l \in Lists |-> w1[l]]
      BY <2>1 DEF Shorter
    <3>5. \A l \in Lists : Read(k1, w1, l) =
            IF l = from THEN Without(PagesOn(l), p) ELSE PagesOn(l)
      <4> TAKE l \in Lists
      <4>1. Read(k1, w1, l) = IF l = from THEN Without(Read(count, Ways, l), Ways[from][x])
                              ELSE Read(count, Ways, l)
        BY <2>1, ReadShorter
      <4>2. PagesOn(l) = Read(count, Ways, l) /\ p = Ways[from][x]
        BY <2>1, <2>2
      <4> HIDE DEF p, k1, w1, m1
      <4> QED  BY <4>1, <4>2
    <3>6. p \in On(from)
      BY DEF On
    <3> HIDE DEF p, k1, w1, m1
    <3>7. \A l \in Lists : PagesOn(l)' =
            IF l = to THEN Append(Read(k1, w1, l), p) ELSE Read(k1, w1, l)
      <4> TAKE l \in Lists
      <4> DEFINE w2 == Longer(k1, w1, to, p)
      <4>1. PagesOn(l)' = Read(count', w2, l)
        BY <2>4, <3>2
      <4>2. Read([k1 EXCEPT ![to] = @ + 1], w2, l) =
              IF l = to THEN With(Read(k1, w1, l), p) ELSE Read(k1, w1, l)
        <5>1. Chain(m1, k1, w1) /\ w1 = [l2 \in Lists |-> w1[l2]]
          BY <3>3, <3>4
        <5> HIDE DEF w2
        <5>2. \A q \in Pages : Read([k1 EXCEPT ![to] = k1[to] + 1], Longer(k1, w1, to, q), l) =
                IF l = to THEN With(Read(k1, w1, l), q) ELSE Read(k1, w1, l)
          BY <5>1, ReadLonger
        <5> QED  BY <3>3, <5>2 DEF w2
      <4> HIDE DEF w2
      <4> QED  BY <3>1, <4>1, <4>2 DEF With
    <3>8. \A l \in Lists : PagesOn(l)' =
            IF l = to THEN Append(PagesOn(l), p)
            ELSE IF l = from THEN Without(PagesOn(l), p) ELSE PagesOn(l)
      BY <3>1, <3>5, <3>7
    <3> QED  BY <3>1, <3>3, <3>6, <3>8 DEF p
  <2> HIDE DEF Does
  <2>8. ~Still
    BY DEF Still
  <2>9. None \in Lists \cup {None} /\ \A l \in Lists : l \in Lists \cup {None}
    OBVIOUS
  <2>10. CASE \E p \in Pages : Appended(p, Empty)
    BY <2>5, <2>9, <2>10 DEF Lists
  <2>11. CASE \E from \in Lists : \E x \in 1 .. count[from] : Leaves(from, x)
    BY <2>6, <2>9, <2>11
  <2>12. CASE \E from, to \in Lists : \E x \in 1 .. count[from] : Moves(from, x, to)
    BY <2>7, <2>9, <2>12
  <2> QED  BY <2>1, <2>8, <2>10, <2>11, <2>12, StepKinds
<1> HIDE DEF Moved
<1>2. Spec => [][Moved]_vars
  BY <1>1, LinkInvariant, PTL DEF Spec
<1> QED  BY <1>2 DEF MovesOnePage, Moved

=============================================================================
