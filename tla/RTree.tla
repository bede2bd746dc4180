------------------------------- MODULE RTree --------------------------------
(***************************************************************************)
(* The two halves of an insertion into the R*-tree of tom_rtree.h that are *)
(* written: rtree_choose_subtree, which finds the leaf for a new box, and  *)
(* rtree_split, which divides the children of a full node.  rtree_insert   *)
(* does not call them yet, so each starts here from any tree or node that  *)
(* struct rtree describes.                                                 *)
(*                                                                         *)
(* A node of the tree is the path that leads to it, a sequence of indices  *)
(* of children.  A box is an interval <<min, max>> on each axis.           *)
(***************************************************************************)
EXTENDS Integers, Sequences, FiniteSetsExt, SequencesExt

CONSTANTS
  Dimension,    \* RTREE_DIMENSION
  Coords,       \* bound: the coordinates of boxes
  MinChildren, MaxChildren,
  Fanout,       \* bound: children of a node on the way to a leaf
  MaxHeight     \* bound: the height of the tree

ASSUME RTreeAssumption ==
  /\ Dimension \in Nat \ {0} /\ Coords \subseteq Int /\ IsFiniteSet(Coords)
  /\ MinChildren \in Nat \ {0} /\ MaxChildren \in Nat /\ 2 * MinChildren <= MaxChildren
  /\ Fanout \in 1 .. MaxChildren /\ MaxHeight \in Nat

Axes  == 1 .. Dimension
Boxes == [Axes -> {i \in Coords \X Coords : i[1] <= i[2]}]
Hi(a, b) == Max({a, b})
Lo(a, b) == Min({a, b})

BoxUnion(a, b) == [x \in Axes |-> <<Lo(a[x][1], b[x][1]), Hi(a[x][2], b[x][2])>>]
BoxesOverlap(a, b) == \A x \in Axes : a[x][2] > b[x][1] /\ b[x][2] > a[x][1]
IntersectionUnclamped(a, b) ==                            \* mutant
  [x \in Axes |-> <<Hi(a[x][1], b[x][1]), Lo(a[x][2], b[x][2])>>]
BoxIntersection(a, b) ==
  [x \in Axes |-> LET min == Hi(a[x][1], b[x][1]) IN <<min, Hi(min, Lo(a[x][2], b[x][2]))>>]

Extent(b) == [x \in Axes |-> b[x][2] - b[x][1]]
BoxMargin(b) == FoldLeft(LAMBDA m, x : m + Extent(b)[x], 0, [x \in Axes |-> x])
BoxArea(b)   == FoldLeft(LAMBDA m, x : m * Extent(b)[x], 1, [x \in Axes |-> x])

VARIABLES
  height, cover,   \* the tree: its height, and the box of each leaf
  newBox,
  at,              \* the node rtree_choose_subtree has come to
  node, other,     \* the node that is split, as children [box, child], and the new one
  axis, index,     \* where it is split
  pc
tree == <<height, cover, newBox>>
vars == <<tree, at, node, other, axis, index, pc>>

Level(n) == height - 1 - Len(n)
IsLeaf(n) == Level(n) = 0

\* The box of a node, as its parent keeps it.
BoxOf(n) ==
  LET below == {cover[l] : l \in {l \in DOMAIN cover : IsPrefix(n, l)}}
  IN  [x \in Axes |-> <<Min({b[x][1] : b \in below}), Max({b[x][2] : b \in below})>>]

Init ==
  /\ axis = 0 /\ index = 0 /\ other = <<>> /\ at = <<>>
  /\ \/ /\ pc = "choose"
        /\ height \in 0 .. MaxHeight /\ newBox \in Boxes
        /\ cover \in IF height = 0 THEN {<<>>}
                     ELSE [[1 .. height - 1 -> 1 .. Fanout] -> Boxes]
        /\ node = <<>>
     \/ /\ pc = "axis"
        /\ height = 0 /\ cover = <<>> /\ newBox = CHOOSE b \in Boxes : TRUE
        /\ \E n \in 2 * MinChildren .. MaxChildren : \E bs \in [1 .. n -> Boxes] :
             node = [i \in 1 .. n |-> [box |-> bs[i], child |-> i]]

-----------------------------------------------------------------------------
(* rtree_choose_subtree                                                    *)

NoRoot ==
  /\ pc = "choose" /\ height = 0
  /\ pc' = "null"
  /\ UNCHANGED <<tree, at, node, other, axis, index>>

CostOwnArea(n, i) == BoxArea(BoxOf(Append(n, i)))          \* mutant
Cost(n, i) == BoxArea(BoxUnion(BoxOf(Append(n, i)), newBox))

Descend ==
  /\ pc = "choose" /\ height > 0 /\ ~IsLeaf(at)
  /\ LET least == Min({Cost(at, i) : i \in 1 .. Fanout})
     IN  at' = Append(at, Min({i \in 1 .. Fanout : Cost(at, i) = least}))
  /\ UNCHANGED <<tree, node, other, axis, index, pc>>

Arrive ==
  /\ pc = "choose" /\ height > 0 /\ IsLeaf(at)
  /\ pc' = "leaf"
  /\ UNCHANGED <<tree, at, node, other, axis, index>>

-----------------------------------------------------------------------------
(* rtree_split                                                             *)

\* RTREE_SORT_INLINE: `_j > 0 && compare(...) > 0`, where compare is a chain of
\* conditionals without parentheses around it.  The chain is the condition,
\* _j > 0 guards its first comparison alone and > 0 compares its last 0: two
\* neighbours are exchanged if they differ, and behind the first of the array
\* the element before it is read.  So an element sinks until it stands behind the
\* last one that is like it.
Undefined == <<>>
Sink(x, order, j) ==
  LET alike == {i \in 1 .. j - 1 : node[order[i]].box[x] = node[order[j]].box[x]}
      to    == Max(alike) + 1
  IN  IF alike = {} THEN Undefined
      ELSE [i \in 1 .. Len(order) |-> IF i = to THEN order[j]
                                      ELSE IF i \in to + 1 .. j THEN order[i - 1]
                                      ELSE order[i]]

SortAlong(x) ==
  FoldLeft(LAMBDA order, i : IF order = Undefined THEN order ELSE Sink(x, order, i),
           [i \in 1 .. Len(node) |-> i], [i \in 1 .. Len(node) - 1 |-> i + 1])

\* All scores are 0.
ChooseSplitAxis ==
  /\ pc = "axis"
  /\ IF \E x \in Axes : SortAlong(x) = Undefined
     THEN pc' = "undefined" /\ UNCHANGED axis
     ELSE pc' = "index" /\ axis' = 1
  /\ UNCHANGED <<tree, at, node, other, index>>

UnionOf(from, to) ==
  FoldLeft(LAMBDA b, c : BoxUnion(b, c.box), node[from].box, SubSeq(node, from + 1, to))

\* costs[d], if d children stay: those of the others are measured without the
\* first, and the order is not used.
SplitCost(d) ==
  (IF d = 0 THEN 0 ELSE BoxMargin(UnionOf(1, d)))
    + (IF d >= Len(node) - 1 THEN 0 ELSE BoxMargin(UnionOf(d + 2, Len(node))))

ChooseSplitIndex ==
  /\ pc = "index"
  /\ LET candidates == {MinChildren} \cup MinChildren + 1 .. Len(node) - MinChildren - 1
         least == Min({SplitCost(d) : d \in candidates})
     IN  index' = Min({d \in candidates : SplitCost(d) = least})
  /\ pc' = "distribute"
  /\ UNCHANGED <<tree, at, node, other, axis>>

\* What moves to the new node if k children stay.
MovesOneLess(sorted, k) == SubSeq(sorted, k + 2, Len(sorted))   \* mutant
Moves(sorted, k) == SubSeq(sorted, k + 1, Len(sorted))

Distribute ==
  LET sorted == [i \in 1 .. Len(node) |-> node[SortAlong(axis)[i]]]
  IN  /\ pc = "distribute"
      /\ node' = SubSeq(sorted, 1, index) /\ other' = Moves(sorted, index)
      /\ pc' = "split"
      /\ UNCHANGED <<tree, at, axis, index>>

\* malloc fails.
NoNode ==
  /\ pc = "distribute"
  /\ pc' = "null"
  /\ UNCHANGED <<tree, at, node, other, axis, index>>

Next == NoRoot \/ Descend \/ Arrive \/ ChooseSplitAxis \/ ChooseSplitIndex \/ Distribute \/ NoNode
Spec == Init /\ [][Next]_vars

-----------------------------------------------------------------------------
Within(a, b) == \A x \in Axes : b[x][1] <= a[x][1] /\ a[x][2] <= b[x][2]
Flat(b) == \E x \in Axes : b[x][1] = b[x][2]

\* The measures of boxes agree with each other: a union covers both boxes and
\* has room for what they do not share, an intersection is never inside out, and
\* two boxes overlap just if it has an area (a flat box may overlap without).
BoxesMeasured ==
  pc = "choose" /\ height > 0 =>
    LET a == newBox  b == BoxOf(at)
        u == BoxUnion(a, b)  i == BoxIntersection(a, b)
    IN  /\ Within(a, u) /\ Within(b, u)
        /\ BoxMargin(a) <= BoxMargin(u) /\ 0 <= BoxMargin(i)
        /\ BoxArea(a) + BoxArea(b) - BoxArea(i) <= BoxArea(u)
        /\ BoxArea(i) > 0 => BoxesOverlap(a, b)
        /\ ~Flat(a) /\ ~Flat(b) /\ BoxesOverlap(a, b) => BoxArea(i) > 0

\* The way down ends at a leaf, as deep as the tree is high; and no sibling of a
\* node on it could take the new box within less than that node becomes, unless
\* they are flat, since all areas are 0 then and the first child is taken.
WayIsTight ==
  pc = "leaf" =>
  /\ at \in DOMAIN cover
  /\ \A k \in 1 .. Len(at) : \A i \in 1 .. Fanout :
       LET chosen  == BoxUnion(BoxOf(SubSeq(at, 1, k)), newBox)
           sibling == BoxUnion(BoxOf(Append(SubSeq(at, 1, k - 1), i)), newBox)
       IN  Within(sibling, chosen) /\ sibling # chosen => Flat(sibling) /\ Flat(chosen)

Children(c) == [i \in 1 .. Len(c) |-> c[i].child]

\* A split loses and duplicates no child, leaves both nodes the least number of
\* children, and changes nothing if there is no memory.  It is defined only if
\* all boxes are the same on every axis: else the sort reads before its array.
SplitKeepsChildren ==
  /\ pc = "undefined" => \E i, j \in 1 .. Len(node) : node[i].box # node[j].box
  /\ pc \in {"index", "distribute", "split", "null"} =>
       /\ \A i, j \in 1 .. Len(node) : node[i].box = node[j].box
       /\ LET all == Children(node) \o Children(other)
          IN  Range(all) = 1 .. Len(all)
  /\ pc = "split" =>
       /\ Len(node) >= MinChildren /\ Len(other) >= MinChildren
       /\ 2 * MinChildren <= Len(node) + Len(other)
=============================================================================
