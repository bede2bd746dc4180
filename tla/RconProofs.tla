----------------------------- MODULE RconProofs -----------------------------
(***************************************************************************)
(* Proofs about the RCON server, for every number of slots, every set of   *)
(* connections, packets and passwords and every size of the buffer: an     *)
(* inductive invariant and what follows from it.                           *)
(*                                                                         *)
(* They begin with what the operators of Rcon do to a sequence of packets: *)
(* how many units it has and which commands are in it, when a packet is    *)
(* appended or the first one is taken away, and what it is to be a suffix. *)
(* Units and Execs are folds, and a fold is a recursion over the set of    *)
(* indices that is left.  The first lemmas turn that recursion into one    *)
(* over the length.                                                        *)
(***************************************************************************)
EXTENDS Rcon, SequenceTheorems, FiniteSetTheorems, WellFoundedInduction, TLAPS

\* Induction over the natural numbers, for a set of them.
LEMMA Induct ==
  ASSUME NEW T \in SUBSET Nat, 0 \in T, \A n \in T : n + 1 \in T
  PROVE  T = Nat
<1> SUFFICES ASSUME Nat \ T # {} PROVE FALSE
  OBVIOUS
<1>1. PICK n \in Nat \ T : \A m \in Nat \ T : ~(<<m, n>> \in OpToRel(<, Nat))
  BY NatLessThanWellFounded, WFMin
<1>2. n # 0 /\ n - 1 \in Nat /\ (n - 1) + 1 = n
  OBVIOUS
<1>3. \A m \in Nat \ T : ~(m < n)
  BY <1>1 DEF OpToRel
<1>4. n - 1 \in T
  BY <1>2, <1>3
<1> QED  BY <1>2, <1>4

\* The highest index of a set.
Top(s) == CHOOSE x \in s : \A y \in s : x >= y

\* Without it the set has indices below it only.
LEMMA TopOff ==
  ASSUME NEW k \in Nat, NEW s \in SUBSET (1 .. k + 1)
  PROVE  /\ s \ {Top(s)} \in SUBSET (1 .. k)
         /\ k + 1 \in s => Top(s) = k + 1
<1>1. CASE k + 1 \in s
  <2>1. \A y \in s : k + 1 >= y
    OBVIOUS
  <2>2. Top(s) \in s /\ \A y \in s : Top(s) >= y
    BY <1>1, <2>1 DEF Top
  <2>3. Top(s) = k + 1
    <3>1. Top(s) >= k + 1 /\ Top(s) \in 1 .. k + 1
      BY <1>1, <2>2
    <3> HIDE DEF Top
    <3> QED  BY <3>1
  <2> QED  BY <2>3, <1>1
<1>2. CASE k + 1 \notin s
  <2>1. \A x \in s : x \in 1 .. k
    BY <1>2
  <2> QED  BY <1>2, <2>1
<1> QED  BY <1>1, <1>2

\* The recursion that Units is, on the first k packets of w.
UnitsOf(w, k, f) ==
  f = [s \in SUBSET (1 .. k) |-> IF s = {} THEN 0 ELSE f[s \ {Top(s)}] + w[Top(s)].units]

\* The definition by recursion over sets of indices has a solution.
LEMMA UnitsExists ==
  ASSUME NEW w, NEW n \in Nat
  PROVE  \E f : UnitsOf(w, n, f)
<1> DEFINE T == {k \in Nat : \E f : UnitsOf(w, k, f)}
<1>1. 0 \in T
  <2> DEFINE g == [s \in SUBSET (1 .. 0) |-> 0]
  <2>1. \A s \in SUBSET (1 .. 0) : s = {}
    OBVIOUS
  <2>2. UnitsOf(w, 0, g)
    BY <2>1 DEF UnitsOf
  <2> QED  BY <2>2
<1>2. ASSUME NEW k \in T PROVE k + 1 \in T
  <2>1. k \in Nat
    OBVIOUS
  <2>2. PICK f : UnitsOf(w, k, f)
    OBVIOUS
  <2> DEFINE g == [s \in SUBSET (1 .. k + 1) |->
                     IF s = {} THEN 0 ELSE f[s \ {Top(s)}] + w[Top(s)].units]
  <2>3. \A s \in SUBSET (1 .. k) : s \in SUBSET (1 .. k + 1)
    BY <2>1
  <2>4. \A s \in SUBSET (1 .. k) : g[s] = f[s]
    BY <2>2, <2>3 DEF UnitsOf
  <2>5. \A s \in SUBSET (1 .. k + 1) : g[s \ {Top(s)}] = f[s \ {Top(s)}]
    BY <2>1, <2>4, TopOff
  <2>6. UnitsOf(w, k + 1, g)
    <3> HIDE DEF g
    <3>1. g = [s \in SUBSET (1 .. k + 1) |->
                 IF s = {} THEN 0 ELSE f[s \ {Top(s)}] + w[Top(s)].units]
      BY DEF g
    <3> QED BY <2>5, <3>1 DEF UnitsOf
  <2> QED  BY <2>1, <2>6
<1> HIDE DEF T
<1>3. T = Nat
  BY <1>1, <1>2, Induct DEF T
<1> QED  BY <1>3 DEF T

\* The fold is that solution, at the set of all indices.
LEMMA UnitsUnfold ==
  ASSUME NEW S, NEW w \in Seq(S)
  PROVE  \E f : UnitsOf(w, Len(w), f) /\ Units(w) = f[1 .. Len(w)]
<1> DEFINE it == CHOOSE f : UnitsOf(w, Len(w), f)
<1>1. Units(w) = it[1 .. Len(w)]
  <2>1. DOMAIN w = 1 .. Len(w)
    OBVIOUS
  <2> QED  BY <2>1 DEF Units, FoldLeft, MapThenFoldSet, Max, UnitsOf, Top
<1>2. UnitsOf(w, Len(w), it)
  BY UnitsExists
<1> QED  BY <1>1, <1>2

\* It takes one element at a time, from the first one on.
LEMMA UnitsStep ==
  ASSUME NEW w, NEW k \in Nat, NEW f, UnitsOf(w, k, f)
  PROVE  /\ f[{}] = 0
         /\ \A j \in Nat : j < k => f[1 .. j + 1] = f[1 .. j] + w[j + 1].units
<1>1. f[{}] = 0
  BY DEF UnitsOf
<1>2. ASSUME NEW j \in Nat, j < k
      PROVE  f[1 .. j + 1] = f[1 .. j] + w[j + 1].units
  <2>1. 1 .. j + 1 \in SUBSET (1 .. k) /\ 1 .. j + 1 # {} /\ j + 1 \in 1 .. j + 1
    BY <1>2
  <2>2. Top(1 .. j + 1) = j + 1
    BY <2>1, TopOff
  <2>3. (1 .. j + 1) \ {j + 1} = 1 .. j
    OBVIOUS
  <2>4. f[1 .. j + 1] = f[(1 .. j + 1) \ {j + 1}] + w[j + 1].units
    BY <2>1, <2>2 DEF UnitsOf
  <2> QED  BY <2>3, <2>4
<1> QED  BY <1>1, <1>2

\* Sequences with a common start have the same value there.
LEMMA UnitsAgree ==
  ASSUME NEW w, NEW k \in Nat, NEW f, UnitsOf(w, k, f),
         NEW v, NEW m \in Nat, NEW g, UnitsOf(v, m, g),
         NEW n \in Nat, n <= k, n <= m, \A i \in 1 .. n : w[i] = v[i]
  PROVE  f[1 .. n] = g[1 .. n]
<1> DEFINE T == {j \in Nat : j <= n => f[1 .. j] = g[1 .. j]}
<1>1. 0 \in T
  <2>1. 1 .. 0 = {}
    OBVIOUS
  <2> QED  BY <2>1, UnitsStep
<1>2. ASSUME NEW j \in T PROVE j + 1 \in T
  <2>1. CASE j + 1 <= n
    <3>1. f[1 .. j] = g[1 .. j] /\ j < k /\ j < m /\ j + 1 \in 1 .. n
      BY <2>1
    <3>2. f[1 .. j + 1] = f[1 .. j] + w[j + 1].units
      BY <3>1, UnitsStep
    <3>3. g[1 .. j + 1] = g[1 .. j] + v[j + 1].units
      BY <3>1, UnitsStep
    <3> QED  BY <3>1, <3>2, <3>3
  <2> QED  BY <2>1
<1>3. T = Nat
  <2> HIDE DEF T
  <2> QED  BY <1>1, <1>2, Induct DEF T
<1> QED  BY <1>3

\* The recursion that Execs is, on the first k packets of w.
ExecsOf(w, k, f) ==
  f = [s \in SUBSET (1 .. k) |-> IF s = {} THEN <<>> ELSE IF w[Top(s)].kind = "exec"
                     THEN Append(f[s \ {Top(s)}], w[Top(s)])
                     ELSE f[s \ {Top(s)}]]

\* The definition by recursion over sets of indices has a solution.
LEMMA ExecsExists ==
  ASSUME NEW w, NEW n \in Nat
  PROVE  \E f : ExecsOf(w, n, f)
<1> DEFINE T == {k \in Nat : \E f : ExecsOf(w, k, f)}
<1>1. 0 \in T
  <2> DEFINE g == [s \in SUBSET (1 .. 0) |-> <<>>]
  <2>1. \A s \in SUBSET (1 .. 0) : s = {}
    OBVIOUS
  <2>2. ExecsOf(w, 0, g)
    BY <2>1 DEF ExecsOf
  <2> QED  BY <2>2
<1>2. ASSUME NEW k \in T PROVE k + 1 \in T
  <2>1. k \in Nat
    OBVIOUS
  <2>2. PICK f : ExecsOf(w, k, f)
    OBVIOUS
  <2> DEFINE g == [s \in SUBSET (1 .. k + 1) |->
                     IF s = {} THEN <<>> ELSE IF w[Top(s)].kind = "exec"
                     THEN Append(f[s \ {Top(s)}], w[Top(s)])
                     ELSE f[s \ {Top(s)}]]
  <2>3. \A s \in SUBSET (1 .. k) : s \in SUBSET (1 .. k + 1)
    BY <2>1
  <2>4. \A s \in SUBSET (1 .. k) : g[s] = f[s]
    BY <2>2, <2>3 DEF ExecsOf
  <2>5. \A s \in SUBSET (1 .. k + 1) : g[s \ {Top(s)}] = f[s \ {Top(s)}]
    BY <2>1, <2>4, TopOff
  <2>6. ExecsOf(w, k + 1, g)
    <3> HIDE DEF g
    <3>1. g = [s \in SUBSET (1 .. k + 1) |->
                 IF s = {} THEN <<>> ELSE IF w[Top(s)].kind = "exec"
                     THEN Append(f[s \ {Top(s)}], w[Top(s)])
                     ELSE f[s \ {Top(s)}]]
      BY DEF g
    <3> QED BY <2>5, <3>1 DEF ExecsOf
  <2> QED  BY <2>1, <2>6
<1> HIDE DEF T
<1>3. T = Nat
  BY <1>1, <1>2, Induct DEF T
<1> QED  BY <1>3 DEF T

\* The fold is that solution, at the set of all indices.
LEMMA ExecsUnfold ==
  ASSUME NEW S, NEW w \in Seq(S)
  PROVE  \E f : ExecsOf(w, Len(w), f) /\ Execs(w) = f[1 .. Len(w)]
<1> DEFINE it == CHOOSE f : ExecsOf(w, Len(w), f)
<1>1. Execs(w) = it[1 .. Len(w)]
  <2>1. DOMAIN w = 1 .. Len(w)
    OBVIOUS
  <2> QED  BY <2>1 DEF Execs, FoldLeft, MapThenFoldSet, Max, ExecsOf, Top
<1>2. ExecsOf(w, Len(w), it)
  BY ExecsExists
<1> QED  BY <1>1, <1>2

\* It takes one element at a time, from the first one on.
LEMMA ExecsStep ==
  ASSUME NEW w, NEW k \in Nat, NEW f, ExecsOf(w, k, f)
  PROVE  /\ f[{}] = <<>>
         /\ \A j \in Nat : j < k => f[1 .. j + 1] = IF w[j + 1].kind = "exec" THEN Append(f[1 .. j], w[j + 1]) ELSE f[1 .. j]
<1>1. f[{}] = <<>>
  BY DEF ExecsOf
<1>2. ASSUME NEW j \in Nat, j < k
      PROVE  f[1 .. j + 1] = IF w[j + 1].kind = "exec" THEN Append(f[1 .. j], w[j + 1]) ELSE f[1 .. j]
  <2>1. 1 .. j + 1 \in SUBSET (1 .. k) /\ 1 .. j + 1 # {} /\ j + 1 \in 1 .. j + 1
    BY <1>2
  <2>2. Top(1 .. j + 1) = j + 1
    BY <2>1, TopOff
  <2>3. (1 .. j + 1) \ {j + 1} = 1 .. j
    OBVIOUS
  <2>4. f[1 .. j + 1] = IF w[j + 1].kind = "exec" THEN Append(f[(1 .. j + 1) \ {j + 1}], w[j + 1]) ELSE f[(1 .. j + 1) \ {j + 1}]
    BY <2>1, <2>2 DEF ExecsOf
  <2> QED  BY <2>3, <2>4
<1> QED  BY <1>1, <1>2

\* Sequences with a common start have the same value there.
LEMMA ExecsAgree ==
  ASSUME NEW w, NEW k \in Nat, NEW f, ExecsOf(w, k, f),
         NEW v, NEW m \in Nat, NEW g, ExecsOf(v, m, g),
         NEW n \in Nat, n <= k, n <= m, \A i \in 1 .. n : w[i] = v[i]
  PROVE  f[1 .. n] = g[1 .. n]
<1> DEFINE T == {j \in Nat : j <= n => f[1 .. j] = g[1 .. j]}
<1>1. 0 \in T
  <2>1. 1 .. 0 = {}
    OBVIOUS
  <2>2. f[{}] = <<>> /\ g[{}] = <<>>
    BY DEF ExecsOf
  <2> QED  BY <2>1, <2>2
<1>2. ASSUME NEW j \in T PROVE j + 1 \in T
  <2>1. CASE j + 1 <= n
    <3>1. f[1 .. j] = g[1 .. j] /\ j < k /\ j < m /\ j + 1 \in 1 .. n
      BY <2>1
    <3>2. f[1 .. j + 1] = IF w[j + 1].kind = "exec" THEN Append(f[1 .. j], w[j + 1]) ELSE f[1 .. j]
      BY <3>1, ExecsStep
    <3>3. g[1 .. j + 1] = IF v[j + 1].kind = "exec" THEN Append(g[1 .. j], v[j + 1]) ELSE g[1 .. j]
      BY <3>1, ExecsStep
    <3> QED  BY <3>1, <3>2, <3>3
  <2> QED  BY <2>1
<1>3. T = Nat
  <2> HIDE DEF T
  <2> QED  BY <1>1, <1>2, Induct DEF T
<1> QED  BY <1>3

-----------------------------------------------------------------------------
\* A packet has at least one unit.
LEMMA PacketUnits ==
  ASSUME NEW p \in Packets
  PROVE  p.units \in Nat \ {0}
BY RconAssumption DEF PacketType

\* The units of a sequence of packets are a number.
LEMMA UnitsType ==
  ASSUME NEW w \in Seq(Packets)
  PROVE  Units(w) \in Nat
<1>1. PICK f : UnitsOf(w, Len(w), f) /\ Units(w) = f[1 .. Len(w)]
  BY UnitsUnfold
<1>2. Len(w) \in Nat /\ \A i \in 1 .. Len(w) : w[i] \in Packets
  OBVIOUS
<1> DEFINE T == {j \in Nat : j <= Len(w) => f[1 .. j] \in Nat}
<1>3. 0 \in T
  <2>1. 1 .. 0 = {}
    OBVIOUS
  <2> QED  BY <2>1, <1>1, <1>2, UnitsStep
<1>4. ASSUME NEW j \in T PROVE j + 1 \in T
  <2>1. CASE j + 1 <= Len(w)
    <3>1. f[1 .. j] \in Nat /\ j \in Nat /\ j < Len(w) /\ w[j + 1].units \in Nat
      BY <2>1, <1>2, PacketUnits
    <3>2. f[1 .. j + 1] = f[1 .. j] + w[j + 1].units
      BY <3>1, <1>1, <1>2, UnitsStep
    <3> QED  BY <3>1, <3>2
  <2> QED  BY <2>1
<1>5. T = Nat
  <2> HIDE DEF T
  <2> QED  BY <1>3, <1>4, Induct DEF T
<1> QED  BY <1>1, <1>2, <1>5

\* A sequence without packets has no units.
LEMMA UnitsEmpty == Units(<<>>) = 0
<1>1. <<>> \in Seq(Packets) /\ Len(<<>>) = 0 /\ 1 .. 0 = {}
  OBVIOUS
<1>2. PICK f : UnitsOf(<<>>, 0, f) /\ Units(<<>>) = f[{}]
  BY <1>1, UnitsUnfold
<1> QED  BY <1>2, UnitsStep

\* A packet that arrives adds its units.
LEMMA UnitsAppend ==
  ASSUME NEW w \in Seq(Packets), NEW p \in Packets
  PROVE  Units(Append(w, p)) = Units(w) + p.units
<1> DEFINE v == Append(w, p)
           n == Len(w)
<1>1. /\ v \in Seq(Packets) /\ n \in Nat /\ Len(v) = n + 1 /\ v[n + 1] = p
      /\ \A i \in 1 .. n : w[i] = v[i]
  OBVIOUS
<1> HIDE DEF v
<1>2. PICK f : UnitsOf(w, n, f) /\ Units(w) = f[1 .. n]
  BY UnitsUnfold
<1>3. PICK g : UnitsOf(v, n + 1, g) /\ Units(v) = g[1 .. n + 1]
  BY <1>1, UnitsUnfold
<1>4. g[1 .. n + 1] = g[1 .. n] + v[n + 1].units
  BY <1>1, <1>3, UnitsStep
<1>5. f[1 .. n] = g[1 .. n]
  <2>1. n + 1 \in Nat /\ n <= n /\ n <= n + 1
    BY <1>1
  <2> HIDE DEF n
  <2> QED  BY <2>1, <1>1, <1>2, <1>3, UnitsAgree
<1>6. Units(v) = Units(w) + p.units
  BY <1>1, <1>2, <1>3, <1>4, <1>5
<1> QED  BY <1>6 DEF v

\* The first packet takes its units with it.
LEMMA UnitsTail ==
  ASSUME NEW w \in Seq(Packets), w # <<>>
  PROVE  Units(w) = Head(w).units + Units(Tail(w))
<1> DEFINE v == Tail(w)
           n == Len(w)
<1>1. /\ v \in Seq(Packets) /\ n \in Nat \ {0} /\ Len(v) = n - 1 /\ Len(v) \in Nat
      /\ Head(w) = w[1] /\ \A i \in 1 .. n - 1 : v[i] = w[i + 1]
      /\ \A i \in 1 .. n : w[i] \in Packets
  OBVIOUS
<1> HIDE DEF v, n
<1>2. PICK f : UnitsOf(w, n, f) /\ Units(w) = f[1 .. n]
  BY UnitsUnfold DEF n
<1>3. PICK g : UnitsOf(v, n - 1, g) /\ Units(v) = g[1 .. n - 1]
  BY <1>1, UnitsUnfold
<1>4. /\ f[{}] = 0 /\ g[{}] = 0
      /\ \A j \in Nat : j < n => f[1 .. j + 1] = f[1 .. j] + w[j + 1].units
      /\ \A j \in Nat : j < n - 1 => g[1 .. j + 1] = g[1 .. j] + v[j + 1].units
  <2>1. n \in Nat /\ n - 1 \in Nat
    BY <1>1
  <2>2. f[{}] = 0 /\ \A j \in Nat : j < n => f[1 .. j + 1] = f[1 .. j] + w[j + 1].units
    BY <2>1, <1>2, UnitsStep
  <2>3. g[{}] = 0 /\ \A j \in Nat : j < n - 1 => g[1 .. j + 1] = g[1 .. j] + v[j + 1].units
    <3> DEFINE m == n - 1
    <3> HIDE DEF m
    <3>1. m \in Nat /\ UnitsOf(v, m, g)
      BY <2>1, <1>3 DEF m
    <3>2. g[{}] = 0 /\ \A j \in Nat : j < m => g[1 .. j + 1] = g[1 .. j] + v[j + 1].units
      BY <3>1, UnitsStep
    <3> QED  BY <3>2 DEF m
  <2> QED  BY <2>2, <2>3
<1>5. \A i \in 1 .. n : w[i].units \in Nat
  BY <1>1, PacketUnits
<1> DEFINE T == {j \in Nat : j <= n - 1 =>
                   g[1 .. j] \in Nat /\ f[1 .. j + 1] = w[1].units + g[1 .. j]}
<1>6. 0 \in T
  <2>1. 1 .. 0 = {} /\ 0 < n /\ 0 + 1 = 1 /\ 1 \in 1 .. n
    BY <1>1
  <2>2. f[1 .. 0 + 1] = f[1 .. 0] + w[0 + 1].units
    BY <2>1, <1>4
  <2>3. f[1 .. 0 + 1] = w[1].units + g[1 .. 0] /\ g[1 .. 0] \in Nat
    BY <2>1, <2>2, <1>4, <1>5
  <2> QED  BY <2>3
<1>7. ASSUME NEW j \in T PROVE j + 1 \in T
  <2>1. CASE j + 1 <= n - 1
    <3>1. /\ j \in Nat /\ j + 1 \in Nat /\ j < n - 1 /\ j + 1 < n
          /\ g[1 .. j] \in Nat /\ f[1 .. j + 1] = w[1].units + g[1 .. j]
      BY <2>1, <1>1
    <3>2. f[1 .. (j + 1) + 1] = f[1 .. j + 1] + w[(j + 1) + 1].units
      BY <3>1, <1>4
    <3>3. g[1 .. j + 1] = g[1 .. j] + v[j + 1].units
      BY <3>1, <1>4
    <3>4. /\ v[j + 1] = w[(j + 1) + 1] /\ w[(j + 1) + 1].units \in Nat
          /\ w[1].units \in Nat
      BY <3>1, <1>1, <1>5
    <3>5. g[1 .. j + 1] \in Nat /\ f[1 .. (j + 1) + 1] = w[1].units + g[1 .. j + 1]
      BY <3>1, <3>2, <3>3, <3>4, SMTT(30)
    <3> QED  BY <3>1, <3>5
  <2> QED  BY <2>1
<1>8. T = Nat
  <2> HIDE DEF T
  <2> QED  BY <1>6, <1>7, Induct DEF T
<1>9. f[1 .. (n - 1) + 1] = w[1].units + g[1 .. n - 1]
  BY <1>1, <1>8
<1> QED
  <2>1. (n - 1) + 1 = n
    BY <1>1
  <2>2. f[1 .. n] = w[1].units + g[1 .. n - 1]
    BY <2>1, <1>9
  <2> QED  BY <2>2, <1>1, <1>2, <1>3 DEF v

\* A sequence without packets has no commands.
LEMMA ExecsEmpty == Execs(<<>>) = <<>>
<1>1. <<>> \in Seq(Packets) /\ Len(<<>>) = 0 /\ 1 .. 0 = {}
  OBVIOUS
<1>2. PICK f : ExecsOf(<<>>, 0, f) /\ Execs(<<>>) = f[{}]
  BY <1>1, ExecsUnfold
<1> QED  BY <1>2, ExecsStep

\* A command comes after those before it, and no other packet counts.
LEMMA ExecsAppend ==
  ASSUME NEW w \in Seq(Packets), NEW p \in Packets
  PROVE  Execs(Append(w, p)) = IF p.kind = "exec" THEN Append(Execs(w), p) ELSE Execs(w)
<1> DEFINE v == Append(w, p)
           n == Len(w)
<1>1. /\ v \in Seq(Packets) /\ n \in Nat /\ Len(v) = n + 1 /\ v[n + 1] = p
      /\ \A i \in 1 .. n : w[i] = v[i]
  OBVIOUS
<1> HIDE DEF v
<1>2. PICK f : ExecsOf(w, n, f) /\ Execs(w) = f[1 .. n]
  BY ExecsUnfold
<1>3. PICK g : ExecsOf(v, n + 1, g) /\ Execs(v) = g[1 .. n + 1]
  BY <1>1, ExecsUnfold
<1>4. g[1 .. n + 1] = IF v[n + 1].kind = "exec" THEN Append(g[1 .. n], v[n + 1]) ELSE g[1 .. n]
  BY <1>1, <1>3, ExecsStep
<1>5. f[1 .. n] = g[1 .. n]
  <2>1. n + 1 \in Nat /\ n <= n /\ n <= n + 1
    BY <1>1
  <2> HIDE DEF n
  <2> QED  BY <2>1, <1>1, <1>2, <1>3, ExecsAgree
<1>6. Execs(v) = IF p.kind = "exec" THEN Append(Execs(w), p) ELSE Execs(w)
  BY <1>1, <1>2, <1>3, <1>4, <1>5
<1> QED  BY <1>6 DEF v

-----------------------------------------------------------------------------
\* A suffix, index by index.
LEMMA SuffixIs ==
  ASSUME NEW w \in Seq(Packets), NEW t \in Seq(Packets)
  PROVE  IsSuffix(w, t) <=>
           /\ Len(w) <= Len(t)
           /\ \A i \in 1 .. Len(w) : w[i] = t[i + (Len(t) - Len(w))]
<1> DEFINE m == Len(w)
           n == Len(t)
           a == Reverse(w)
           b == Reverse(t)
<1>1. /\ m \in Nat /\ n \in Nat /\ a \in Seq(Packets) /\ b \in Seq(Packets)
      /\ Len(a) = m /\ Len(b) = n
      /\ \A i \in 1 .. m : a[i] = w[(m - i) + 1]
      /\ \A i \in 1 .. n : b[i] = t[(n - i) + 1]
  BY DEF Reverse
<1>2. IsSuffix(w, t) <=> m <= n /\ SubSeq(a, 1, m) = SubSeq(b, 1, m)
  BY <1>1 DEF IsSuffix, IsPrefix
<1> HIDE DEF a, b
<1>3. ASSUME m <= n
      PROVE  SubSeq(a, 1, m) = SubSeq(b, 1, m) <=> \A i \in 1 .. m : a[i] = b[i]
  <2>1. /\ SubSeq(a, 1, m) \in Seq(Packets) /\ Len(SubSeq(a, 1, m)) = m
        /\ \A i \in 1 .. m : SubSeq(a, 1, m)[i] = a[i]
    BY <1>1
  <2>2. /\ SubSeq(b, 1, m) \in Seq(Packets) /\ Len(SubSeq(b, 1, m)) = m
        /\ \A i \in 1 .. m : SubSeq(b, 1, m)[i] = b[i]
    BY <1>1, <1>3
  <2> QED  BY <2>1, <2>2, SeqEqual
<1>4. ASSUME m <= n
      PROVE  (\A i \in 1 .. m : a[i] = b[i]) <=> \A i \in 1 .. m : w[i] = t[i + (n - m)]
  <2>1. ASSUME \A i \in 1 .. m : a[i] = b[i], NEW i \in 1 .. m
        PROVE  w[i] = t[i + (n - m)]
    <3> DEFINE j == (m - i) + 1
    <3>1. /\ j \in 1 .. m /\ j \in 1 .. n /\ (m - j) + 1 = i
          /\ (n - j) + 1 = i + (n - m)
      BY <1>1, <1>4
    <3> HIDE DEF j
    <3> QED  BY <3>1, <2>1, <1>1
  <2>2. ASSUME \A i \in 1 .. m : w[i] = t[i + (n - m)], NEW i \in 1 .. m
        PROVE  a[i] = b[i]
    <3> DEFINE j == (m - i) + 1
    <3>1. /\ j \in 1 .. m /\ i \in 1 .. n /\ (n - i) + 1 = j + (n - m)
      BY <1>1, <1>4
    <3> HIDE DEF j
    <3>2. a[i] = w[j]
      BY <1>1 DEF j
    <3>3. b[i] = t[j + (n - m)]
      BY <3>1, <1>1
    <3> QED  BY <3>1, <3>2, <3>3, <2>1, <2>2
  <2> QED  BY <2>1, <2>2
<1> QED  BY <1>2, <1>3, <1>4

\* A sequence is a suffix of itself, and stays one when both grow or when it
\* loses its first packet, which is the next one of the other.
LEMMA SuffixSame ==
  ASSUME NEW w \in Seq(Packets)
  PROVE  IsSuffix(w, w)
<1>1. Len(w) <= Len(w) /\ \A i \in 1 .. Len(w) : w[i] = w[i + (Len(w) - Len(w))]
  OBVIOUS
<1> QED  BY <1>1, SuffixIs

LEMMA SuffixAppend ==
  ASSUME NEW w \in Seq(Packets), NEW t \in Seq(Packets), IsSuffix(w, t), NEW p \in Packets
  PROVE  IsSuffix(Append(w, p), Append(t, p))
<1> DEFINE m == Len(w)
           n == Len(t)
           v == Append(w, p)
           u == Append(t, p)
<1>1. m \in Nat /\ n \in Nat /\ m <= n /\ \A i \in 1 .. m : w[i] = t[i + (n - m)]
  BY SuffixIs
<1>2. /\ v \in Seq(Packets) /\ Len(v) = m + 1 /\ v[m + 1] = p
      /\ \A i \in 1 .. m : v[i] = w[i]
      /\ u \in Seq(Packets) /\ Len(u) = n + 1 /\ u[n + 1] = p
      /\ \A i \in 1 .. n : u[i] = t[i]
  OBVIOUS
<1> HIDE DEF m, n, v, u
<1>3. ASSUME NEW i \in 1 .. m + 1
      PROVE  v[i] = u[i + ((n + 1) - (m + 1))]
  <2>1. CASE i = m + 1
    <3>1. i + ((n + 1) - (m + 1)) = n + 1
      BY <2>1, <1>1
    <3> QED  BY <2>1, <3>1, <1>2
  <2>2. CASE i # m + 1
    <3>1. i \in 1 .. m /\ i + ((n + 1) - (m + 1)) = i + (n - m) /\ i + (n - m) \in 1 .. n
      BY <2>2, <1>1
    <3> QED  BY <3>1, <1>1, <1>2
  <2> QED  BY <2>1, <2>2
<1>4. Len(v) <= Len(u) /\ \A i \in 1 .. Len(v) : v[i] = u[i + (Len(u) - Len(v))]
  BY <1>1, <1>2, <1>3
<1>5. IsSuffix(v, u)
  BY <1>2, <1>4, SuffixIs
<1> QED  BY <1>5 DEF v, u

LEMMA SuffixTail ==
  ASSUME NEW w \in Seq(Packets), w # <<>>, NEW t \in Seq(Packets), IsSuffix(w, t)
  PROVE  /\ IsSuffix(Tail(w), t)
         /\ (Len(t) - Len(w)) + 1 \in 1 .. Len(t)
         /\ t[(Len(t) - Len(w)) + 1] = Head(w)
         /\ Len(Tail(w)) = Len(w) - 1
<1> DEFINE m == Len(w)
           n == Len(t)
           v == Tail(w)
<1>1. m \in Nat \ {0} /\ n \in Nat /\ m <= n /\ \A i \in 1 .. m : w[i] = t[i + (n - m)]
  BY SuffixIs
<1>2. /\ v \in Seq(Packets) /\ Len(v) = m - 1 /\ Head(w) = w[1]
      /\ \A i \in 1 .. m - 1 : v[i] = w[i + 1]
  OBVIOUS
<1> HIDE DEF m, n, v
<1>3. ASSUME NEW i \in 1 .. m - 1
      PROVE  v[i] = t[i + (n - (m - 1))]
  <2>1. i + 1 \in 1 .. m /\ (i + 1) + (n - m) = i + (n - (m - 1))
    BY <1>1
  <2> QED  BY <2>1, <1>1, <1>2
<1>4. IsSuffix(v, t)
  <2>1. Len(v) <= n /\ \A i \in 1 .. Len(v) : v[i] = t[i + (n - Len(v))]
    BY <1>1, <1>2, <1>3
  <2> QED  BY <2>1, <1>2, SuffixIs DEF n
<1>5. 1 \in 1 .. m /\ 1 + (n - m) = (n - m) + 1 /\ (n - m) + 1 \in 1 .. n
  BY <1>1
<1>6. t[(n - m) + 1] = Head(w)
  BY <1>5, <1>1, <1>2
<1> QED  BY <1>2, <1>4, <1>5, <1>6 DEF m, n, v

-----------------------------------------------------------------------------
\* The queue of the listener, where no connection is twice.
LEMMA RangeAppend ==
  ASSUME NEW b \in Seq(Conns), IsInjective(b), NEW c \in Conns, c \notin Range(b)
  PROVE  /\ Append(b, c) \in Seq(Conns) /\ IsInjective(Append(b, c))
         /\ Range(Append(b, c)) = Range(b) \cup {c}
         /\ Append(b, c) # <<>>
<1> DEFINE n == Len(b)
           d == Append(b, c)
<1>1. /\ n \in Nat /\ d \in Seq(Conns) /\ DOMAIN b = 1 .. n /\ DOMAIN d = 1 .. n + 1
      /\ d[n + 1] = c /\ \A i \in 1 .. n : d[i] = b[i]
      /\ d # <<>>
  OBVIOUS
<1> HIDE DEF n, d
<1>2. \A i \in 1 .. n : b[i] # c
  BY <1>1 DEF Range
<1>3. IsInjective(d)
  <2>1. ASSUME NEW i \in 1 .. n + 1, NEW j \in 1 .. n + 1, d[i] = d[j]
        PROVE  i = j
    <3>1. CASE i \in 1 .. n /\ j \in 1 .. n
      BY <3>1, <2>1, <1>1 DEF IsInjective
    <3>2. CASE i = n + 1 \/ j = n + 1
      BY <3>2, <2>1, <1>1, <1>2
    <3> QED  BY <3>1, <3>2, <1>1
  <2> QED  BY <1>1, <2>1 DEF IsInjective
<1>4. Range(d) = Range(b) \cup {c}
  <2>1. 1 .. n + 1 = (1 .. n) \cup {n + 1}
    BY <1>1
  <2> QED  BY <2>1, <1>1 DEF Range
<1> QED  BY <1>1, <1>3, <1>4 DEF d

LEMMA RangeTail ==
  ASSUME NEW b \in Seq(Conns), IsInjective(b), b # <<>>
  PROVE  /\ Tail(b) \in Seq(Conns) /\ IsInjective(Tail(b))
         /\ Head(b) \in Range(b) /\ Head(b) \in Conns
         /\ Range(Tail(b)) = Range(b) \ {Head(b)}
<1> DEFINE n == Len(b)
           d == Tail(b)
<1>1. /\ n \in Nat \ {0} /\ d \in Seq(Conns) /\ DOMAIN b = 1 .. n /\ DOMAIN d = 1 .. n - 1
      /\ Head(b) = b[1] /\ b[1] \in Conns /\ 1 \in 1 .. n
      /\ \A i \in 1 .. n - 1 : d[i] = b[i + 1]
  OBVIOUS
<1> HIDE DEF n, d
<1>2. \A i \in 1 .. n - 1 : i + 1 \in 1 .. n /\ i + 1 # 1
  BY <1>1
<1>3. IsInjective(d)
  <2>1. ASSUME NEW i \in 1 .. n - 1, NEW j \in 1 .. n - 1, d[i] = d[j]
        PROVE  i = j
    <3>1. b[i + 1] = b[j + 1] /\ i + 1 \in DOMAIN b /\ j + 1 \in DOMAIN b
      BY <2>1, <1>1, <1>2
    <3>2. i + 1 = j + 1
      BY <3>1 DEF IsInjective
    <3> QED  BY <3>2
  <2> QED  BY <1>1, <2>1 DEF IsInjective
<1>4. Range(d) = Range(b) \ {b[1]}
  <2>1. ASSUME NEW i \in 1 .. n - 1
        PROVE  d[i] \in Range(b) \ {b[1]}
    BY <1>1, <1>2, SMTT(30) DEF Range, IsInjective
  <2>2. ASSUME NEW i \in 1 .. n, b[i] # b[1]
        PROVE  b[i] \in Range(d)
    <3>1. i # 1
      BY <2>2
    <3>2. i - 1 \in 1 .. n - 1 /\ (i - 1) + 1 = i
      BY <3>1, <1>1
    <3> QED  BY <3>2, <1>1 DEF Range
  <2> QED  BY <2>1, <2>2, <1>1 DEF Range
<1>5. b[1] \in Range(b)
  BY <1>1 DEF Range
<1> QED  BY <1>1, <1>3, <1>4, <1>5 DEF d

\* No connection waits in an empty queue.
LEMMA RangeEmpty == Range(<<>>) = {} /\ IsInjective(<<>>) /\ <<>> \in Seq(Conns)
BY DEF Range, IsInjective

\* The lowest of the slots that are free is one of them.
LEMMA LowestFree ==
  ASSUME NEW S \in SUBSET Slots, S # {}
  PROVE  Min(S) \in S
<1>1. S \in SUBSET Nat
  BY RconAssumption DEF Slots
<1>2. PICK n \in S : \A m \in S : ~(<<m, n>> \in OpToRel(<, Nat))
  BY <1>1, NatLessThanWellFounded, WFMin
<1>3. \A m \in S : n <= m
  <2>1. \A m \in S : ~(m < n)
    BY <1>1, <1>2 DEF OpToRel
  <2> QED  BY <2>1, <1>1
<1> QED  BY <1>3 DEF Min

-----------------------------------------------------------------------------
\* The first k packets of a sequence, when one more is taken, and when the
\* sequence grows.
LEMMA FirstPackets ==
  ASSUME NEW t \in Seq(Packets), NEW k \in 0 .. Len(t)
  PROVE  /\ SubSeq(t, 1, k) \in Seq(Packets)
         /\ k < Len(t) => SubSeq(t, 1, k + 1) = Append(SubSeq(t, 1, k), t[k + 1])
         /\ \A p \in Packets : SubSeq(Append(t, p), 1, k) = SubSeq(t, 1, k)
         /\ SubSeq(t, 1, 0) = <<>>
<1> DEFINE n == Len(t)
           a == SubSeq(t, 1, k)
<1>1. n \in Nat /\ k \in Nat /\ k <= n /\ \A i \in 1 .. n : t[i] \in Packets
  OBVIOUS
<1>2. a \in Seq(Packets) /\ Len(a) = k /\ \A i \in 1 .. k : a[i] = t[i]
  BY <1>1
<1>3. SubSeq(t, 1, 0) = <<>>
  OBVIOUS
<1>4. ASSUME k < n PROVE SubSeq(t, 1, k + 1) = Append(a, t[k + 1])
  <2> DEFINE b == SubSeq(t, 1, k + 1)
             d == Append(a, t[k + 1])
  <2>1. k + 1 \in 1 .. n /\ t[k + 1] \in Packets
    BY <1>1, <1>4
  <2>2. b \in Seq(Packets) /\ Len(b) = k + 1 /\ \A i \in 1 .. k + 1 : b[i] = t[i]
    BY <1>1, <2>1
  <2>3. /\ d \in Seq(Packets) /\ Len(d) = k + 1 /\ d[k + 1] = t[k + 1]
        /\ \A i \in 1 .. k : d[i] = a[i]
    BY <1>2, <2>1
  <2> HIDE DEF a, b, d
  <2>4. \A i \in 1 .. k + 1 : b[i] = d[i]
    <3>1. \A i \in 1 .. k + 1 : i \in 1 .. k \/ i = k + 1
      BY <1>1
    <3> QED  BY <3>1, <1>2, <2>2, <2>3
  <2>5. b = d
    BY <2>2, <2>3, <2>4, SeqEqual
  <2> QED  BY <2>5 DEF a, b, d
<1>5. ASSUME NEW p \in Packets PROVE SubSeq(Append(t, p), 1, k) = a
  <2> DEFINE u == Append(t, p)
             b == SubSeq(u, 1, k)
  <2>1. u \in Seq(Packets) /\ Len(u) = n + 1 /\ \A i \in 1 .. n : u[i] = t[i]
    OBVIOUS
  <2> HIDE DEF u
  <2>2. b \in Seq(Packets) /\ Len(b) = k /\ \A i \in 1 .. k : b[i] = u[i]
    BY <1>1, <2>1
  <2> HIDE DEF a, b
  <2>3. \A i \in 1 .. k : a[i] = b[i]
    <3>1. \A i \in 1 .. k : i \in 1 .. n
      BY <1>1
    <3>2. \A i \in 1 .. k : a[i] = t[i]
      BY <1>2 DEF a
    <3> QED  BY <3>1, <3>2, <2>1, <2>2
  <2>4. a = b
    BY <1>2, <2>2, <2>3, SeqEqual
  <2> QED  BY <2>4 DEF a, b, u
<1> QED  BY <1>2, <1>3, <1>4, <1>5

-----------------------------------------------------------------------------
(* The inductive invariant.                                                *)

\* The connections the server has not seen the end of.
Alive == {"open", "closed", "reset"}

\* The type of the state, with sequences for what TypeOK only gives the
\* members of: the tables of the server and the connections, and where it is.
Tables ==
  /\ conn \in [Slots -> Conns \cup {None}]
  /\ inUse \in [Slots -> BOOLEAN] /\ authd \in [Slots -> BOOLEAN]
  /\ inCmd \in [Slots -> BOOLEAN] /\ recvd \in [Slots -> 0 .. BufSize]
  /\ pending \subseteq Slots \X Conns
  /\ peer \in [Conns -> {"new", "dropped", "refused", "gone"} \cup Alive]
  /\ backlog \in Seq(Conns)
  /\ wire \in [Conns -> Seq(Packets)]
  /\ sent \in [Conns -> Seq(Packets)]
  /\ ran \in [Conns -> Seq(Packets)]
  /\ granted \subseteq Conns /\ proved \subseteq Conns
  /\ answers \subseteq Conns \X Conns

Control ==
  /\ password \in Passwords \cup {None}
  /\ revents \subseteq Slots \cup {Listener}
  /\ pc \in {"app", "recv", "accept", "fetch"} \cup Stages \cup Ended
  /\ at \in Slots /\ turn \in {"wait", "fetch"}

\* What the server holds, call by call of its setup.
Held ==
  /\ addresses \in 0 .. MaxAddresses /\ fds \in Nat
  /\ memory \subseteq {"list", "block", "clients"}
  /\ pc = "getaddrinfo" => fds = 0 /\ memory = {}
  /\ pc = "socket" => fds = 0 /\ memory = {"list"}
  /\ pc \in {"bind", "listen"} => fds = 1 /\ memory = {"list"} /\ addresses > 0
  /\ pc = "block" => fds = 1 /\ memory = {}
  /\ pc = "create" => fds = 1 /\ memory = {"block"}
  /\ pc \in Stages \cup {"failed"} => \A s \in Slots : conn[s] = None
  /\ NothingLeaks

\* Each connection that is alive has one place: in the queue of the listener,
\* or in one slot.
Places ==
  /\ pc # "destroyed" => \A s \in Slots : inUse[s] <=> conn[s] # None
  /\ \A s \in Slots : conn[s] # None =>
       /\ peer[conn[s]] \in Alive /\ conn[s] \notin Range(backlog)
       /\ \A z \in Slots \ {s} : conn[z] # conn[s]
  /\ IsInjective(backlog)
  /\ \A c \in Range(backlog) : peer[c] \in Alive
  /\ \A c \in Conns :
       peer[c] \in Alive => c \in Range(backlog) \/ \E s \in Slots : conn[s] = c

\* Until rcon_wait_for_input returns, what poll said of the listener is true.
Polled == pc \in {"recv", "accept"} /\ Listener \in revents => backlog # <<>>

\* What a connection has sent is dealt with from the front, and only when it
\* is in a slot.
Streams ==
  /\ \A s \in Slots : conn[s] # None => recvd[s] <= Units(wire[conn[s]])
  /\ \A c \in Conns : peer[c] \in Alive => IsSuffix(wire[c], sent[c])
  /\ \A c \in Conns : peer[c] = "new" \/ c \in Range(backlog) =>
                        wire[c] = sent[c] /\ ran[c] = <<>>
  /\ \A c \in Conns : peer[c] \notin Alive => wire[c] = <<>>

\* A command that is not complete is that of the connection in its slot, as
\* long as the connection lives.
Asked ==
  \A r \in pending : conn[r[1]] = r[2] \/ peer[r[2]] \in {"gone", "dropped"}

ServerInv ==
  /\ Tables
  /\ Control
  /\ Held
  /\ Places
  /\ Polled
  /\ Streams
  /\ CommandHeld
  /\ CommandsInOrder
  /\ AuthByPasswordOnly
  /\ Asked
  /\ RepliesToAsker

-----------------------------------------------------------------------------
(* The steps that change the tables.  All the others only move the server  *)
(* on, and most parts of the invariant do not mention what they change.    *)

Idle ==
  /\ UNCHANGED <<clientVars, peerVars, ghostVars, pending>>
  /\ pc = "destroyed" => pc' = "destroyed"

Drop ==
  /\ pc = "recv" /\ inUse[at]
  /\ DropClient(at)
  /\ UNCHANGED <<authd, inCmd, recvd, addresses, memory, pending, backlog, sent, ghostVars>>

Move ==
  \/ pc \notin Stages \cup Ended /\ PeerStep
  \/ \E n \in 1 .. BufSize : Receive(n)
  \/ Drop \/ Accept \/ Refuse
  \/ Authenticate \/ Echo \/ FetchCommand
  \/ \E s \in Slots, c \in Conns : Complete(s, c)
  \/ Destroy

\* Each step of the server, the program and the peers is of one of these kinds.
LEMMA StepKinds ==
  ASSUME [Next]_vars
  PROVE  Idle \/ Move
<1>1. CASE OpenServer
  BY <1>1 DEF OpenServer, Idle, Setup, GetAddresses, Socket, Bind, AddressUnusable, Listen,
              AllocateBlock, Create, Goes
<1>2. CASE RunsOn
  BY <1>2 DEF RunsOn, Idle
<1>3. CASE Server
  <2>1. CASE StartWait
    BY <2>1 DEF StartWait, Idle
  <2>2. CASE SkipSlot
    BY <2>2 DEF SkipSlot, NextSlot, Idle
  <2>3. CASE ReceiveNothing
    BY <2>3 DEF ReceiveNothing, NextSlot, Drop, Move
  <2>4. CASE ReceiveError
    BY <2>4 DEF ReceiveError, Drop, Move
  <2>5. CASE NoAccept
    BY <2>5 DEF NoAccept, Idle
  <2>6. CASE StartFetch
    BY <2>6 DEF StartFetch, Idle
  <2>7. CASE NoPacket
    BY <2>7 DEF NoPacket, NextSlot, Idle
  <2>8. CASE FetchError
    BY <2>8 DEF FetchError, Idle
  <2> QED
    BY <1>3, <2>1, <2>2, <2>3, <2>4, <2>5, <2>6, <2>7, <2>8
    DEF Server, WaitForInput, Fetch, Move
<1>4. ASSUME NEW p \in Passwords \cup {None}, SetPassword(p)
      PROVE  Idle
  BY <1>4 DEF SetPassword, appVars, Idle
<1>5. CASE WaitFails
  BY <1>5 DEF WaitFails, Idle
<1>6. CASE Destroy
  BY <1>6 DEF Move
<1>7. CASE pc \notin Stages \cup Ended /\ PeerStep
  BY <1>7 DEF Move
<1>8. CASE UNCHANGED vars
  BY <1>8 DEF vars, appVars, Idle
<1> QED  BY <1>1, <1>2, <1>3, <1>4, <1>5, <1>6, <1>7, <1>8 DEF Next

-----------------------------------------------------------------------------
\* The loop index and the flow of control stay what they should be.
LEMMA NextSlotControl ==
  ASSUME Control, NEW after \in {"app", "accept"}, NextSlot(after)
  PROVE  /\ at' \in Slots /\ turn' \in {"wait", "fetch"}
         /\ revents' \subseteq Slots \cup {Listener}
         /\ pc' \in {pc, "app", "accept"}
<1>1. 1 \in Slots /\ (at < MaxClients => at + 1 \in Slots)
  BY RconAssumption DEF Slots, Control
<1>2. CASE at < MaxClients
  BY <1>1, <1>2 DEF NextSlot, Control
<1>3. CASE ~(at < MaxClients)
  BY <1>1, <1>3 DEF NextSlot, Control, Returns
<1> QED  BY <1>2, <1>3

LEMMA ReturnsControl ==
  ASSUME Control, NEW next \in {"wait", "fetch"}, Returns(next)
  PROVE  /\ at' \in Slots /\ turn' \in {"wait", "fetch"}
         /\ revents' \subseteq Slots \cup {Listener}
         /\ pc' = "app"
BY RconAssumption DEF Returns, Control, Slots

LEMMA ControlKept ==
  ASSUME Control, [Next]_vars
  PROVE  Control'
<1>1. CASE OpenServer
  <2>1. pc' \in Stages \cup {"app", "failed", "crashed"}
    BY <1>1 DEF OpenServer, Setup, GetAddresses, Socket, Bind, AddressUnusable, Listen,
                AllocateBlock, Create, Goes, Stages
  <2> QED  BY <1>1, <2>1 DEF OpenServer, Control, Ended
<1>2. CASE RunsOn
  BY <1>2 DEF RunsOn, Goes, Control, Ended
<1>3. CASE StartWait
  <2>1. revents' \subseteq Slots \cup {Listener} /\ at' \in Slots
    BY <1>3, RconAssumption DEF StartWait, Readable, Slots
  <2> QED  BY <1>3, <2>1 DEF StartWait, Control
<1>4. CASE SkipSlot
  BY <1>4, NextSlotControl DEF SkipSlot, Control
<1>5. ASSUME NEW n \in 1 .. BufSize, Receive(n) PROVE Control'
  BY <1>5, NextSlotControl DEF Receive, Control
<1>6. CASE ReceiveNothing
  BY <1>6, NextSlotControl DEF ReceiveNothing, Control
<1>7. CASE ReceiveError
  BY <1>7, ReturnsControl DEF ReceiveError, Control
<1>8. CASE NoAccept
  BY <1>8, ReturnsControl DEF NoAccept, Control
<1>9. CASE Accept
  BY <1>9, ReturnsControl DEF Accept, Control
<1>10. CASE Refuse
  BY <1>10, ReturnsControl DEF Refuse, Control
<1>11. CASE StartFetch
  BY <1>11, RconAssumption DEF StartFetch, Control, Slots
<1>12. CASE NoPacket
  BY <1>12, NextSlotControl DEF NoPacket, Control
<1>13. CASE Authenticate
  BY <1>13 DEF Authenticate, Control, appVars
<1>14. CASE Echo
  BY <1>14 DEF Echo, Control, appVars
<1>15. CASE FetchCommand
  BY <1>15, ReturnsControl DEF FetchCommand, Control
<1>16. CASE FetchError
  <2>1. CASE Returns("fetch")
    BY <1>16, <2>1, ReturnsControl DEF FetchError, Control
  <2>2. CASE Goes("crashed") /\ UNCHANGED <<at, turn, revents>>
    BY <1>16, <2>2 DEF FetchError, Control, Goes, Ended
  <2> QED  BY <1>16, <2>1, <2>2 DEF FetchError
<1>17. ASSUME NEW s \in Slots, NEW c \in Conns, Complete(s, c) PROVE Control'
  BY <1>17 DEF Complete, Control
<1>18. ASSUME NEW p \in Passwords \cup {None}, SetPassword(p) PROVE Control'
  BY <1>18 DEF SetPassword, Control, appVars
<1>19. CASE WaitFails
  BY <1>19, ReturnsControl DEF WaitFails, Control
<1>20. CASE Destroy
  BY <1>20 DEF Destroy, Control, Ended
<1>21. CASE PeerStep
  BY <1>21 DEF PeerStep, Connect, SendPacket, Leave, Control, appVars
<1>22. CASE UNCHANGED vars
  BY <1>22 DEF vars, appVars, Control
<1> QED
  BY <1>1, <1>2, <1>3, <1>4, <1>5, <1>6, <1>7, <1>8, <1>9, <1>10, <1>11, <1>12, <1>13,
     <1>14, <1>15, <1>16, <1>17, <1>18, <1>19, <1>20, <1>21, <1>22
  DEF Next, Server, WaitForInput, Fetch

-----------------------------------------------------------------------------
(* What the steps that change the tables do, for those who need not know   *)
(* how.                                                                    *)

\* A slot that is in use has a connection of its own.
LEMMA InUse ==
  ASSUME ServerInv, pc # "destroyed", NEW s \in Slots, inUse[s]
  PROVE  /\ conn[s] \in Conns /\ conn[s] # None
         /\ peer[conn[s]] \in Alive /\ conn[s] \notin Range(backlog)
         /\ \A z \in Slots \ {s} : conn[z] # conn[s]
         /\ wire[conn[s]] \in Seq(Packets) /\ recvd[s] \in 0 .. BufSize
         /\ recvd[s] <= Units(wire[conn[s]])
<1>1. conn[s] # None /\ conn[s] \in Conns \cup {None} /\ recvd[s] \in 0 .. BufSize
  BY DEF ServerInv, Places, Tables
<1>2. wire[conn[s]] \in Seq(Packets) /\ recvd[s] <= Units(wire[conn[s]])
  BY <1>1 DEF ServerInv, Tables, Streams
<1> QED  BY <1>1, <1>2 DEF ServerInv, Places, Alive

\* The buffer of a slot with a packet begins with the first packet of its
\* connection.
LEMMA PacketThere ==
  ASSUME ServerInv, pc # "destroyed", NEW s \in Slots, HasPacket(s)
  PROVE  /\ wire[conn[s]] # <<>> /\ First(s) \in Packets /\ ~inCmd[s]
         /\ First(s).units \in Nat \ {0}
         /\ ~First(s).misread => First(s).units <= recvd[s]
<1>1. inUse[s] /\ recvd[s] > 0 /\ ~inCmd[s]
  BY DEF HasPacket
<1>2. wire[conn[s]] \in Seq(Packets) /\ recvd[s] \in 0 .. BufSize
      /\ recvd[s] <= Units(wire[conn[s]])
  BY <1>1, InUse
<1>3. wire[conn[s]] # <<>>
  BY <1>1, <1>2, UnitsEmpty, RconAssumption
<1>4. First(s) \in Packets
  BY <1>2, <1>3 DEF First
<1>5. First(s).units \in Nat \ {0}
  BY <1>4, PacketUnits
<1>6. ~First(s).misread => First(s).units <= recvd[s]
  BY <1>2, <1>5 DEF HasPacket
<1> QED  BY <1>1, <1>3, <1>4, <1>5, <1>6

\* The packet of a command that runs is there, too.
LEMMA CommandThere ==
  ASSUME ServerInv, pc # "destroyed", NEW s \in Slots, inUse[s], inCmd[s]
  PROVE  /\ wire[conn[s]] # <<>> /\ First(s) \in Packets /\ First(s).kind = "exec"
         /\ First(s).units \in Nat \ {0} /\ First(s).units <= recvd[s]
<1>1. /\ conn[s] # None /\ wire[conn[s]] \in Seq(Packets)
      /\ recvd[s] \in 0 .. BufSize
  BY InUse
<1>2. wire[conn[s]] # <<>> /\ First(s).kind = "exec" /\ recvd[s] >= First(s).units
  BY <1>1 DEF ServerInv, CommandHeld
<1>3. First(s) \in Packets
  BY <1>1, <1>2 DEF First
<1>4. First(s).units \in Nat \ {0}
  BY <1>3, PacketUnits
<1>5. First(s).units <= recvd[s]
  BY <1>1, <1>2, <1>4
<1> QED  BY <1>2, <1>3, <1>4, <1>5

\* Consuming the first packet of a buffer takes it from the wire, and leaves
\* the other connections alone.
LEMMA Consumed ==
  ASSUME ServerInv, pc # "destroyed", NEW s \in Slots, inUse[s],
         wire[conn[s]] # <<>>, First(s).units <= recvd[s], Consume(s)
  PROVE  /\ recvd' \in [Slots -> 0 .. BufSize]
         /\ wire' \in [Conns -> Seq(Packets)]
         /\ wire'[conn[s]] = Tail(wire[conn[s]])
         /\ \A c \in Conns \ {conn[s]} : wire'[c] = wire[c]
         /\ recvd'[s] = recvd[s] - First(s).units
         /\ \A z \in Slots \ {s} : recvd'[z] = recvd[z]
         /\ recvd'[s] <= Units(wire'[conn[s]])
<1> DEFINE c == conn[s]
           w == wire[c]
           u == First(s).units
<1>1. /\ c \in Conns /\ w \in Seq(Packets) /\ w # <<>>
      /\ recvd[s] \in 0 .. BufSize /\ recvd[s] <= Units(w)
  BY InUse
<1>2. u \in Nat /\ u <= recvd[s] /\ Units(w) = u + Units(Tail(w))
  <2>1. First(s) \in Packets /\ First(s) = Head(w)
    BY <1>1 DEF First
  <2> QED  BY <2>1, <1>1, PacketUnits, UnitsTail
<1>3. Tail(w) \in Seq(Packets)
  BY <1>1
<1>4. Units(Tail(w)) \in Nat /\ BufSize \in Nat
  BY <1>3, UnitsType, RconAssumption
<1>5. recvd = [z \in Slots |-> recvd[z]] /\ wire = [d \in Conns |-> wire[d]]
      /\ recvd \in [Slots -> 0 .. BufSize] /\ wire \in [Conns -> Seq(Packets)]
  BY DEF ServerInv, Tables
<1>6. recvd' = [recvd EXCEPT ![s] = recvd[s] - u] /\ wire' = [wire EXCEPT ![c] = Tail(w)]
  BY DEF Consume
<1> HIDE DEF u, w, c
<1>7. recvd[s] - u \in 0 .. BufSize /\ recvd[s] - u <= Units(Tail(w))
  BY <1>1, <1>2, <1>4
<1>8. recvd'[s] = recvd[s] - u /\ wire'[c] = Tail(w)
      /\ recvd' \in [Slots -> 0 .. BufSize] /\ wire' \in [Conns -> Seq(Packets)]
      /\ (\A d \in Conns \ {c} : wire'[d] = wire[d])
      /\ \A z \in Slots \ {s} : recvd'[z] = recvd[z]
  BY <1>1, <1>3, <1>5, <1>6, <1>7
<1> QED  BY <1>7, <1>8 DEF u, w, c

\* The connections of C are gone.
LEMMA Closed ==
  ASSUME Tables, NEW C \in SUBSET Conns, NEW fate \in {"dropped", "refused", "gone"},
         CloseConns(C, fate)
  PROVE  /\ conn' \in [Slots -> Conns \cup {None}]
         /\ \A s \in Slots : conn'[s] = IF conn[s] \in C THEN None ELSE conn[s]
         /\ peer' \in [Conns -> {"new", "dropped", "refused", "gone"} \cup Alive]
         /\ \A c \in C : peer'[c] \in {fate, "gone"}
         /\ \A c \in C : peer'[c] = "dropped" => fate = "dropped" /\ peer[c] = "open"
         /\ \A c \in Conns \ C : peer'[c] = peer[c] /\ wire'[c] = wire[c]
         /\ wire' \in [Conns -> Seq(Packets)]
         /\ \A c \in C : wire'[c] = <<>>
<1>1. <<>> \in Seq(Packets)
  OBVIOUS
<1> QED  BY <1>1 DEF CloseConns, Tables

\* A connection of the queue goes to the lowest free slot.
LEMMA Accepted ==
  ASSUME ServerInv, Accept
  PROVE  \E s \in Slots, c \in Conns :
           /\ conn[s] = None /\ ~inUse[s]
           /\ backlog # <<>> /\ c = Head(backlog) /\ c \in Range(backlog)
           /\ AcceptInto(c, s)
           /\ backlog' = Tail(backlog) /\ backlog' \in Seq(Conns)
           /\ IsInjective(backlog') /\ Range(backlog') = Range(backlog) \ {c}
<1> DEFINE s == Min(FreeSlots)
           c == Head(backlog)
<1>1. s \in FreeSlots /\ s \in Slots
  BY LowestFree DEF Accept, FreeSlots
<1>2. backlog \in Seq(Conns) /\ backlog # <<>> /\ IsInjective(backlog)
  BY DEF Accept, ServerInv, Places, Polled, Tables
<1>3. /\ c \in Conns /\ c \in Range(backlog) /\ Tail(backlog) \in Seq(Conns)
      /\ IsInjective(Tail(backlog)) /\ Range(Tail(backlog)) = Range(backlog) \ {c}
  BY <1>2, RangeTail
<1>4. conn[s] = None /\ ~inUse[s]
  BY <1>1 DEF FreeSlots, ServerInv, Places, Accept
<1>5. AcceptInto(c, s) /\ backlog' = Tail(backlog)
  BY DEF Accept
<1> HIDE DEF s, c
<1> QED  BY <1>1, <1>2, <1>3, <1>4, <1>5 DEF c

\* A client that is dropped leaves its slot empty, and its bytes unread.
LEMMA Dropped ==
  ASSUME ServerInv, Drop
  PROVE  /\ at \in Slots /\ conn[at] \in Conns /\ conn[at] # None
         /\ conn' = [conn EXCEPT ![at] = None]
         /\ inUse' = [inUse EXCEPT ![at] = FALSE]
         /\ CloseConns({conn[at]}, "dropped")
<1>1. at \in Slots /\ conn[at] \in Conns /\ conn[at] # None
      /\ \A z \in Slots \ {at} : conn[z] # conn[at]
  BY InUse DEF ServerInv, Control, Drop
<1>2. /\ conn' = [s \in Slots |-> IF conn[s] \in {conn[at]} THEN None ELSE conn[s]]
      /\ conn \in [Slots -> Conns \cup {None}]
  BY DEF Drop, DropClient, CloseConns, ServerInv, Tables
<1> QED  BY <1>1, <1>2 DEF Drop, DropClient

-----------------------------------------------------------------------------
\* The tables keep their types.
LEMMA TablesKept ==
  ASSUME ServerInv, Idle \/ Move
  PROVE  Tables'
<1> USE DEF Tables
<1>1. Tables /\ Control
  BY DEF ServerInv
<1>2. CASE Idle
  BY <1>1, <1>2 DEF Idle, clientVars, peerVars, ghostVars
<1>3. ASSUME NEW c \in Conns, Connect(c) PROVE Tables'
  <2>1. backlog' \in Seq(Conns)
    BY <1>1, <1>3 DEF Connect
  <2> QED  BY <1>1, <1>3, <2>1 DEF Connect, clientVars, appVars, ghostVars, Alive
<1>4. ASSUME NEW c \in Conns, NEW p \in Packets, SendPacket(c, p) PROVE Tables'
  <2>1. Append(wire[c], p) \in Seq(Packets) /\ Append(sent[c], p) \in Seq(Packets)
    BY <1>1
  <2>2. wire' \in [Conns -> Seq(Packets)] /\ sent' \in [Conns -> Seq(Packets)]
    BY <1>1, <1>4, <2>1 DEF SendPacket
  <2> QED  BY <1>1, <1>4, <2>2 DEF SendPacket, clientVars, appVars, ghostVars
<1>5. ASSUME NEW c \in Conns, NEW how \in {"closed", "reset"}, Leave(c, how) PROVE Tables'
  BY <1>1, <1>5 DEF Leave, clientVars, appVars, ghostVars, Alive
<1>6. ASSUME NEW n \in 1 .. BufSize, Receive(n) PROVE Tables'
  <2>1. recvd[at] \in 0 .. BufSize /\ n <= BufSize - recvd[at] /\ BufSize \in Nat
    BY <1>1, <1>6, RconAssumption DEF Receive, Room, Control
  <2>2. recvd[at] + n \in 0 .. BufSize
    BY <2>1
  <2> QED  BY <1>1, <1>6, <2>2 DEF Receive, NextSlot, peerVars, ghostVars
<1>7. CASE Drop
  <2>1. CloseConns({conn[at]}, "dropped") /\ conn[at] \in Conns
        /\ inUse' \in [Slots -> BOOLEAN]
    BY <1>1, <1>7, Dropped
  <2> QED  BY <1>1, <1>7, <2>1, Closed DEF Drop, ghostVars
<1>8. CASE Accept
  <2>1. PICK s \in Slots, c \in Conns : AcceptInto(c, s) /\ backlog' \in Seq(Conns)
    BY <1>8, Accepted
  <2>2. 0 \in 0 .. BufSize
    BY RconAssumption
  <2>3. /\ conn' \in [Slots -> Conns \cup {None}]
        /\ inUse' \in [Slots -> BOOLEAN] /\ authd' \in [Slots -> BOOLEAN]
        /\ inCmd' \in [Slots -> BOOLEAN] /\ recvd' \in [Slots -> 0 .. BufSize]
    BY <1>1, <2>1, <2>2 DEF AcceptInto
  <2> QED  BY <1>1, <1>8, <2>1, <2>3 DEF Accept, ghostVars
<1>9. CASE Refuse
  <2>1. backlog \in Seq(Conns) /\ backlog # <<>> /\ IsInjective(backlog)
    BY <1>9 DEF Refuse, ServerInv, Polled, Places
  <2>2. Head(backlog) \in Conns /\ backlog' \in Seq(Conns)
    BY <1>9, <2>1, RangeTail DEF Refuse
  <2> QED  BY <1>1, <1>9, <2>2, Closed DEF Refuse, ghostVars
<1>10. ASSUME pc = "fetch", HasPacket(at), ~First(at).misread, Consume(at)
       PROVE  /\ recvd' \in [Slots -> 0 .. BufSize] /\ wire' \in [Conns -> Seq(Packets)]
              /\ conn[at] \in Conns
  <2>1. at \in Slots /\ inUse[at]
    BY <1>1, <1>10 DEF Control, HasPacket
  <2> QED  BY <1>10, <2>1, PacketThere, Consumed, InUse
<1>11. CASE Authenticate
  <2>1. /\ recvd' \in [Slots -> 0 .. BufSize] /\ wire' \in [Conns -> Seq(Packets)]
        /\ conn[at] \in Conns
    BY <1>10, <1>11 DEF Authenticate
  <2>2. granted' \subseteq Conns /\ proved' \subseteq Conns /\ authd' \in [Slots -> BOOLEAN]
    BY <1>1, <1>11, <2>1 DEF Authenticate
  <2> QED  BY <1>1, <1>11, <2>1, <2>2 DEF Authenticate, appVars
<1>12. CASE Echo
  <2>1. recvd' \in [Slots -> 0 .. BufSize] /\ wire' \in [Conns -> Seq(Packets)]
    BY <1>10, <1>12 DEF Echo
  <2> QED  BY <1>1, <1>12, <2>1 DEF Echo, appVars, ghostVars
<1>13. CASE FetchCommand
  <2>1. at \in Slots /\ inUse[at] /\ HasPacket(at)
    BY <1>1, <1>13 DEF FetchCommand, Control, HasPacket
  <2>2. conn[at] \in Conns /\ First(at) \in Packets
    BY <1>13, <2>1, InUse, PacketThere DEF FetchCommand
  <2>3. Append(ran[conn[at]], First(at)) \in Seq(Packets)
    BY <1>1, <2>2
  <2>4. ran' \in [Conns -> Seq(Packets)] /\ pending' \subseteq Slots \X Conns
        /\ inCmd' \in [Slots -> BOOLEAN]
    BY <1>1, <1>13, <2>1, <2>2, <2>3 DEF FetchCommand
  <2> QED  BY <1>1, <1>13, <2>4 DEF FetchCommand, peerVars
<1>14. ASSUME NEW s \in Slots, NEW c \in Conns, Complete(s, c) PROVE Tables'
  <2>1. CASE inUse[s] /\ inCmd[s]
    <3>1. conn[s] \in Conns /\ conn[s] # None
      BY <1>14, <2>1, InUse DEF Complete
    <3>2. wire[conn[s]] # <<>> /\ First(s).units <= recvd[s]
      BY <1>14, <2>1, CommandThere DEF Complete
    <3>3. recvd' \in [Slots -> 0 .. BufSize] /\ wire' \in [Conns -> Seq(Packets)]
      BY <1>14, <2>1, <3>2, Consumed DEF Complete
    <3>4. answers' \subseteq Conns \X Conns /\ inCmd' \in [Slots -> BOOLEAN]
          /\ pending' \subseteq Slots \X Conns
      <4>1. answers' = answers \cup {<<conn[s], c>>} /\ pending' = pending \ {<<s, c>>}
            /\ inCmd' = [inCmd EXCEPT ![s] = FALSE]
        BY <1>14, <2>1 DEF Complete
      <4> QED  BY <1>1, <3>1, <4>1
    <3> QED  BY <1>1, <1>14, <3>3, <3>4 DEF Complete
  <2>2. CASE ~(inUse[s] /\ inCmd[s])
    BY <1>1, <1>14, <2>2 DEF Complete
  <2> QED  BY <2>1, <2>2
<1>15. CASE Destroy
  <2>1. {c \in Conns : peer[c] # "new"} \in SUBSET Conns
    OBVIOUS
  <2>2. CloseConns({c \in Conns : peer[c] # "new"}, "gone")
    BY <1>15 DEF Destroy
  <2>3. /\ conn' \in [Slots -> Conns \cup {None}]
        /\ peer' \in [Conns -> {"new", "dropped", "refused", "gone"} \cup Alive]
        /\ wire' \in [Conns -> Seq(Packets)]
    BY <1>1, <2>1, <2>2, Closed
  <2>4. backlog' \in Seq(Conns)
    BY <1>15 DEF Destroy
  <2> QED  BY <1>1, <1>15, <2>3, <2>4 DEF Destroy, ghostVars
<1> QED
  BY <1>2, <1>3, <1>4, <1>5, <1>6, <1>7, <1>8, <1>9, <1>11, <1>12, <1>13, <1>14, <1>15
  DEF Move, PeerStep

-----------------------------------------------------------------------------
\* Each connection keeps its place, or goes from the queue to a slot, or is
\* gone.
LEMMA PlacesKept ==
  ASSUME ServerInv, Idle \/ Move
  PROVE  Places'
<1>1. Places /\ Tables /\ Control
  BY DEF ServerInv
<1>2. ASSUME UNCHANGED <<conn, inUse, backlog>>,
             pc = "destroyed" => pc' = "destroyed",
             \A c \in Conns : peer'[c] \in Alive <=> peer[c] \in Alive
      PROVE  Places'
  <2>1. \A s \in Slots : conn[s] # None => conn[s] \in Conns
    BY <1>1 DEF Tables
  <2>2. Range(backlog) \subseteq Conns
    BY <1>1 DEF Tables, Range
  <2> QED  BY <1>1, <1>2, <2>1, <2>2 DEF Places
<1>3. CASE Idle
  BY <1>2, <1>3 DEF Idle, clientVars, peerVars
<1>4. CASE pc \notin Stages \cup Ended /\ PeerStep
  <2>1. ASSUME NEW c \in Conns, Connect(c), pc # "destroyed" PROVE Places'
    <3>1. peer[c] = "new" /\ "open" \in Alive /\ "new" \notin Alive
      BY <2>1 DEF Connect, Alive
    <3>2. peer' = [peer EXCEPT ![c] = "open"] /\ backlog' = Append(backlog, c)
          /\ UNCHANGED <<conn, inUse>>
      BY <2>1 DEF Connect, clientVars
    <3>3. backlog \in Seq(Conns) /\ IsInjective(backlog) /\ c \notin Range(backlog)
      BY <1>1, <3>1 DEF Tables, Places
    <3>4. IsInjective(backlog') /\ Range(backlog') = Range(backlog) \cup {c}
      BY <3>2, <3>3, RangeAppend
    <3>5. \A s \in Slots : conn[s] # None => conn[s] \in Conns /\ conn[s] # c
      BY <1>1, <3>1 DEF Tables, Places
    <3>6. Range(backlog) \subseteq Conns
      BY <3>3 DEF Range
    <3>7. peer'[c] = "open" /\ \A d \in Conns \ {c} : peer'[d] = peer[d]
      BY <1>1, <3>2 DEF Tables
    <3> QED  BY <1>1, <2>1, <3>1, <3>2, <3>4, <3>5, <3>6, <3>7 DEF Places
  <2>2. ASSUME NEW c \in Conns, NEW p \in Packets, SendPacket(c, p) PROVE Places'
    BY <1>2, <2>2 DEF SendPacket, clientVars, appVars
  <2>3. ASSUME NEW c \in Conns, NEW how \in {"closed", "reset"}, Leave(c, how) PROVE Places'
    <3>1. \A d \in Conns : peer'[d] \in Alive <=> peer[d] \in Alive
      BY <1>1, <2>3 DEF Leave, Tables, Alive
    <3> QED  BY <1>2, <2>3, <3>1 DEF Leave, clientVars, appVars
  <2> QED  BY <1>4, <2>1, <2>2, <2>3 DEF PeerStep, Ended
<1>5. ASSUME NEW n \in 1 .. BufSize, Receive(n) PROVE Places'
  BY <1>2, <1>5 DEF Receive, peerVars
<1>6. CASE Drop
  <2>1. /\ at \in Slots /\ conn[at] \in Conns /\ conn[at] # None
        /\ conn' = [conn EXCEPT ![at] = None] /\ inUse' = [inUse EXCEPT ![at] = FALSE]
        /\ CloseConns({conn[at]}, "dropped") /\ backlog' = backlog /\ pc # "destroyed"
    BY <1>6, Dropped DEF Drop
  <2>2. peer'[conn[at]] \in {"dropped", "gone"}
        /\ \A c \in Conns \ {conn[at]} : peer'[c] = peer[c]
    BY <1>1, <2>1, Closed
  <2>3. \A s \in Slots : conn[s] # None => conn[s] \in Conns
    BY <1>1 DEF Tables
  <2>4. Range(backlog) \subseteq Conns
    BY <1>1 DEF Tables, Range
  <2>5. /\ conn'[at] = None /\ inUse'[at] = FALSE
        /\ \A s \in Slots \ {at} : conn'[s] = conn[s] /\ inUse'[s] = inUse[s]
    BY <1>1, <2>1 DEF Tables
  <2>6. /\ \A s \in Slots \ {at} : conn[s] # conn[at]
        /\ conn[at] \notin Range(backlog)
    BY <1>1, <2>1 DEF Places
  <2> QED  BY <1>1, <2>1, <2>2, <2>3, <2>4, <2>5, <2>6 DEF Places, Alive
<1>7. CASE Accept
  <2>1. PICK s \in Slots, c \in Conns :
          /\ conn[s] = None /\ c \in Range(backlog) /\ AcceptInto(c, s)
          /\ IsInjective(backlog') /\ Range(backlog') = Range(backlog) \ {c}
    BY <1>7, Accepted
  <2>2. /\ conn'[s] = c /\ inUse'[s] = TRUE
        /\ \A z \in Slots \ {s} : conn'[z] = conn[z] /\ inUse'[z] = inUse[z]
    BY <1>1, <2>1 DEF Tables, AcceptInto
  <2>3. peer' = peer /\ pc # "destroyed" /\ c # None
    BY <1>7, RconAssumption DEF Accept
  <2>4. Range(backlog) \subseteq Conns /\ peer[c] \in Alive
    BY <1>1, <2>1 DEF Tables, Range, Places
  <2>5. \A z \in Slots : conn[z] # None => conn[z] # c
    BY <1>1, <2>1 DEF Places
  <2>6. \A z \in Slots : inUse'[z] <=> conn'[z] # None
    BY <1>1, <2>2, <2>3 DEF Places
  <2>7. ASSUME NEW z \in Slots, conn'[z] # None
        PROVE  /\ peer'[conn'[z]] \in Alive /\ conn'[z] \notin Range(backlog')
               /\ \A y \in Slots \ {z} : conn'[y] # conn'[z]
    <3>1. CASE z = s
      BY <3>1, <2>1, <2>2, <2>3, <2>4, <2>5
    <3>2. CASE z # s
      BY <3>2, <1>1, <2>1, <2>2, <2>3, <2>5, <2>7 DEF Places
    <3> QED  BY <3>1, <3>2
  <2>8. \A d \in Conns :
          peer'[d] \in Alive => d \in Range(backlog') \/ \E z \in Slots : conn'[z] = d
    BY <1>1, <2>1, <2>2, <2>3, RconAssumption DEF Places
  <2>9. \A d \in Range(backlog') : peer'[d] \in Alive
    BY <1>1, <2>1, <2>3 DEF Places
  <2> QED  BY <2>1, <2>6, <2>7, <2>8, <2>9 DEF Places
<1>8. CASE Refuse
  <2> DEFINE c == Head(backlog)
  <2>1. backlog \in Seq(Conns) /\ backlog # <<>> /\ IsInjective(backlog)
        /\ backlog' = Tail(backlog)
    BY <1>8 DEF Refuse, ServerInv, Polled, Places, Tables
  <2>2. /\ IsInjective(backlog') /\ c \in Range(backlog) /\ c \in Conns
        /\ Range(backlog') = Range(backlog) \ {c}
    BY <2>1, RangeTail
  <2>3. CloseConns({c}, "refused") /\ inUse' = inUse /\ pc # "destroyed"
    BY <1>8 DEF Refuse
  <2> HIDE DEF c
  <2>4. /\ \A s \in Slots : conn'[s] = IF conn[s] \in {c} THEN None ELSE conn[s]
        /\ peer'[c] \in {"refused", "gone"}
        /\ \A d \in Conns \ {c} : peer'[d] = peer[d]
    BY <1>1, <2>2, <2>3, Closed
  <2>5. \A s \in Slots : conn[s] # None => conn[s] \in Conns /\ conn[s] # c
    BY <1>1, <2>2 DEF Tables, Places
  <2>6. \A s \in Slots : conn'[s] = conn[s]
    BY <1>1, <2>2, <2>4, <2>5, RconAssumption
  <2>7. Range(backlog) \subseteq Conns
    BY <2>1 DEF Range
  <2> QED  BY <1>1, <2>2, <2>3, <2>4, <2>5, <2>6, <2>7 DEF Places, Alive
<1>9. CASE Authenticate
  BY <1>2, <1>9 DEF Authenticate, appVars
<1>10. CASE Echo
  BY <1>2, <1>10 DEF Echo, appVars
<1>11. CASE FetchCommand
  BY <1>2, <1>11 DEF FetchCommand, peerVars
<1>12. ASSUME NEW s \in Slots, NEW c \in Conns, Complete(s, c) PROVE Places'
  BY <1>2, <1>12 DEF Complete
<1>13. CASE Destroy
  <2> DEFINE C == {c \in Conns : peer[c] # "new"}
  <2>1. /\ CloseConns(C, "gone") /\ backlog' = <<>> /\ pc' = "destroyed" /\ C \in SUBSET Conns
    BY <1>13 DEF Destroy
  <2>2. \A s \in Slots : conn[s] # None => conn[s] \in C
    BY <1>1 DEF Places, Alive, Tables
  <2> HIDE DEF C
  <2>3. /\ \A s \in Slots : conn'[s] = IF conn[s] \in C THEN None ELSE conn[s]
        /\ \A c \in C : peer'[c] = "gone"
        /\ \A c \in Conns \ C : peer'[c] = peer[c]
    BY <1>1, <2>1, Closed
  <2>4. \A s \in Slots : conn'[s] = None
    BY <2>2, <2>3
  <2>5. \A c \in Conns \ C : peer'[c] = "new"
    BY <2>3 DEF C
  <2> QED  BY <1>1, <2>1, <2>3, <2>4, <2>5, RangeEmpty DEF Places, Alive
<1> QED
  BY <1>3, <1>4, <1>5, <1>6, <1>7, <1>8, <1>9, <1>10, <1>11, <1>12, <1>13 DEF Move

\* The queue does not get empty before rcon_wait_for_input has looked at it.
LEMMA PolledKept ==
  ASSUME ServerInv, [Next]_vars
  PROVE  Polled'
<1> USE DEF Polled
<1>1. Polled /\ Tables /\ Control
  BY DEF ServerInv
<1>2. CASE StartWait
  <2>1. Listener \notin Slots
    BY RconAssumption DEF Listener, Slots
  <2> QED  BY <1>2, <2>1 DEF StartWait, Readable, peerVars
<1>3. ASSUME NextSlot("accept"), pc = "recv", backlog' = backlog
      PROVE  Polled'
  BY <1>1, <1>3 DEF NextSlot
<1>4. CASE SkipSlot
  BY <1>3, <1>4 DEF SkipSlot, peerVars
<1>5. ASSUME NEW n \in 1 .. BufSize, Receive(n) PROVE Polled'
  BY <1>3, <1>5 DEF Receive, peerVars
<1>6. CASE ReceiveNothing
  BY <1>3, <1>6 DEF ReceiveNothing
<1>7. CASE PeerStep
  <2>1. ASSUME NEW c \in Conns, Connect(c) PROVE backlog' # <<>>
    <3>1. backlog \in Seq(Conns) /\ backlog' = Append(backlog, c)
      BY <1>1, <2>1 DEF Connect, Tables
    <3> QED  BY <3>1
  <2> QED  BY <1>1, <1>7, <2>1 DEF PeerStep, Connect, SendPacket, Leave, appVars
<1>8. CASE UNCHANGED vars
  BY <1>1, <1>8 DEF vars, appVars, peerVars
<1>9. ASSUME NEW next, Returns(next) PROVE Polled'
  BY <1>9 DEF Returns
<1>10. CASE NoPacket
  BY <1>10 DEF NoPacket, NextSlot, Returns
<1>11. CASE FetchError
  BY <1>9, <1>11 DEF FetchError, Goes
<1>12. ASSUME NEW s \in Slots, NEW c \in Conns, Complete(s, c) PROVE Polled'
  BY <1>12 DEF Complete
<1>13. ASSUME NEW p \in Passwords \cup {None}, SetPassword(p) PROVE Polled'
  BY <1>13 DEF SetPassword, appVars
<1>14. CASE OpenServer
  BY <1>14 DEF OpenServer, Setup, GetAddresses, Socket, Bind, AddressUnusable, Listen,
               AllocateBlock, Create, Goes
<1>15. CASE ReceiveError \/ NoAccept \/ Accept \/ Refuse \/ WaitFails \/ FetchCommand
  BY <1>9, <1>15 DEF ReceiveError, NoAccept, Accept, Refuse, WaitFails, FetchCommand
<1>16. CASE StartFetch \/ Authenticate \/ Echo \/ RunsOn \/ Destroy
  BY <1>16 DEF StartFetch, Authenticate, Echo, RunsOn, Destroy, Goes, appVars
<1> QED
  BY <1>2, <1>4, <1>5, <1>6, <1>7, <1>8, <1>10, <1>11, <1>12, <1>13, <1>14, <1>15, <1>16
  DEF Next, Server, WaitForInput, Fetch

-----------------------------------------------------------------------------
\* The number of slots in use, and what a slot more or less makes of it.
TakenSlots == {s \in Slots : conn[s] # None}

LEMMA TakenFinite == IsFiniteSet(TakenSlots) /\ Cardinality(TakenSlots) \in Nat
<1>1. IsFiniteSet(Slots)
  <2>1. 1 \in Int /\ MaxClients \in Int
    BY RconAssumption
  <2> QED  BY <2>1, FS_Interval DEF Slots
<1>2. TakenSlots \in SUBSET Slots
  BY DEF TakenSlots
<1>3. IsFiniteSet(TakenSlots)
  BY <1>1, <1>2, FS_Subset
<1> QED  BY <1>3, FS_CardinalityType

LEMMA OneLess ==
  ASSUME Tables, NEW s \in Slots, conn[s] # None, conn' = [conn EXCEPT ![s] = None]
  PROVE  Cardinality(TakenSlots') = Cardinality(TakenSlots) - 1
<1>1. TakenSlots' = TakenSlots \ {s} /\ s \in TakenSlots
  BY DEF TakenSlots, Tables
<1> QED  BY <1>1, TakenFinite, FS_RemoveElement

LEMMA OneMore ==
  ASSUME Tables, NEW s \in Slots, NEW c \in Conns, conn[s] = None,
         conn' = [conn EXCEPT ![s] = c]
  PROVE  Cardinality(TakenSlots') = Cardinality(TakenSlots) + 1
<1>1. TakenSlots' = TakenSlots \cup {s} /\ s \notin TakenSlots
  BY RconAssumption DEF TakenSlots, Tables
<1> QED  BY <1>1, TakenFinite, FS_AddElement

\* Every descriptor and all memory is accounted for, call by call.
LEMMA HeldKept ==
  ASSUME ServerInv, [Next]_vars
  PROVE  Held'
<1>1. Held /\ Tables /\ Control /\ Places
  BY DEF ServerInv
<1>2. NothingLeaks = /\ pc \in {"failed", "destroyed"} => fds = 0 /\ memory = {}
                     /\ pc \notin Stages \cup Ended =>
                          fds = 1 + Cardinality(TakenSlots) /\ memory = {"block", "clients"}
  BY DEF NothingLeaks, TakenSlots
<1>3. NothingLeaks' = /\ pc' \in {"failed", "destroyed"} => fds' = 0 /\ memory' = {}
                      /\ pc' \notin Stages \cup Ended =>
                           /\ fds' = 1 + Cardinality(TakenSlots')
                           /\ memory' = {"block", "clients"}
  BY DEF NothingLeaks, TakenSlots
<1> DEFINE Runs == {"app", "recv", "accept", "fetch"}
<1>4. Runs \cap (Stages \cup Ended) = {}
  BY DEF Stages, Ended
<1>5. ASSUME pc \in Runs, pc' \in Runs \cup {"crashed"}, UNCHANGED <<heldVars, conn>>
      PROVE  Held'
  <2>1. TakenSlots' = TakenSlots
    BY <1>5 DEF TakenSlots
  <2> QED  BY <1>1, <1>2, <1>3, <1>4, <1>5, <2>1 DEF Held, heldVars, Stages, Ended
<1>6. ASSUME NEW after \in {"app", "accept"}, NextSlot(after), pc \in Runs
      PROVE  pc' \in Runs
  BY <1>1, <1>6, NextSlotControl
<1>7. ASSUME NEW next, Returns(next)
      PROVE  pc' = "app"
  BY <1>7 DEF Returns
<1>8. CASE OpenServer
  <2>1. pc \in Stages => TakenSlots = {}
    BY <1>1 DEF Held, TakenSlots
  <2>2. conn' = conn /\ TakenSlots' = TakenSlots
    BY <1>8 DEF OpenServer, clientVars, TakenSlots
  <2>3. Cardinality({}) = 0
    BY FS_EmptySet
  <2>4. CASE GetAddresses
    <3>1. fds = 0 /\ fds' = 0 /\ memory = {} /\ addresses \in 0 .. MaxAddresses
      BY <1>1, <2>4 DEF GetAddresses, Held
    <3>2. \A s \in Slots : conn'[s] = None
      BY <1>1, <2>2, <2>4 DEF GetAddresses, Held, Stages
    <3>3. CASE pc' = "socket" /\ memory' = {"list"} /\ addresses' \in 1 .. MaxAddresses
      <4>1. addresses' \in 0 .. MaxAddresses
        BY <3>3, SetupAssumption
      <4> QED  BY <1>3, <3>1, <3>2, <3>3, <4>1 DEF Held, Stages, Ended
    <3>4. CASE pc' = "failed" /\ UNCHANGED <<addresses, memory>>
      BY <1>3, <3>1, <3>2, <3>4 DEF Held, Stages, Ended
    <3> QED  BY <2>4, <3>3, <3>4 DEF GetAddresses, Goes, Keeps
  <2>5. CASE Socket
    BY <1>1, <1>2, <1>3, <2>2, <2>5, SetupAssumption
    DEF Socket, Goes, Keeps, Held, Stages, Ended
  <2>6. CASE Bind
    BY <1>1, <1>2, <1>3, <2>2, <2>6 DEF Bind, Goes, Keeps, Held, Stages, Ended
  <2>7. CASE AddressUnusable
    BY <1>1, <1>2, <1>3, <2>2, <2>7, SetupAssumption
    DEF AddressUnusable, Goes, Keeps, Held, Stages, Ended
  <2>8. CASE Listen
    BY <1>1, <1>2, <1>3, <2>2, <2>8, SetupAssumption
    DEF Listen, Goes, Keeps, Held, Stages, Ended
  <2>9. CASE AllocateBlock
    BY <1>1, <1>2, <1>3, <2>2, <2>9 DEF AllocateBlock, Goes, Keeps, Held, Stages, Ended
  <2>10. CASE Create
    BY <1>1, <1>2, <1>3, <2>1, <2>2, <2>3, <2>10
    DEF Create, Goes, Keeps, Held, Stages, Ended
  <2> QED  BY <1>8, <2>4, <2>5, <2>6, <2>7, <2>8, <2>9, <2>10 DEF OpenServer, Setup
<1>9. CASE RunsOn
  BY <1>1, <1>3, <1>9 DEF RunsOn, Goes, Held, heldVars, Stages, Ended
<1>10. CASE Drop /\ pc' \in Runs
  <2>1. at \in Slots /\ conn[at] # None /\ conn' = [conn EXCEPT ![at] = None]
    BY <1>10, Dropped
  <2>2. Cardinality(TakenSlots') = Cardinality(TakenSlots) - 1
    BY <1>1, <2>1, OneLess
  <2>3. fds' = fds - 1 /\ UNCHANGED <<addresses, memory>> /\ pc = "recv"
    BY <1>10 DEF Drop, DropClient
  <2>4. fds' = 1 + Cardinality(TakenSlots') /\ fds' \in Nat /\ memory' = {"block", "clients"}
    <3>1. fds = 1 + Cardinality(TakenSlots) /\ fds \in Nat /\ memory = {"block", "clients"}
      BY <1>1, <1>2, <2>3 DEF Held, Stages, Ended
    <3>2. at \in TakenSlots /\ Cardinality(TakenSlots) # 0
      <4>1. at \in TakenSlots
        BY <2>1 DEF TakenSlots
      <4> QED  BY <4>1, TakenFinite, FS_EmptySet
    <3> QED  BY <2>2, <2>3, <3>1, <3>2, TakenFinite
  <2> QED  BY <1>1, <1>3, <1>10, <2>3, <2>4 DEF Held, Stages, Ended
<1>11. CASE Accept
  <2>1. PICK s \in Slots, c \in Conns : conn[s] = None /\ AcceptInto(c, s)
    BY <1>11, Accepted
  <2>2. Cardinality(TakenSlots') = Cardinality(TakenSlots) + 1
    BY <1>1, <2>1, OneMore DEF AcceptInto
  <2>3. fds' = fds + 1 /\ UNCHANGED <<addresses, memory>> /\ pc = "accept" /\ pc' = "app"
    BY <1>7, <1>11 DEF Accept
  <2>4. fds' = 1 + Cardinality(TakenSlots') /\ fds' \in Nat
    <3>1. fds = 1 + Cardinality(TakenSlots)
      BY <1>1, <1>2, <2>3 DEF Held, Stages, Ended
    <3> QED  BY <2>2, <2>3, <3>1, TakenFinite
  <2> QED  BY <1>1, <1>2, <1>3, <2>3, <2>4 DEF Held, Stages, Ended
<1>12. CASE Refuse
  <2> DEFINE c == Head(backlog)
  <2>1. backlog \in Seq(Conns) /\ backlog # <<>> /\ IsInjective(backlog)
    BY <1>12 DEF Refuse, ServerInv, Polled, Places, Tables
  <2>2. c \in Range(backlog) /\ c \in Conns
    BY <2>1, RangeTail
  <2>3. CloseConns({c}, "refused")
    BY <1>12 DEF Refuse
  <2>4. \A s \in Slots : conn[s] # c
    BY <1>1, <2>2, RconAssumption DEF Places
  <2> HIDE DEF c
  <2>5. TakenSlots' = TakenSlots
    BY <2>3, <2>4 DEF CloseConns, TakenSlots
  <2>6. UNCHANGED heldVars /\ pc = "accept" /\ pc' = "app"
    BY <1>7, <1>12 DEF Refuse
  <2> QED  BY <1>1, <1>2, <1>3, <2>5, <2>6 DEF Held, heldVars, Stages, Ended
<1>13. CASE Destroy
  <2>1. fds' = (fds - 1) - Cardinality(TakenSlots) /\ memory' = {} /\ pc = "app"
        /\ pc' = "destroyed" /\ addresses' = addresses
    BY <1>13 DEF Destroy, TakenSlots
  <2>2. fds' = 0
    <3>1. fds = 1 + Cardinality(TakenSlots)
      BY <1>1, <1>2, <2>1 DEF Held, Stages, Ended
    <3> QED  BY <2>1, <3>1, TakenFinite
  <2> QED  BY <1>1, <1>3, <2>1, <2>2 DEF Held, Stages, Ended
<1>14. CASE StartWait \/ SkipSlot \/ NoAccept \/ WaitFails
  BY <1>5, <1>6, <1>7, <1>14
  DEF StartWait, SkipSlot, NoAccept, WaitFails, clientVars
<1>15. ASSUME NEW n \in 1 .. BufSize, Receive(n) PROVE Held'
  BY <1>5, <1>6, <1>15 DEF Receive
<1>16. CASE ReceiveNothing \/ ReceiveError
  <2>1. Drop /\ pc' \in Runs
    BY <1>6, <1>7, <1>16 DEF ReceiveNothing, ReceiveError, Drop, NextSlot
  <2> QED  BY <1>10, <2>1
<1>17. CASE StartFetch \/ NoPacket \/ FetchError \/ FetchCommand
  BY <1>5, <1>6, <1>7, <1>17
  DEF StartFetch, NoPacket, FetchError, FetchCommand, clientVars, Goes
<1>18. CASE Authenticate \/ Echo
  BY <1>5, <1>18 DEF Authenticate, Echo, appVars
<1>19. ASSUME NEW s \in Slots, NEW c \in Conns, Complete(s, c) PROVE Held'
  BY <1>5, <1>19 DEF Complete
<1>20. ASSUME NEW p \in Passwords \cup {None}, SetPassword(p) PROVE Held'
  BY <1>5, <1>20 DEF SetPassword, appVars, clientVars
<1>21. CASE pc \notin Stages \cup Ended /\ PeerStep
  <2>1. UNCHANGED <<heldVars, conn, pc>>
    BY <1>21 DEF PeerStep, Connect, SendPacket, Leave, clientVars, appVars
  <2>2. pc \in Runs
    BY <1>1, <1>21 DEF Control
  <2> QED  BY <1>5, <2>1, <2>2
<1>22. CASE UNCHANGED vars
  <2>1. UNCHANGED <<heldVars, conn, pc>>
    BY <1>22 DEF vars, clientVars, appVars
  <2>2. TakenSlots' = TakenSlots
    BY <2>1 DEF TakenSlots
  <2> QED  BY <1>1, <1>2, <1>3, <2>1, <2>2 DEF Held, heldVars
<1> QED
  BY <1>8, <1>9, <1>11, <1>12, <1>13, <1>14, <1>15, <1>16, <1>17, <1>18, <1>19, <1>20,
     <1>21, <1>22
  DEF Next, Server, WaitForInput, Fetch

-----------------------------------------------------------------------------
\* What is on the wire of a connection is the rest of what it sent, and the
\* buffer of its slot the start of that.
LEMMA StreamsKept ==
  ASSUME ServerInv, Idle \/ Move
  PROVE  Streams'
<1>1. Streams /\ Tables /\ Control /\ Places
  BY DEF ServerInv
<1>2. \A c \in Conns : wire[c] \in Seq(Packets) /\ Units(wire[c]) \in Nat
  BY <1>1, UnitsType DEF Tables
<1>3. CASE Idle
  BY <1>1, <1>3 DEF Idle, clientVars, peerVars, ghostVars, Streams
<1>4. CASE PeerStep
  <2>1. ASSUME NEW c \in Conns, Connect(c) PROVE Streams'
    <3>1. /\ peer[c] = "new" /\ peer' = [peer EXCEPT ![c] = "open"]
          /\ backlog' = Append(backlog, c)
          /\ UNCHANGED <<conn, recvd, wire, sent, ran>>
      BY <2>1 DEF Connect, clientVars, ghostVars
    <3>2. backlog \in Seq(Conns) /\ IsInjective(backlog) /\ c \notin Range(backlog)
      BY <1>1, <3>1 DEF Tables, Places, Alive
    <3>3. Range(backlog') = Range(backlog) \cup {c}
      BY <3>1, <3>2, RangeAppend
    <3>4. wire[c] = sent[c] /\ ran[c] = <<>> /\ IsSuffix(wire[c], sent[c])
      BY <1>1, <1>2, <3>1, SuffixSame DEF Streams
    <3>5. peer'[c] = "open" /\ \A d \in Conns \ {c} : peer'[d] = peer[d]
      BY <1>1, <3>1 DEF Tables
    <3> QED  BY <1>1, <3>1, <3>3, <3>4, <3>5 DEF Streams, Alive
  <2>2. ASSUME NEW c \in Conns, NEW p \in Packets, SendPacket(c, p) PROVE Streams'
    <3>1. /\ peer[c] = "open"
          /\ wire' = [wire EXCEPT ![c] = Append(wire[c], p)]
          /\ sent' = [sent EXCEPT ![c] = Append(sent[c], p)]
          /\ UNCHANGED <<conn, recvd, peer, backlog, ran>>
      BY <2>2 DEF SendPacket, clientVars, ghostVars
    <3>2. wire'[c] = Append(wire[c], p) /\ sent'[c] = Append(sent[c], p)
          /\ \A d \in Conns \ {c} : wire'[d] = wire[d] /\ sent'[d] = sent[d]
      BY <1>1, <3>1 DEF Tables
    <3>3. IsSuffix(wire'[c], sent'[c])
      BY <1>1, <1>2, <3>1, <3>2, SuffixAppend DEF Streams, Tables, Alive
    <3>4. Units(wire'[c]) = Units(wire[c]) + p.units /\ p.units \in Nat
      BY <1>2, <3>2, UnitsAppend, PacketUnits
    <3>5. ASSUME NEW s \in Slots, conn[s] # None
          PROVE  recvd[s] <= Units(wire'[conn[s]])
      <4>1. conn[s] \in Conns /\ recvd[s] \in 0 .. BufSize /\ recvd[s] <= Units(wire[conn[s]])
        BY <1>1, <3>5 DEF Tables, Streams
      <4>2. CASE conn[s] = c
        <5>1. recvd[s] \in Nat /\ Units(wire[c]) \in Nat /\ recvd[s] <= Units(wire[c])
          BY <1>2, <4>1, <4>2, RconAssumption
        <5> QED  BY <3>4, <4>2, <5>1
      <4>3. CASE conn[s] # c
        BY <3>2, <4>1, <4>3
      <4> QED  BY <4>2, <4>3
    <3> QED  BY <1>1, <3>1, <3>2, <3>3, <3>5 DEF Streams, Alive
  <2>3. ASSUME NEW c \in Conns, NEW how \in {"closed", "reset"}, Leave(c, how) PROVE Streams'
    BY <1>1, <2>3 DEF Leave, Streams, Tables, Alive, clientVars, ghostVars
  <2> QED  BY <1>4, <2>1, <2>2, <2>3 DEF PeerStep
<1>5. ASSUME NEW n \in 1 .. BufSize, Receive(n) PROVE Streams'
  <2>1. /\ at \in Slots /\ inUse[at] /\ pc # "destroyed"
        /\ n <= Units(wire[conn[at]]) - recvd[at]
        /\ recvd' = [recvd EXCEPT ![at] = recvd[at] + n]
        /\ UNCHANGED <<conn, peer, backlog, wire, sent, ran>>
    BY <1>1, <1>5 DEF Receive, Unread, Control, peerVars, ghostVars
  <2>2. conn[at] \in Conns /\ recvd[at] \in 0 .. BufSize
    BY <2>1, InUse
  <2>3. Units(wire[conn[at]]) \in Nat /\ recvd[at] \in Nat /\ n \in Nat
    BY <1>2, <2>2, RconAssumption
  <2>4. recvd[at] + n <= Units(wire[conn[at]])
    BY <2>1, <2>3
  <2>5. recvd'[at] = recvd[at] + n /\ \A s \in Slots \ {at} : recvd'[s] = recvd[s]
    BY <1>1, <2>1 DEF Tables
  <2> QED  BY <1>1, <2>1, <2>4, <2>5 DEF Streams
<1>6. CASE Drop
  <2> DEFINE c == conn[at]
  <2>1. /\ at \in Slots /\ c \in Conns /\ c # None
        /\ conn' = [conn EXCEPT ![at] = None]
        /\ CloseConns({c}, "dropped") /\ UNCHANGED <<recvd, backlog, sent, ran>>
    BY <1>6, Dropped DEF Drop, ghostVars
  <2>2. conn'[at] = None /\ \A s \in Slots \ {at} : conn'[s] = conn[s]
    BY <1>1, <2>1 DEF Tables
  <2>3. c \notin Range(backlog) /\ \A s \in Slots \ {at} : conn[s] # c
    BY <1>1, <2>1 DEF Places
  <2> HIDE DEF c
  <2>4. /\ peer'[c] \notin Alive \cup {"new"} /\ wire'[c] = <<>>
        /\ \A d \in Conns \ {c} : peer'[d] = peer[d] /\ wire'[d] = wire[d]
    <3>1. /\ peer'[c] \in {"dropped", "gone"} /\ wire'[c] = <<>>
          /\ \A d \in Conns \ {c} : peer'[d] = peer[d] /\ wire'[d] = wire[d]
      BY <1>1, <2>1, Closed
    <3> QED  BY <3>1 DEF Alive
  <2>5. \A s \in Slots : conn[s] # None => conn[s] \in Conns
    BY <1>1 DEF Tables
  <2> QED  BY <1>1, <2>1, <2>2, <2>3, <2>4, <2>5 DEF Streams
<1>7. CASE Accept
  <2>1. PICK s \in Slots, c \in Conns :
          AcceptInto(c, s) /\ Range(backlog') = Range(backlog) \ {c}
    BY <1>7, Accepted
  <2>2. /\ conn'[s] = c /\ recvd'[s] = 0
        /\ \A z \in Slots \ {s} : conn'[z] = conn[z] /\ recvd'[z] = recvd[z]
    BY <1>1, <2>1 DEF AcceptInto, Tables
  <2>3. UNCHANGED <<peer, wire, sent, ran>>
    BY <1>7 DEF Accept, ghostVars
  <2>4. 0 <= Units(wire[c])
    BY <1>2
  <2> QED  BY <1>1, <2>1, <2>2, <2>3, <2>4 DEF Streams
<1>8. CASE Refuse
  <2> DEFINE c == Head(backlog)
  <2>1. backlog \in Seq(Conns) /\ backlog # <<>> /\ IsInjective(backlog)
        /\ backlog' = Tail(backlog)
    BY <1>8 DEF Refuse, ServerInv, Polled, Places, Tables
  <2>2. /\ c \in Range(backlog) /\ c \in Conns /\ Range(backlog') = Range(backlog) \ {c}
    BY <2>1, RangeTail
  <2>3. CloseConns({c}, "refused") /\ UNCHANGED <<recvd, sent, ran>>
    BY <1>8 DEF Refuse, ghostVars
  <2>4. \A s \in Slots : conn[s] # None => conn[s] \in Conns /\ conn[s] # c
    BY <1>1, <2>2 DEF Places, Tables
  <2> HIDE DEF c
  <2>5. /\ peer'[c] \notin Alive \cup {"new"} /\ wire'[c] = <<>>
        /\ \A d \in Conns \ {c} : peer'[d] = peer[d] /\ wire'[d] = wire[d]
        /\ \A s \in Slots : conn'[s] = IF conn[s] \in {c} THEN None ELSE conn[s]
    <3>1. /\ peer'[c] \in {"refused", "gone"} /\ wire'[c] = <<>>
          /\ \A d \in Conns \ {c} : peer'[d] = peer[d] /\ wire'[d] = wire[d]
          /\ \A s \in Slots : conn'[s] = IF conn[s] \in {c} THEN None ELSE conn[s]
      BY <1>1, <2>2, <2>3, Closed
    <3> QED  BY <3>1 DEF Alive
  <2> QED  BY <1>1, <2>2, <2>3, <2>4, <2>5 DEF Streams
<1>9. ASSUME NEW s \in Slots, pc # "destroyed", inUse[s], wire[conn[s]] # <<>>,
             First(s).units <= recvd[s], Consume(s),
             UNCHANGED <<conn, peer, backlog, sent>>,
             \A c \in Conns \ {conn[s]} : ran'[c] = ran[c]
      PROVE  Streams'
  <2> DEFINE c == conn[s]
  <2>1. /\ wire'[c] = Tail(wire[c]) /\ \A d \in Conns \ {c} : wire'[d] = wire[d]
        /\ \A z \in Slots \ {s} : recvd'[z] = recvd[z]
        /\ recvd'[s] <= Units(wire'[c])
    BY <1>9, Consumed
  <2>2. /\ c \in Conns /\ c # None /\ c \notin Range(backlog) /\ peer[c] \in Alive
        /\ \A z \in Slots \ {s} : conn[z] # c
    BY <1>9, InUse
  <2>3. IsSuffix(wire'[c], sent[c])
    <3>1. sent[c] \in Seq(Packets) /\ wire[c] \in Seq(Packets) /\ IsSuffix(wire[c], sent[c])
      BY <1>1, <2>2 DEF Tables, Streams
    <3>2. wire[c] # <<>>
      BY <1>9
    <3> HIDE DEF c
    <3> QED  BY <2>1, <3>1, <3>2, SuffixTail
  <2>4. peer[c] # "new"
    BY <2>2 DEF Alive
  <2>5. \A z \in Slots : conn[z] # None => conn[z] \in Conns
    BY <1>1 DEF Tables
  <2> HIDE DEF c
  <2>7. \A z \in Slots : conn'[z] # None => recvd'[z] <= Units(wire'[conn'[z]])
    <3>1. \A z \in Slots \ {s} : conn[z] # None => recvd'[z] <= Units(wire'[conn[z]])
      BY <1>1, <2>1, <2>2, <2>5 DEF Streams
    <3> QED  BY <1>9, <2>1, <3>1 DEF c
  <2>8. \A d \in Conns : peer'[d] \in Alive => IsSuffix(wire'[d], sent'[d])
    BY <1>1, <1>9, <2>1, <2>3 DEF Streams
  <2>9. \A d \in Conns : peer'[d] = "new" \/ d \in Range(backlog') =>
                           wire'[d] = sent'[d] /\ ran'[d] = <<>>
    <3>1. \A d \in Conns : peer[d] = "new" \/ d \in Range(backlog) => d # c
      BY <2>2, <2>4
    <3>2. \A d \in Conns \ {c} : ran'[d] = ran[d]
      BY <1>9 DEF c
    <3> QED  BY <1>1, <1>9, <2>1, <3>1, <3>2 DEF Streams
  <2>10. \A d \in Conns : peer'[d] \notin Alive => wire'[d] = <<>>
    BY <1>1, <1>9, <2>1, <2>2 DEF Streams
  <2> QED  BY <1>1, <1>9, <2>7, <2>8, <2>9, <2>10 DEF Streams
<1>10. ASSUME pc = "fetch", HasPacket(at), ~First(at).misread
       PROVE  /\ at \in Slots /\ inUse[at] /\ wire[conn[at]] # <<>>
              /\ First(at).units <= recvd[at] /\ pc # "destroyed"
  <2>1. at \in Slots /\ inUse[at] /\ pc # "destroyed"
    BY <1>1, <1>10 DEF Control, HasPacket
  <2> QED  BY <1>10, <2>1, PacketThere
<1>11. CASE Authenticate
  BY <1>9, <1>10, <1>11 DEF Authenticate
<1>12. CASE Echo
  BY <1>9, <1>10, <1>12 DEF Echo, ghostVars
<1>13. CASE FetchCommand
  <2>1. UNCHANGED <<conn, recvd, peer, backlog, wire, sent>>
        /\ ran' = [ran EXCEPT ![conn[at]] = Append(@, First(at))]
    BY <1>13 DEF FetchCommand, peerVars
  <2>2. conn[at] \in Conns /\ conn[at] \notin Range(backlog) /\ peer[conn[at]] \in Alive
    BY <1>10, <1>13, InUse DEF FetchCommand
  <2>3. \A d \in Conns \ {conn[at]} : ran'[d] = ran[d]
    BY <1>1, <2>1 DEF Tables
  <2> QED  BY <1>1, <2>1, <2>2, <2>3 DEF Streams, Alive
<1>14. ASSUME NEW s \in Slots, NEW c \in Conns, Complete(s, c) PROVE Streams'
  <2>1. CASE inUse[s] /\ inCmd[s]
    <3>1. pc # "destroyed"
      BY <1>14 DEF Complete
    <3>2. wire[conn[s]] # <<>> /\ First(s).units <= recvd[s]
      BY <2>1, <3>1, CommandThere
    <3> QED  BY <1>9, <1>14, <2>1, <3>1, <3>2 DEF Complete
  <2>2. CASE ~(inUse[s] /\ inCmd[s])
    BY <1>1, <1>14, <2>2 DEF Complete, Streams
  <2> QED  BY <2>1, <2>2
<1>15. CASE Destroy
  <2> DEFINE C == {c \in Conns : peer[c] # "new"}
  <2>1. /\ CloseConns(C, "gone") /\ backlog' = <<>> /\ C \in SUBSET Conns
        /\ UNCHANGED <<recvd, sent, ran>>
    BY <1>15 DEF Destroy, ghostVars
  <2>2. \A s \in Slots : conn[s] # None => conn[s] \in C
    BY <1>1 DEF Places, Alive, Tables
  <2> HIDE DEF C
  <2>3. /\ \A s \in Slots : conn'[s] = IF conn[s] \in C THEN None ELSE conn[s]
        /\ \A c \in C : peer'[c] = "gone" /\ wire'[c] = <<>>
        /\ \A c \in Conns \ C : peer'[c] = peer[c] /\ wire'[c] = wire[c]
    BY <1>1, <2>1, Closed
  <2>4. \A s \in Slots : conn'[s] = None
    BY <2>2, <2>3
  <2>5. \A c \in Conns : peer'[c] \notin Alive
    BY <2>3 DEF C, Alive
  <2>6. \A c \in Conns : wire'[c] = <<>>
    BY <1>1, <2>3 DEF C, Streams, Alive
  <2> QED  BY <1>1, <2>1, <2>3, <2>4, <2>5, <2>6, RangeEmpty DEF Streams
<1> QED
  BY <1>3, <1>4, <1>5, <1>6, <1>7, <1>8, <1>11, <1>12, <1>13, <1>14, <1>15 DEF Move

-----------------------------------------------------------------------------
(* What a step does to a slot that has a connection after it: nothing but  *)
(* receive, or the connection sends a packet, or it was accepted into the  *)
(* slot, or its first packet is dealt with, or becomes a command that      *)
(* runs.                                                                   *)

SameConn(s) == conn[s] # None /\ conn'[s] = conn[s]
SameBytes(c) == wire'[c] = wire[c] /\ sent'[c] = sent[c]

Untouched(s) ==
  /\ SameConn(s) /\ SameBytes(conn[s])
  /\ inCmd'[s] = inCmd[s] /\ authd'[s] = authd[s] /\ recvd[s] <= recvd'[s]
  /\ ran'[conn[s]] = ran[conn[s]]

Grows(s) ==
  /\ SameConn(s)
  /\ \E p \in Packets : /\ wire'[conn[s]] = Append(wire[conn[s]], p)
                        /\ sent'[conn[s]] = Append(sent[conn[s]], p)
  /\ inCmd'[s] = inCmd[s] /\ authd'[s] = authd[s] /\ recvd'[s] = recvd[s]
  /\ ran'[conn[s]] = ran[conn[s]]

Taken(s) ==
  /\ conn[s] = None /\ conn'[s] \in Range(backlog) /\ conn'[s] \in Conns
  /\ SameBytes(conn'[s])
  /\ inCmd'[s] = FALSE /\ authd'[s] = FALSE
  /\ ran'[conn'[s]] = ran[conn'[s]]

Answered(s) ==
  /\ SameConn(s)
  /\ wire[conn[s]] # <<>> /\ wire'[conn[s]] = Tail(wire[conn[s]])
  /\ sent'[conn[s]] = sent[conn[s]] /\ ran'[conn[s]] = ran[conn[s]]
  /\ inCmd'[s] = FALSE
  /\ \/ inCmd[s] /\ authd'[s] = authd[s]
     \/ ~inCmd[s] /\ First(s).kind = "other" /\ authd'[s] = authd[s]
     \/ /\ ~inCmd[s] /\ First(s).kind = "auth"
        /\ IF RightPassword(First(s)) THEN authd'[s] = TRUE /\ conn[s] \in proved'
           ELSE authd'[s] = authd[s]

Started(s) ==
  /\ SameConn(s) /\ SameBytes(conn[s])
  /\ wire[conn[s]] # <<>> /\ First(s).kind = "exec" /\ First(s).units <= recvd[s]
  /\ inCmd[s] = FALSE /\ inCmd'[s] = TRUE
  /\ authd[s] = TRUE /\ authd'[s] = TRUE /\ recvd'[s] = recvd[s]
  /\ ran'[conn[s]] = Append(ran[conn[s]], First(s))

LEMMA SlotSteps ==
  ASSUME ServerInv, Idle \/ Move, NEW s \in Slots, conn'[s] # None
  PROVE  Untouched(s) \/ Grows(s) \/ Taken(s) \/ Answered(s) \/ Started(s)
<1> DEFINE Goal == Untouched(s) \/ Grows(s) \/ Taken(s) \/ Answered(s) \/ Started(s)
<1> USE DEF SameConn, SameBytes
<1>1. Tables /\ Control /\ Places
  BY DEF ServerInv
<1>2. recvd[s] \in Nat /\ recvd[s] <= recvd[s] /\ (conn[s] # None => conn[s] \in Conns)
  BY <1>1, RconAssumption DEF Tables
<1>3. CASE Idle
  BY <1>2, <1>3 DEF Idle, clientVars, peerVars, ghostVars, Untouched
<1>4. CASE PeerStep
  <2>1. UNCHANGED <<conn, inCmd, authd, recvd, ran>>
    BY <1>4 DEF PeerStep, Connect, SendPacket, Leave, clientVars, ghostVars
  <2>2. ASSUME NEW c \in Conns, Connect(c) \/ Leave(c, "closed") \/ Leave(c, "reset")
        PROVE  Goal
    BY <1>2, <2>1, <2>2 DEF Connect, Leave, Untouched
  <2>3. ASSUME NEW c \in Conns, NEW p \in Packets, SendPacket(c, p) PROVE Goal
    <3>1. /\ wire' = [wire EXCEPT ![c] = Append(@, p)]
          /\ sent' = [sent EXCEPT ![c] = Append(@, p)]
      BY <2>3 DEF SendPacket
    <3>2. CASE conn[s] = c
      <4>1. wire'[c] = Append(wire[c], p) /\ sent'[c] = Append(sent[c], p)
        BY <1>1, <3>1 DEF Tables
      <4> QED  BY <2>1, <3>2, <4>1 DEF Grows
    <3>3. CASE conn[s] # c
      BY <1>1, <1>2, <2>1, <3>1, <3>3 DEF Untouched, Tables
    <3> QED  BY <3>2, <3>3
  <2> QED  BY <1>4, <2>2, <2>3 DEF PeerStep
<1>5. ASSUME NEW n \in 1 .. BufSize, Receive(n) PROVE Goal
  <2>1. recvd' = [recvd EXCEPT ![at] = recvd[at] + n]
        /\ UNCHANGED <<conn, inCmd, authd, wire, sent, ran>>
    BY <1>5 DEF Receive, peerVars, ghostVars
  <2>2. recvd[s] <= recvd'[s]
    <3>1. CASE s = at
      <4>1. recvd'[s] = recvd[s] + n /\ n \in Nat
        BY <1>1, <2>1, <3>1, RconAssumption DEF Tables
      <4> QED  BY <1>2, <4>1
    <3>2. CASE s # at
      BY <1>1, <1>2, <2>1, <3>2 DEF Tables
    <3> QED  BY <3>1, <3>2
  <2> QED  BY <2>1, <2>2 DEF Untouched
<1>6. CASE Drop
  <2> DEFINE c == conn[at]
  <2>1. /\ at \in Slots /\ c \in Conns /\ c # None
        /\ conn' = [conn EXCEPT ![at] = None]
        /\ CloseConns({c}, "dropped") /\ UNCHANGED <<recvd, inCmd, authd, sent, ran>>
    BY <1>6, Dropped DEF Drop, ghostVars
  <2>2. s # at /\ conn'[s] = conn[s]
    BY <1>1, <2>1 DEF Tables
  <2>3. conn[s] # c /\ conn[s] \in Conns
    BY <1>1, <1>2, <2>1, <2>2 DEF Places
  <2> HIDE DEF c
  <2>4. wire'[conn[s]] = wire[conn[s]]
    BY <1>1, <2>1, <2>3, Closed
  <2> QED  BY <1>2, <2>1, <2>2, <2>4 DEF Untouched
<1>7. CASE Accept
  <2>1. PICK z \in Slots, c \in Conns :
          conn[z] = None /\ c \in Range(backlog) /\ AcceptInto(c, z)
    BY <1>7, Accepted
  <2>2. UNCHANGED <<wire, sent, ran>>
    BY <1>7 DEF Accept, ghostVars
  <2>3. CASE s = z
    BY <1>1, <2>1, <2>2, <2>3 DEF AcceptInto, Tables, Taken
  <2>4. CASE s # z
    BY <1>1, <1>2, <2>1, <2>2, <2>4 DEF AcceptInto, Tables, Untouched
  <2> QED  BY <2>3, <2>4
<1>8. CASE Refuse
  <2> DEFINE c == Head(backlog)
  <2>1. backlog \in Seq(Conns) /\ backlog # <<>> /\ IsInjective(backlog)
    BY <1>8 DEF Refuse, ServerInv, Polled, Places, Tables
  <2>2. c \in Range(backlog) /\ c \in Conns
    BY <2>1, RangeTail
  <2>3. CloseConns({c}, "refused") /\ UNCHANGED <<recvd, inCmd, authd, sent, ran>>
    BY <1>8 DEF Refuse, ghostVars
  <2>4. conn[s] # None => conn[s] # c
    BY <1>1, <2>2 DEF Places
  <2> HIDE DEF c
  <2>5. /\ conn'[s] = IF conn[s] \in {c} THEN None ELSE conn[s]
        /\ \A d \in Conns \ {c} : wire'[d] = wire[d]
    BY <1>1, <2>2, <2>3, Closed
  <2> QED  BY <1>2, <2>3, <2>4, <2>5 DEF Untouched
<1>9. ASSUME NEW z \in Slots, pc # "destroyed", inUse[z], wire[conn[z]] # <<>>,
             First(z).units <= recvd[z], Consume(z)
      PROVE  /\ wire'[conn[z]] = Tail(wire[conn[z]])
             /\ s # z /\ conn[s] # None =>
                  wire'[conn[s]] = wire[conn[s]] /\ recvd[s] <= recvd'[s]
  <2>1. \A y \in Slots \ {z} : conn[y] # conn[z]
    BY <1>9, InUse
  <2>2. /\ wire'[conn[z]] = Tail(wire[conn[z]])
        /\ \A c \in Conns \ {conn[z]} : wire'[c] = wire[c]
        /\ \A y \in Slots \ {z} : recvd'[y] = recvd[y]
    BY <1>9, Consumed
  <2> QED  BY <1>2, <2>1, <2>2
<1>10. ASSUME pc = "fetch", HasPacket(at), ~First(at).misread
       PROVE  /\ at \in Slots /\ inUse[at] /\ wire[conn[at]] # <<>> /\ conn[at] # None
              /\ First(at).units <= recvd[at] /\ pc # "destroyed" /\ inCmd[at] = FALSE
              /\ s # at /\ conn[s] # None => conn[s] # conn[at]
  <2>1. at \in Slots /\ inUse[at] /\ pc # "destroyed"
    BY <1>1, <1>10 DEF Control, HasPacket
  <2>2. inCmd[at] = FALSE
    BY <1>1, <1>10, <2>1 DEF HasPacket, Tables
  <2> QED  BY <1>10, <2>1, <2>2, PacketThere, InUse
<1>11. CASE Authenticate
  <2>1. /\ Consume(at) /\ UNCHANGED <<conn, inCmd, sent, ran>>
        /\ IF RightPassword(First(at)) THEN authd' = [authd EXCEPT ![at] = TRUE]
           ELSE authd' = authd
        /\ First(at).kind = "auth"
    BY <1>11 DEF Authenticate
  <2>2. RightPassword(First(at)) => conn[at] \in proved'
    <3>1. RightPassword(First(at)) => password \in Passwords /\ First(at).secret = password
      BY <1>1 DEF RightPassword, Control
    <3> QED  BY <1>11, <3>1 DEF Authenticate
  <2>3. CASE s = at
    <3>1. /\ conn[s] # None /\ wire[conn[s]] # <<>> /\ inCmd[s] = FALSE
          /\ wire'[conn[s]] = Tail(wire[conn[s]])
      BY <1>9, <1>10, <1>11, <2>3 DEF Authenticate
    <3>2. IF RightPassword(First(s)) THEN authd'[s] = TRUE ELSE authd'[s] = authd[s]
      BY <1>1, <2>1, <2>3 DEF Tables
    <3> QED  BY <2>1, <2>2, <2>3, <3>1, <3>2 DEF Answered
  <2>4. CASE s # at
    <3>1. conn[s] # None => wire'[conn[s]] = wire[conn[s]] /\ recvd[s] <= recvd'[s]
      BY <1>9, <1>10, <1>11, <2>4 DEF Authenticate
    <3>2. authd'[s] = authd[s]
      BY <1>1, <2>1, <2>4 DEF Tables
    <3> QED  BY <2>1, <3>1, <3>2 DEF Untouched
  <2> QED  BY <2>3, <2>4
<1>12. CASE Echo
  <2>1. /\ Consume(at) /\ UNCHANGED <<conn, inCmd, authd, sent, ran>>
        /\ First(at).kind = "other"
    BY <1>12 DEF Echo, ghostVars
  <2>2. CASE s = at
    <3>1. /\ conn[s] # None /\ wire[conn[s]] # <<>> /\ inCmd[s] = FALSE
          /\ wire'[conn[s]] = Tail(wire[conn[s]])
      BY <1>9, <1>10, <1>12, <2>2 DEF Echo
    <3> QED  BY <2>1, <2>2, <3>1 DEF Answered
  <2>3. CASE s # at
    <3>1. conn[s] # None => wire'[conn[s]] = wire[conn[s]] /\ recvd[s] <= recvd'[s]
      BY <1>9, <1>10, <1>12, <2>3 DEF Echo
    <3> QED  BY <2>1, <3>1 DEF Untouched
  <2> QED  BY <2>2, <2>3
<1>13. CASE FetchCommand
  <2>1. /\ UNCHANGED <<conn, authd, recvd, wire, sent>>
        /\ inCmd' = [inCmd EXCEPT ![at] = TRUE]
        /\ ran' = [ran EXCEPT ![conn[at]] = Append(@, First(at))]
        /\ First(at).kind = "exec" /\ authd[at]
    BY <1>13 DEF FetchCommand, peerVars, MayRun
  <2>2. at \in Slots /\ authd[at] = TRUE
    BY <1>1, <2>1 DEF Control, Tables
  <2>3. CASE s = at
    <3>1. ran'[conn[s]] = Append(ran[conn[s]], First(s)) /\ inCmd'[s] = TRUE
      BY <1>1, <1>2, <2>1, <2>3 DEF Tables
    <3> QED  BY <1>10, <1>13, <2>1, <2>2, <2>3, <3>1 DEF Started, FetchCommand
  <2>4. CASE s # at
    <3>1. conn[s] # conn[at]
      BY <1>10, <1>13, <2>1, <2>4 DEF FetchCommand
    <3>2. ran'[conn[s]] = ran[conn[s]] /\ inCmd'[s] = inCmd[s]
      BY <1>1, <1>2, <2>1, <2>4, <3>1 DEF Tables
    <3> QED  BY <1>2, <2>1, <3>2 DEF Untouched
  <2> QED  BY <2>3, <2>4
<1>14. ASSUME NEW z \in Slots, NEW c \in Conns, Complete(z, c) PROVE Goal
  <2>1. UNCHANGED <<conn, authd, sent, ran>> /\ pc # "destroyed"
    BY <1>14 DEF Complete
  <2>2. CASE inUse[z] /\ inCmd[z]
    <3>1. Consume(z) /\ inCmd' = [inCmd EXCEPT ![z] = FALSE]
      BY <1>14, <2>2 DEF Complete
    <3>2. wire[conn[z]] # <<>> /\ First(z).units <= recvd[z]
      BY <2>1, <2>2, CommandThere
    <3>3. CASE s = z
      BY <1>1, <1>9, <2>1, <2>2, <3>1, <3>2, <3>3 DEF Answered, Tables
    <3>4. CASE s # z
      BY <1>1, <1>9, <2>1, <2>2, <3>1, <3>2, <3>4 DEF Untouched, Tables
    <3> QED  BY <3>3, <3>4
  <2>3. CASE ~(inUse[z] /\ inCmd[z])
    BY <1>2, <1>14, <2>1, <2>3 DEF Complete, Untouched
  <2> QED  BY <2>2, <2>3
<1>15. CASE Destroy
  <2> DEFINE C == {c \in Conns : peer[c] # "new"}
  <2>1. CloseConns(C, "gone") /\ C \in SUBSET Conns
    BY <1>15 DEF Destroy
  <2>2. conn[s] # None => conn[s] \in C
    BY <1>1, <1>2 DEF Places, Alive
  <2> HIDE DEF C
  <2>3. conn'[s] = IF conn[s] \in C THEN None ELSE conn[s]
    BY <1>1, <2>1, Closed
  <2> QED  BY <2>2, <2>3
<1> QED
  BY <1>3, <1>4, <1>5, <1>6, <1>7, <1>8, <1>11, <1>12, <1>13, <1>14, <1>15 DEF Move

\* While a command runs its packet stays at the front of the buffer.
LEMMA CommandHeldKept ==
  ASSUME ServerInv, Idle \/ Move
  PROVE  CommandHeld'
<1>1. ASSUME NEW s \in Slots, conn'[s] # None, inCmd'[s]
      PROVE  /\ wire'[conn'[s]] # <<>>
             /\ Head(wire'[conn'[s]]).kind = "exec"
             /\ recvd'[s] >= Head(wire'[conn'[s]]).units
  <2> DEFINE w == wire[conn[s]]
  <2>1. recvd[s] \in 0 .. BufSize /\ recvd'[s] \in 0 .. BufSize
    BY TablesKept DEF ServerInv, Tables
  <2>2. conn[s] # None => w \in Seq(Packets)
    BY DEF ServerInv, Tables
  <2>3. ASSUME conn[s] # None, inCmd[s]
        PROVE  w # <<>> /\ Head(w).kind = "exec" /\ recvd[s] >= Head(w).units
               /\ Head(w).units \in Nat
    <3>1. w # <<>> /\ Head(w).kind = "exec" /\ recvd[s] >= Head(w).units
      BY <2>3 DEF ServerInv, CommandHeld, First
    <3>2. Head(w) \in Packets
      BY <2>2, <2>3, <3>1
    <3> QED  BY <3>1, <3>2, PacketUnits
  <2>4. CASE Untouched(s)
    <3>1. conn[s] # None /\ conn'[s] = conn[s] /\ wire'[conn[s]] = w /\ inCmd[s]
          /\ recvd[s] <= recvd'[s]
      BY <1>1, <2>4 DEF Untouched, SameConn, SameBytes
    <3>2. w # <<>> /\ Head(w).kind = "exec" /\ recvd[s] >= Head(w).units
               /\ Head(w).units \in Nat
      BY <2>3, <3>1
    <3> HIDE DEF w
    <3>3. recvd'[s] >= Head(w).units
      BY <2>1, <3>1, <3>2
    <3> QED  BY <3>1, <3>2, <3>3 DEF w
  <2>5. CASE Grows(s)
    <3>1. PICK p \in Packets : wire'[conn[s]] = Append(w, p)
      BY <2>5 DEF Grows
    <3>2. conn[s] # None /\ conn'[s] = conn[s] /\ inCmd[s] /\ recvd'[s] = recvd[s]
      BY <1>1, <2>5 DEF Grows, SameConn
    <3>3. w # <<>> /\ Head(w).kind = "exec" /\ recvd[s] >= Head(w).units /\ w \in Seq(Packets)
      BY <2>2, <2>3, <3>2
    <3> HIDE DEF w
    <3>4. Append(w, p) # <<>> /\ Head(Append(w, p)) = Head(w)
      BY <3>3
    <3> QED  BY <3>1, <3>2, <3>3, <3>4 DEF w
  <2>6. CASE Taken(s) \/ Answered(s)
    BY <1>1, <2>6 DEF Taken, Answered
  <2>7. CASE Started(s)
    <3>1. /\ conn[s] # None /\ conn'[s] = conn[s] /\ wire'[conn[s]] = w
          /\ w # <<>> /\ Head(w).kind = "exec" /\ Head(w).units <= recvd[s]
          /\ recvd'[s] = recvd[s]
      BY <2>7 DEF Started, SameConn, SameBytes, First
    <3>2. Head(w) \in Packets
      BY <2>2, <3>1
    <3>3. Head(w).units \in Nat
      BY <3>2, PacketUnits
    <3> HIDE DEF w
    <3>4. recvd[s] >= Head(w).units
      BY <2>1, <3>1, <3>3
    <3> QED  BY <3>1, <3>4 DEF w
  <2> QED  BY <1>1, <2>4, <2>5, <2>6, <2>7, SlotSteps
<1> QED  BY <1>1 DEF CommandHeld, First

\* A command is counted when it starts, in the order of the packets.
LEMMA CommandsInOrderKept ==
  ASSUME ServerInv, Idle \/ Move
  PROVE  CommandsInOrder'
<1>1. Tables /\ Places /\ Streams /\ CommandHeld /\ CommandsInOrder
  BY DEF ServerInv
<1>2. ASSUME NEW s \in Slots, conn'[s] # None
      PROVE  ran'[conn'[s]] =
               Execs(SubSeq(sent'[conn'[s]], 1,
                            IF inCmd'[s]
                            THEN (Len(sent'[conn'[s]]) - Len(wire'[conn'[s]])) + 1
                            ELSE Len(sent'[conn'[s]]) - Len(wire'[conn'[s]])))
  <2> DEFINE c == conn[s]
             w == wire[c]
             t == sent[c]
             k == Len(t) - Len(w)
             b == SubSeq(t, 1, k)
  <2>1. ASSUME c # None
        PROVE  /\ w \in Seq(Packets) /\ t \in Seq(Packets) /\ IsSuffix(w, t)
               /\ k \in 0 .. Len(t) /\ Len(t) \in Nat /\ Len(w) \in Nat
               /\ ran[c] = Execs(SubSeq(t, 1, IF inCmd[s] THEN k + 1 ELSE k))
    <3>1. w \in Seq(Packets) /\ t \in Seq(Packets) /\ IsSuffix(w, t)
      BY <1>1, <2>1 DEF Tables, Places, Streams
    <3>2. Len(w) <= Len(t) /\ Len(w) \in Nat /\ Len(t) \in Nat
      BY <3>1, SuffixIs
    <3>3. k \in 0 .. Len(t)
      <4>1. \A m \in Nat, n \in Nat : m <= n => n - m \in 0 .. n
        OBVIOUS
      <4> HIDE DEF w, t
      <4> QED  BY <3>2, <4>1
    <3>4. ran[c] = Execs(SubSeq(t, 1, IF inCmd[s] THEN k + 1 ELSE k))
      BY <1>1, <2>1 DEF CommandsInOrder, Begun
    <3> QED  BY <3>1, <3>2, <3>3, <3>4
  <2>2. ASSUME c # None, w # <<>>
        PROVE  /\ k < Len(t) /\ k + 1 \in 0 .. Len(t)
               /\ Len(t) - Len(Tail(w)) = k + 1
               /\ Head(w) \in Packets /\ b \in Seq(Packets)
               /\ SubSeq(t, 1, k + 1) = Append(b, Head(w))
    <3>1. w \in Seq(Packets) /\ t \in Seq(Packets) /\ k \in 0 .. Len(t)
          /\ Len(t) \in Nat /\ Len(w) \in Nat
      BY <2>1, <2>2
    <3>2. /\ k + 1 \in 1 .. Len(t) /\ t[k + 1] = Head(w) /\ Len(Tail(w)) = Len(w) - 1
      BY <2>1, <2>2, SuffixTail
    <3>3. Head(w) \in Packets
      BY <2>2, <3>1
    <3> HIDE DEF w, t
    <3>4. k < Len(t) /\ k + 1 \in 0 .. Len(t) /\ Len(t) - Len(Tail(w)) = k + 1
      <4>1. \A m \in Nat, n \in Nat, i \in Int :
              i = n - m /\ i + 1 \in 1 .. n => i < n /\ i + 1 \in 0 .. n /\ n - (m - 1) = i + 1
        OBVIOUS
      <4>2. k \in Int /\ k = Len(t) - Len(w)
        BY <3>1
      <4> HIDE DEF k
      <4>3. k < Len(t) /\ k + 1 \in 0 .. Len(t) /\ Len(t) - (Len(w) - 1) = k + 1
        BY <3>1, <3>2, <4>1, <4>2
      <4> QED  BY <3>2, <4>3
    <3>5. b \in Seq(Packets) /\ SubSeq(t, 1, k + 1) = Append(b, t[k + 1])
      <4> HIDE DEF k
      <4> QED  BY <3>1, <3>4, FirstPackets
    <3> QED  BY <3>2, <3>3, <3>4, <3>5
  <2>3. CASE Untouched(s)
    <3>1. /\ c # None /\ conn'[s] = c /\ wire'[c] = w /\ sent'[c] = t
          /\ inCmd'[s] = inCmd[s] /\ ran'[c] = ran[c]
      BY <2>3 DEF Untouched, SameConn, SameBytes
    <3> QED  BY <2>1, <3>1
  <2>4. CASE Grows(s)
    <3>1. /\ c # None /\ conn'[s] = c /\ inCmd'[s] = inCmd[s] /\ ran'[c] = ran[c]
      BY <2>4 DEF Grows, SameConn
    <3>2. PICK p \in Packets : wire'[c] = Append(w, p) /\ sent'[c] = Append(t, p)
      BY <2>4 DEF Grows
    <3>3. /\ w \in Seq(Packets) /\ t \in Seq(Packets) /\ k \in 0 .. Len(t)
          /\ Len(t) \in Nat /\ Len(w) \in Nat
      BY <2>1, <3>1
    <3>4. Len(Append(w, p)) = Len(w) + 1 /\ Len(Append(t, p)) = Len(t) + 1
      BY <3>3
    <3>5. Len(sent'[c]) - Len(wire'[c]) = k
      <4> HIDE DEF w, t
      <4> QED  BY <3>2, <3>3, <3>4
    <3>6. inCmd[s] => k + 1 \in 0 .. Len(t)
      BY <1>1, <2>2, <3>1 DEF CommandHeld
    <3>7. \A i \in 0 .. Len(t) : SubSeq(Append(t, p), 1, i) = SubSeq(t, 1, i)
      BY <3>3, FirstPackets
    <3>8. ran[c] = Execs(SubSeq(t, 1, IF inCmd[s] THEN k + 1 ELSE k))
      BY <2>1, <3>1
    <3>9. CASE inCmd[s]
      BY <3>1, <3>2, <3>5, <3>6, <3>7, <3>8, <3>9
    <3>10. CASE ~inCmd[s]
      BY <3>1, <3>2, <3>3, <3>5, <3>7, <3>8, <3>10
    <3> QED  BY <3>9, <3>10
  <2>5. CASE Taken(s)
    <3> DEFINE d == conn'[s]
    <3>1. /\ d \in Conns /\ d \in Range(backlog) /\ wire'[d] = wire[d] /\ sent'[d] = sent[d]
          /\ inCmd'[s] = FALSE /\ ran'[d] = ran[d]
      BY <2>5 DEF Taken, SameBytes
    <3>2. wire[d] = sent[d] /\ ran[d] = <<>> /\ sent[d] \in Seq(Packets)
      BY <1>1, <3>1 DEF Streams, Tables
    <3> HIDE DEF d
    <3>3. Len(sent'[d]) - Len(wire'[d]) = 0 /\ 0 \in 0 .. Len(sent[d])
      BY <3>1, <3>2
    <3>4. SubSeq(sent[d], 1, 0) = <<>>
      BY <3>2, <3>3, FirstPackets
    <3>5. ran'[d] = Execs(SubSeq(sent'[d], 1, Len(sent'[d]) - Len(wire'[d])))
      BY <3>1, <3>2, <3>3, <3>4, ExecsEmpty
    <3> QED  BY <3>1, <3>5 DEF d
  <2>6. CASE Answered(s)
    <3>1. /\ c # None /\ conn'[s] = c /\ inCmd'[s] = FALSE /\ ran'[c] = ran[c]
          /\ w # <<>> /\ wire'[c] = Tail(w) /\ sent'[c] = t
      BY <2>6 DEF Answered, SameConn
    <3>2. Len(sent'[c]) - Len(wire'[c]) = k + 1
      BY <2>2, <3>1
    <3>3. ran[c] = Execs(SubSeq(t, 1, IF inCmd[s] THEN k + 1 ELSE k))
      BY <2>1, <3>1
    <3>4. ran[c] = Execs(SubSeq(t, 1, k + 1))
      <4>1. CASE inCmd[s]
        BY <3>3, <4>1
      <4>2. CASE ~inCmd[s]
        <5>1. Head(w).kind # "exec"
          BY <2>6, <4>2 DEF Answered, First
        <5>2. SubSeq(t, 1, k + 1) = Append(b, Head(w)) /\ b \in Seq(Packets)
              /\ Head(w) \in Packets
          BY <2>2, <3>1
        <5>3. Execs(Append(b, Head(w))) = Execs(b)
          BY <5>1, <5>2, ExecsAppend
        <5> QED  BY <3>3, <4>2, <5>2, <5>3
      <4> QED  BY <4>1, <4>2
    <3> QED  BY <3>1, <3>2, <3>4
  <2>7. CASE Started(s)
    <3>1. /\ c # None /\ conn'[s] = c /\ inCmd[s] = FALSE /\ inCmd'[s] = TRUE
          /\ w # <<>> /\ Head(w).kind = "exec" /\ wire'[c] = w /\ sent'[c] = t
          /\ ran'[c] = Append(ran[c], Head(w))
      BY <2>7 DEF Started, SameConn, SameBytes, First
    <3>2. ran[c] = Execs(b)
      BY <2>1, <3>1
    <3>3. SubSeq(t, 1, k + 1) = Append(b, Head(w)) /\ b \in Seq(Packets) /\ Head(w) \in Packets
      BY <2>2, <3>1
    <3>4. Execs(Append(b, Head(w))) = Append(Execs(b), Head(w))
      BY <3>1, <3>3, ExecsAppend
    <3> QED  BY <3>1, <3>2, <3>3, <3>4
  <2> QED  BY <1>2, <2>3, <2>4, <2>5, <2>6, <2>7, SlotSteps
<1> QED  BY <1>2 DEF CommandsInOrder, Begun

-----------------------------------------------------------------------------
\* Only a command that is fetched is counted, and what was proved stays so.
LEMMA WhoRuns ==
  ASSUME ServerInv, Idle \/ Move
  PROVE  /\ proved \subseteq proved'
         /\ \/ ran' = ran
            \/ \E s \in Slots : /\ conn[s] # None /\ authd[s]
                                /\ \A c \in Conns \ {conn[s]} : ran'[c] = ran[c]
<1>1. Tables /\ Control
  BY DEF ServerInv
<1>2. CASE FetchCommand
  <2>1. at \in Slots /\ inUse[at] /\ pc # "destroyed" /\ authd[at]
    BY <1>1, <1>2 DEF FetchCommand, Control, HasPacket, MayRun
  <2>2. conn[at] # None
    BY <2>1, InUse
  <2>3. \A c \in Conns \ {conn[at]} : ran'[c] = ran[c]
    BY <1>1, <1>2 DEF FetchCommand, Tables
  <2> QED  BY <1>2, <2>1, <2>2, <2>3 DEF FetchCommand
<1>3. CASE Authenticate
  BY <1>3 DEF Authenticate
<1>4. CASE PeerStep
  BY <1>4 DEF PeerStep, Connect, SendPacket, Leave, ghostVars
<1>5. ASSUME NEW n \in 1 .. BufSize, Receive(n) PROVE UNCHANGED <<proved, ran>>
  BY <1>5 DEF Receive, ghostVars
<1>6. CASE Idle \/ Drop \/ Accept \/ Refuse \/ Echo \/ Destroy
  BY <1>6 DEF Idle, Drop, Accept, Refuse, Echo, Destroy, ghostVars
<1>7. ASSUME NEW s \in Slots, NEW c \in Conns, Complete(s, c) PROVE UNCHANGED <<proved, ran>>
  BY <1>7 DEF Complete
<1> QED  BY <1>2, <1>3, <1>4, <1>5, <1>6, <1>7 DEF Move

\* A slot is authenticated for the connection that sent the password, and
\* nobody else has a command run.
LEMMA AuthKept ==
  ASSUME ServerInv, Idle \/ Move
  PROVE  AuthByPasswordOnly'
<1>1. AuthByPasswordOnly /\ Tables
  BY DEF ServerInv
<1>2. proved \subseteq proved'
  BY WhoRuns
<1>3. ASSUME NEW s \in Slots, conn'[s] # None, authd'[s]
      PROVE  conn'[s] \in proved'
  <2>1. CASE Untouched(s) \/ Grows(s) \/ Started(s)
    <3>1. conn[s] # None /\ conn'[s] = conn[s] /\ authd[s]
      BY <1>3, <2>1 DEF Untouched, Grows, Started, SameConn
    <3> QED  BY <1>1, <1>2, <3>1 DEF AuthByPasswordOnly
  <2>2. CASE Answered(s)
    <3>1. conn[s] # None /\ conn'[s] = conn[s] /\ (authd[s] \/ conn[s] \in proved')
      BY <1>3, <2>2 DEF Answered, SameConn
    <3> QED  BY <1>1, <1>2, <3>1 DEF AuthByPasswordOnly
  <2> QED  BY <1>3, <2>1, <2>2, SlotSteps DEF Taken
<1>4. ASSUME NEW c \in Conns, ran'[c] # <<>>
      PROVE  c \in proved'
  <2>1. CASE ran' = ran
    BY <1>1, <1>2, <1>4, <2>1 DEF AuthByPasswordOnly
  <2>2. ASSUME NEW s \in Slots, conn[s] # None, authd[s],
               \A d \in Conns \ {conn[s]} : ran'[d] = ran[d]
        PROVE  c \in proved'
    <3>1. CASE c = conn[s]
      BY <1>1, <1>2, <2>2, <3>1 DEF AuthByPasswordOnly
    <3>2. CASE c # conn[s]
      BY <1>1, <1>2, <1>4, <2>2, <3>2 DEF AuthByPasswordOnly
    <3> QED  BY <3>1, <3>2
  <2> QED  BY <2>1, <2>2, WhoRuns
<1> QED  BY <1>3, <1>4 DEF AuthByPasswordOnly

-----------------------------------------------------------------------------
Over == {"gone", "dropped"}

\* A connection leaves its slot for good.
LEMMA OverStays ==
  ASSUME ServerInv, Idle \/ Move, NEW c \in Conns
  PROVE  /\ peer[c] \in Over => peer'[c] \in Over
         /\ \A s \in Slots : conn[s] = c => conn'[s] = c \/ peer'[c] \in Over
<1>1. Tables /\ Places /\ c # None
  BY RconAssumption DEF ServerInv
<1>2. CASE PeerStep
  BY <1>1, <1>2
  DEF PeerStep, Connect, SendPacket, Leave, Over, Tables, clientVars
<1>3. CASE Drop
  <2>1. /\ at \in Slots /\ conn[at] \in Conns /\ CloseConns({conn[at]}, "dropped")
    BY <1>3, Dropped
  <2>2. \A s \in Slots : conn'[s] = IF conn[s] \in {conn[at]} THEN None ELSE conn[s]
    BY <1>1, <2>1, Closed
  <2>3. IF c = conn[at] THEN peer'[c] \in Over ELSE peer'[c] = peer[c]
    BY <1>1, <2>1, Closed DEF Over
  <2> QED  BY <2>2, <2>3
<1>4. CASE Accept
  <2>1. PICK s \in Slots, d \in Conns : conn[s] = None /\ AcceptInto(d, s)
    BY <1>4, Accepted
  <2> QED  BY <1>1, <1>4, <2>1 DEF Accept, AcceptInto, Tables
<1>5. CASE Refuse
  <2> DEFINE d == Head(backlog)
  <2>1. backlog \in Seq(Conns) /\ backlog # <<>> /\ IsInjective(backlog)
    BY <1>5 DEF Refuse, ServerInv, Polled, Places, Tables
  <2>2. d \in Range(backlog) /\ d \in Conns
    BY <2>1, RangeTail
  <2>3. CloseConns({d}, "refused")
    BY <1>5 DEF Refuse
  <2>4. peer[d] \in Alive /\ \A s \in Slots : conn[s] # d
    BY <1>1, <2>2, RconAssumption DEF Places
  <2> HIDE DEF d
  <2>5. /\ \A s \in Slots : conn'[s] = IF conn[s] \in {d} THEN None ELSE conn[s]
        /\ \A e \in Conns \ {d} : peer'[e] = peer[e]
    BY <1>1, <2>2, <2>3, Closed
  <2> QED  BY <2>4, <2>5 DEF Alive, Over
<1>6. CASE Destroy
  <2> DEFINE C == {d \in Conns : peer[d] # "new"}
  <2>1. CloseConns(C, "gone") /\ C \in SUBSET Conns
    BY <1>6 DEF Destroy
  <2>2. \A s \in Slots : conn[s] = c => c \in C
    BY <1>1 DEF Places, Alive
  <2>3. peer[c] \in Over => c \in C
    BY DEF Over
  <2> HIDE DEF C
  <2>4. c \in C => peer'[c] = "gone"
    BY <1>1, <2>1, Closed
  <2> QED  BY <2>2, <2>3, <2>4 DEF Over
<1>7. ASSUME NEW n \in 1 .. BufSize, Receive(n) PROVE UNCHANGED <<conn, peer>>
  BY <1>7 DEF Receive, peerVars
<1>8. CASE Idle \/ Authenticate \/ Echo \/ FetchCommand
  BY <1>8 DEF Idle, Authenticate, Echo, FetchCommand, peerVars, clientVars
<1>9. ASSUME NEW s \in Slots, NEW d \in Conns, Complete(s, d) PROVE UNCHANGED <<conn, peer>>
  BY <1>9 DEF Complete
<1> QED  BY <1>2, <1>3, <1>4, <1>5, <1>6, <1>7, <1>8, <1>9 DEF Move

\* A command that is not complete is that of the connection in its slot, or
\* of one that is no more; and so the response goes to who asked, or the one
\* who asked is no more.
LEMMA AskedKept ==
  ASSUME ServerInv, Idle \/ Move
  PROVE  Asked' /\ RepliesToAsker'
<1>1. Tables /\ Control /\ Asked /\ RepliesToAsker
  BY DEF ServerInv
<1>2. ASSUME NEW r \in pending
      PROVE  conn'[r[1]] = r[2] \/ peer'[r[2]] \in Over
  <2>1. r[1] \in Slots /\ r[2] \in Conns
    BY <1>1 DEF Tables
  <2>2. conn[r[1]] = r[2] \/ peer[r[2]] \in Over
    BY <1>1 DEF Asked, Over
  <2> QED  BY <2>1, <2>2, OverStays
<1>3. ASSUME NEW a \in answers, a[1] # a[2]
      PROVE  peer'[a[2]] \in Over
  <2>1. a[2] \in Conns
    BY <1>1 DEF Tables
  <2>2. peer[a[2]] \in Over
    BY <1>1, <1>3 DEF RepliesToAsker, Over
  <2> QED  BY <2>1, <2>2, OverStays
<1>4. ASSUME UNCHANGED <<pending, answers>>
      PROVE  Asked' /\ RepliesToAsker'
  BY <1>2, <1>3, <1>4 DEF Asked, RepliesToAsker, Over
<1>5. CASE FetchCommand
  <2>1. pending' = pending \cup {<<at, conn[at]>>} /\ UNCHANGED <<conn, answers>>
    BY <1>5 DEF FetchCommand
  <2>2. ASSUME NEW r \in pending' PROVE conn'[r[1]] = r[2] \/ peer'[r[2]] \in Over
    BY <1>2, <2>1, <2>2
  <2> QED  BY <1>3, <2>1, <2>2 DEF Asked, RepliesToAsker, Over
<1>6. ASSUME NEW s \in Slots, NEW c \in Conns, Complete(s, c)
      PROVE  Asked' /\ RepliesToAsker'
  <2>1. <<s, c>> \in pending /\ pending' \subseteq pending /\ UNCHANGED <<conn, peer>>
    BY <1>6 DEF Complete
  <2>2. answers' \subseteq answers \cup {<<conn[s], c>>}
    BY <1>6 DEF Complete
  <2>3. conn[s] = c \/ peer[c] \in Over
    BY <1>1, <2>1 DEF Asked, Over
  <2>4. ASSUME NEW a \in answers', a[1] # a[2] PROVE peer'[a[2]] \in Over
    <3>1. CASE a \in answers
      BY <1>3, <2>4, <3>1
    <3>2. CASE a = <<conn[s], c>>
      BY <2>1, <2>3, <2>4, <3>2
    <3> QED  BY <2>2, <3>1, <3>2
  <2> QED  BY <1>2, <2>1, <2>4 DEF Asked, RepliesToAsker, Over
<1>7. CASE PeerStep
  BY <1>4, <1>7 DEF PeerStep, Connect, SendPacket, Leave, appVars, ghostVars
<1>8. ASSUME NEW n \in 1 .. BufSize, Receive(n) PROVE UNCHANGED <<pending, answers>>
  BY <1>8 DEF Receive, NextSlot, ghostVars
<1>9. CASE Idle \/ Drop \/ Accept \/ Refuse \/ Authenticate \/ Echo \/ Destroy
  BY <1>4, <1>9
  DEF Idle, Drop, Accept, Refuse, Authenticate, Echo, Destroy, appVars, ghostVars
<1> QED  BY <1>4, <1>5, <1>6, <1>7, <1>8, <1>9 DEF Move

-----------------------------------------------------------------------------
(* The theorems.                                                           *)

LEMMA InitInv ==
  ASSUME Init
  PROVE  ServerInv
<1>1. 1 \in Slots /\ 0 \in 0 .. BufSize
  BY RconAssumption DEF Slots
<1>2. <<>> \in Seq(Packets) /\ <<>> \in Seq(Conns)
  OBVIOUS
<1>3. Tables
  BY <1>1, <1>2 DEF Init, Tables
<1>4. Control
  BY <1>1 DEF Init, SetupInit, Control, Stages
<1>5. Held
  BY SetupAssumption DEF Init, SetupInit, Held, NothingLeaks, Stages, Ended
<1>6. Places /\ Polled
  BY RangeEmpty DEF Init, SetupInit, Places, Polled, Alive
<1>7. Streams
  BY RangeEmpty DEF Init, Streams, Alive
<1>8. CommandHeld /\ CommandsInOrder
  BY DEF Init, CommandHeld, CommandsInOrder
<1>9. AuthByPasswordOnly /\ Asked /\ RepliesToAsker
  BY DEF Init, AuthByPasswordOnly, Asked, RepliesToAsker
<1> QED  BY <1>3, <1>4, <1>5, <1>6, <1>7, <1>8, <1>9 DEF ServerInv

\* The inductive invariant of the server.
THEOREM ServerInvariant == Spec => []ServerInv
<1>1. Init => ServerInv
  BY InitInv
<1>2. ServerInv /\ [Next]_vars => ServerInv'
  <2> SUFFICES ASSUME ServerInv, [Next]_vars PROVE ServerInv'
    OBVIOUS
  <2>1. Idle \/ Move
    BY StepKinds
  <2>2. Tables' /\ Places' /\ Streams'
    BY <2>1, TablesKept, PlacesKept, StreamsKept
  <2>3. Control' /\ Held' /\ Polled'
    BY ControlKept, HeldKept, PolledKept DEF ServerInv
  <2>4. CommandHeld' /\ CommandsInOrder'
    BY <2>1, CommandHeldKept, CommandsInOrderKept
  <2>5. AuthByPasswordOnly' /\ Asked' /\ RepliesToAsker'
    BY <2>1, AuthKept, AskedKept
  <2> QED  BY <2>2, <2>3, <2>4, <2>5 DEF ServerInv
<1> QED  BY <1>1, <1>2, PTL DEF Spec

\* No step takes a field of the server, of the transport or of the program out
\* of its type, in whatever order the peers act.
THEOREM TypeCorrect == Spec => []TypeOK
<1>1. ServerInv => TypeOK
  <2> SUFFICES ASSUME ServerInv PROVE TypeOK
    OBVIOUS
  <2>1. Tables /\ Control /\ Held
    BY DEF ServerInv
  <2>2. Range(backlog) \subseteq Conns
    BY <2>1 DEF Tables, Range
  <2>3. ASSUME NEW w \in Seq(Packets) PROVE Range(w) \subseteq Packets
    BY DEF Range
  <2>4. \A c \in Conns : /\ Range(sent[c]) \subseteq Packets
                         /\ Range(wire[c]) \subseteq Packets
                         /\ Range(ran[c]) \subseteq Packets
    BY <2>1, <2>3 DEF Tables
  <2> QED  BY <2>1, <2>2, <2>4 DEF Tables, Control, Held, Alive, TypeOK
<1> QED  BY <1>1, ServerInvariant, PTL

\* Whatever fails during the setup and whoever is dropped or refused, no
\* descriptor and no memory is lost.
THEOREM NothingIsLeaked == Spec => []NothingLeaks
<1>1. ServerInv => NothingLeaks
  BY DEF ServerInv, Held
<1> QED  BY <1>1, ServerInvariant, PTL

\* rc->clients and the transport agree on the slots in use, each with a
\* connection of its own.
THEOREM TablesAgree == Spec => []SlotsAgree
<1>1. ServerInv => SlotsAgree
  BY DEF ServerInv, Places, SlotsAgree, Alive
<1> QED  BY <1>1, ServerInvariant, PTL

\* A slot that is used again keeps no byte of the client that had it before.
THEOREM NoForeignBytes == Spec => []BufferIsOfConnection
<1>1. ServerInv => BufferIsOfConnection
  <2> SUFFICES ASSUME ServerInv, NEW s \in Slots, conn[s] # None
               PROVE  /\ recvd[s] <= Units(wire[conn[s]])
                      /\ IsSuffix(wire[conn[s]], sent[conn[s]])
    BY DEF BufferIsOfConnection
  <2> QED  BY DEF ServerInv, Tables, Places, Streams
<1> QED  BY <1>1, ServerInvariant, PTL

\* No command of a client that did not send the password is ever run, however
\* often slots are used again and the password is changed.
THEOREM OnlyByPassword == Spec => []AuthByPasswordOnly
<1>1. ServerInv => AuthByPasswordOnly
  BY DEF ServerInv
<1> QED  BY <1>1, ServerInvariant, PTL

\* *commandPtr stays good until rcon_complete_command.
THEOREM CommandStays == Spec => []CommandHeld
<1>1. ServerInv => CommandHeld
  BY DEF ServerInv
<1> QED  BY <1>1, ServerInvariant, PTL

\* Each command runs once and in the order in which they were sent.
THEOREM OnceAndInOrder == Spec => []CommandsInOrder
<1>1. ServerInv => CommandsInOrder
  BY DEF ServerInv
<1> QED  BY <1>1, ServerInvariant, PTL

\* A response reaches another client than the one that asked only if the
\* connection of that one had ended.
THEOREM RepliesReachAsker == Spec => []RepliesToAsker
<1>1. ServerInv => RepliesToAsker
  BY DEF ServerInv
<1> QED  BY <1>1, ServerInvariant, PTL

=============================================================================
