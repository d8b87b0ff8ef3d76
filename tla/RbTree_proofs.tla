--------------------------- MODULE RbTree_proofs ---------------------------
(***************************************************************************)
(* The red-black tree of RbTree, for any finite set of nodes: what its     *)
(* rotations, its two fixups and its insertion make of a tree.             *)
(*                                                                         *)
(* A tree is described by three things that the code does not store:       *)
(* sub[n], the nodes below n and n itself (Shaped); pos[n], where n is     *)
(* from left to right (Sorted); h[n], the black nodes on a path from n     *)
(* down (Heights).  Nothing is said of the keys but where they are         *)
(* compared: an order that no operation but an insertion extends is what   *)
(* makes keys beyond the narrow range harmless to the shape.               *)
(*                                                                         *)
(* Within a fixup one thing is out of place, and the lemmas say which: a   *)
(* red node below a red one (Rising), a black node too few on the paths    *)
(* through one (LackAt).  A round mends it or moves it up, which the       *)
(* number of nodes below bounds, so that the rounds suffice.               *)
(***************************************************************************)
EXTENDS RbTree, FiniteSetTheorems, WellFoundedInduction, TLAPS

----------------------------------------------------------------------------
(* Numbers and loops. *)

\* Any set of numbers has a least one: what takes the place of induction.
LEMMA LeastNumber ==
    ASSUME NEW T, T \subseteq Nat, T # {}
    PROVE  \E n \in T : \A k \in T : n <= k
<1>1. PICK R : R = OpToRel(<, Nat)
  OBVIOUS
<1>2. \A x, y \in Nat : <<y, x>> \in R <=> y < x
  BY <1>1 DEF OpToRel
<1>3. IsWellFoundedOn(R, Nat)
  BY <1>1, NatLessThanWellFounded
<1>4. PICK x \in T : \A y \in T : <<y, x>> \notin R
  BY <1>3, WFMin
<1>5. ASSUME NEW y \in T PROVE x <= y
  <2>1. x \in Nat /\ y \in Nat /\ ~(y < x)
    BY <1>2, <1>4
  <2> QED
    BY <2>1
<1> QED
  BY <1>4, <1>5

\* A set of finite sets, if it is not empty, has one with as few elements as any:
\* of the nodes with some property there is a lowest one.
LEMMA Smallest ==
    ASSUME NEW S, S # {}, NEW size, \A x \in S : size[x] \in Nat
    PROVE  \E x \in S : \A y \in S : size[x] <= size[y]
<1> DEFINE T == {size[x] : x \in S}
<1>1. T \subseteq Nat /\ T # {}
  OBVIOUS
<1>2. PICK k \in T : \A m \in T : k <= m
  <2> HIDE DEF T
  <2> QED
    BY <1>1, LeastNumber
<1> QED
  BY <1>2

\* A loop whose rounds take S to S.
Round(g, S) == g \in [S -> S]
LoopOf(f, S, g, x, k) == f \in [0..k -> S] /\ f[0] = x /\ \A i \in 1..k : f[i] = g[f[i - 1]]

\* A loop of k rounds goes somewhere.
LEMMA LoopExists ==
    ASSUME NEW S, NEW g, Round(g, S), NEW x \in S, NEW k \in Nat
    PROVE  \E f : LoopOf(f, S, g, x, k)
<1> SUFFICES \E f \in [0..k -> S] : f[0] = x /\ \A i \in 1..k : f[i] = g[f[i - 1]]
  BY DEF LoopOf
<1> USE DEF Round
<1> DEFINE Loops(n) == \E f \in [0..n -> S] : f[0] = x /\ \A i \in 1..n : f[i] = g[f[i - 1]]
           Missing == {n \in Nat : ~Loops(n)}
<1> SUFFICES ASSUME Missing # {} PROVE FALSE
  OBVIOUS
<1>1. PICK m \in Missing : \A n \in Missing : m <= n
  <2>1. Missing \subseteq Nat
    OBVIOUS
  <2> HIDE DEF Missing
  <2> QED
    BY <2>1, LeastNumber
<1>2. m \in Nat /\ ~Loops(m)
  BY <1>1
<1>3. CASE m = 0
  <2> DEFINE f == [i \in 0..0 |-> x]
  <2>1. f \in [0..0 -> S] /\ f[0] = x /\ \A i \in 1..0 : f[i] = g[f[i - 1]]
    OBVIOUS
  <2> QED
    BY <1>2, <1>3, <2>1
<1>4. CASE m # 0
  <2>1. m - 1 \in Nat /\ ~(m <= m - 1)
    BY <1>2, <1>4
  <2>2. Loops(m - 1)
    BY <1>1, <2>1
  <2>3. PICK f \in [0..m - 1 -> S] : f[0] = x /\ \A i \in 1..m - 1 : f[i] = g[f[i - 1]]
    BY <2>2
  <2> DEFINE h == [i \in 0..m |-> IF i = m THEN g[f[m - 1]] ELSE f[i]]
  <2>4. h \in [0..m -> S]
    BY <1>2, <2>1, <2>3
  <2>5. h[0] = x /\ \A i \in 1..m : h[i] = g[h[i - 1]]
    BY <1>2, <1>4, <2>1, <2>3
  <2> QED
    BY <1>2, <2>4, <2>5
<1> QED
  BY <1>3, <1>4

\* What the start has, and every round keeps, every round has.
LEMMA LoopKeeps ==
    ASSUME NEW k \in Nat, NEW f, NEW I, <<0, f[0]>> \in I,
           \A i \in 0..k : i # k /\ <<i, f[i]>> \in I => <<i + 1, f[i + 1]>> \in I
    PROVE  \A i \in 0..k : <<i, f[i]>> \in I
<1> DEFINE Bad == {i \in 0..k : <<i, f[i]>> \notin I}
<1> SUFFICES ASSUME Bad # {} PROVE FALSE
  OBVIOUS
<1>1. PICK m \in Bad : \A n \in Bad : m <= n
  <2>1. Bad \subseteq Nat
    OBVIOUS
  <2> HIDE DEF Bad
  <2> QED
    BY <2>1, LeastNumber
<1>2. m \in 0..k /\ <<m, f[m]>> \notin I /\ m # 0
  BY <1>1
<1>3. m - 1 \in 0..k /\ m - 1 # k /\ ~(m <= m - 1)
  BY <1>2
<1>4. <<m - 1, f[m - 1]>> \in I
  BY <1>1, <1>3
<1>5. (m - 1) + 1 = m
  BY <1>2
<1> QED
  BY <1>2, <1>3, <1>4, <1>5

----------------------------------------------------------------------------
(* The shape of a tree.  sub[n] is the set of the nodes at or below n: the *)
(* two subtrees of a node are apart, and do not have the node.             *)

Ptrs == Cells \cup {Null}

Trees ==
    [root : Cells,
     kid : [Sides -> [Cells -> Ptrs]],
     parent : [Cells -> Ptrs],
     red : [Cells -> BOOLEAN],
     key : [Cells -> Int]]

\* Nothing is below the sentinel.
SubOK(sub) == sub \in [Ptrs -> SUBSET Nodes] /\ sub[Sentinel] = {} /\ sub[Null] = {}

\* What is below a node, on its sides.
Nested(t, sub) ==
    \A n \in Nodes :
        /\ sub[n] = {n} \cup sub[t.kid["left"][n]] \cup sub[t.kid["right"][n]]
        /\ n \notin sub[t.kid["left"][n]] /\ n \notin sub[t.kid["right"][n]]
        /\ sub[t.kid["left"][n]] \cap sub[t.kid["right"][n]] = {}

\* The nodes of the tree have leaves, the others nothing.
Leaved(t, sub) ==
    /\ \A s \in Sides : t.kid[s][Sentinel] = Sentinel
    /\ \A n \in Nodes, s \in Sides : t.kid[s][n] # Null <=> n \in sub[t.root]

\* A node but the root hangs at its parent.
Hangs(t, n) == \E s \in Sides : t.kid[s][t.parent[n]] = n

\* Parent pointers agree with the children's, but for the root's.
Parented(t, sub) ==
    /\ \A n \in Nodes, s \in Sides : t.kid[s][n] \in Nodes => t.parent[t.kid[s][n]] = n
    /\ \A n \in sub[t.root] : n # t.root => t.parent[n] \in sub[t.root] /\ Hangs(t, n)

\* A tree with nothing out of place, whatever its colours and keys.
Shaped(t, sub) == t \in Trees /\ SubOK(sub) /\ Nested(t, sub) /\ Leaved(t, sub) /\ Parented(t, sub)

LEMMA SidesAre ==
    /\ Sides = {"left", "right"}
    /\ \A s \in Sides : Other(s) \in Sides /\ Other(s) # s /\ Other(Other(s)) = s
    /\ \A s, q \in Sides : q = s \/ q = Other(s)
BY DEF Sides, Other

\* Nodes, the sentinel and Null are apart.
LEMMA CellsAre ==
    /\ Sentinel \in Cells /\ Sentinel \in Ptrs /\ Null \in Ptrs /\ Null \notin Cells
    /\ Sentinel \notin Nodes /\ Null \notin Nodes /\ Sentinel # Null
    /\ Nodes \subseteq Cells /\ Cells \subseteq Ptrs
    /\ \A c \in Cells : c = Sentinel \/ c \in Nodes
    /\ \A c \in Ptrs : c = Sentinel \/ c = Null \/ c \in Nodes
    /\ IsFiniteSet(Nodes)
BY RbTreeAssumption DEF Cells, Ptrs

\* The fields of a tree.
LEMMA TreeFields ==
    ASSUME NEW t \in Trees
    PROVE  /\ t.root \in Cells
           /\ t.kid \in [Sides -> [Cells -> Ptrs]]
           /\ \A s \in Sides, c \in Cells : t.kid[s][c] \in Ptrs
           /\ t.parent \in [Cells -> Ptrs] /\ \A c \in Cells : t.parent[c] \in Ptrs
           /\ t.red \in [Cells -> BOOLEAN] /\ \A c \in Cells : t.red[c] \in BOOLEAN
           /\ t.key \in [Cells -> Int] /\ \A c \in Cells : t.key[c] \in Int
BY DEF Trees

\* A tree, a node and its two sides, whichever is which.
LEMMA NodeIs ==
    ASSUME NEW t, NEW sub, Shaped(t, sub), NEW n \in Nodes, NEW s \in Sides
    PROVE  /\ t.kid[s][n] \in Ptrs
           /\ sub[n] = {n} \cup sub[t.kid[s][n]] \cup sub[t.kid[Other(s)][n]]
           /\ n \in sub[n] /\ n \notin sub[t.kid[s][n]]
           /\ sub[t.kid[s][n]] \subseteq sub[n]
           /\ sub[t.kid[s][n]] \cap sub[t.kid[Other(s)][n]] = {}
           /\ t.kid[s][n] # n
<1>1. t.kid[s][n] \in Ptrs
  BY CellsAre, TreeFields DEF Shaped
<1>2. (s = "left" /\ Other(s) = "right") \/ (s = "right" /\ Other(s) = "left")
  BY DEF Sides, Other
<1>3. /\ sub[n] = {n} \cup sub[t.kid[s][n]] \cup sub[t.kid[Other(s)][n]]
      /\ n \notin sub[t.kid[s][n]]
      /\ sub[t.kid[s][n]] \cap sub[t.kid[Other(s)][n]] = {}
  BY <1>2 DEF Shaped, Nested
<1>4. n \in sub[n]
  BY <1>3
<1> QED
  BY <1>1, <1>3, <1>4

\* What is below a cell is finite: no more nodes than there are rounds.
LEMMA SubFinite ==
    ASSUME NEW sub, SubOK(sub), NEW n \in Ptrs
    PROVE  /\ sub[n] \subseteq Nodes /\ IsFiniteSet(sub[n])
           /\ Cardinality(sub[n]) \in Nat /\ Cardinality(sub[n]) <= Rounds
<1>1. sub[n] \subseteq Nodes
  BY DEF SubOK
<1>2. IsFiniteSet(sub[n]) /\ Cardinality(sub[n]) <= Cardinality(Nodes)
  BY <1>1, CellsAre, FS_Subset
<1>3. Cardinality(sub[n]) \in Nat
  BY <1>2, FS_CardinalityType
<1> QED
  BY <1>1, <1>2, <1>3 DEF Rounds

\* A set inside another that has an element more is smaller.
LEMMA Smaller ==
    ASSUME NEW A, NEW B, IsFiniteSet(B), A \subseteq B, NEW x \in B, x \notin A
    PROVE  IsFiniteSet(A) /\ Cardinality(A) \in Nat /\ Cardinality(B) \in Nat /\ Cardinality(A) < Cardinality(B)
<1>1. IsFiniteSet(A) /\ Cardinality(A) <= Cardinality(B)
  BY FS_Subset
<1>2. Cardinality(A) # Cardinality(B)
  BY FS_Subset
<1>3. Cardinality(A) \in Nat /\ Cardinality(B) \in Nat
  BY <1>1, FS_CardinalityType
<1> QED
  BY <1>1, <1>2, <1>3

\* There are fewer nodes below a child.
LEMMA KidSmaller ==
    ASSUME NEW t, NEW sub, Shaped(t, sub), NEW n \in Nodes, NEW s \in Sides
    PROVE  Cardinality(sub[t.kid[s][n]]) < Cardinality(sub[n])
<1>1. SubOK(sub) /\ n \in Ptrs
  BY CellsAre DEF Shaped
<1>2. IsFiniteSet(sub[n])
  BY <1>1, SubFinite
<1> QED
  BY <1>2, NodeIs, Smaller

\* Of nodes that have something a lowest one.
LEMMA Lowest ==
    ASSUME NEW t, NEW sub, Shaped(t, sub), NEW S, S \subseteq Nodes, S # {}
    PROVE  \E n \in S : \A s \in Sides : t.kid[s][n] \notin S
<1> DEFINE size == [n \in Nodes |-> Cardinality(sub[n])]
<1>1. \A n \in S : size[n] \in Nat
  BY SubFinite, CellsAre DEF Shaped
<1>2. PICK n \in S : \A m \in S : size[n] <= size[m]
  <2> HIDE DEF size
  <2> QED
    BY <1>1, Smallest
<1>3. ASSUME NEW s \in Sides, t.kid[s][n] \in S PROVE FALSE
  <2>1. size[t.kid[s][n]] < size[n]
    BY <1>3, KidSmaller
  <2>2. size[t.kid[s][n]] \in Nat /\ size[n] \in Nat /\ size[n] <= size[t.kid[s][n]]
    BY <1>1, <1>2, <1>3
  <2> HIDE DEF size
  <2> QED
    BY <2>1, <2>2
<1> QED
  BY <1>2, <1>3

\* What is below a node that is below another is below that one.
LEMMA Laminar ==
    ASSUME NEW t, NEW sub, Shaped(t, sub), NEW a \in Nodes, NEW b \in Ptrs, a \in sub[b]
    PROVE  sub[a] \subseteq sub[b]
<1> DEFINE Bad == {n \in Nodes : a \in sub[n] /\ ~(sub[a] \subseteq sub[n])}
<1> SUFFICES ASSUME Bad # {} PROVE FALSE
  BY CellsAre DEF Shaped, SubOK
<1>1. PICK n \in Bad : \A s \in Sides : t.kid[s][n] \notin Bad
  <2>1. Bad \subseteq Nodes
    OBVIOUS
  <2> HIDE DEF Bad
  <2> QED
    BY <2>1, Lowest
<1>2. n \in Nodes /\ a \in sub[n] /\ ~(sub[a] \subseteq sub[n]) /\ a # n
  BY <1>1
<1>3. PICK s \in Sides : a \in sub[t.kid[s][n]]
  BY <1>2, NodeIs, SidesAre
<1>4. t.kid[s][n] \in Nodes
  BY <1>2, <1>3, NodeIs, CellsAre DEF Shaped, SubOK
<1>5. sub[a] \subseteq sub[t.kid[s][n]]
  BY <1>1, <1>3, <1>4
<1> QED
  BY <1>2, <1>5, NodeIs

\* The parent of what is below a node is at or below it.
LEMMA ParentBelow ==
    ASSUME NEW t, NEW sub, Shaped(t, sub), NEW a \in Nodes, NEW b \in Nodes, a \in sub[b], a # b
    PROVE  t.parent[a] \in sub[b]
<1> DEFINE Bad == {n \in Nodes : a \in sub[n] /\ a # n /\ t.parent[a] \notin sub[n]}
<1> SUFFICES ASSUME Bad # {} PROVE FALSE
  OBVIOUS
<1>1. PICK n \in Bad : \A s \in Sides : t.kid[s][n] \notin Bad
  <2>1. Bad \subseteq Nodes
    OBVIOUS
  <2> HIDE DEF Bad
  <2> QED
    BY <2>1, Lowest
<1>2. n \in Nodes /\ a \in sub[n] /\ a # n /\ t.parent[a] \notin sub[n]
  BY <1>1
<1>3. PICK s \in Sides : a \in sub[t.kid[s][n]]
  BY <1>2, NodeIs, SidesAre
<1>4. t.kid[s][n] \in Nodes
  BY <1>2, <1>3, NodeIs, CellsAre DEF Shaped, SubOK
<1>5. CASE a = t.kid[s][n]
  BY <1>2, <1>5, NodeIs DEF Shaped, Parented
<1>6. CASE a # t.kid[s][n]
  <2>1. t.parent[a] \in sub[t.kid[s][n]]
    BY <1>1, <1>3, <1>4, <1>6
  <2> QED
    BY <1>2, <2>1, NodeIs
<1> QED
  BY <1>5, <1>6

\* The nodes of a tree, from the root down.
LEMMA LinkedIs ==
    ASSUME NEW t, NEW sub, Shaped(t, sub), NEW n \in sub[t.root]
    PROVE  /\ n \in Nodes /\ t.root \in Nodes /\ t.root \in sub[t.root]
           /\ sub[n] \subseteq sub[t.root]
           /\ \A s \in Sides : t.kid[s][n] \in Cells /\ sub[t.kid[s][n]] \subseteq sub[t.root]
                               /\ (t.kid[s][n] # Sentinel => t.kid[s][n] \in sub[t.root])
                               /\ t.kid[s][n] # t.root
<1>1. t.root \in Ptrs /\ sub[t.root] \subseteq Nodes
  BY CellsAre, TreeFields, SubFinite DEF Shaped
<1>2. n \in Nodes /\ t.root \in Nodes /\ t.root \in sub[t.root]
  BY <1>1, CellsAre, TreeFields, NodeIs, SidesAre DEF Shaped, SubOK
<1>3. sub[n] \subseteq sub[t.root]
  BY <1>1, <1>2, Laminar
<1>4. ASSUME NEW s \in Sides
      PROVE  /\ t.kid[s][n] \in Cells /\ sub[t.kid[s][n]] \subseteq sub[t.root]
             /\ (t.kid[s][n] # Sentinel => t.kid[s][n] \in sub[t.root])
             /\ t.kid[s][n] # t.root
  <2>1. t.kid[s][n] \in Ptrs /\ t.kid[s][n] # Null
    BY <1>2, NodeIs DEF Shaped, Leaved
  <2>2. t.kid[s][n] \in Cells
    BY <2>1, CellsAre
  <2>3. sub[t.kid[s][n]] \subseteq sub[t.root]
    BY <1>2, <1>3, NodeIs
  <2>4. t.kid[s][n] # Sentinel => t.kid[s][n] \in sub[t.kid[s][n]]
    BY <2>2, CellsAre, NodeIs, SidesAre
  <2>5. n \in sub[t.root] /\ n \notin sub[t.kid[s][n]]
    BY <1>2, NodeIs
  <2> QED
    BY <2>2, <2>3, <2>4, <2>5
<1> QED
  BY <1>2, <1>3, <1>4

----------------------------------------------------------------------------
(* What the code stores in a tree. *)

SetRoot(t, v) == [t EXCEPT !.root = v]

\* r is t with something stored: a pointer to a child, to a parent or to the root, a
\* key or a colour.
KidStored(t, r, s, c, v) ==
    /\ r \in Trees /\ r.root = t.root /\ r.parent = t.parent /\ r.red = t.red /\ r.key = t.key
    /\ r.kid[s][c] = v
    /\ \A q \in Sides, d \in Cells : q # s \/ d # c => r.kid[q][d] = t.kid[q][d]
ParentStored(t, r, c, v) ==
    /\ r \in Trees /\ r.root = t.root /\ r.kid = t.kid /\ r.red = t.red /\ r.key = t.key
    /\ r.parent[c] = v
    /\ \A d \in Cells : d # c => r.parent[d] = t.parent[d]
RootStored(t, r, v) ==
    /\ r \in Trees /\ r.root = v /\ r.kid = t.kid /\ r.parent = t.parent
    /\ r.red = t.red /\ r.key = t.key
KeyStored(t, r, c, v) ==
    /\ r \in Trees /\ r.root = t.root /\ r.kid = t.kid /\ r.parent = t.parent /\ r.red = t.red
    /\ r.key[c] = v
    /\ \A d \in Cells : d # c => r.key[d] = t.key[d]
Painted(t, r, c, v) ==
    /\ r \in Trees /\ r.root = t.root /\ r.kid = t.kid /\ r.parent = t.parent /\ r.key = t.key
    /\ r.red[c] = v
    /\ \A d \in Cells : d # c => r.red[d] = t.red[d]

\* Each store does what its EXCEPT says, to that field of that cell alone.
LEMMA KidSet ==
    ASSUME NEW t \in Trees, NEW s \in Sides, NEW c \in Cells, NEW v \in Ptrs
    PROVE  KidStored(t, SetKid(t, s, c, v), s, c, v)
<1>1. PICK k : k = [t.kid EXCEPT ![s][c] = v]
  OBVIOUS
<1>2. k \in [Sides -> [Cells -> Ptrs]]
  BY <1>1 DEF Trees
<1>3. \A q \in Sides, d \in Cells : k[q][d] = IF q = s /\ d = c THEN v ELSE t.kid[q][d]
  BY <1>1 DEF Trees
<1>4. SetKid(t, s, c, v) = [t EXCEPT !.kid = k]
  BY <1>1 DEF Trees, SetKid
<1> QED
  BY <1>2, <1>3, <1>4, SMTT(30) DEF Trees, KidStored

LEMMA ParentSet ==
    ASSUME NEW t \in Trees, NEW c \in Cells, NEW v \in Ptrs
    PROVE  ParentStored(t, SetParent(t, c, v), c, v)
<1>1. PICK k : k = [t.parent EXCEPT ![c] = v]
  OBVIOUS
<1>2. k \in [Cells -> Ptrs] /\ \A d \in Cells : k[d] = IF d = c THEN v ELSE t.parent[d]
  BY <1>1 DEF Trees
<1>3. SetParent(t, c, v) = [t EXCEPT !.parent = k]
  BY <1>1 DEF Trees, SetParent
<1> QED
  BY <1>2, <1>3 DEF Trees, ParentStored

LEMMA KeySet ==
    ASSUME NEW t \in Trees, NEW c \in Cells, NEW v \in Int
    PROVE  KeyStored(t, SetKey(t, c, v), c, v)
<1>1. PICK k : k = [t.key EXCEPT ![c] = v]
  OBVIOUS
<1>2. k \in [Cells -> Int] /\ \A d \in Cells : k[d] = IF d = c THEN v ELSE t.key[d]
  BY <1>1 DEF Trees
<1>3. SetKey(t, c, v) = [t EXCEPT !.key = k]
  BY <1>1 DEF Trees, SetKey
<1> QED
  BY <1>2, <1>3 DEF Trees, KeyStored

LEMMA PaintIs ==
    ASSUME NEW t \in Trees, NEW c \in Cells, NEW v \in BOOLEAN
    PROVE  Painted(t, Paint(t, c, v), c, v)
<1>1. PICK k : k = [t.red EXCEPT ![c] = v]
  OBVIOUS
<1>2. k \in [Cells -> BOOLEAN] /\ \A d \in Cells : k[d] = IF d = c THEN v ELSE t.red[d]
  BY <1>1 DEF Trees
<1>3. Paint(t, c, v) = [t EXCEPT !.red = k]
  BY <1>1 DEF Trees, Paint
<1> QED
  BY <1>2, <1>3 DEF Trees, Painted

LEMMA RootSet ==
    ASSUME NEW t \in Trees, NEW v \in Cells
    PROVE  RootStored(t, SetRoot(t, v), v)
BY DEF Trees, SetRoot, RootStored

\* Colours and keys have no part in the shape.
LEMMA SameShape ==
    ASSUME NEW t, NEW sub, Shaped(t, sub), NEW r \in Trees,
           r.root = t.root, r.kid = t.kid, r.parent = t.parent
    PROVE  Shaped(r, sub)
BY DEF Shaped, Nested, Leaved, Parented, Hangs

\* A child is on the side that SideOf gives.
LEMMA SideOfIs ==
    ASSUME NEW t, NEW n, NEW k, k = SideOf(t, n)
    PROVE  k \in Sides
BY DEF SideOf, Sides

\* r is t where what hung at old, at p on side, or the root, is new.
Replaced(t, r, old, new) ==
    /\ r \in Trees /\ r.parent = t.parent /\ r.red = t.red /\ r.key = t.key
    /\ old = t.root => r.root = new /\ r.kid = t.kid
    /\ old # t.root =>
        /\ r.root = t.root /\ r.kid[SideOf(t, old)][t.parent[old]] = new
        /\ \A q \in Sides, d \in Cells :
            q # SideOf(t, old) \/ d # t.parent[old] => r.kid[q][d] = t.kid[q][d]

\* Replace changes one pointer.
LEMMA ReplaceIs ==
    ASSUME NEW t \in Trees, NEW old, NEW new \in Cells, t.parent[old] \in Cells \/ old = t.root
    PROVE  Replaced(t, Replace(t, old, new), old, new)
<1>1. PICK r : r = Replace(t, old, new)
  OBVIOUS
<1>2. CASE old = t.root
  <2>1. r = SetRoot(t, new)
    BY <1>1, <1>2 DEF Replace, SetRoot
  <2> QED
    BY <1>1, <1>2, <2>1, RootSet DEF RootStored, Replaced
<1>3. CASE old # t.root
  <2>1. PICK s \in Sides : s = SideOf(t, old)
    BY SideOfIs
  <2>2. PICK p \in Cells : p = t.parent[old]
    BY <1>3
  <2>3. r = SetKid(t, s, p, new)
    BY <1>1, <1>3, <2>1, <2>2 DEF Replace
  <2>4. new \in Ptrs
    BY CellsAre
  <2>5. KidStored(t, SetKid(t, s, p, new), s, p, new)
    BY <2>4, KidSet
  <2> QED
    BY <1>1, <1>3, <2>1, <2>2, <2>3, <2>5 DEF KidStored, Replaced
<1> QED
  BY <1>2, <1>3

\* Adopt changes one parent pointer, if any.
LEMMA AdoptIs ==
    ASSUME NEW t \in Trees, NEW n \in Cells, NEW side \in Sides, NEW c \in Cells, c = t.kid[side][n]
    PROVE  /\ Adopt(t, n, side) \in Trees
           /\ c = Sentinel => Adopt(t, n, side) = t
           /\ c # Sentinel => ParentStored(t, Adopt(t, n, side), c, n)
<1>1. n \in Ptrs
  BY CellsAre
<1>2. ParentStored(t, SetParent(t, c, n), c, n)
  BY <1>1, ParentSet
<1> QED
  BY <1>2 DEF Adopt, ParentStored

\* r is t after n has gone down on side and up has come up.
Turned(t, r, side, n, up, inner) ==
    /\ r \in Trees /\ r.red = t.red /\ r.key = t.key
    /\ r.root = (IF n = t.root THEN up ELSE t.root)
    /\ r.kid[side][up] = n /\ r.kid[Other(side)][n] = inner
    /\ n # t.root => r.kid[SideOf(t, n)][t.parent[n]] = up
    /\ \A s \in Sides, c \in Cells :
        (c # up \/ s # side) /\ (c # n \/ s # Other(side))
        /\ (n = t.root \/ c # t.parent[n] \/ s # SideOf(t, n)) => r.kid[s][c] = t.kid[s][c]
    /\ r.parent[n] = up /\ r.parent[up] = t.parent[n]
    /\ inner # Sentinel => r.parent[inner] = n
    /\ \A c \in Cells : c # n /\ c # up /\ (c # inner \/ inner = Sentinel) => r.parent[c] = t.parent[c]

\* The nodes that a rotation is about.
CanTurn(t, side, n, up, inner) ==
    /\ up = t.kid[Other(side)][n] /\ inner = t.kid[side][up]
    /\ n # up /\ inner # n /\ inner # up
    /\ n # t.root => t.parent[n] \in Cells /\ t.parent[n] # n /\ t.parent[n] # up

\* A rotation changes these pointers and no others.
LEMMA RotateIs ==
    ASSUME NEW t \in Trees, NEW side \in Sides, NEW n \in Nodes, NEW up \in Nodes, NEW inner \in Cells,
           CanTurn(t, side, n, up, inner)
    PROVE  Turned(t, Rotate(t, side, n), side, n, up, inner)
<1>1. PICK o \in Sides : o = Other(side)
  BY SidesAre
<1>2. n \in Cells /\ up \in Cells /\ n \in Ptrs /\ up \in Ptrs /\ inner \in Ptrs /\ t.parent[n] \in Ptrs
  BY CellsAre, TreeFields
<1>3. PICK p \in Ptrs : p = t.parent[n]
  BY <1>2
<1>5. PICK k1 : k1 = SetKid(t, o, n, inner)
  OBVIOUS
<1>6. KidStored(t, k1, o, n, inner) /\ k1 \in Trees
  <2>1. KidStored(t, SetKid(t, o, n, inner), o, n, inner)
    BY <1>2, KidSet
  <2> QED
    BY <1>5, <2>1 DEF KidStored
<1>7. PICK t1 : t1 = Adopt(k1, n, o)
  OBVIOUS
<1>8. /\ t1 \in Trees /\ t1.root = t.root /\ t1.kid = k1.kid /\ t1.red = t.red /\ t1.key = t.key
      /\ inner # Sentinel => t1.parent[inner] = n
      /\ \A c \in Cells : c # inner \/ inner = Sentinel => t1.parent[c] = t.parent[c]
  <2>1. k1.kid[o][n] = inner
    BY <1>6 DEF KidStored
  <2>2. /\ Adopt(k1, n, o) \in Trees
        /\ inner = Sentinel => Adopt(k1, n, o) = k1
        /\ inner # Sentinel => ParentStored(k1, Adopt(k1, n, o), inner, n)
    BY <1>2, <1>6, <2>1, AdoptIs
  <2> QED
    BY <1>6, <1>7, <2>2 DEF KidStored, ParentStored
<1>10. t1.parent[n] = p /\ t1.root = t.root
  BY <1>2, <1>3, <1>8 DEF CanTurn
<1>11. n # t.root => SideOf(t1, n) = SideOf(t, n)
  <2> SUFFICES ASSUME n # t.root PROVE t1.kid["left"][p] = t.kid["left"][p]
    BY <1>3, <1>10 DEF SideOf
  <2>1. p \in Cells /\ p # n /\ "left" \in Sides
    BY <1>3 DEF Sides, CanTurn
  <2> QED
    BY <2>1, <1>6, <1>8 DEF KidStored
<1>12. n = t1.root \/ t1.parent[n] \in Cells
  BY <1>3, <1>10 DEF CanTurn
<1>13. PICK t2 : t2 = Replace(t1, n, up)
  OBVIOUS
<1>14. Replaced(t1, t2, n, up) /\ t2 \in Trees
  <2>1. Replaced(t1, Replace(t1, n, up), n, up)
    BY <1>2, <1>8, <1>12, ReplaceIs
  <2> QED
    BY <1>13, <2>1 DEF Replaced
<1>15. PICK t3 : t3 = SetParent(t2, up, p)
  OBVIOUS
<1>16. ParentStored(t2, t3, up, p) /\ t3 \in Trees
  <2>1. ParentStored(t2, SetParent(t2, up, p), up, p)
    BY <1>2, <1>14, ParentSet
  <2> QED
    BY <1>15, <2>1 DEF ParentStored
<1>17. PICK t4 : t4 = SetKid(t3, side, up, n)
  OBVIOUS
<1>18. KidStored(t3, t4, side, up, n) /\ t4 \in Trees
  <2>1. KidStored(t3, SetKid(t3, side, up, n), side, up, n)
    BY <1>2, <1>16, KidSet
  <2> QED
    BY <1>17, <2>1 DEF KidStored
<1>19. PICK r : r = SetParent(t4, n, up)
  OBVIOUS
<1>20. ParentStored(t4, r, n, up) /\ r \in Trees
  <2>1. ParentStored(t4, SetParent(t4, n, up), n, up)
    BY <1>2, <1>18, ParentSet
  <2> QED
    BY <1>19, <2>1 DEF ParentStored
<1>22. Rotate(t, side, n) = r
  <2>1. t.kid[Other(side)][n] = up /\ t.kid[side][up] = inner
    BY DEF CanTurn
  <2>4. Rotate(t, side, n) =
            SetParent(SetKid(SetParent(Replace(Adopt(SetKid(t, Other(side), n, inner), n, Other(side)), n, up),
                up, t.parent[n]), side, up, n), n, up)
    BY <2>1, Zenon DEF Rotate
  <2> QED
    BY <1>1, <1>3, <1>5, <1>7, <1>13, <1>15, <1>17, <1>19, <2>4
<1>23. r.red = t.red /\ r.key = t.key /\ r.root = IF n = t.root THEN up ELSE t.root
  BY <1>6, <1>8, <1>10, <1>14, <1>16, <1>18, <1>20 DEF KidStored, ParentStored, Replaced
<1>24. /\ r.kid[side][up] = n
       /\ \A s \in Sides, c \in Cells : (s # side \/ c # up) => r.kid[s][c] = t2.kid[s][c]
  BY <1>16, <1>18, <1>20 DEF KidStored, ParentStored
<1>25. /\ k1.kid = t1.kid /\ k1.kid[o][n] = inner
       /\ \A s \in Sides, c \in Cells : (s # o \/ c # n) => k1.kid[s][c] = t.kid[s][c]
  BY <1>6, <1>8 DEF KidStored
<1>26. n # t.root =>
        /\ t2.kid[SideOf(t, n)][p] = up
        /\ \A s \in Sides, c \in Cells : (s # SideOf(t, n) \/ c # p) => t2.kid[s][c] = k1.kid[s][c]
  BY <1>10, <1>11, <1>14, <1>25 DEF Replaced
<1>27. n = t.root => t2.kid = k1.kid
  BY <1>10, <1>14, <1>25 DEF Replaced
<1>28. n # up /\ (n # t.root => p \in Cells /\ p # n /\ p # up) /\ SideOf(t, n) \in Sides
  BY <1>3, SideOfIs DEF CanTurn
<1>29. r.kid[o][n] = inner
  BY <1>2, <1>24, <1>25, <1>26, <1>27, <1>28
<1>30. n # t.root => r.kid[SideOf(t, n)][p] = up
  BY <1>24, <1>26, <1>28
<1>31. \A s \in Sides, c \in Cells :
         (c # up \/ s # side) /\ (c # n \/ s # o) /\ (n = t.root \/ c # p \/ s # SideOf(t, n))
            => r.kid[s][c] = t.kid[s][c]
  BY <1>24, <1>25, <1>26, <1>27
<1>32. /\ r.parent[n] = up /\ r.parent[up] = p
       /\ \A c \in Cells : c # n /\ c # up => r.parent[c] = t1.parent[c]
  BY <1>2, <1>14, <1>16, <1>18, <1>20, <1>28 DEF ParentStored, KidStored, Replaced
<1>34. inner # Sentinel => r.parent[inner] = n
  BY <1>8, <1>32 DEF CanTurn
<1>35. \A c \in Cells : c # n /\ c # up /\ (c # inner \/ inner = Sentinel) => r.parent[c] = t.parent[c]
  BY <1>8, <1>32
<1> QED
  BY <1>1, <1>3, <1>20, <1>22, <1>23, <1>24, <1>29, <1>30, <1>31, <1>32, <1>34, <1>35 DEF Turned

----------------------------------------------------------------------------
(* A rotation keeps the shape. *)

NestAt(t, sub, m, s) ==
    /\ sub[m] = {m} \cup sub[t.kid[s][m]] \cup sub[t.kid[Other(s)][m]]
    /\ m \notin sub[t.kid[s][m]] /\ m \notin sub[t.kid[Other(s)][m]]
    /\ sub[t.kid[s][m]] \cap sub[t.kid[Other(s)][m]] = {}

\* It is enough to look at a node from either side.
LEMMA NestedFrom ==
    ASSUME NEW t, NEW sub, \A m \in Nodes : \E s \in Sides : NestAt(t, sub, m, s)
    PROVE  Nested(t, sub)
<1> SUFFICES ASSUME NEW n \in Nodes
             PROVE  /\ sub[n] = {n} \cup sub[t.kid["left"][n]] \cup sub[t.kid["right"][n]]
                    /\ n \notin sub[t.kid["left"][n]] /\ n \notin sub[t.kid["right"][n]]
                    /\ sub[t.kid["left"][n]] \cap sub[t.kid["right"][n]] = {}
  BY DEF Nested
<1>1. PICK s \in Sides : NestAt(t, sub, n, s)
  OBVIOUS
<1>2. (s = "left" /\ Other(s) = "right") \/ (s = "right" /\ Other(s) = "left")
  BY DEF Sides, Other
<1>3. CASE s = "left" /\ Other(s) = "right"
  BY <1>1, <1>3 DEF NestAt
<1>4. CASE s = "right" /\ Other(s) = "left"
  BY <1>1, <1>4 DEF NestAt
<1> QED
  BY <1>2, <1>3, <1>4

LEMMA NestAtIs ==
    ASSUME NEW t, NEW sub, Shaped(t, sub), NEW m \in Nodes, NEW s \in Sides
    PROVE  NestAt(t, sub, m, s) /\ t.kid[s][m] \in Ptrs
<1>1. Other(s) \in Sides /\ Other(Other(s)) = s
  BY SidesAre
<1> QED
  BY <1>1, NodeIs DEF NestAt

\* A node hangs at one place.
LEMMA PlaceIs ==
    ASSUME NEW t, NEW sub, Shaped(t, sub), NEW c \in sub[t.root]
    PROVE  /\ \A m \in Nodes, s \in Sides :
                t.kid[s][m] = c => c # t.root /\ m = t.parent[c] /\ s = SideOf(t, c)
           /\ c # t.root => /\ t.parent[c] \in sub[t.root] /\ t.parent[c] \in Nodes
                            /\ t.kid[SideOf(t, c)][t.parent[c]] = c
                            /\ SideOf(t, c) \in Sides
                            /\ t.parent[c] # c /\ t.parent[c] \notin sub[c]
<1>1. c \in Nodes /\ sub[t.root] \subseteq Nodes /\ c \in sub[c]
  BY LinkedIs, NodeIs, SidesAre
<1>2. ASSUME NEW m \in Nodes, NEW s \in Sides, t.kid[s][m] = c
      PROVE  c # t.root /\ m = t.parent[c]
  <2>1. m \in sub[t.root]
    <3>1. t.kid[s][m] # Null
      BY <1>1, <1>2, CellsAre
    <3> QED
      BY <3>1 DEF Shaped, Leaved
  <2>2. t.parent[t.kid[s][m]] = m
    <3>1. t.kid[s][m] \in Nodes
      BY <1>1, <1>2
    <3> QED
      BY <3>1 DEF Shaped, Parented
  <2>3. t.kid[s][m] # t.root
    BY <2>1, LinkedIs
  <2> QED
    BY <1>2, <2>2, <2>3
<1>3. ASSUME NEW m \in Nodes, NEW s \in Sides, NEW q \in Sides, t.kid[s][m] = c, t.kid[q][m] = c
      PROVE  s = q
  <2>1. s = q \/ q = Other(s)
    BY SidesAre
  <2>2. NestAt(t, sub, m, s)
    BY NestAtIs
  <2>3. ASSUME q = Other(s) PROVE FALSE
    <3>1. t.kid[Other(s)][m] = c
      BY <1>3, <2>3
    <3> QED
      BY <1>1, <1>3, <2>2, <3>1 DEF NestAt
  <2> QED
    BY <2>1, <2>3
<1>4. \A m \in Nodes, s \in Sides : t.kid[s][m] = c => s = SideOf(t, c)
  <2> SUFFICES ASSUME NEW m \in Nodes, NEW s \in Sides, t.kid[s][m] = c PROVE s = SideOf(t, c)
    OBVIOUS
  <2>1. m = t.parent[c]
    BY <1>2
  <2>2. CASE s = "left"
    BY <2>1, <2>2 DEF SideOf
  <2>3. CASE s = "right"
    <3>1. t.kid["left"][m] # c
      BY <1>3, <2>3 DEF Sides
    <3> QED
      BY <2>1, <2>3, <3>1 DEF SideOf
  <2> QED
    BY <2>2, <2>3 DEF Sides
<1>5. ASSUME c # t.root
      PROVE  /\ t.parent[c] \in sub[t.root] /\ t.parent[c] \in Nodes
             /\ t.kid[SideOf(t, c)][t.parent[c]] = c
             /\ t.parent[c] # c /\ t.parent[c] \notin sub[c]
  <2>1. t.parent[c] \in sub[t.root] /\ t.parent[c] \in Nodes /\ \E s \in Sides : t.kid[s][t.parent[c]] = c
    BY <1>1, <1>5 DEF Shaped, Parented, Hangs
  <2>2. PICK s \in Sides : t.kid[s][t.parent[c]] = c
    BY <2>1
  <2>3. s = SideOf(t, c)
    BY <1>4, <2>1, <2>2
  <2>4. t.parent[c] \notin sub[c] /\ c # t.parent[c]
    BY <2>1, <2>2, NodeIs
  <2> QED
    BY <2>1, <2>2, <2>3, <2>4
<1> QED
  BY <1>2, <1>4, <1>5, SideOfIs

\* What is below the nodes after a rotation.
TurnedSub(t, sub, side, n, up, inner) ==
    [sub EXCEPT ![up] = sub[n], ![n] = {n} \cup sub[t.kid[side][n]] \cup sub[inner]]

\* The children of the nodes after a rotation.
KidsTurned(t, r, L, side, n, up, inner) ==
    /\ n \in L /\ up \in L /\ n # up /\ inner \in Cells /\ inner # n /\ inner # up
    /\ up = t.kid[Other(side)][n] /\ inner = t.kid[side][up]
    /\ r.kid[side][n] = t.kid[side][n] /\ r.kid[Other(side)][n] = inner
    /\ r.kid[side][up] = n /\ r.kid[Other(side)][up] = t.kid[Other(side)][up]
    /\ t.kid[side][n] \in Cells /\ t.kid[side][n] # n /\ t.kid[side][n] # up
    /\ t.kid[Other(side)][up] \in Cells /\ t.kid[Other(side)][up] # n /\ t.kid[Other(side)][up] # up
    /\ \A m \in L, s \in Sides :
         m # n /\ m # up =>
            \/ t.kid[s][m] = n /\ r.kid[s][m] = up
            \/ t.kid[s][m] # n /\ t.kid[s][m] # up /\ r.kid[s][m] = t.kid[s][m]

\* A rotation keeps a shaped tree shaped, with the same nodes.
LEMMA RotateShape ==
    ASSUME NEW t, NEW sub, Shaped(t, sub), NEW side \in Sides, NEW n \in sub[t.root],
           NEW up, up = t.kid[Other(side)][n], up # Sentinel,
           NEW inner, inner = t.kid[side][up],
           NEW sub2, sub2 = TurnedSub(t, sub, side, n, up, inner),
           NEW r, r = Rotate(t, side, n)
    PROVE  /\ Shaped(r, sub2) /\ sub2[r.root] = sub[t.root]
           /\ Turned(t, r, side, n, up, inner)
           /\ KidsTurned(t, r, sub[t.root], side, n, up, inner)
<1>1. PICK o \in Sides : o = Other(side) /\ Other(o) = side /\ o # side
  BY SidesAre
<1>2. PICK low : low = t.kid[side][n]
  OBVIOUS
<1>3. PICK outer : outer = t.kid[o][up]
  OBVIOUS
<1>4. PICK L : L = sub[t.root]
  OBVIOUS
<1>5. n \in Nodes /\ low \in Cells /\ up \in Cells /\ up \in L /\ n \in L /\ t.root \in L /\ L \subseteq Nodes
  BY <1>1, <1>2, <1>4, LinkedIs
<1>6. up \in Nodes /\ inner \in Cells /\ outer \in Cells
  BY <1>1, <1>3, <1>4, <1>5, LinkedIs
<1>7. /\ sub[n] = {n} \cup sub[low] \cup sub[up] /\ n \notin sub[low] /\ n \notin sub[up]
      /\ sub[low] \cap sub[up] = {}
  BY <1>1, <1>2, <1>5, NestAtIs DEF NestAt
<1>8. /\ sub[up] = {up} \cup sub[inner] \cup sub[outer] /\ up \notin sub[inner] /\ up \notin sub[outer]
      /\ sub[inner] \cap sub[outer] = {}
  <2>1. NestAt(t, sub, up, side)
    BY <1>6, NestAtIs
  <2> QED
    BY <1>1, <1>3, <2>1 DEF NestAt
<1>9. \A c \in Nodes : c \in sub[c]
  BY NodeIs, SidesAre
<1>10. n # up /\ low # n /\ low # up /\ inner # n /\ inner # up /\ outer # n /\ outer # up
  BY <1>5, <1>6, <1>7, <1>8, <1>9
<1>11. (low \in Nodes => low # inner /\ low # outer) /\ (inner \in Nodes => inner # outer)
  BY <1>7, <1>8, <1>9
<1>12. PICK p \in Ptrs : p = t.parent[n]
  BY <1>5, CellsAre, TreeFields DEF Shaped
<1>13. PICK q \in Sides : q = SideOf(t, n)
  BY SideOfIs
<1>14. n # t.root => p \in L /\ p \in Nodes /\ t.kid[q][p] = n /\ p # n /\ p # up
  BY <1>1, <1>4, <1>5, <1>7, <1>9, <1>12, <1>13, PlaceIs
<1>15. /\ Turned(t, r, side, n, up, inner)
       /\ t.parent[up] = n
  <2>1. CanTurn(t, side, n, up, inner)
    <3>1. up = t.kid[Other(side)][n] /\ inner = t.kid[side][up] /\ n # up /\ inner # n /\ inner # up
      BY <1>10
    <3>2. n # t.root => t.parent[n] \in Cells /\ t.parent[n] # n /\ t.parent[n] # up
      BY <1>12, <1>14, CellsAre
    <3> QED
      BY <3>1, <3>2 DEF CanTurn
  <2>2. t \in Trees
    BY DEF Shaped
  <2>3. t.parent[up] = n
    BY <1>1, <1>5, <1>6 DEF Shaped, Parented
  <2> QED
    <3>1. Turned(t, Rotate(t, side, n), side, n, up, inner)
      BY <1>5, <1>6, <2>1, <2>2, RotateIs
    <3> QED
      BY <2>3, <3>1
<1>16. /\ r \in Trees /\ r.root = (IF n = t.root THEN up ELSE t.root)
       /\ r.kid[side][up] = n /\ r.kid[o][n] = inner
       /\ n # t.root => r.kid[q][p] = up
  BY <1>1, <1>12, <1>13, <1>15 DEF Turned
<1>17. \A s \in Sides, c \in Cells :
        (c # up \/ s # side) /\ (c # n \/ s # o) /\ (n = t.root \/ c # p \/ s # q)
            => r.kid[s][c] = t.kid[s][c]
  BY <1>1, <1>12, <1>13, <1>15 DEF Turned
<1>18. /\ r.parent[n] = up /\ r.parent[up] = p
       /\ inner # Sentinel => r.parent[inner] = n
       /\ \A c \in Cells : c # n /\ c # up /\ (c # inner \/ inner = Sentinel) => r.parent[c] = t.parent[c]
  BY <1>12, <1>15 DEF Turned
<1>19. r.kid[side][n] = low /\ r.kid[o][up] = outer
  <2>1. n \in Cells /\ up \in Cells
    BY <1>5, CellsAre
  <2>2. r.kid[side][n] = t.kid[side][n]
    BY <1>1, <1>10, <1>14, <1>17, <2>1
  <2>3. r.kid[o][up] = t.kid[o][up]
    BY <1>1, <1>10, <1>14, <1>17, <2>1
  <2> QED
    BY <1>2, <1>3, <2>2, <2>3
<1>20. /\ SubOK(sub2) /\ sub2[up] = sub[n] /\ sub2[n] = {n} \cup sub[low] \cup sub[inner]
       /\ \A c \in Ptrs : c # n /\ c # up => sub2[c] = sub[c]
  <2>1. n \in Ptrs /\ up \in Ptrs /\ Sentinel \in Ptrs /\ Null \in Ptrs /\ n # Sentinel /\ n # Null
        /\ up # Sentinel /\ up # Null
    BY <1>5, <1>6, CellsAre
  <2>2. sub \in [Ptrs -> SUBSET Nodes] /\ sub[Sentinel] = {} /\ sub[Null] = {}
    BY DEF Shaped, SubOK
  <2>3. {n} \cup sub[low] \cup sub[inner] \subseteq Nodes /\ sub[n] \subseteq Nodes
    BY <2>1, <2>2, <1>5, <1>6, CellsAre
  <2>4. sub2 = [sub EXCEPT ![up] = sub[n], ![n] = {n} \cup sub[low] \cup sub[inner]]
    BY <1>2 DEF TurnedSub
  <2>5. sub2 \in [Ptrs -> SUBSET Nodes]
    BY <2>2, <2>3, <2>4
  <2>6. /\ sub2[up] = sub[n] /\ sub2[n] = {n} \cup sub[low] \cup sub[inner]
        /\ \A c \in Ptrs : c # n /\ c # up => sub2[c] = sub[c]
    BY <1>10, <2>1, <2>2, <2>4
  <2> QED
    BY <2>1, <2>2, <2>5, <2>6 DEF SubOK
<1>22. /\ \A m \in Nodes, s \in Sides : t.kid[s][m] = n => n # t.root /\ m = p /\ s = q
       /\ \A m \in Nodes, s \in Sides : t.kid[s][m] = up => m = n /\ s = o
  <2>1. \A m \in Nodes, s \in Sides : t.kid[s][m] = n => n # t.root /\ m = p /\ s = q
    BY <1>4, <1>5, <1>12, <1>13, PlaceIs
  <2>2. SideOf(t, up) = o
    BY <1>1, <1>4, <1>5, PlaceIs
  <2> QED
    BY <1>4, <1>5, <1>15, <2>1, <2>2, PlaceIs
<1>21. sub2[r.root] = L
  <2>1. CASE n = t.root
    BY <1>4, <1>16, <1>20, <2>1
  <2>2. CASE n # t.root
    <3>1. t.root \in Ptrs /\ t.root # up
      <4>1. t.root \in Ptrs
        BY <1>4, <1>5, CellsAre
      <4>2. t.kid[o][n] # t.root
        BY LinkedIs
      <4> QED
        BY <1>1, <4>1, <4>2
    <3> QED
      BY <1>4, <1>16, <1>20, <2>2, <3>1
  <2> QED
    BY <2>1, <2>2
\* What the other nodes have.
<1>23. ASSUME NEW m \in Nodes, m # n, m # up, NEW s \in Sides
       PROVE  /\ sub2[r.kid[s][m]] = sub[t.kid[s][m]] /\ sub2[m] = sub[m]
              /\ r.kid[s][m] \in Nodes => r.parent[r.kid[s][m]] = m
              /\ r.kid[s][m] = Null <=> t.kid[s][m] = Null
  <2>1. m \in Cells /\ m \in Ptrs /\ t.kid[s][m] \in Ptrs
    BY CellsAre, NestAtIs
  <2>2. CASE n # t.root /\ m = p /\ s = q
    <3>1. r.kid[s][m] = up /\ t.kid[s][m] = n /\ r.parent[up] = m
      BY <1>14, <1>16, <1>18, <2>2
    <3>2. sub2[up] = sub[n] /\ sub2[m] = sub[m]
      BY <1>20, <1>23, <2>1
    <3>3. n # Null /\ up # Null
      BY <1>5, <1>6, CellsAre
    <3> QED
      BY <3>1, <3>2, <3>3
  <2>3. CASE ~(n # t.root /\ m = p /\ s = q)
    <3>1. r.kid[s][m] = t.kid[s][m]
      BY <1>17, <1>23, <2>1, <2>3
    <3>2. t.kid[s][m] # n /\ t.kid[s][m] # up
      BY <1>22, <1>23, <2>3
    <3>3. sub2[t.kid[s][m]] = sub[t.kid[s][m]] /\ sub2[m] = sub[m]
      BY <1>20, <1>23, <2>1, <3>2
    <3>4. ASSUME t.kid[s][m] \in Nodes PROVE r.parent[t.kid[s][m]] = m
      <4>1. t.parent[t.kid[s][m]] = m
        BY <3>4 DEF Shaped, Parented
      <4>2. t.kid[s][m] = inner => inner \notin Nodes
        <5>1. inner \in Nodes => t.parent[inner] = up
          BY <1>6 DEF Shaped, Parented
        <5> QED
          BY <1>23, <4>1, <5>1
      <4> QED
        BY <1>18, <3>2, <3>4, <4>1, <4>2, CellsAre
    <3> QED
      BY <3>1, <3>3, <3>4
  <2> QED
    BY <2>2, <2>3
<1>24. Nested(r, sub2)
  <2> SUFFICES ASSUME NEW m \in Nodes PROVE \E s \in Sides : NestAt(r, sub2, m, s)
    BY NestedFrom
  <2>1. low \in Ptrs /\ inner \in Ptrs /\ outer \in Ptrs
    BY <1>5, <1>6, CellsAre
  <2>2. CASE m = n
    <3>1. sub2[low] = sub[low] /\ sub2[inner] = sub[inner]
      BY <1>10, <1>20, <2>1
    <3>2. n \notin sub[inner] /\ sub[low] \cap sub[inner] = {}
      BY <1>7, <1>8
    <3>3. NestAt(r, sub2, n, side)
      BY <1>1, <1>7, <1>16, <1>19, <1>20, <3>1, <3>2, ZenonT(40) DEF NestAt
    <3> QED
      BY <2>2, <3>3
  <2>3. CASE m = up
    <3>1. sub2[outer] = sub[outer]
      BY <1>10, <1>20, <2>1
    <3>2. PICK A : A = {n} \cup sub[low] \cup sub[inner]
      OBVIOUS
    <3>6. /\ sub[inner] \subseteq sub[up] /\ sub[outer] \subseteq sub[up] /\ up \in sub[up]
          /\ up \notin sub[outer] /\ up \notin sub[inner]
      BY <1>8
    <3>7. up \notin sub[low] /\ n \notin sub[outer] /\ sub[low] \cap sub[outer] = {}
      BY <1>7, <3>6
    <3>8. sub[n] = {up} \cup A \cup sub[outer]
      BY <1>7, <1>8, <3>2
    <3>9. up \notin A
      BY <1>10, <3>2, <3>6, <3>7
    <3>10. A \cap sub[outer] = {}
      BY <1>8, <3>2, <3>7
    <3>4. r.kid[side][up] = n /\ r.kid[Other(side)][up] = outer
      BY <1>1, <1>16, <1>19
    <3>5. sub2[up] = sub[n] /\ sub2[n] = A
      BY <1>20, <3>2
    <3>3. NestAt(r, sub2, up, side)
      <4>1. sub2[up] = {up} \cup sub2[n] \cup sub2[outer] /\ up \notin sub2[n] /\ up \notin sub2[outer]
            /\ sub2[n] \cap sub2[outer] = {}
        BY <3>1, <3>5, <3>6, <3>8, <3>9, <3>10
      <4> QED
        BY <3>4, <4>1 DEF NestAt
    <3> QED
      BY <2>3, <3>3
  <2>4. CASE m # n /\ m # up
    <3>1. NestAt(t, sub, m, side)
      BY NestAtIs
    <3>2. /\ sub2[r.kid[side][m]] = sub[t.kid[side][m]]
          /\ sub2[r.kid[Other(side)][m]] = sub[t.kid[Other(side)][m]]
          /\ sub2[m] = sub[m]
      BY <1>1, <1>23, <2>4
    <3>3. NestAt(r, sub2, m, side)
      BY <3>1, <3>2 DEF NestAt
    <3> QED
      BY <3>3
  <2> QED
    BY <2>2, <2>3, <2>4
<1>25. Leaved(r, sub2)
  <2>1. ASSUME NEW s \in Sides PROVE r.kid[s][Sentinel] = Sentinel
    <3>1. t.kid[s][Sentinel] = Sentinel
      BY DEF Shaped, Leaved
    <3>2. Sentinel \in Cells /\ Sentinel # n /\ Sentinel # up /\ (n # t.root => Sentinel # p)
      BY <1>5, <1>6, <1>14, CellsAre
    <3> QED
      BY <1>17, <3>1, <3>2
  <2>2. ASSUME NEW m \in Nodes, NEW s \in Sides
        PROVE  r.kid[s][m] # Null <=> m \in sub2[r.root]
    <3>1. s = side \/ s = o
      BY <1>1, SidesAre
    <3>2. CASE m = n
      <4>1. r.kid[s][m] \in Cells
        BY <1>5, <1>6, <1>16, <1>19, <3>1, <3>2
      <4> QED
        BY <1>5, <1>21, <3>2, <4>1, CellsAre
    <3>3. CASE m = up
      <4>1. r.kid[s][m] \in Cells
        BY <1>5, <1>6, <1>16, <1>19, <3>1, <3>3, CellsAre
      <4> QED
        BY <1>5, <1>21, <3>3, <4>1, CellsAre
    <3>4. CASE m # n /\ m # up
      <4>1. t.kid[s][m] # Null <=> m \in L
        BY <1>4 DEF Shaped, Leaved
      <4> QED
        BY <1>21, <1>23, <3>4, <4>1
    <3> QED
      BY <3>2, <3>3, <3>4
  <2> QED
    BY <2>1, <2>2 DEF Leaved
<1>26. \A m \in Nodes, s \in Sides : r.kid[s][m] \in Nodes => r.parent[r.kid[s][m]] = m
  <2> SUFFICES ASSUME NEW m \in Nodes, NEW s \in Sides, r.kid[s][m] \in Nodes
               PROVE  r.parent[r.kid[s][m]] = m
    OBVIOUS
  <2>1. s = side \/ s = o
    BY <1>1, SidesAre
  <2>2. CASE m = n /\ s = side
    <3>1. t.parent[low] = n
      BY <1>2, <1>5, <1>19, <2>2 DEF Shaped, Parented
    <3>2. low \in Cells /\ low # n /\ low # up /\ (low # inner \/ inner = Sentinel)
      BY <1>5, <1>10, <1>11, <1>19, <2>2
    <3> QED
      BY <1>18, <1>19, <2>2, <3>1, <3>2
  <2>3. CASE m = n /\ s = o
    BY <1>16, <1>18, <2>3, CellsAre
  <2>4. CASE m = up /\ s = side
    BY <1>16, <1>18, <2>4
  <2>5. CASE m = up /\ s = o
    <3>1. t.parent[outer] = up
      <4>1. up \in Nodes /\ o \in Sides /\ t.kid[o][up] = outer /\ outer \in Nodes
        BY <1>3, <1>6, <1>19, <2>5
      <4>2. Parented(t, sub)
        BY DEF Shaped
      <4> QED
        BY <4>1, <4>2, Zenon DEF Parented
    <3>2. outer \in Cells /\ outer # n /\ outer # up /\ (outer # inner \/ inner = Sentinel)
      BY <1>6, <1>10, <1>11, <1>19, <2>5, CellsAre
    <3> QED
      BY <1>18, <1>19, <2>5, <3>1, <3>2
  <2>6. CASE m # n /\ m # up
    BY <1>23, <2>6
  <2> QED
    BY <2>1, <2>2, <2>3, <2>4, <2>5, <2>6
<1>27. \A c \in L : c # r.root => r.parent[c] \in L /\ Hangs(r, c)
  <2> SUFFICES ASSUME NEW c \in L, c # r.root PROVE r.parent[c] \in L /\ \E s \in Sides : r.kid[s][r.parent[c]] = c
    BY DEF Hangs
  <2>1. CASE c = n
    BY <1>5, <1>16, <1>18, <2>1
  <2>2. CASE c = up
    <3>1. n # t.root
      BY <1>16, <2>2
    <3> QED
      BY <1>14, <1>16, <1>18, <2>2, <3>1
  <2>3. CASE c # n /\ c # up /\ c = inner
    <3>1. c # Sentinel
      BY <1>5, CellsAre
    <3> QED
      BY <1>1, <1>5, <1>16, <1>18, <2>3, <3>1
  <2>4. CASE c # n /\ c # up /\ c # inner
    <3>1. c \in Nodes /\ c \in Cells /\ c # t.root
      BY <1>5, <1>16, <2>4, CellsAre
    <3>2. PICK m : m = t.parent[c]
      OBVIOUS
    <3>3. m \in L /\ m \in Nodes /\ r.parent[c] = m
      BY <1>4, <1>18, <2>4, <3>1, <3>2, PlaceIs
    <3>4. PICK s \in Sides : t.kid[s][m] = c
      BY <1>4, <3>1, <3>2, PlaceIs
    <3>5. r.kid[s][m] = c
      <4>1. ~(m = up /\ s = side) /\ ~(m = n /\ s = o) /\ ~(n # t.root /\ m = p /\ s = q)
        BY <1>1, <1>14, <2>4, <3>4
      <4> QED
        BY <1>17, <3>3, <3>4, <4>1, CellsAre
    <3> QED
      BY <3>3, <3>5
  <2> QED
    BY <2>1, <2>2, <2>3, <2>4
<1>28. Parented(r, sub2)
  BY <1>21, <1>26, <1>27 DEF Parented
<1>29. ASSUME NEW m \in L, NEW s \in Sides, m # n, m # up
       PROVE  \/ t.kid[s][m] = n /\ r.kid[s][m] = up
              \/ t.kid[s][m] # n /\ t.kid[s][m] # up /\ r.kid[s][m] = t.kid[s][m]
  <2>1. m \in Nodes /\ m \in Cells
    BY <1>5, CellsAre
  <2>2. CASE n # t.root /\ m = p /\ s = q
    BY <1>14, <1>16, <2>2
  <2>3. CASE ~(n # t.root /\ m = p /\ s = q)
    BY <1>17, <1>22, <1>29, <2>1, <2>3
  <2> QED
    BY <2>2, <2>3
<1>30. KidsTurned(t, r, L, side, n, up, inner)
  BY <1>1, <1>2, <1>3, <1>5, <1>6, <1>10, <1>16, <1>19, <1>29 DEF KidsTurned
<1> QED
  BY <1>4, <1>15, <1>16, <1>20, <1>21, <1>24, <1>25, <1>28, <1>30 DEF Shaped

----------------------------------------------------------------------------
(* A rotation keeps the order of the nodes, and moves the black heights. *)

\* On which side of a position another one is.
Toward(s, a, b) == IF s = "left" THEN a < b ELSE b < a

\* pos[n] is the position of n in the tree, from left to right: what is below a
\* node is on its side of it.
SortedAt(t, sub, pos, n) ==
    \A s \in Sides : \A m \in sub[t.kid[s][n]] : Toward(s, pos[m], pos[n])

\* Every node of the tree is where its position says.
Sorted(t, sub, pos) == pos \in [Nodes -> Int] /\ \A n \in sub[t.root] : SortedAt(t, sub, pos, n)

LEMMA TowardIs ==
    ASSUME NEW s \in Sides, NEW a \in Int, NEW b \in Int, NEW c \in Int
    PROVE  /\ Toward(s, a, b) <=> Toward(Other(s), b, a)
           /\ Toward(s, a, b) /\ Toward(s, b, c) => Toward(s, a, c)
BY DEF Toward, Sides, Other

\* It is enough to look at one side and the other.
LEMMA SortedFrom ==
    ASSUME NEW t, NEW sub, NEW pos, NEW n, NEW s \in Sides,
           \A m \in sub[t.kid[s][n]] : Toward(s, pos[m], pos[n]),
           \A m \in sub[t.kid[Other(s)][n]] : Toward(Other(s), pos[m], pos[n])
    PROVE  SortedAt(t, sub, pos, n)
<1> SUFFICES ASSUME NEW q \in Sides, NEW m \in sub[t.kid[q][n]]
             PROVE  Toward(q, pos[m], pos[n])
  BY DEF SortedAt
<1>1. CASE q = s
  BY <1>1
<1>2. CASE q = Other(s)
  BY <1>2
<1> QED
  BY <1>1, <1>2, SidesAre

\* A rotation keeps the nodes in order.
LEMMA RotateSorted ==
    ASSUME NEW t, NEW sub, Shaped(t, sub), NEW pos, Sorted(t, sub, pos), NEW side \in Sides, NEW n \in sub[t.root],
           NEW up, up = t.kid[Other(side)][n], up # Sentinel,
           NEW inner, inner = t.kid[side][up],
           NEW sub2, sub2 = TurnedSub(t, sub, side, n, up, inner),
           NEW r, r = Rotate(t, side, n)
    PROVE  Sorted(r, sub2, pos)
<1>1. PICK o \in Sides : o = Other(side) /\ Other(o) = side /\ o # side
  BY SidesAre
<1>2. PICK L : L = sub[t.root]
  OBVIOUS
<1>3. Shaped(r, sub2) /\ sub2[r.root] = L /\ Turned(t, r, side, n, up, inner)
      /\ KidsTurned(t, r, L, side, n, up, inner)
  BY <1>2, RotateShape
<1>4. PICK low : low = t.kid[side][n]
  OBVIOUS
<1>5. PICK outer : outer = t.kid[o][up]
  OBVIOUS
<1>6. /\ n \in L /\ up \in L /\ n # up /\ inner \in Cells /\ low \in Cells /\ outer \in Cells
      /\ r.kid[side][n] = low /\ r.kid[o][n] = inner /\ r.kid[side][up] = n /\ r.kid[o][up] = outer
      /\ inner # n /\ inner # up /\ low # n /\ low # up /\ outer # n /\ outer # up
      /\ t.kid[o][n] = up
  BY <1>1, <1>3, <1>4, <1>5 DEF KidsTurned
<1>7. L \subseteq Nodes /\ n \in Ptrs /\ up \in Ptrs /\ low \in Ptrs /\ inner \in Ptrs /\ outer \in Ptrs
  BY <1>2, <1>6, LinkedIs, CellsAre
<1>9. pos \in [Nodes -> Int] /\ \A m \in Nodes : pos[m] \in Int
  BY DEF Sorted
<1>10. /\ sub2[up] = sub[n] /\ sub2[n] = {n} \cup sub[low] \cup sub[inner]
       /\ \A c \in Ptrs : c # n /\ c # up => sub2[c] = sub[c]
  BY <1>4, <1>6, <1>7 DEF TurnedSub, Shaped, SubOK
<1>11. /\ sub[n] = {n} \cup sub[low] \cup sub[up] /\ sub[up] = {up} \cup sub[inner] \cup sub[outer]
       /\ sub[n] \subseteq Nodes
  <2>1. NestAt(t, sub, n, side) /\ NestAt(t, sub, up, side)
    BY <1>6, <1>7, NestAtIs
  <2>2. sub[n] \subseteq Nodes
    BY <1>7 DEF Shaped, SubOK
  <2> QED
    BY <1>1, <1>4, <1>5, <1>6, <2>1, <2>2 DEF NestAt
<1>12. \A m \in sub[low] : Toward(side, pos[m], pos[n])
  BY <1>2, <1>4, <1>6 DEF Sorted, SortedAt
<1>13. \A m \in sub[up] : Toward(o, pos[m], pos[n])
  BY <1>1, <1>2, <1>6 DEF Sorted, SortedAt
<1>14. \A m \in sub[inner] : Toward(side, pos[m], pos[up])
  BY <1>2, <1>6 DEF Sorted, SortedAt
<1>15. \A m \in sub[outer] : Toward(o, pos[m], pos[up])
  BY <1>1, <1>2, <1>5, <1>6 DEF Sorted, SortedAt
<1>16. Toward(side, pos[n], pos[up])
  <2>1. up \in sub[up] /\ pos[n] \in Int /\ pos[up] \in Int
    BY <1>6, <1>7, <1>9, <1>11
  <2>2. Toward(o, pos[up], pos[n])
    BY <1>13, <2>1
  <2> QED
    BY <1>1, <2>1, <2>2, TowardIs
<1>17. SortedAt(r, sub2, pos, n)
  <2>1. \A m \in sub2[low] : Toward(side, pos[m], pos[n])
    <3>1. sub2[low] = sub[low]
      BY <1>6, <1>7, <1>10
    <3> QED
      BY <1>12, <3>1
  <2>2. \A m \in sub2[inner] : Toward(o, pos[m], pos[n])
    <3>1. sub2[inner] = sub[inner] /\ sub[inner] \subseteq sub[up]
      BY <1>6, <1>7, <1>10, <1>11
    <3> QED
      BY <1>13, <3>1
  <2> QED
    BY <1>1, <1>6, <2>1, <2>2, SortedFrom
<1>18. SortedAt(r, sub2, pos, up)
  <2>1. ASSUME NEW m \in sub2[n] PROVE Toward(side, pos[m], pos[up])
    <3>1. CASE m = n
      BY <1>16, <3>1
    <3>2. CASE m \in sub[low]
      <4>1. m \in Nodes
        BY <1>11, <3>2
      <4> QED
        <5>1. Toward(side, pos[m], pos[n]) /\ Toward(side, pos[n], pos[up])
          BY <1>12, <1>16, <3>2
        <5>2. pos[m] \in Int /\ pos[n] \in Int /\ pos[up] \in Int
          BY <1>6, <1>7, <1>9, <4>1
        <5> QED
          BY <5>1, <5>2, TowardIs
    <3>3. CASE m \in sub[inner]
      BY <1>14, <3>3
    <3> QED
      BY <1>10, <2>1, <3>1, <3>2, <3>3
  <2>2. \A m \in sub2[outer] : Toward(o, pos[m], pos[up])
    <3>1. sub2[outer] = sub[outer]
      BY <1>6, <1>7, <1>10
    <3> QED
      BY <1>15, <3>1
  <2> QED
    BY <1>1, <1>6, <2>1, <2>2, SortedFrom
<1>19. ASSUME NEW a \in L, a # n, a # up PROVE SortedAt(r, sub2, pos, a)
  <2>1. ASSUME NEW s \in Sides PROVE sub2[r.kid[s][a]] = sub[t.kid[s][a]]
    <3>1. t.kid[s][a] \in Ptrs
      BY <1>7, NestAtIs
    <3>2. \/ t.kid[s][a] = n /\ r.kid[s][a] = up
          \/ t.kid[s][a] # n /\ t.kid[s][a] # up /\ r.kid[s][a] = t.kid[s][a]
      BY <1>3, <1>19 DEF KidsTurned
    <3> QED
      BY <1>10, <3>1, <3>2
  <2>2. SortedAt(t, sub, pos, a)
    BY <1>2 DEF Sorted
  <2> QED
    BY <2>1, <2>2 DEF SortedAt
<1> QED
  BY <1>3, <1>17, <1>18, <1>19 DEF Sorted

\* What a node adds to the height of the paths through it.
Black(t, n) == IF t.red[n] THEN 0 ELSE 1
Lack(at, on, n, s) == IF n = at /\ s = on THEN 1 ELSE 0

\* h[n] is the number of black nodes on each path from n down, n counted; the
\* paths through the child of node at on side on have one less than they should.
HeightAt(t, h, at, on, n, s) == h[n] = h[t.kid[s][n]] + (Lack(at, on, n, s) + Black(t, n))

Heights(t, L, h, at, on) ==
    /\ h \in [Cells -> Nat] /\ h[Sentinel] = 0
    /\ \A n \in L, s \in Sides : HeightAt(t, h, at, on, n, s)

\* n and up have the heights that they need to change places.
Turning(t, h, at, on, side, n, up, inner) ==
    /\ h[up] = h[t.kid[side][n]] + (Lack(at, on, n, side) + Black(t, n))
    /\ h[up] = h[inner] + (Lack(at, on, n, Other(side)) + Black(t, n))
    /\ h[n] = h[up] + (Lack(at, on, up, side) + Black(t, up))
    /\ h[n] = h[t.kid[Other(side)][up]] + (Lack(at, on, up, Other(side)) + Black(t, up))

\* A rotation where the two nodes have been painted before.
LEMMA RotateHeights ==
    ASSUME NEW L, L \subseteq Nodes, NEW t, NEW r, NEW side \in Sides, NEW n, NEW up, NEW inner,
           KidsTurned(t, r, L, side, n, up, inner), r.red = t.red,
           \A a \in L, s \in Sides : t.kid[s][a] \in Cells,
           NEW h \in [Cells -> Nat], h[Sentinel] = 0, NEW at, NEW on,
           \A a \in L, s \in Sides : a # n /\ a # up => HeightAt(t, h, at, on, a, s),
           Turning(t, h, at, on, side, n, up, inner)
    PROVE  Heights(r, L, [h EXCEPT ![n] = h[up], ![up] = h[n]], at, on)
<1>1. PICK g : g = [h EXCEPT ![n] = h[up], ![up] = h[n]]
  OBVIOUS
<1>2. n \in Cells /\ up \in Cells /\ n # Sentinel /\ up # Sentinel /\ n # up /\ n \in L /\ up \in L
  BY CellsAre DEF KidsTurned
<1>3. /\ g \in [Cells -> Nat] /\ g[n] = h[up] /\ g[up] = h[n]
      /\ \A c \in Cells : c # n /\ c # up => g[c] = h[c]
  BY <1>1, <1>2
<1>4. g[Sentinel] = 0
  BY <1>2, <1>3, CellsAre
<1>5. \A a : Black(r, a) = Black(t, a)
  BY DEF Black
<1>6. HeightAt(r, g, at, on, n, side) /\ HeightAt(r, g, at, on, n, Other(side))
  BY <1>3, <1>5 DEF KidsTurned, HeightAt, Turning
<1>7. HeightAt(r, g, at, on, up, side) /\ HeightAt(r, g, at, on, up, Other(side))
  BY <1>3, <1>5, ZenonT(40) DEF KidsTurned, HeightAt, Turning
<1>8. ASSUME NEW a \in L, NEW s \in Sides, a # n, a # up
      PROVE  HeightAt(r, g, at, on, a, s)
  <2>0. t.kid[s][a] \in Cells
    OBVIOUS
  <2>1. \/ t.kid[s][a] = n /\ r.kid[s][a] = up
        \/ t.kid[s][a] # n /\ t.kid[s][a] # up /\ r.kid[s][a] = t.kid[s][a]
    BY <1>8 DEF KidsTurned
  <2>2. g[r.kid[s][a]] = h[t.kid[s][a]]
    BY <1>3, <1>8, <2>0, <2>1
  <2>3. g[a] = h[a]
    BY <1>3, <1>8, CellsAre
  <2>4. HeightAt(t, h, at, on, a, s)
    BY <1>8
  <2> QED
    BY <1>5, <2>2, <2>3, <2>4 DEF HeightAt
<1>9. ASSUME NEW a \in L, NEW s \in Sides PROVE HeightAt(r, g, at, on, a, s)
  <2>1. s = side \/ s = Other(side)
    BY SidesAre
  <2>2. CASE a = n
    BY <1>6, <2>1, <2>2
  <2>3. CASE a = up
    BY <1>7, <2>1, <2>3
  <2> QED
    BY <1>8, <2>2, <2>3
<1>10. Heights(r, L, g, at, on)
  BY <1>3, <1>4, <1>9 DEF Heights
<1> QED
  BY <1>1, <1>10

----------------------------------------------------------------------------
(* What colours and rotations leave alone. *)

\* A tree of the nodes L at the positions pos, with the keys key.
Kept(t, sub, L, pos, key) ==
    /\ Shaped(t, sub) /\ sub[t.root] = L /\ Sorted(t, sub, pos)
    /\ t.key = key /\ ~t.red[Sentinel]

\* A node of a tree, its children and its parent.
LEMMA KeptNode ==
    ASSUME NEW t, NEW sub, NEW L, NEW pos, NEW key, Kept(t, sub, L, pos, key), NEW n \in L
    PROVE  /\ t \in Trees /\ n \in Nodes /\ n \in Cells /\ n # Sentinel /\ n # Null /\ L \subseteq Nodes
           /\ t.root \in L
           /\ \A s \in Sides : /\ t.kid[s][n] \in Cells /\ t.kid[s][n] # n /\ t.kid[s][n] # t.root
                               /\ t.kid[s][n] # Sentinel =>
                                    /\ t.kid[s][n] \in L /\ t.kid[s][n] # t.kid[Other(s)][n]
                                    /\ t.parent[t.kid[s][n]] = n
                                    /\ SideOf(t, t.kid[s][n]) = s
           /\ n # t.root => /\ t.parent[n] \in L /\ t.parent[n] # n
                            /\ t.kid[SideOf(t, n)][t.parent[n]] = n
                            /\ SideOf(t, n) \in Sides
           /\ \A m \in L, s \in Sides : t.kid[s][m] = n => m = t.parent[n] /\ s = SideOf(t, n)
<1>1. Shaped(t, sub) /\ n \in sub[t.root] /\ L = sub[t.root]
  BY DEF Kept
<1>2. /\ n \in Nodes /\ L \subseteq Nodes /\ t.root \in L
      /\ \A s \in Sides : t.kid[s][n] \in Cells /\ (t.kid[s][n] # Sentinel => t.kid[s][n] \in L)
                          /\ t.kid[s][n] # t.root
  BY <1>1, LinkedIs
<1>3. t \in Trees /\ n \in Cells /\ n # Sentinel /\ n # Null
  BY <1>1, <1>2, CellsAre DEF Shaped
<1>4. ASSUME NEW s \in Sides
      PROVE  /\ t.kid[s][n] # n
             /\ t.kid[s][n] # Sentinel => /\ t.kid[s][n] # t.kid[Other(s)][n]
                                          /\ t.parent[t.kid[s][n]] = n
                                          /\ SideOf(t, t.kid[s][n]) = s
  <2>1. t.kid[s][n] # n
    BY <1>1, <1>2, NodeIs
  <2>2. ASSUME NEW c, c = t.kid[s][n], c # Sentinel
        PROVE  c # t.kid[Other(s)][n] /\ t.parent[c] = n /\ SideOf(t, c) = s
    <3>1. c \in sub[t.root]
      BY <1>1, <1>2, <2>2
    <3>2. \A m \in Nodes, q \in Sides : t.kid[q][m] = c => m = t.parent[c] /\ q = SideOf(t, c)
      BY <1>1, <3>1, PlaceIs
    <3> QED
      BY <1>2, <2>2, <3>2, SidesAre
  <2> QED
    BY <2>1, <2>2
<1>5. n # t.root => /\ t.parent[n] \in L /\ t.parent[n] # n
                    /\ t.kid[SideOf(t, n)][t.parent[n]] = n
                    /\ SideOf(t, n) \in Sides
  BY <1>1, PlaceIs
<1>6. \A m \in L, s \in Sides : t.kid[s][m] = n => m = t.parent[n] /\ s = SideOf(t, n)
  BY <1>1, <1>2, PlaceIs
<1> QED
  BY <1>2, <1>3, <1>4, <1>5, <1>6

\* Parts of it, for the steps that need no more.
LEMMA NodesKept ==
    ASSUME NEW t, NEW sub, NEW L, NEW pos, NEW key, Kept(t, sub, L, pos, key), NEW n \in L
    PROVE  L \subseteq Nodes
BY KeptNode

LEMMA KidKept ==
    ASSUME NEW t, NEW sub, NEW L, NEW pos, NEW key, Kept(t, sub, L, pos, key), NEW n \in L, NEW s \in Sides
    PROVE  /\ t.kid[s][n] \in Cells /\ t.kid[s][n] # n
           /\ t.kid[s][n] # Sentinel => t.kid[s][n] \in L /\ t.parent[t.kid[s][n]] = n
           /\ t.kid[s][n] # Sentinel => t.kid[s][n] # t.kid[Other(s)][n]
BY KeptNode

\* Painting a node leaves all but colours as it is.
LEMMA PaintKept ==
    ASSUME NEW t, NEW sub, NEW L, NEW pos, NEW key, Kept(t, sub, L, pos, key),
           NEW n \in L, NEW v \in BOOLEAN
    PROVE  /\ Painted(t, Paint(t, n, v), n, v)
           /\ Kept(Paint(t, n, v), sub, L, pos, key)
<1>1. t \in Trees /\ n \in Cells /\ n # Sentinel
  BY KeptNode
<1>2. PICK r : r = Paint(t, n, v)
  OBVIOUS
<1>3. Painted(t, r, n, v)
  BY <1>1, <1>2, PaintIs
<1>4. r \in Trees /\ r.root = t.root /\ r.kid = t.kid /\ r.parent = t.parent /\ r.key = t.key
      /\ r.red[Sentinel] = t.red[Sentinel]
  BY <1>1, <1>3, CellsAre DEF Painted
<1>5. Shaped(r, sub)
  BY <1>4, SameShape DEF Kept
<1> QED
  BY <1>2, <1>3, <1>4, <1>5 DEF Kept, Sorted, SortedAt

\* A rotation keeps what Kept says.
LEMMA RotateKept ==
    ASSUME NEW t, NEW sub, NEW L, NEW pos, NEW key, Kept(t, sub, L, pos, key),
           NEW side \in Sides, NEW n \in L,
           NEW up, up = t.kid[Other(side)][n], up # Sentinel,
           NEW inner, inner = t.kid[side][up],
           NEW sub2, sub2 = TurnedSub(t, sub, side, n, up, inner),
           NEW r, r = Rotate(t, side, n)
    PROVE  /\ Kept(r, sub2, L, pos, key) /\ r.red = t.red
           /\ Turned(t, r, side, n, up, inner)
           /\ KidsTurned(t, r, L, side, n, up, inner)
<1>1. Shaped(t, sub) /\ L = sub[t.root] /\ Sorted(t, sub, pos) /\ t.key = key /\ ~t.red[Sentinel]
  BY DEF Kept
<1>2. /\ Shaped(r, sub2) /\ sub2[r.root] = L
      /\ Turned(t, r, side, n, up, inner)
      /\ KidsTurned(t, r, L, side, n, up, inner)
  BY <1>1, RotateShape
<1>3. Sorted(r, sub2, pos)
  BY <1>1, RotateSorted
<1>4. r.red = t.red /\ r.key = t.key
  BY <1>2 DEF Turned
<1> QED
  BY <1>1, <1>2, <1>3, <1>4 DEF Kept

\* The children of a tree's nodes.
LEMMA KidsAre ==
    ASSUME NEW t, NEW sub, NEW L, NEW pos, NEW key, Kept(t, sub, L, pos, key)
    PROVE  \A a \in L, s \in Sides : t.kid[s][a] \in Cells
BY KeptNode

----------------------------------------------------------------------------
(* Insertion: the rounds. *)

\* Without a lack.
Even(t, L, h) == Heights(t, L, h, Null, "left")

EvenAt(t, h, n, s) == h[n] = h[t.kid[s][n]] + Black(t, n)

LEMMA EvenAtIs ==
    ASSUME NEW t, NEW h, NEW n \in Nodes, NEW s
    PROVE  HeightAt(t, h, Null, "left", n, s) <=> EvenAt(t, h, n, s)
<1>1. Lack(Null, "left", n, s) = 0
  BY CellsAre DEF Lack
<1>2. 0 + Black(t, n) = Black(t, n)
  BY DEF Black
<1> QED
  BY <1>1, <1>2 DEF HeightAt, EvenAt

\* All paths are even: no child lacks a black node.
LEMMA EvenIs ==
    ASSUME NEW L, L \subseteq Nodes, NEW t, NEW h
    PROVE  Even(t, L, h) <=> /\ h \in [Cells -> Nat] /\ h[Sentinel] = 0
                             /\ \A n \in L, s \in Sides : EvenAt(t, h, n, s)
<1>1. ASSUME NEW n \in L, NEW s \in Sides
      PROVE  HeightAt(t, h, Null, "left", n, s) <=> EvenAt(t, h, n, s)
  BY EvenAtIs
<1> QED
  BY <1>1 DEF Even, Heights

\* A red node that has come up to n: only n and its parent may both be red.
Rising(t, n, sub, L, pos, key) ==
    /\ Kept(t, sub, L, pos, key) /\ n \in L /\ t.red[n]
    /\ \E h : Even(t, L, h)
    /\ \A a \in L, s \in Sides : t.red[a] /\ t.red[t.kid[s][a]] => t.kid[s][a] = n
    /\ n # t.root => ~t.red[t.root]

\* Nothing is left to do.
Risen(t, n) == n = t.root \/ ~t.red[t.parent[n]]

\* The nodes above a red node n with a red parent p.
Family(t, L, n, p, g, side, uncle) ==
    /\ p \in L /\ g \in L /\ n \in L /\ side \in Sides /\ uncle \in Cells
    /\ n # p /\ p # g /\ p # uncle /\ g # uncle /\ p # t.root /\ n # t.root
    /\ t.red[p] /\ ~t.red[g]
    /\ t.kid[side][g] = p /\ t.kid[Other(side)][g] = uncle
    /\ t.kid[SideOf(t, n)][p] = n /\ SideOf(t, n) \in Sides /\ t.parent[n] = p /\ t.parent[p] = g

\* A red node with a red parent has a black grandparent.
LEMMA FamilyIs ==
    ASSUME NEW t, NEW n, NEW sub, NEW L, NEW pos, NEW key, Rising(t, n, sub, L, pos, key), ~Risen(t, n)
    PROVE  Family(t, L, n, t.parent[n], t.parent[t.parent[n]], SideOf(t, t.parent[n]),
                  t.kid[Other(SideOf(t, t.parent[n]))][t.parent[t.parent[n]]])
<1>1. PICK p : p = t.parent[n]
  OBVIOUS
<1>2. PICK g : g = t.parent[p]
  OBVIOUS
<1>3. PICK side : side = SideOf(t, p)
  OBVIOUS
<1>4. PICK uncle : uncle = t.kid[Other(side)][g]
  OBVIOUS
<1>5. Kept(t, sub, L, pos, key) /\ n \in L /\ n # t.root /\ t.red[p] /\ ~t.red[t.root]
  BY <1>1 DEF Rising, Risen
<1>6. p \in L /\ p # n /\ t.kid[SideOf(t, n)][p] = n /\ SideOf(t, n) \in Sides
  BY <1>1, <1>5, KeptNode
<1>7. p # t.root
  BY <1>5
<1>8. g \in L /\ g # p /\ t.kid[side][g] = p /\ side \in Sides
  BY <1>2, <1>3, <1>5, <1>6, <1>7, KeptNode
<1>9. ~t.red[g]
  <2>1. t.red[g] /\ t.red[t.kid[side][g]] => t.kid[side][g] = n
    BY <1>8 DEF Rising
  <2> QED
    BY <1>5, <1>6, <1>8, <2>1
<1>10. p # Sentinel
  BY <1>5, <1>6, KeptNode
<1>11. Other(side) \in Sides
  BY <1>8, SidesAre
<1>12. uncle \in Cells /\ uncle # g
  BY <1>4, <1>5, <1>8, <1>11, KeptNode
<1>13. uncle # p
  BY <1>4, <1>5, <1>8, <1>10, KeptNode
<1>14. Family(t, L, n, p, g, side, uncle)
  BY <1>1, <1>2, <1>4, <1>5, <1>6, <1>7, <1>8, <1>9, <1>12, <1>13 DEF Family
<1> QED
  BY <1>1, <1>2, <1>3, <1>4, <1>14

\* What InsertRound paints, with a red uncle and with a black one.
PaintedUp(t, r, p, uncle, g) == r = Paint(Paint(Paint(t, p, FALSE), uncle, FALSE), g, TRUE)
PaintedTop(t, r, mid, top) == r = Paint(Paint(t, mid, FALSE), top, TRUE)

\* The uncle is red: the colours of the two and of the grandparent change.
LEMMA RisingUp ==
    ASSUME NEW t, NEW n, NEW sub, NEW L, NEW pos, NEW key, Rising(t, n, sub, L, pos, key),
           NEW p, NEW g, NEW side, NEW uncle, Family(t, L, n, p, g, side, uncle), t.red[uncle],
           NEW r, PaintedUp(t, r, p, uncle, g)
    PROVE  Rising(r, g, sub, L, pos, key)
<1>1. Kept(t, sub, L, pos, key) /\ n \in L
  BY DEF Rising
<1>2. p \in L /\ g \in L /\ n \in L /\ side \in Sides /\ Other(side) \in Sides /\ uncle \in Cells
  BY SidesAre DEF Family
<1>3. uncle # Sentinel
  BY <1>1 DEF Kept
<1>30. uncle \in L /\ uncle # t.root
  <2>1. t.kid[Other(side)][g] = uncle
    BY DEF Family
  <2> QED
    BY <1>1, <1>2, <1>3, <2>1, KeptNode
<1>4. PICK t1 : t1 = Paint(t, p, FALSE)
  OBVIOUS
<1>5. Painted(t, t1, p, FALSE) /\ Kept(t1, sub, L, pos, key)
  BY <1>1, <1>2, <1>4, PaintKept
<1>6. PICK t2 : t2 = Paint(t1, uncle, FALSE)
  OBVIOUS
<1>7. Painted(t1, t2, uncle, FALSE) /\ Kept(t2, sub, L, pos, key)
  BY <1>30, <1>5, <1>6, PaintKept
<1>70. r = Paint(t2, g, TRUE)
  BY <1>4, <1>6 DEF PaintedUp
<1>8. Painted(t2, r, g, TRUE) /\ Kept(r, sub, L, pos, key)
  BY <1>2, <1>70, <1>7, PaintKept
<1>9. r.root = t.root /\ r.kid = t.kid
  BY <1>5, <1>7, <1>8 DEF Painted
<1>10. L \subseteq Cells /\ L \subseteq Nodes /\ p # Sentinel
  BY <1>1, <1>2, KeptNode
<1>11. /\ r.red[g] /\ ~r.red[p] /\ ~r.red[uncle]
       /\ \A c \in Cells : c = p \/ c = g \/ c = uncle \/ r.red[c] = t.red[c]
  <2>1. p # g /\ p # uncle /\ g # uncle /\ p \in Cells /\ g \in Cells
    BY <1>2, <1>10 DEF Family
  <2>2. r.red[g] /\ ~r.red[uncle]
    BY <1>2, <1>7, <1>8, <2>1 DEF Painted
  <2>3. ~r.red[p]
    BY <1>5, <1>7, <1>8, <2>1 DEF Painted
  <2>4. \A c \in Cells : c = p \/ c = g \/ c = uncle \/ r.red[c] = t.red[c]
    BY <1>5, <1>7, <1>8 DEF Painted
  <2> QED
    BY <2>2, <2>3, <2>4
<1>12. ASSUME NEW a \in L, NEW s \in Sides
       PROVE  /\ t.kid[s][a] \in Cells /\ a \in Cells
              /\ t.kid[s][a] = p \/ t.kid[s][a] = uncle => a = g
              /\ a = g => t.kid[s][a] = p \/ t.kid[s][a] = uncle
              /\ t.kid[s][a] = n => a = p
  <2>1. t.kid[s][a] \in Cells /\ a \in Cells
    BY <1>1, KeptNode
  <2>2. t.parent[p] = g /\ t.parent[n] = p
    BY DEF Family
  <2>3. t.kid[s][a] = p => a = g
    BY <1>1, <1>2, <2>2, KeptNode
  <2>4. t.kid[s][a] = uncle => a = g
    <3>1. t.kid[Other(side)][g] = uncle
      BY DEF Family
    <3> QED
      BY <1>1, <1>2, <1>30, <3>1, KeptNode
  <2>5. t.kid[s][a] = n => a = p
    BY <1>1, <1>2, <2>2, KeptNode
  <2>6. a = g => t.kid[s][a] = p \/ t.kid[s][a] = uncle
    BY <1>2, SidesAre DEF Family
  <2> QED
    BY <2>1, <2>3, <2>4, <2>5, <2>6
<1>13. ASSUME NEW a \in L, NEW s \in Sides, r.red[a], r.red[t.kid[s][a]] PROVE t.kid[s][a] = g
  <2>1. t.kid[s][a] \in Cells /\ a \in Cells
    BY <1>12
  <2>2. ~(a = p) /\ ~(a = uncle) /\ ~(t.kid[s][a] = p) /\ ~(t.kid[s][a] = uncle)
    BY <1>11, <1>13
  <2>3. ~(a = g)
    BY <1>12, <2>2
  <2>4. CASE ~(t.kid[s][a] = g)
    <3>1. t.red[a] /\ t.red[t.kid[s][a]]
      BY <1>11, <1>13, <2>1, <2>2, <2>3, <2>4
    <3>2. t.kid[s][a] = n
      BY <3>1 DEF Rising
    <3> QED
      BY <1>12, <2>2, <3>2
  <2> QED
    BY <2>4
<1>14. g # t.root => ~r.red[r.root]
  <2>1. ~t.red[t.root] /\ t.root \in Cells /\ p # t.root
    <3>1. t.root \in Cells
      BY <1>1, <1>2, <1>10, KeptNode
    <3> QED
      BY <3>1 DEF Rising, Family
  <2> QED
    BY <1>30, <1>9, <1>11, <2>1
<1>15. PICK h : Even(t, L, h)
  BY DEF Rising
<1>16. /\ h \in [Cells -> Nat] /\ h[Sentinel] = 0
       /\ \A m \in L, s \in Sides : EvenAt(t, h, m, s)
  <2>1. L \subseteq Nodes
    BY <1>10
  <2> QED
    BY <1>15, <2>1, EvenIs
<1>17. PICK f : f = [c \in Cells |-> IF c = p \/ c = uncle THEN h[c] + 1 ELSE h[c]]
  OBVIOUS
<1>18. f \in [Cells -> Nat] /\ f[Sentinel] = 0
  BY <1>3, <1>10, <1>16, <1>17, CellsAre
<1>19. ASSUME NEW a \in L, NEW s \in Sides PROVE EvenAt(r, f, a, s)
  <2>0. r.kid[s][a] = t.kid[s][a]
    BY <1>9
  <2>1. t.kid[s][a] \in Cells /\ a \in Cells
    BY <1>12
  <2>2. h[a] = h[t.kid[s][a]] + Black(t, a) /\ h[t.kid[s][a]] \in Nat
    BY <1>16, <2>1 DEF EvenAt
  <2>3. CASE a = g
    <3>1. f[t.kid[s][a]] = h[t.kid[s][a]] + 1
      BY <1>12, <1>17, <2>1, <2>3
    <3>2. f[a] = h[a]
      BY <1>17, <2>1, <2>3 DEF Family
    <3>3. Black(t, a) = 1 /\ Black(r, a) = 0
      BY <1>11, <2>3 DEF Black, Family
    <3> QED
      BY <2>0, <2>2, <3>1, <3>2, <3>3 DEF EvenAt
  <2>4. CASE a = p \/ a = uncle
    <3>1. Black(t, a) = 0 /\ Black(r, a) = 1
      BY <1>11, <2>4 DEF Black, Family
    <3>2. f[a] = h[a] + 1
      BY <1>17, <2>1, <2>4
    <3>3. ~(t.kid[s][a] = p \/ t.kid[s][a] = uncle)
      BY <1>12, <2>4 DEF Family
    <3>4. f[t.kid[s][a]] = h[t.kid[s][a]]
      BY <1>17, <2>1, <3>3
    <3> QED
      BY <2>0, <2>2, <3>1, <3>2, <3>4 DEF EvenAt
  <2>5. CASE ~(a = g) /\ ~(a = p \/ a = uncle)
    <3>1. Black(t, a) = Black(r, a)
      BY <1>11, <2>1, <2>5 DEF Black
    <3>2. f[a] = h[a]
      BY <1>17, <2>1, <2>5
    <3>3. ~(t.kid[s][a] = p \/ t.kid[s][a] = uncle)
      BY <1>12, <2>5
    <3>4. f[t.kid[s][a]] = h[t.kid[s][a]]
      BY <1>17, <2>1, <3>3
    <3> QED
      BY <2>0, <2>2, <3>1, <3>2, <3>4 DEF EvenAt
  <2> QED
    BY <2>3, <2>4, <2>5
<1>20. Even(r, L, f)
  <2>1. L \subseteq Nodes
    BY <1>10
  <2> QED
    BY <1>18, <1>19, <2>1, EvenIs
<1> QED
  BY <1>2, <1>8, <1>9, <1>11, <1>13, <1>14, <1>20 DEF Rising

\* A rotation of two nodes that have the heights that they need to change places.
EvenTurning(t, h, side, n, up, inner) ==
    /\ h[up] = h[t.kid[side][n]] + Black(t, n)
    /\ h[up] = h[inner] + Black(t, n)
    /\ h[n] = h[up] + Black(t, up)
    /\ h[n] = h[t.kid[Other(side)][up]] + Black(t, up)

\* A rotation of two nodes that are painted for it keeps the paths even.
LEMMA RotateEven ==
    ASSUME NEW t, NEW sub, NEW L, NEW pos, NEW key, Kept(t, sub, L, pos, key),
           NEW r, NEW side \in Sides, NEW n, NEW up, NEW inner,
           KidsTurned(t, r, L, side, n, up, inner), r.red = t.red,
           NEW h \in [Cells -> Nat], h[Sentinel] = 0,
           \A a \in L, s \in Sides : a = n \/ a = up \/ EvenAt(t, h, a, s),
           EvenTurning(t, h, side, n, up, inner)
    PROVE  \E f : Even(r, L, f)
<1>1. n \in L /\ up \in L
  BY DEF KidsTurned
<1>2. L \subseteq Nodes /\ n \in Nodes /\ up \in Nodes
  BY <1>1, KeptNode
<1>3. \A a \in L, s \in Sides : t.kid[s][a] \in Cells
  BY KidsAre
<1>4. \A a \in L, s \in Sides : a # n /\ a # up => HeightAt(t, h, Null, "left", a, s)
  BY <1>2, EvenAtIs
<1>5. Turning(t, h, Null, "left", side, n, up, inner)
  <2>1. /\ Lack(Null, "left", n, side) = 0 /\ Lack(Null, "left", n, Other(side)) = 0
        /\ Lack(Null, "left", up, side) = 0 /\ Lack(Null, "left", up, Other(side)) = 0
    BY <1>2, CellsAre DEF Lack
  <2>2. 0 + Black(t, n) = Black(t, n) /\ 0 + Black(t, up) = Black(t, up)
    BY DEF Black
  <2> QED
    BY <2>1, <2>2 DEF Turning, EvenTurning
<1>6. PICK f : f = [h EXCEPT ![n] = h[up], ![up] = h[n]]
  OBVIOUS
<1>7. Heights(r, L, f, Null, "left")
  BY <1>2, <1>3, <1>4, <1>5, <1>6, RotateHeights
<1> QED
  BY <1>7 DEF Even

\* Three nodes, one below the other.
LEMMA FamilyFrom ==
    ASSUME NEW t, NEW sub, NEW L, NEW pos, NEW key, Kept(t, sub, L, pos, key),
           NEW g \in L, NEW side \in Sides, NEW q \in Sides, ~t.red[g],
           NEW p \in L, p = t.kid[side][g], t.red[p],
           NEW n \in L, n = t.kid[q][p]
    PROVE  Family(t, L, n, p, g, side, t.kid[Other(side)][g]) /\ SideOf(t, n) = q
<1>1. PICK uncle : uncle = t.kid[Other(side)][g]
  OBVIOUS
<1>2. n # Sentinel /\ p # Sentinel /\ Other(side) \in Sides
  BY KeptNode, SidesAre
<1>3. p # g /\ p # t.root /\ p # uncle /\ t.parent[p] = g
  BY <1>1, <1>2, KeptNode
<1>4. uncle \in Cells /\ uncle # g
  BY <1>1, <1>2, KeptNode
<1>5. n # p /\ n # t.root /\ t.parent[n] = p /\ SideOf(t, n) = q
  BY <1>2, KeptNode
<1>6. Family(t, L, n, p, g, side, uncle)
  BY <1>1, <1>3, <1>4, <1>5 DEF Family
<1> QED
  BY <1>1, <1>5, <1>6

\* The uncle is black and n is the inner grandchild: n and its parent change places.
LEMMA RisingTurn ==
    ASSUME NEW t, NEW n, NEW sub, NEW L, NEW pos, NEW key, Rising(t, n, sub, L, pos, key),
           NEW p, NEW g, NEW side, NEW uncle, Family(t, L, n, p, g, side, uncle), ~t.red[uncle],
           n = t.kid[Other(side)][p],
           NEW r, r = Rotate(t, side, p), NEW sub2, sub2 = TurnedSub(t, sub, side, p, n, t.kid[side][n])
    PROVE  /\ Rising(r, p, sub2, L, pos, key) /\ Family(r, L, p, n, g, side, uncle)
           /\ r.kid[side][n] = p /\ ~r.red[uncle]
<1>1. /\ Kept(t, sub, L, pos, key) /\ n \in L /\ p \in L /\ g \in L /\ side \in Sides
      /\ uncle \in Cells /\ t.red[n] /\ t.red[p] /\ ~t.red[g]
  BY DEF Rising, Family
<1>2. PICK inner : inner = t.kid[side][n]
  OBVIOUS
<1>3. PICK low : low = t.kid[side][p]
  OBVIOUS
<1>4. PICK outer : outer = t.kid[Other(side)][n]
  OBVIOUS
<1>5. n # Sentinel /\ p # Sentinel /\ Other(side) \in Sides /\ L \subseteq Nodes /\ p \in Cells
  <2>1. Kept(t, sub, L, pos, key) /\ n \in L /\ p \in L /\ side \in Sides
    BY <1>1
  <2>2. L \subseteq Nodes
    BY <2>1, NodesKept, Zenon
  <2>3. Other(side) \in Sides
    BY <2>1, SidesAre, Zenon
  <2>4. \A m \in Nodes : m # Sentinel /\ m \in Cells
    BY CellsAre, Zenon
  <2> QED
    BY <2>1, <2>2, <2>3, <2>4, Zenon
<1>6. /\ Kept(r, sub2, L, pos, key) /\ r.red = t.red
      /\ Turned(t, r, side, p, n, inner)
      /\ KidsTurned(t, r, L, side, p, n, inner)
  BY <1>1, <1>2, <1>5, RotateKept
<1>7. /\ r.kid[side][p] = low /\ r.kid[Other(side)][p] = inner
      /\ r.kid[side][n] = p /\ r.kid[Other(side)][n] = outer
  BY <1>3, <1>4, <1>6 DEF KidsTurned
<1>8. /\ \A m \in L, s \in Sides :
           m = n \/ m = p \/ (t.kid[s][m] = p /\ r.kid[s][m] = n)
             \/ (t.kid[s][m] # p /\ t.kid[s][m] # n /\ r.kid[s][m] = t.kid[s][m])
  BY <1>6 DEF KidsTurned
<1>9. p # t.root /\ t.parent[p] = g /\ t.kid[side][g] = p
  BY DEF Family
<1>10. SideOf(t, p) = side
  BY <1>1, <1>5, <1>9, KeptNode
<1>11. r.kid[side][g] = n
  BY <1>6, <1>9, <1>10 DEF Turned
<1>12. ~r.red[g] /\ r.red[n] /\ r.red[p] /\ ~r.red[uncle]
  BY <1>1, <1>6
<1>13. Family(r, L, p, n, g, side, r.kid[Other(side)][g])
  BY <1>1, <1>6, <1>7, <1>11, <1>12, FamilyFrom
<1>14. g # n /\ g # p
  <2>1. g # n
    BY <1>13 DEF Family
  <2> QED
    BY <2>1 DEF Family
<1>15. r.kid[Other(side)][g] = uncle
  <2>1. t.kid[Other(side)][g] = uncle /\ uncle # p
    BY DEF Family
  <2> QED
    BY <1>1, <1>5, <1>8, <1>14, <2>1
<1>16. ~t.red[low] /\ ~t.red[inner] /\ ~t.red[outer]
  <2>1. \A a \in L, s \in Sides : t.red[a] /\ t.red[t.kid[s][a]] => t.kid[s][a] = n
    BY DEF Rising
  <2>2. low # n /\ inner # n /\ outer # n
    <3>1. low # n
      <4>1. Kept(t, sub, L, pos, key) /\ p \in L /\ side \in Sides
        BY <1>1
      <4>2. t.kid[side][p] # Sentinel => t.kid[side][p] # t.kid[Other(side)][p]
        BY <4>1, KidKept
      <4> QED
        BY <1>3, <1>5, <4>2, Zenon
    <3>2. \A s \in Sides : t.kid[s][n] # n
      <4>1. Kept(t, sub, L, pos, key) /\ n \in L
        BY <1>1
      <4> QED
        BY <4>1, KidKept
    <3> QED
      BY <1>1, <1>2, <1>4, <1>5, <3>1, <3>2, Zenon
  <2> QED
    BY <1>1, <1>2, <1>3, <1>4, <1>5, <2>1, <2>2
<1>17. ASSUME NEW a \in L, NEW s \in Sides, r.red[a], r.red[r.kid[s][a]] PROVE r.kid[s][a] = p
  <2>1. s = side \/ s = Other(side)
    BY <1>1, SidesAre
  <2>2. CASE a = p
    BY <1>6, <1>7, <1>16, <1>17, <2>1, <2>2
  <2>3. CASE a = n
    BY <1>6, <1>7, <1>16, <1>17, <2>1, <2>3
  <2>4. CASE a # p /\ a # n /\ t.kid[s][a] = p
    <3>1. a = g
      BY <1>1, <1>9, <2>4, KeptNode
    <3> QED
      BY <1>12, <1>17, <3>1
  <2>5. CASE a # p /\ a # n /\ t.kid[s][a] # p
    <3>1. t.kid[s][a] # n /\ r.kid[s][a] = t.kid[s][a]
      BY <1>8, <2>5
    <3>2. t.red[a] /\ t.red[t.kid[s][a]]
      BY <1>6, <1>17, <3>1
    <3> QED
      BY <3>1, <3>2 DEF Rising
  <2> QED
    BY <2>2, <2>3, <2>4, <2>5
<1>18. PICK h : Even(t, L, h)
  BY DEF Rising
<1>19. /\ h \in [Cells -> Nat] /\ h[Sentinel] = 0
       /\ \A m \in L, s \in Sides : EvenAt(t, h, m, s)
  BY <1>5, <1>18, EvenIs
<1>20. EvenTurning(t, h, side, p, n, inner)
  <2>1. Black(t, n) = 0 /\ Black(t, p) = 0
    BY <1>1 DEF Black
  <2>2. h[n] \in Nat /\ h[p] \in Nat /\ h[low] \in Nat /\ h[inner] \in Nat /\ h[outer] \in Nat
    <3>1. n \in Cells /\ p \in Cells /\ low \in Cells /\ inner \in Cells /\ outer \in Cells
      <4>1. \A a \in L, s \in Sides : t.kid[s][a] \in Cells
        BY <1>1, KidsAre
      <4> QED
        BY <1>1, <1>2, <1>3, <1>4, <1>5, <4>1, CellsAre
    <3> QED
      BY <1>19, <3>1
  <2>3. EvenAt(t, h, p, side) /\ EvenAt(t, h, p, Other(side)) /\ EvenAt(t, h, n, side) /\ EvenAt(t, h, n, Other(side))
    BY <1>1, <1>5, <1>19
  <2>4. h[p] = h[low] + 0 /\ h[p] = h[n] + 0
    BY <1>3, <2>1, <2>3, Zenon DEF EvenAt
  <2>5. h[n] = h[inner] + 0 /\ h[n] = h[outer] + 0
    BY <1>2, <1>4, <2>1, <2>3, Zenon DEF EvenAt
  <2>6. h[p] = h[n]
    BY <2>2, <2>4
  <2> QED
    BY <1>2, <1>3, <1>4, <2>1, <2>4, <2>5, <2>6, Zenon DEF EvenTurning
<1>21. \E f : Even(r, L, f)
  BY <1>1, <1>6, <1>19, <1>20, RotateEven
<1>22. ~r.red[r.root]
  <2>1. r.root = t.root /\ n # t.root
    BY <1>6, <1>9 DEF Turned, Family
  <2> QED
    BY <1>6, <2>1 DEF Rising
<1> QED
  BY <1>1, <1>6, <1>7, <1>12, <1>13, <1>15, <1>17, <1>21, <1>22 DEF Rising

\* The uncle is black and n is the outer grandchild: its parent takes the place of
\* its grandparent.
LEMMA RisingTop ==
    ASSUME NEW t, NEW n, NEW sub, NEW L, NEW pos, NEW key, Rising(t, n, sub, L, pos, key),
           NEW p, NEW g, NEW side, NEW uncle, Family(t, L, n, p, g, side, uncle), ~t.red[uncle],
           n = t.kid[side][p],
           NEW q, PaintedTop(t, q, p, g), NEW o, o = Other(side),
           NEW r, r = Rotate(q, o, g), NEW sub2, sub2 = TurnedSub(q, sub, o, g, p, q.kid[o][p])
    PROVE  Rising(r, n, sub2, L, pos, key) /\ Risen(r, n)
<1>1. /\ Kept(t, sub, L, pos, key) /\ n \in L /\ p \in L /\ g \in L /\ side \in Sides
      /\ uncle \in Cells /\ t.red[n] /\ t.red[p] /\ ~t.red[g]
  BY DEF Rising, Family
<1>2. o \in Sides /\ Other(o) = side /\ \A s \in Sides : s = side \/ s = o
  BY <1>1, SidesAre
<1>3. /\ n # Sentinel /\ p # Sentinel /\ g # Sentinel /\ L \subseteq Nodes
      /\ p \in Cells /\ g \in Cells /\ n \in Cells
  BY <1>1, KeptNode
<1>4. PICK q1 : q1 = Paint(t, p, FALSE)
  OBVIOUS
<1>5. Painted(t, q1, p, FALSE) /\ Kept(q1, sub, L, pos, key)
  BY <1>1, <1>4, PaintKept
<1>6. q = Paint(q1, g, TRUE)
  BY <1>4 DEF PaintedTop
<1>7. Painted(q1, q, g, TRUE) /\ Kept(q, sub, L, pos, key)
  BY <1>1, <1>5, <1>6, PaintKept
<1>8. q.root = t.root /\ q.kid = t.kid /\ q.parent = t.parent
  BY <1>5, <1>7 DEF Painted
<1>9. /\ ~q.red[p] /\ q.red[g]
      /\ \A c \in Cells : c = p \/ c = g \/ q.red[c] = t.red[c]
  <2>1. p # g
    BY DEF Family
  <2> QED
    BY <1>3, <1>5, <1>7, <2>1 DEF Painted
<1>10. PICK inner : inner = t.kid[o][p]
  OBVIOUS
<1>11. /\ t.kid[side][g] = p /\ t.kid[o][g] = uncle /\ t.parent[p] = g
       /\ p # t.root /\ p # uncle /\ g # uncle /\ n # p /\ p # g
  BY DEF Family
<1>12. /\ Kept(r, sub2, L, pos, key) /\ r.red = q.red
       /\ Turned(q, r, o, g, p, inner)
       /\ KidsTurned(q, r, L, o, g, p, inner)
  <2>1. q.kid[Other(o)][g] = p /\ q.kid[o][p] = inner
    BY <1>2, <1>8, <1>10, <1>11
  <2> QED
    BY <1>1, <1>2, <1>3, <1>7, <2>1, RotateKept
<1>13. /\ r.kid[o][g] = uncle /\ r.kid[side][g] = inner
       /\ r.kid[o][p] = g /\ r.kid[side][p] = n
  <2>1. q.kid[o][g] = uncle /\ q.kid[Other(o)][p] = n
    BY <1>2, <1>8, <1>11
  <2> QED
    BY <1>2, <1>12, <2>1 DEF KidsTurned
<1>14. \A m \in L, s \in Sides :
           m = g \/ m = p \/ (t.kid[s][m] = g /\ r.kid[s][m] = p)
             \/ (t.kid[s][m] # g /\ t.kid[s][m] # p /\ r.kid[s][m] = t.kid[s][m])
  <2>1. \A m \in L, s \in Sides :
           m = g \/ m = p \/ (q.kid[s][m] = g /\ r.kid[s][m] = p)
             \/ (q.kid[s][m] # g /\ q.kid[s][m] # p /\ r.kid[s][m] = q.kid[s][m])
    BY <1>12 DEF KidsTurned
  <2> QED
    BY <1>8, <2>1
<1>15. n # g
  <2>1. n # Sentinel /\ r.kid[side][p] = n /\ r.kid[o][p] = g
    BY <1>3, <1>13
  <2> QED
    BY <1>1, <1>2, <1>12, <2>1, KeptNode
<1>16. inner \in Cells /\ inner # n /\ inner # p
  <2>1. inner \in Cells /\ inner # p
    BY <1>1, <1>2, <1>10, KeptNode
  <2> QED
    BY <1>1, <1>2, <1>3, <1>10, <2>1, KeptNode
<1>17. ~t.red[inner]
  BY <1>1, <1>2, <1>10, <1>16 DEF Rising
<1>18. inner # g
  BY <1>12 DEF KidsTurned
<1>19. ~r.red[uncle] /\ ~r.red[inner] /\ ~r.red[p] /\ r.red[n]
  BY <1>1, <1>3, <1>9, <1>11, <1>12, <1>15, <1>16, <1>17, <1>18
<1>20. r.parent[n] = p /\ n # r.root
  BY <1>1, <1>3, <1>12, <1>13, KeptNode
<1>21. ASSUME NEW a \in L, NEW s \in Sides, r.red[a], r.red[r.kid[s][a]] PROVE r.kid[s][a] = n
  <2>1. s = side \/ s = o
    BY <1>2
  <2>2. CASE a = g
    BY <1>13, <1>19, <1>21, <2>1, <2>2
  <2>3. CASE a # g /\ t.kid[s][a] = g
    <3>1. a # p
      BY <1>19, <1>21
    <3>2. r.kid[s][a] = p
      BY <1>11, <1>14, <2>3, <3>1
    <3> QED
      BY <1>19, <1>21, <3>2
  <2>4. CASE a # g /\ t.kid[s][a] # g
    <3>1. a # p
      BY <1>19, <1>21
    <3>2. t.kid[s][a] # p /\ r.kid[s][a] = t.kid[s][a]
      BY <1>14, <2>4, <3>1
    <3>3. t.kid[s][a] \in Cells /\ a \in Cells
      BY <1>1, KeptNode
    <3>4. t.red[a] /\ t.red[t.kid[s][a]]
      BY <1>9, <1>12, <1>21, <2>4, <3>1, <3>2, <3>3
    <3> QED
      BY <3>2, <3>4 DEF Rising
  <2> QED
    BY <2>2, <2>3, <2>4
<1>22. PICK h : Even(t, L, h)
  BY DEF Rising
<1>23. /\ h \in [Cells -> Nat] /\ h[Sentinel] = 0
       /\ \A m \in L, s \in Sides : EvenAt(t, h, m, s)
  BY <1>3, <1>22, EvenIs
<1>24. EvenTurning(q, h, o, g, p, inner)
  <2>1. Black(t, p) = 0 /\ Black(t, g) = 1 /\ Black(q, p) = 1 /\ Black(q, g) = 0
    BY <1>1, <1>9 DEF Black
  <2>2. h[n] \in Nat /\ h[p] \in Nat /\ h[g] \in Nat /\ h[inner] \in Nat /\ h[uncle] \in Nat
    BY <1>1, <1>3, <1>16, <1>23
  <2>3. EvenAt(t, h, p, side) /\ EvenAt(t, h, p, o) /\ EvenAt(t, h, g, side) /\ EvenAt(t, h, g, o)
    BY <1>1, <1>2, <1>23
  <2>4. h[p] = h[n] /\ h[p] = h[inner] /\ h[g] = h[p] + 1 /\ h[g] = h[uncle] + 1
    BY <1>10, <1>11, <2>1, <2>2, <2>3 DEF EvenAt
  <2>5. q.kid[o][g] = uncle /\ q.kid[Other(o)][p] = n
    BY <1>2, <1>8, <1>11
  <2>6. h[p] = h[uncle]
    BY <2>2, <2>4
  <2>7. h[p] = h[uncle] + 0 /\ h[p] = h[inner] + 0
    BY <2>2, <2>4, <2>6
  <2> QED
    BY <2>1, <2>4, <2>5, <2>7 DEF EvenTurning
<1>25. ASSUME NEW a \in L, NEW s \in Sides PROVE a = g \/ a = p \/ EvenAt(q, h, a, s)
  <2>1. EvenAt(t, h, a, s) /\ q.kid[s][a] = t.kid[s][a] /\ a \in Cells
    BY <1>1, <1>8, <1>23, KeptNode
  <2>2. a = g \/ a = p \/ Black(q, a) = Black(t, a)
    BY <1>9, <2>1 DEF Black
  <2> QED
    BY <2>1, <2>2 DEF EvenAt
<1>26. \E f : Even(r, L, f)
  BY <1>2, <1>7, <1>12, <1>23, <1>24, <1>25, RotateEven
<1>27. ~r.red[r.root]
  <2>1. r.root = (IF g = t.root THEN p ELSE t.root)
    BY <1>8, <1>12 DEF Turned
  <2>2. ~t.red[t.root] /\ t.root \in Cells
    BY <1>1, KeptNode DEF Rising, Family
  <2> QED
    BY <1>9, <1>11, <1>12, <2>1, <2>2
<1> QED
  BY <1>1, <1>12, <1>19, <1>20, <1>21, <1>26, <1>27 DEF Rising, Risen

\* One round: all is done, or n comes up.
Climbs(t, n, sub, y, L, pos, key) ==
    \E r, m, sub2 :
        /\ y = [tree |-> r, at |-> m] /\ Rising(r, m, sub2, L, pos, key)
        /\ Risen(r, m) \/ Cardinality(sub[n]) < Cardinality(sub2[m])

\* A round of ngx_rbtree_insert mends the two reds, or moves them up.
LEMMA InsertRoundIs ==
    ASSUME NEW t, NEW n, NEW sub, NEW L, NEW pos, NEW key, Rising(t, n, sub, L, pos, key),
           NEW x, x = [tree |-> t, at |-> n]
    PROVE  /\ Risen(t, n) => InsertRound(x) = x
           /\ ~Risen(t, n) => Climbs(t, n, sub, InsertRound(x), L, pos, key)
<1>1. ASSUME Risen(t, n) PROVE InsertRound(x) = x
  <2>1. x.tree = t /\ x.at = n /\ (n = t.root \/ ~t.red[t.parent[n]])
    BY <1>1 DEF Risen
  <2> QED
    BY <2>1, Zenon DEF InsertRound
<1>2. ASSUME ~Risen(t, n) PROVE Climbs(t, n, sub, InsertRound(x), L, pos, key)
  <2>1. PICK p : p = t.parent[n]
    OBVIOUS
  <2>2. PICK g : g = t.parent[p]
    OBVIOUS
  <2>3. PICK side : side = SideOf(t, p)
    OBVIOUS
  <2>4. PICK uncle : uncle = t.kid[Other(side)][g]
    OBVIOUS
  <2>5. Family(t, L, n, p, g, side, uncle)
    BY <1>2, <2>1, <2>2, <2>3, <2>4, FamilyIs
  <2>6. Kept(t, sub, L, pos, key) /\ Shaped(t, sub) /\ p \in L /\ g \in L /\ n \in L /\ side \in Sides
    BY <2>5 DEF Family, Rising, Kept
  <2>7. x.tree = t /\ x.at = n /\ ~(n = t.root \/ ~t.red[p])
    BY <1>2, <2>1 DEF Risen
  <2>8. CASE t.red[uncle]
    <3>1. PICK r : PaintedUp(t, r, p, uncle, g)
      BY DEF PaintedUp
    <3>2. Rising(r, g, sub, L, pos, key)
      BY <2>5, <2>8, <3>1, RisingUp
    <3>3. InsertRound(x) = [tree |-> r, at |-> g]
      BY <2>1, <2>2, <2>3, <2>4, <2>7, <2>8, <3>1, Zenon DEF InsertRound, PaintedUp
    <3>4. Cardinality(sub[n]) < Cardinality(sub[g])
      <4>1. p \in Nodes /\ g \in Nodes /\ n \in Nodes /\ p \in Ptrs /\ g \in Ptrs /\ n \in Ptrs
        BY <2>6, KeptNode, CellsAre
      <4>2. n = t.kid[SideOf(t, n)][p] /\ SideOf(t, n) \in Sides /\ p = t.kid[side][g]
        BY <2>5 DEF Family
      <4>3. Cardinality(sub[n]) < Cardinality(sub[p])
        BY <2>6, <4>1, <4>2, KidSmaller
      <4>4. Cardinality(sub[p]) < Cardinality(sub[g])
        BY <2>6, <4>1, <4>2, KidSmaller
      <4>5. Cardinality(sub[n]) \in Nat /\ Cardinality(sub[p]) \in Nat /\ Cardinality(sub[g]) \in Nat
        BY <2>6, <4>1, SubFinite DEF Shaped
      <4> QED
        BY <4>3, <4>4, <4>5
    <3> QED
      BY <3>2, <3>3, <3>4 DEF Climbs
  <2>9. CASE ~t.red[uncle] /\ n # t.kid[Other(side)][p]
    <3>1. n = t.kid[side][p]
      BY <2>5, SidesAre, <2>9 DEF Family
    <3>2. PICK q : PaintedTop(t, q, p, g)
      BY DEF PaintedTop
    <3>3. PICK r : r = Rotate(q, Other(side), g)
      OBVIOUS
    <3>4. PICK sub2 : sub2 = TurnedSub(q, sub, Other(side), g, p, q.kid[Other(side)][p])
      OBVIOUS
    <3>5. Rising(r, n, sub2, L, pos, key) /\ Risen(r, n)
      BY <2>5, <2>9, <3>1, <3>2, <3>3, <3>4, RisingTop
    <3>6. InsertRound(x) = [tree |-> r, at |-> n]
      BY <2>1, <2>2, <2>3, <2>4, <2>7, <2>9, <3>2, <3>3, Zenon DEF InsertRound, PaintedTop
    <3> QED
      BY <3>5, <3>6 DEF Climbs
  <2>10. CASE ~t.red[uncle] /\ n = t.kid[Other(side)][p]
    <3>1. PICK t1 : t1 = Rotate(t, side, p)
      OBVIOUS
    <3>2. PICK sub1 : sub1 = TurnedSub(t, sub, side, p, n, t.kid[side][n])
      OBVIOUS
    <3>3. /\ Rising(t1, p, sub1, L, pos, key) /\ Family(t1, L, p, n, g, side, uncle)
          /\ t1.kid[side][n] = p /\ ~t1.red[uncle]
      BY <2>5, <2>10, <3>1, <3>2, RisingTurn
    <3>4. t1.parent[p] = n /\ t1.parent[n] = g
      BY <3>3 DEF Family
    <3>5. PICK q : PaintedTop(t1, q, n, g)
      BY DEF PaintedTop
    <3>6. PICK r : r = Rotate(q, Other(side), g)
      OBVIOUS
    <3>7. PICK sub2 : sub2 = TurnedSub(q, sub1, Other(side), g, n, q.kid[Other(side)][n])
      OBVIOUS
    <3>8. Rising(r, p, sub2, L, pos, key) /\ Risen(r, p)
      BY <3>3, <3>5, <3>6, <3>7, RisingTop
    <3>9. InsertRound(x) = [tree |-> r, at |-> p]
      BY <2>1, <2>2, <2>3, <2>4, <2>7, <2>10, <3>1, <3>4, <3>5, <3>6, Zenon DEF InsertRound, PaintedTop
    <3> QED
      BY <3>8, <3>9 DEF Climbs
  <2> QED
    BY <2>8, <2>9, <2>10
<1> QED
  BY <1>1, <1>2

\* A balanced tree.
Balanced(t, sub, L, pos, key) ==
    /\ Kept(t, sub, L, pos, key)
    /\ \E h : Even(t, L, h)
    /\ ~t.red[t.root]
    /\ \A a \in L, s \in Sides : ~(t.red[a] /\ t.red[t.kid[s][a]])

\* The root is painted black at the end: one black node more on every path.
LEMMA RootBlack ==
    ASSUME NEW t, NEW sub, NEW L, NEW pos, NEW key, Kept(t, sub, L, pos, key), t.root \in L,
           \E h : Even(t, L, h),
           \A a \in L, s \in Sides : ~(t.red[a] /\ t.red[t.kid[s][a]])
    PROVE  Balanced(Paint(t, t.root, FALSE), sub, L, pos, key)
<1>1. PICK n : n = t.root
  OBVIOUS
<1>2. PICK r : r = Paint(t, n, FALSE)
  OBVIOUS
<1>3. n \in L /\ n \in Cells /\ n # Sentinel /\ L \subseteq Nodes
  BY <1>1, KeptNode
<1>4. Painted(t, r, n, FALSE) /\ Kept(r, sub, L, pos, key)
  BY <1>2, <1>3, PaintKept
<1>5. r.root = n /\ r.kid = t.kid /\ ~r.red[n] /\ \A c \in Cells : c # n => r.red[c] = t.red[c]
  BY <1>1, <1>4 DEF Painted
<1>6. \A a \in L, s \in Sides : t.kid[s][a] # n /\ t.kid[s][a] \in Cells /\ a \in Cells
  BY <1>1, KeptNode
<1>7. \A a \in L, s \in Sides : ~(r.red[a] /\ r.red[r.kid[s][a]])
  BY <1>5, <1>6
<1>8. PICK h : Even(t, L, h)
  OBVIOUS
<1>9. /\ h \in [Cells -> Nat] /\ h[Sentinel] = 0
      /\ \A m \in L, s \in Sides : EvenAt(t, h, m, s)
  BY <1>3, <1>8, EvenIs
<1>10. PICK f : f = [h EXCEPT ![n] = IF t.red[n] THEN h[n] + 1 ELSE h[n]]
  OBVIOUS
<1>11. /\ f \in [Cells -> Nat] /\ f[Sentinel] = 0 /\ f[n] = IF t.red[n] THEN h[n] + 1 ELSE h[n]
       /\ \A c \in Cells : c # n => f[c] = h[c]
  BY <1>3, <1>9, <1>10, CellsAre
<1>12. ASSUME NEW a \in L, NEW s \in Sides PROVE EvenAt(r, f, a, s)
  <2>1. /\ EvenAt(t, h, a, s) /\ r.kid[s][a] = t.kid[s][a] /\ h[t.kid[s][a]] \in Nat
        /\ f[t.kid[s][a]] = h[t.kid[s][a]]
    BY <1>5, <1>6, <1>9, <1>11
  <2>2. CASE a = n
    <3>1. Black(r, a) = 1 /\ Black(t, a) = IF t.red[n] THEN 0 ELSE 1
      BY <1>5, <2>2 DEF Black
    <3> QED
      BY <1>11, <2>1, <2>2, <3>1 DEF EvenAt
  <2>3. CASE a # n
    <3>1. Black(r, a) = Black(t, a) /\ f[a] = h[a]
      BY <1>5, <1>6, <1>11, <2>3 DEF Black
    <3> QED
      BY <2>1, <3>1 DEF EvenAt
  <2> QED
    BY <2>2, <2>3
<1>13. Even(r, L, f)
  BY <1>3, <1>11, <1>12, EvenIs
<1>14. Balanced(r, sub, L, pos, key)
  BY <1>4, <1>5, <1>7, <1>13 DEF Balanced
<1> QED
  BY <1>1, <1>2, <1>14

\* The whole loop: as many rounds as there are nodes will do, as n comes up.
LEMMA InsertFixupIs ==
    ASSUME NEW t, NEW n, NEW sub, NEW L, NEW pos, NEW key, Rising(t, n, sub, L, pos, key)
    PROVE  \E sub2 : Balanced(InsertFixup(t, n), sub2, L, pos, key)
<1> DEFINE Ok(y) == \E sub2 : Rising(y.tree, y.at, sub2, L, pos, key)
           Far(i, y) == \E sub2 : /\ Rising(y.tree, y.at, sub2, L, pos, key)
                                  /\ Risen(y.tree, y.at) \/ i < Cardinality(sub2[y.at])
           S == {y \in [tree : Trees, at : Cells] : Ok(y)}
           start == [tree |-> t, at |-> n]
           f == CHOOSE x : x = [i \in 0..Rounds |-> IF i = 0 THEN start ELSE InsertRound(x[i - 1])]
<1>1. ASSUME NEW r, NEW m, NEW sub2, Rising(r, m, sub2, L, pos, key)
      PROVE  /\ [tree |-> r, at |-> m] \in S
             /\ Cardinality(sub2[m]) \in Nat /\ Cardinality(sub2[m]) <= Rounds
             /\ Cardinality(sub2[m]) > 0 /\ Rounds \in Nat
             /\ m # r.root => Cardinality(sub2[m]) < Rounds
  <2>1. Kept(r, sub2, L, pos, key) /\ m \in L /\ Shaped(r, sub2)
    BY <1>1 DEF Rising, Kept
  <2>2. r \in Trees /\ m \in Cells /\ m \in Nodes /\ m \in Ptrs
    BY <2>1, KeptNode, CellsAre
  <2>3. [tree |-> r, at |-> m] \in S
    BY <1>1, <2>2
  <2>4. Cardinality(sub2[m]) \in Nat /\ Cardinality(sub2[m]) <= Rounds /\ IsFiniteSet(sub2[m])
    BY <2>1, <2>2, SubFinite DEF Shaped
  <2>5. Cardinality(sub2[m]) > 0
    <3>1. m \in sub2[m]
      BY <2>1, <2>2, NodeIs, SidesAre
    <3> QED
      BY <2>4, <3>1, FS_EmptySet
  <2>6. Rounds \in Nat
    BY CellsAre, FS_CardinalityType DEF Rounds
  <2>7. ASSUME m # r.root PROVE Cardinality(sub2[m]) < Rounds
    <3>1. r.parent[m] \notin sub2[m] /\ r.parent[m] \in Nodes
      BY <2>1, <2>7, PlaceIs DEF Kept
    <3>2. sub2[m] \subseteq Nodes
      BY <2>1, <2>2, SubFinite DEF Shaped
    <3> QED
      BY <3>1, <3>2, Smaller, CellsAre DEF Rounds
  <2> QED
    BY <2>3, <2>4, <2>5, <2>6, <2>7
<1>2. ASSUME NEW y \in S PROVE InsertRound(y) \in S
  <2>1. PICK sub2 : Rising(y.tree, y.at, sub2, L, pos, key)
    OBVIOUS
  <2>2. y = [tree |-> y.tree, at |-> y.at]
    OBVIOUS
  <2> HIDE DEF S
  <2>3. CASE Risen(y.tree, y.at)
    BY <2>1, <2>2, <2>3, InsertRoundIs
  <2>4. CASE ~Risen(y.tree, y.at)
    <3>1. Climbs(y.tree, y.at, sub2, InsertRound(y), L, pos, key)
      BY <2>1, <2>2, <2>4, InsertRoundIs
    <3>2. PICK r, m, sub3 : InsertRound(y) = [tree |-> r, at |-> m] /\ Rising(r, m, sub3, L, pos, key)
      BY <3>1 DEF Climbs
    <3> QED
      BY <1>1, <3>2
  <2> QED
    BY <2>3, <2>4
<1>3. start \in S /\ Rounds \in Nat /\ Far(0, start)
  <2>1. start \in S /\ Rounds \in Nat /\ 0 < Cardinality(sub[n])
    <3> HIDE DEF S
    <3> QED
      BY <1>1
  <2>2. start.tree = t /\ start.at = n
    OBVIOUS
  <2> QED
    BY <2>1, <2>2
<1>4. f = [i \in 0..Rounds |-> IF i = 0 THEN start ELSE InsertRound(f[i - 1])]
  <2> DEFINE g == [y \in S |-> InsertRound(y)]
  <2>1. Round(g, S)
    <3> HIDE DEF S
    <3> QED
      BY <1>2 DEF Round
  <2>2. \E h : LoopOf(h, S, g, start, Rounds)
    <3> HIDE DEF S, g, start
    <3> QED
      BY <1>3, <2>1, LoopExists
  <2> HIDE DEF S, start
  <2>3. PICK h \in [0..Rounds -> S] : h[0] = start /\ \A i \in 1..Rounds : h[i] = g[h[i - 1]]
    BY <2>2 DEF LoopOf
  <2>4. \A i \in 0..Rounds : h[i] = IF i = 0 THEN start ELSE InsertRound(h[i - 1])
    <3>1. ASSUME NEW i \in 0..Rounds, i # 0 PROVE h[i] = InsertRound(h[i - 1])
      <4>1. i \in 1..Rounds /\ i - 1 \in 0..Rounds
        BY <1>3, <3>1
      <4>2. h[i - 1] \in S /\ h[i] = g[h[i - 1]]
        BY <2>3, <4>1
      <4> QED
        BY <4>2
    <3> QED
      BY <2>3, <3>1
  <2>5. h = [i \in 0..Rounds |-> IF i = 0 THEN start ELSE InsertRound(h[i - 1])]
    BY <2>4
  <2> QED
    BY <2>5, Zenon
<1> HIDE DEF f
<1>5. f[0] = start /\ \A i \in 0..Rounds : i # Rounds => f[i + 1] = InsertRound(f[i])
  <2> HIDE DEF start
  <2>1. f[0] = start
    BY <1>3, <1>4
  <2>2. ASSUME NEW i \in 0..Rounds, i # Rounds PROVE f[i + 1] = InsertRound(f[i])
    <3>1. i + 1 \in 0..Rounds /\ i + 1 # 0 /\ (i + 1) - 1 = i
      BY <1>3, <2>2
    <3> QED
      BY <1>4, <3>1
  <2> QED
    BY <2>1, <2>2
<1> DEFINE I == {w \in (0..Rounds) \X S : Far(w[1], w[2])}
<1>6. ASSUME NEW i \in 0..Rounds, i # Rounds, <<i, f[i]>> \in I
      PROVE  <<i + 1, f[i + 1]>> \in I
  <2>1. f[i] \in S /\ Far(i, f[i])
    BY <1>6
  <2>2. i + 1 \in 0..Rounds /\ f[i + 1] = InsertRound(f[i])
    BY <1>3, <1>5, <1>6
  <2>3. f[i + 1] \in S
    <3> HIDE DEF S
    <3> QED
      BY <1>2, <2>1, <2>2
  <2>4. PICK sub2 : /\ Rising(f[i].tree, f[i].at, sub2, L, pos, key)
                    /\ Risen(f[i].tree, f[i].at) \/ i < Cardinality(sub2[f[i].at])
    BY <2>1
  <2>5. f[i] = [tree |-> f[i].tree, at |-> f[i].at]
    BY <2>1
  <2>6. CASE Risen(f[i].tree, f[i].at)
    <3>1. f[i + 1] = f[i]
      BY <2>2, <2>4, <2>5, <2>6, InsertRoundIs
    <3> QED
      BY <2>2, <2>3, <2>4, <2>6, <3>1
  <2>7. CASE ~Risen(f[i].tree, f[i].at)
    <3>1. Climbs(f[i].tree, f[i].at, sub2, f[i + 1], L, pos, key)
      BY <2>2, <2>4, <2>5, <2>7, InsertRoundIs
    <3>2. PICK r, m, sub3 : /\ f[i + 1] = [tree |-> r, at |-> m] /\ Rising(r, m, sub3, L, pos, key)
                            /\ Risen(r, m) \/ Cardinality(sub2[f[i].at]) < Cardinality(sub3[m])
      BY <3>1 DEF Climbs
    <3>3. /\ Cardinality(sub2[f[i].at]) \in Nat /\ Cardinality(sub3[m]) \in Nat
      BY <1>1, <2>4, <3>2
    <3>4. Risen(r, m) \/ i + 1 < Cardinality(sub3[m])
      BY <2>4, <2>7, <3>2, <3>3
    <3>5. f[i + 1].tree = r /\ f[i + 1].at = m
      BY <3>2
    <3>6. Far(i + 1, f[i + 1])
      BY <3>2, <3>4, <3>5
    <3> QED
      BY <2>2, <2>3, <3>6
  <2> QED
    BY <2>6, <2>7
<1>7. <<Rounds, f[Rounds]>> \in I
  <2>1. <<0, f[0]>> \in I
    BY <1>3, <1>5
  <2> HIDE DEF I
  <2>2. \A i \in 0..Rounds : <<i, f[i]>> \in I
    BY <1>3, <1>6, <2>1, LoopKeeps
  <2> QED
    BY <1>3, <2>2
<1>8. PICK r : r = f[Rounds].tree
  OBVIOUS
<1>9. PICK m : m = f[Rounds].at
  OBVIOUS
<1>10. PICK sub2 : Rising(r, m, sub2, L, pos, key) /\ (Risen(r, m) \/ Rounds < Cardinality(sub2[m]))
  BY <1>7, <1>8, <1>9
<1>11. Risen(r, m)
  <2>1. Cardinality(sub2[m]) \in Nat /\ Cardinality(sub2[m]) <= Rounds
    BY <1>1, <1>10
  <2>2. ~(Rounds < Cardinality(sub2[m]))
    BY <1>3, <2>1
  <2> QED
    BY <1>10, <2>2
<1>12. Kept(r, sub2, L, pos, key) /\ r.root \in L /\ m \in L /\ \E h : Even(r, L, h)
  <2>1. Kept(r, sub2, L, pos, key) /\ m \in L /\ \E h : Even(r, L, h)
    BY <1>10 DEF Rising
  <2> QED
    BY <2>1, KeptNode
<1>13. ASSUME NEW a \in L, NEW s \in Sides, r.red[a], r.red[r.kid[s][a]] PROVE FALSE
  <2>1. r.kid[s][a] = m
    BY <1>10, <1>13 DEF Rising
  <2>2. a = r.parent[m] /\ m # r.root
    BY <1>12, <2>1, KeptNode
  <2> QED
    BY <1>11, <1>13, <2>2 DEF Risen
<1>14. Balanced(Paint(r, r.root, FALSE), sub2, L, pos, key)
  BY <1>12, <1>13, RootBlack
<1>15. InsertFixup(t, n) = Paint(r, r.root, FALSE)
  BY <1>8, Zenon DEF InsertFixup, f
<1> QED
  BY <1>14, <1>15

----------------------------------------------------------------------------
(* Insertion: the place. *)

\* Two nodes of a tree are on different sides of the lowest node that is above both.
LEMMA Fork ==
    ASSUME NEW t, NEW sub, Shaped(t, sub), NEW a \in sub[t.root], NEW b \in sub[t.root], a # b
    PROVE  \E c \in sub[t.root], s \in Sides :
                /\ a = c \/ a \in sub[t.kid[s][c]]
                /\ b = c \/ b \in sub[t.kid[Other(s)][c]]
<1> DEFINE S == {c \in sub[t.root] : a \in sub[c] /\ b \in sub[c]}
<1>1. sub[t.root] \subseteq Nodes /\ t.root \in sub[t.root]
  BY LinkedIs
<1>2. PICK c \in S : \A s \in Sides : t.kid[s][c] \notin S
  <2>1. S \subseteq Nodes /\ S # {}
    BY <1>1
  <2> HIDE DEF S
  <2> QED
    BY <2>1, Lowest
<1>3. c \in sub[t.root] /\ c \in Nodes /\ a \in sub[c] /\ b \in sub[c]
  BY <1>1, <1>2
<1>4. ASSUME NEW s \in Sides, a \in sub[t.kid[s][c]], b \in sub[t.kid[s][c]] PROVE FALSE
  <2>1. t.kid[s][c] # Sentinel
    BY <1>4 DEF Shaped, SubOK
  <2>2. t.kid[s][c] \in sub[t.root]
    BY <1>3, <2>1, LinkedIs
  <2> QED
    BY <1>2, <1>4, <2>2
<1>5. ASSUME NEW x, x \in sub[c] PROVE x = c \/ \E s \in Sides : x \in sub[t.kid[s][c]]
  BY <1>3, <1>5, NodeIs, SidesAre
<1>6. CASE a = c
  <2>1. PICK q \in Sides : b \in sub[t.kid[q][c]]
    BY <1>3, <1>5, <1>6
  <2>2. PICK s \in Sides : s = Other(q) /\ Other(s) = q
    BY SidesAre
  <2> QED
    BY <1>3, <1>6, <2>1, <2>2
<1>7. CASE b = c
  <2>1. PICK s \in Sides : a \in sub[t.kid[s][c]]
    BY <1>3, <1>5, <1>7
  <2> QED
    BY <1>3, <1>7, <2>1
<1>8. CASE a # c /\ b # c
  <2>1. PICK s \in Sides : a \in sub[t.kid[s][c]]
    BY <1>3, <1>5, <1>8
  <2>2. PICK q \in Sides : b \in sub[t.kid[q][c]]
    BY <1>3, <1>5, <1>8
  <2>3. q = Other(s)
    BY <1>4, <2>1, <2>2, SidesAre
  <2> QED
    BY <1>3, <2>1, <2>2, <2>3
<1> QED
  BY <1>6, <1>7, <1>8

\* The nodes above a child are its parent and the nodes above that.
LEMMA Above ==
    ASSUME NEW t, NEW sub, Shaped(t, sub), NEW n \in sub[t.root], NEW side \in Sides,
           NEW c, c = t.kid[side][n], c # Sentinel,
           NEW a \in sub[t.root], NEW s \in Sides, c \in sub[t.kid[s][a]]
    PROVE  (a = n /\ s = side) \/ n \in sub[t.kid[s][a]]
<1>1. n \in Nodes /\ a \in Nodes /\ c \in sub[t.root] /\ c \in Nodes
  BY LinkedIs
<1>2. t.kid[s][a] \in Nodes /\ t.kid[s][a] \in sub[t.root]
  <2>1. t.kid[s][a] # Sentinel
    BY DEF Shaped, SubOK
  <2>2. t.kid[s][a] \in sub[t.root]
    BY <2>1, LinkedIs
  <2>3. sub[t.root] \subseteq Nodes
    BY LinkedIs
  <2> QED
    BY <2>2, <2>3
<1>5. \A m \in Nodes, q \in Sides : t.kid[q][m] = c => m = t.parent[c] /\ q = SideOf(t, c)
  BY <1>1, PlaceIs
<1>3. CASE c = t.kid[s][a]
  <2>1. a = t.parent[c] /\ s = SideOf(t, c)
    BY <1>1, <1>3, <1>5
  <2>2. n = t.parent[c] /\ side = SideOf(t, c)
    BY <1>1, <1>5
  <2> QED
    BY <2>1, <2>2
<1>4. CASE c # t.kid[s][a]
  <2>1. t.parent[c] \in sub[t.kid[s][a]]
    BY <1>1, <1>2, <1>4, ParentBelow
  <2>2. t.parent[c] = n
    BY <1>1, PlaceIs
  <2> QED
    BY <2>1, <2>2
<1> QED
  BY <1>3, <1>4

\* Nothing is above the root.
LEMMA TopIs ==
    ASSUME NEW t, NEW sub, Shaped(t, sub), NEW a \in sub[t.root], NEW s \in Sides
    PROVE  t.root \notin sub[t.kid[s][a]]
<1> SUFFICES ASSUME t.root \in sub[t.kid[s][a]] PROVE FALSE
  OBVIOUS
<1>1. a \in Nodes /\ t.root \in Nodes /\ t.kid[s][a] \in Ptrs
  <2>1. t.kid[s][a] \in Cells
    BY LinkedIs
  <2> QED
    BY <2>1, LinkedIs, CellsAre
<1>2. sub[t.root] \subseteq sub[t.kid[s][a]]
  BY <1>1, Laminar
<1> QED
  BY <1>1, <1>2, NodeIs

\* The sides that node n takes on the way down to temp.
OnWay(t, sub, L, n, temp) ==
    \A a \in L, s \in Sides : temp \in sub[t.kid[s][a]] => s = Turn(t, n, a)

LEMMA TurnIs ==
    ASSUME NEW t, NEW n, NEW a
    PROVE  Turn(t, n, a) \in Sides
BY DEF Turn, Sides

\* Node n goes below a node that has no child there.
LEMMA SpotIs ==
    ASSUME NEW t, NEW sub, NEW L, NEW pos, NEW key, Kept(t, sub, L, pos, key), t.root # Sentinel, NEW n
    PROVE  /\ Spot(t, n) \in L
           /\ t.kid[Turn(t, n, Spot(t, n))][Spot(t, n)] = Sentinel
           /\ OnWay(t, sub, L, n, Spot(t, n))
<1> DEFINE Stop(a) == t.kid[Turn(t, n, a)][a] = Sentinel
           f == CHOOSE temp : temp = [i \in 0..Rounds |-> IF i = 0 THEN t.root ELSE Down(t, n, temp[i - 1])]
<1>1. Shaped(t, sub) /\ L = sub[t.root] /\ L \subseteq Nodes /\ t.root \in L /\ L \subseteq Ptrs /\ Rounds \in Nat
  <2>1. Shaped(t, sub) /\ L = sub[t.root]
    BY DEF Kept
  <2>2. t.root \in Nodes
    BY <2>1, CellsAre, TreeFields DEF Shaped
  <2>3. t.root \in L
    BY <2>1, <2>2, NodeIs, SidesAre
  <2>4. Rounds \in Nat
    BY CellsAre, FS_CardinalityType DEF Rounds
  <2> QED
    BY <2>1, <2>3, <2>4, LinkedIs, CellsAre
<1>2. ASSUME NEW a \in L
      PROVE  /\ Down(t, n, a) \in L /\ Cardinality(sub[a]) \in Nat /\ Cardinality(sub[a]) > 0
             /\ Cardinality(sub[a]) <= Rounds
             /\ Stop(a) => Down(t, n, a) = a
             /\ ~Stop(a) => Cardinality(sub[Down(t, n, a)]) < Cardinality(sub[a])
             /\ OnWay(t, sub, L, n, a) => OnWay(t, sub, L, n, Down(t, n, a))
  <2>1. a \in Nodes /\ a \in Ptrs
    BY <1>1
  <2>2. Cardinality(sub[a]) \in Nat /\ Cardinality(sub[a]) <= Rounds /\ Cardinality(sub[a]) > 0
    <3>1. Cardinality(sub[a]) \in Nat /\ Cardinality(sub[a]) <= Rounds /\ IsFiniteSet(sub[a])
      BY <1>1, <2>1, SubFinite DEF Shaped
    <3>2. a \in sub[a]
      BY <1>1, <2>1, NodeIs, SidesAre
    <3> QED
      BY <3>1, <3>2, FS_EmptySet
  <2>3. PICK side \in Sides : side = Turn(t, n, a)
    BY TurnIs
  <2>4. PICK c : c = t.kid[side][a]
    OBVIOUS
  <2>5. CASE c = Sentinel
    <3>1. Down(t, n, a) = a
      BY <2>3, <2>4, <2>5 DEF Down
    <3> QED
      BY <2>2, <2>3, <2>4, <2>5, <3>1
  <2>6. CASE c # Sentinel
    <3>1. Down(t, n, a) = c
      BY <2>3, <2>4, <2>6 DEF Down
    <3>2. c \in L
      BY <1>1, <2>4, <2>6, LinkedIs
    <3>3. Cardinality(sub[c]) < Cardinality(sub[a])
      BY <1>1, <2>1, <2>4, KidSmaller
    <3>4. ASSUME OnWay(t, sub, L, n, a), NEW b \in L, NEW s \in Sides, c \in sub[t.kid[s][b]]
          PROVE  s = Turn(t, n, b)
      <4>1. (b = a /\ s = side) \/ a \in sub[t.kid[s][b]]
        BY <1>1, <2>4, <2>6, <3>4, Above
      <4> QED
        BY <2>3, <3>4, <4>1 DEF OnWay
    <3>5. OnWay(t, sub, L, n, a) => OnWay(t, sub, L, n, c)
      BY <3>4 DEF OnWay
    <3> QED
      BY <2>2, <2>3, <2>4, <2>6, <3>1, <3>2, <3>3, <3>5
  <2> QED
    BY <2>5, <2>6
<1>3. f = [i \in 0..Rounds |-> IF i = 0 THEN t.root ELSE Down(t, n, f[i - 1])]
  <2> DEFINE g == [a \in L |-> Down(t, n, a)]
  <2>1. Round(g, L)
    BY <1>2 DEF Round
  <2>2. \E h : LoopOf(h, L, g, t.root, Rounds)
    <3> HIDE DEF g
    <3> QED
      BY <1>1, <2>1, LoopExists
  <2>3. PICK h \in [0..Rounds -> L] : h[0] = t.root /\ \A i \in 1..Rounds : h[i] = g[h[i - 1]]
    BY <2>2 DEF LoopOf
  <2>4. ASSUME NEW i \in 0..Rounds, i # 0 PROVE h[i] = Down(t, n, h[i - 1])
    <3>1. i \in 1..Rounds /\ i - 1 \in 0..Rounds
      BY <1>1, <2>4
    <3>2. h[i - 1] \in L /\ h[i] = g[h[i - 1]]
      BY <2>3, <3>1
    <3> QED
      BY <3>2
  <2>5. h = [i \in 0..Rounds |-> IF i = 0 THEN t.root ELSE Down(t, n, h[i - 1])]
    BY <2>3, <2>4
  <2> QED
    BY <2>5, Zenon
<1> HIDE DEF f
<1>4. f[0] = t.root /\ \A i \in 0..Rounds : i # Rounds => f[i + 1] = Down(t, n, f[i])
  <2>1. f[0] = t.root
    BY <1>1, <1>3
  <2>2. ASSUME NEW i \in 0..Rounds, i # Rounds PROVE f[i + 1] = Down(t, n, f[i])
    <3>1. i + 1 \in 0..Rounds /\ i + 1 # 0 /\ (i + 1) - 1 = i
      BY <1>1, <2>2
    <3> QED
      BY <1>3, <3>1
  <2> QED
    BY <2>1, <2>2
<1> DEFINE I == {w \in (0..Rounds) \X L : /\ OnWay(t, sub, L, n, w[2])
                                          /\ Stop(w[2]) \/ Cardinality(sub[w[2]]) + w[1] <= Rounds}
<1>5. <<0, f[0]>> \in I
  <2>1. OnWay(t, sub, L, n, t.root)
    BY <1>1, TopIs DEF OnWay
  <2> QED
    BY <1>1, <1>2, <1>4, <2>1
<1>6. ASSUME NEW i \in 0..Rounds, i # Rounds, <<i, f[i]>> \in I
      PROVE  <<i + 1, f[i + 1]>> \in I
  <2>1. PICK a \in L : a = f[i] /\ OnWay(t, sub, L, n, a) /\ (Stop(a) \/ Cardinality(sub[a]) + i <= Rounds)
    BY <1>6
  <2>2. PICK b : b = Down(t, n, a)
    OBVIOUS
  <2>3. i + 1 \in 0..Rounds /\ f[i + 1] = b /\ i \in Nat
    BY <1>1, <1>4, <1>6, <2>1, <2>2
  <2>4. b \in L /\ OnWay(t, sub, L, n, b)
    BY <1>2, <2>1, <2>2
  <2>5. Stop(b) \/ Cardinality(sub[b]) + (i + 1) <= Rounds
    <3>1. CASE Stop(a)
      BY <1>2, <2>1, <2>2, <3>1
    <3>2. CASE ~Stop(a)
      <4>1. /\ Cardinality(sub[a]) \in Nat /\ Cardinality(sub[b]) \in Nat
            /\ Cardinality(sub[b]) < Cardinality(sub[a]) /\ Cardinality(sub[a]) + i <= Rounds
        BY <1>2, <2>1, <2>2, <2>4, <3>2
      <4> QED
        BY <1>1, <2>3, <4>1
    <3> QED
      BY <3>1, <3>2
  <2> QED
    BY <2>3, <2>4, <2>5
<1>7. <<Rounds, f[Rounds]>> \in I
  <2> HIDE DEF I
  <2>1. \A i \in 0..Rounds : <<i, f[i]>> \in I
    BY <1>1, <1>5, <1>6, LoopKeeps
  <2> QED
    BY <1>1, <2>1
<1>8. PICK a \in L : a = f[Rounds] /\ OnWay(t, sub, L, n, a) /\ (Stop(a) \/ Cardinality(sub[a]) + Rounds <= Rounds)
  BY <1>7
<1>9. Stop(a)
  <2>1. Cardinality(sub[a]) \in Nat /\ Cardinality(sub[a]) > 0
    BY <1>2
  <2> QED
    BY <1>1, <1>8, <2>1
<1>10. Spot(t, n) = a
  BY <1>8, Zenon DEF Spot, f
<1> QED
  BY <1>8, <1>9, <1>10

\* r is t with n below temp on side.
Hung(t, r, n, temp, side) ==
    /\ r \in Trees /\ r.root = t.root /\ r.key = t.key
    /\ r.kid[side][temp] = n /\ \A s \in Sides : r.kid[s][n] = Sentinel
    /\ \A s \in Sides, c \in Cells : c # n /\ (c # temp \/ s # side) => r.kid[s][c] = t.kid[s][c]
    /\ r.parent[n] = temp /\ \A c \in Cells : c # n => r.parent[c] = t.parent[c]
    /\ r.red[n] /\ \A c \in Cells : c # n => r.red[c] = t.red[c]

\* Place hangs the new node at a free leaf.
LEMMA PlaceHung ==
    ASSUME NEW t \in Trees, NEW n \in Nodes, NEW temp \in Nodes, temp = Spot(t, n), temp # n,
           NEW side, side = Turn(t, n, temp)
    PROVE  Hung(t, Place(t, n), n, temp, side)
<1>1. side \in Sides /\ n \in Cells /\ temp \in Cells /\ n \in Ptrs /\ temp \in Ptrs /\ Sentinel \in Ptrs
      /\ "left" \in Sides /\ "right" \in Sides
  BY CellsAre, TurnIs DEF Sides
<1>2. PICK t1 : t1 = SetKid(t, side, temp, n)
  OBVIOUS
<1>3. KidStored(t, t1, side, temp, n) /\ t1 \in Trees
  <2>1. KidStored(t, t1, side, temp, n)
    BY <1>1, <1>2, KidSet
  <2> QED
    BY <2>1 DEF KidStored
<1>4. PICK t2 : t2 = SetParent(t1, n, temp)
  OBVIOUS
<1>5. ParentStored(t1, t2, n, temp) /\ t2 \in Trees
  <2>1. ParentStored(t1, t2, n, temp)
    BY <1>1, <1>3, <1>4, ParentSet
  <2> QED
    BY <2>1 DEF ParentStored
<1>6. PICK t3 : t3 = SetKid(t2, "left", n, Sentinel)
  OBVIOUS
<1>7. KidStored(t2, t3, "left", n, Sentinel) /\ t3 \in Trees
  <2>1. KidStored(t2, t3, "left", n, Sentinel)
    BY <1>1, <1>5, <1>6, KidSet
  <2> QED
    BY <2>1 DEF KidStored
<1>8. PICK t4 : t4 = SetKid(t3, "right", n, Sentinel)
  OBVIOUS
<1>9. KidStored(t3, t4, "right", n, Sentinel) /\ t4 \in Trees
  <2>1. KidStored(t3, t4, "right", n, Sentinel)
    BY <1>1, <1>7, <1>8, KidSet
  <2> QED
    BY <2>1 DEF KidStored
<1>10. PICK r : r = Paint(t4, n, TRUE)
  OBVIOUS
<1>11. Painted(t4, r, n, TRUE) /\ r \in Trees
  <2>1. Painted(t4, r, n, TRUE)
    BY <1>1, <1>9, <1>10, PaintIs
  <2> QED
    BY <2>1 DEF Painted
<1>12. Place(t, n) = r
  BY <1>2, <1>4, <1>6, <1>8, <1>10, Zenon DEF Place
<1>13. r.root = t.root /\ r.key = t.key /\ r.red[n] /\ \A c \in Cells : c # n => r.red[c] = t.red[c]
  BY <1>3, <1>5, <1>7, <1>9, <1>11 DEF KidStored, ParentStored, Painted
<1>14. r.parent[n] = temp /\ \A c \in Cells : c # n => r.parent[c] = t.parent[c]
  BY <1>3, <1>5, <1>7, <1>9, <1>11 DEF KidStored, ParentStored, Painted
<1>15. r.kid = t4.kid
  BY <1>11 DEF Painted
<1>16. \A s \in Sides : r.kid[s][n] = Sentinel
  <2>1. t4.kid["right"][n] = Sentinel
    BY <1>9 DEF KidStored
  <2>2. t4.kid["left"][n] = Sentinel
    BY <1>1, <1>7, <1>9 DEF KidStored
  <2> QED
    BY <1>15, <2>1, <2>2 DEF Sides
<1>17. \A s \in Sides, c \in Cells : c # n => r.kid[s][c] = t1.kid[s][c]
  BY <1>5, <1>7, <1>9, <1>15 DEF KidStored, ParentStored
<1>18. t1.kid[side][temp] = n /\ \A s \in Sides, c \in Cells : c # temp \/ s # side => t1.kid[s][c] = t.kid[s][c]
  BY <1>3 DEF KidStored
<1> QED
  BY <1>1, <1>11, <1>12, <1>13, <1>14, <1>16, <1>17, <1>18 DEF Hung

\* What is below the nodes then, and their positions.
HungSub(sub, n, temp) ==
    [m \in Ptrs |-> IF m = n THEN {n} ELSE IF temp \in sub[m] THEN sub[m] \cup {n} ELSE sub[m]]

\* The new node is next to the one it hangs at: the others move out of the way.
HungPos(pos, n, temp, side) ==
    [m \in Nodes |-> IF m # n THEN 2 * pos[m]
                     ELSE IF side = "left" THEN 2 * pos[temp] - 1 ELSE 2 * pos[temp] + 1]

\* With a leaf hung at it, the tree is shaped and has one node more.
LEMMA HungShape ==
    ASSUME NEW t, NEW sub, NEW L, NEW pos, NEW key, Kept(t, sub, L, pos, key),
           NEW n \in Nodes, n \notin L, NEW temp \in L, NEW side \in Sides, t.kid[side][temp] = Sentinel,
           NEW r, Hung(t, r, n, temp, side), NEW sub2, sub2 = HungSub(sub, n, temp)
    PROVE  Shaped(r, sub2) /\ sub2[r.root] = L \cup {n}
<1>1. Shaped(t, sub) /\ L = sub[t.root] /\ t \in Trees /\ SubOK(sub)
  BY DEF Kept, Shaped
<1>2. /\ L \subseteq Nodes /\ t.root \in L /\ temp \in Nodes /\ Other(side) \in Sides
      /\ \A a \in L, s \in Sides : t.kid[s][a] \in Cells /\ t.kid[s][a] # n /\ t.kid[s][a] # t.root
  BY KeptNode, CellsAre, SidesAre
<1>3. /\ sub2[n] = {n}
      /\ \A m \in Ptrs : m # n /\ temp \in sub[m] => sub2[m] = sub[m] \cup {n}
      /\ \A m \in Ptrs : m # n /\ temp \notin sub[m] => sub2[m] = sub[m]
      /\ sub2 \in [Ptrs -> SUBSET Nodes]
  <2>1. n \in Ptrs
    BY CellsAre
  <2> QED
    BY <1>1, <2>1 DEF HungSub, SubOK
<1>4. sub2[Sentinel] = {} /\ sub2[Null] = {}
  BY <1>1, <1>3, CellsAre DEF SubOK
<1>5. SubOK(sub2)
  BY <1>3, <1>4 DEF SubOK
<1>6. ASSUME NEW m \in Nodes, m \notin L, NEW s \in Sides PROVE t.kid[s][m] = Null /\ sub[m] = {m}
  <2>1. t.kid[s][m] = Null /\ t.kid[Other(s)][m] = Null
    BY <1>1, <1>6, SidesAre DEF Shaped, Leaved
  <2>2. sub[m] = {m} \cup sub[t.kid[s][m]] \cup sub[t.kid[Other(s)][m]]
    BY <1>1, NodeIs
  <2> QED
    BY <1>1, <2>1, <2>2 DEF SubOK
<1>7. ASSUME NEW m \in L PROVE sub[m] \subseteq L /\ n \notin sub[m]
  BY <1>1, <1>7, LinkedIs
<1>8. temp \in sub[t.root] /\ sub2[t.root] = L \cup {n}
  <2>1. t.root \in Ptrs /\ t.root # n
    BY <1>2, CellsAre
  <2> QED
    BY <1>1, <1>3, <2>1
<1>9. /\ r.root = t.root
      /\ \A s \in Sides : r.kid[s][n] = Sentinel
      /\ r.kid[side][temp] = n
      /\ \A s \in Sides, c \in Cells : c # n /\ (c # temp \/ s # side) => r.kid[s][c] = t.kid[s][c]
      /\ r.parent[n] = temp /\ \A c \in Cells : c # n => r.parent[c] = t.parent[c]
  BY DEF Hung
<1>10. Other(side) # side /\ temp # n /\ n \in Cells /\ temp \in Cells
  BY <1>2, SidesAre, CellsAre
<1>11. ASSUME NEW m \in Nodes PROVE NestAt(r, sub2, m, side)
  <2>1. CASE m = n
    BY <1>2, <1>3, <1>4, <1>9, <2>1 DEF NestAt
  <2>2. CASE m = temp
    <3>1. PICK c : c = t.kid[Other(side)][temp]
      OBVIOUS
    <3>2. r.kid[side][m] = n /\ r.kid[Other(side)][m] = c
      BY <1>2, <1>9, <1>10, <2>2, <3>1
    <3>3. NestAt(t, sub, temp, side)
      BY <1>1, <1>2, NestAtIs
    <3>4. sub[temp] = {temp} \cup sub[c] /\ temp \notin sub[c]
      BY <1>1, <3>1, <3>3 DEF NestAt, SubOK
    <3>5. c \in Ptrs /\ c # n /\ sub2[c] = sub[c]
      BY <1>2, <1>3, <3>1, <3>4, CellsAre
    <3>6. n \notin sub[c] /\ sub2[temp] = sub[temp] \cup {n}
      <4>1. temp \in Ptrs
        BY <1>2, CellsAre
      <4> QED
        BY <1>3, <1>7, <1>10, <3>4, <4>1
    <3> QED
      BY <1>3, <1>10, <2>2, <3>2, <3>4, <3>5, <3>6 DEF NestAt
  <2>3. CASE m # n /\ m # temp /\ m \notin L
    <3>1. t.kid[side][m] = Null /\ t.kid[Other(side)][m] = Null /\ sub[m] = {m}
      BY <1>2, <1>6, <2>3
    <3>2. r.kid[side][m] = Null /\ r.kid[Other(side)][m] = Null
      BY <1>2, <1>9, <2>3, <3>1, CellsAre
    <3>3. sub2[m] = {m}
      BY <1>3, <2>3, <3>1, CellsAre
    <3> QED
      BY <1>4, <3>2, <3>3 DEF NestAt
  <2>4. CASE m # n /\ m # temp /\ m \in L
    <3>1. PICK c : c = t.kid[side][m]
      OBVIOUS
    <3>2. PICK d : d = t.kid[Other(side)][m]
      OBVIOUS
    <3>3. r.kid[side][m] = c /\ r.kid[Other(side)][m] = d
      BY <1>2, <1>9, <2>4, <3>1, <3>2, CellsAre
    <3>4. c \in Ptrs /\ d \in Ptrs /\ c # n /\ d # n /\ m \in Ptrs
      BY <1>2, <2>4, <3>1, <3>2, CellsAre
    <3>5. NestAt(t, sub, m, side)
      BY <1>1, NestAtIs
    <3>6. /\ sub[m] = {m} \cup sub[c] \cup sub[d] /\ m \notin sub[c] /\ m \notin sub[d]
          /\ sub[c] \cap sub[d] = {}
      BY <3>1, <3>2, <3>5 DEF NestAt
    <3>7. n \notin sub[c] /\ n \notin sub[d] /\ temp # m /\ n # m
      BY <1>7, <2>4, <3>6
    <3>8. sub2[m] = {m} \cup sub2[c] \cup sub2[d] /\ m \notin sub2[c] /\ m \notin sub2[d]
          /\ sub2[c] \cap sub2[d] = {}
      <4>1. CASE temp \in sub[c]
        <5>1. sub2[m] = sub[m] \cup {n} /\ sub2[c] = sub[c] \cup {n} /\ sub2[d] = sub[d]
          BY <1>3, <3>4, <3>6, <3>7, <4>1
        <5> QED
          BY <3>6, <3>7, <5>1
      <4>2. CASE temp \in sub[d]
        <5>1. sub2[m] = sub[m] \cup {n} /\ sub2[d] = sub[d] \cup {n} /\ sub2[c] = sub[c]
          BY <1>3, <3>4, <3>6, <3>7, <4>2
        <5> QED
          BY <3>6, <3>7, <5>1
      <4>3. CASE temp \notin sub[c] /\ temp \notin sub[d]
        <5>1. sub2[m] = sub[m] /\ sub2[d] = sub[d] /\ sub2[c] = sub[c]
          BY <1>3, <3>4, <3>6, <3>7, <4>3
        <5> QED
          BY <3>6, <5>1
      <4> QED
        BY <4>1, <4>2, <4>3
    <3> QED
      BY <3>3, <3>8 DEF NestAt
  <2> QED
    BY <2>1, <2>2, <2>3, <2>4
<1>12. Nested(r, sub2)
  BY <1>11, NestedFrom
<1>13. Leaved(r, sub2)
  <2>1. \A s \in Sides : r.kid[s][Sentinel] = Sentinel
    BY <1>1, <1>2, <1>9, CellsAre DEF Shaped, Leaved
  <2>2. ASSUME NEW m \in Nodes, NEW s \in Sides PROVE r.kid[s][m] # Null <=> m \in L \cup {n}
    <3>1. CASE m = n
      BY <1>9, <3>1, CellsAre
    <3>2. CASE m # n /\ m = temp /\ s = side
      BY <1>9, <3>2, CellsAre
    <3>3. CASE m # n /\ (m # temp \/ s # side)
      <4>1. r.kid[s][m] = t.kid[s][m]
        BY <1>9, <3>3, CellsAre
      <4>2. t.kid[s][m] # Null <=> m \in L
        BY <1>1 DEF Shaped, Leaved
      <4> QED
        BY <3>3, <4>1, <4>2
    <3> QED
      BY <3>1, <3>2, <3>3
  <2> QED
    BY <1>8, <1>9, <2>1, <2>2 DEF Leaved
<1>14. Parented(r, sub2)
  <2>1. ASSUME NEW m \in Nodes, NEW s \in Sides, r.kid[s][m] \in Nodes PROVE r.parent[r.kid[s][m]] = m
    <3>1. m # n
      BY <1>9, <2>1, CellsAre
    <3>2. CASE m = temp /\ s = side
      BY <1>9, <3>2
    <3>3. CASE m # temp \/ s # side
      <4>1. r.kid[s][m] = t.kid[s][m]
        BY <1>9, <3>1, <3>3, CellsAre
      <4>2. t.parent[t.kid[s][m]] = m /\ t.kid[s][m] # Null
        BY <1>1, <2>1, <4>1, CellsAre DEF Shaped, Parented
      <4>3. m \in L
        BY <1>1, <4>2 DEF Shaped, Leaved
      <4>4. t.kid[s][m] # n /\ t.kid[s][m] \in Cells
        BY <1>2, <4>3
      <4> QED
        BY <1>9, <4>1, <4>2, <4>4
    <3> QED
      BY <3>2, <3>3
  <2>2. ASSUME NEW m \in L \cup {n}, m # r.root PROVE r.parent[m] \in L \cup {n} /\ Hangs(r, m)
    <3>1. CASE m = n
      BY <1>9, <3>1 DEF Hangs
    <3>2. CASE m # n
      <4>1. m \in L /\ m # t.root /\ m \in Cells /\ m # Sentinel
        BY <1>2, <1>9, <2>2, <3>2, CellsAre
      <4>2. PICK p \in L : p = t.parent[m] /\ p = r.parent[m]
        <5>1. t.parent[m] \in L
          BY <4>1, KeptNode
        <5>2. t.parent[m] = r.parent[m]
          BY <1>9, <3>2, <4>1
        <5> QED
          BY <5>1, <5>2
      <4>3. PICK s \in Sides : t.kid[s][p] = m
        <5>1. t.kid[SideOf(t, m)][t.parent[m]] = m /\ SideOf(t, m) \in Sides
          BY <4>1, KeptNode
        <5>2. \E q \in Sides : t.kid[q][t.parent[m]] = m
          BY <5>1
        <5> QED
          BY <4>2, <5>2
      <4>4. p # n /\ (p # temp \/ s # side) /\ p \in Cells
        BY <1>2, <4>1, <4>3, CellsAre
      <4>5. r.kid[s][p] = m
        BY <1>9, <4>3, <4>4
      <4> QED
        BY <4>2, <4>5 DEF Hangs
    <3> QED
      BY <3>1, <3>2
  <2> QED
    BY <1>8, <1>9, <2>1, <2>2 DEF Parented
<1> QED
  BY <1>5, <1>8, <1>9, <1>12, <1>13, <1>14 DEF Shaped, Hung

\* Where n is, from the other nodes.
LEMMA HungOrder ==
    ASSUME NEW t, NEW sub, NEW L, NEW pos, NEW key, Kept(t, sub, L, pos, key),
           NEW n \in Nodes, n \notin L, NEW temp \in L, NEW side \in Sides,
           NEW pos2, pos2 = HungPos(pos, n, temp, side)
    PROVE  /\ pos2 \in [Nodes -> Int]
           /\ Toward(side, pos2[n], pos2[temp])
           /\ \A a \in L, b \in L, s \in Sides :
                Toward(s, pos2[a], pos2[b]) <=> Toward(s, pos[a], pos[b])
           /\ \A a \in L, s \in Sides : temp \in sub[t.kid[s][a]] => Toward(s, pos2[n], pos2[a])
<1>1. /\ pos \in [Nodes -> Int] /\ L \subseteq Nodes /\ L = sub[t.root]
      /\ \A a \in L : SortedAt(t, sub, pos, a)
  BY KeptNode DEF Kept, Sorted
<1>2. \A a \in L : a \in Nodes /\ a # n /\ pos[a] \in Int
  BY <1>1
<1>3. /\ pos2 \in [Nodes -> Int]
      /\ \A a \in L : pos2[a] = 2 * pos[a] /\ pos2[a] \in Int
      /\ pos2[n] = IF side = "left" THEN 2 * pos[temp] - 1 ELSE 2 * pos[temp] + 1
  BY <1>1, <1>2 DEF HungPos
<1>4. Toward(side, pos2[n], pos2[temp])
  BY <1>2, <1>3 DEF Toward
<1>5. ASSUME NEW a \in L, NEW b \in L, NEW s \in Sides
      PROVE  Toward(s, pos2[a], pos2[b]) <=> Toward(s, pos[a], pos[b])
  BY <1>2, <1>3 DEF Toward
<1>6. ASSUME NEW a \in L, NEW s \in Sides, temp \in sub[t.kid[s][a]] PROVE Toward(s, pos2[n], pos2[a])
  <2>1. Toward(s, pos[temp], pos[a])
    BY <1>1, <1>6 DEF SortedAt
  <2>2. pos[temp] \in Int /\ pos[a] \in Int /\ pos2[a] = 2 * pos[a]
    BY <1>2, <1>3
  <2>3. pos2[n] = 2 * pos[temp] - 1 \/ pos2[n] = 2 * pos[temp] + 1
    BY <1>3
  <2> QED
    BY <2>1, <2>2, <2>3 DEF Toward
<1> QED
  BY <1>3, <1>4, <1>5, <1>6

\* The same for all that Kept says.
LEMMA HungKept ==
    ASSUME NEW t, NEW sub, NEW L, NEW pos, NEW key, Kept(t, sub, L, pos, key),
           NEW n \in Nodes, n \notin L, NEW temp \in L, NEW side \in Sides, t.kid[side][temp] = Sentinel,
           NEW r, Hung(t, r, n, temp, side), NEW sub2, sub2 = HungSub(sub, n, temp),
           NEW pos2, pos2 = HungPos(pos, n, temp, side)
    PROVE  Kept(r, sub2, L \cup {n}, pos2, key)
<1>1. Shaped(r, sub2) /\ sub2[r.root] = L \cup {n}
  BY HungShape
<1>2. /\ pos2 \in [Nodes -> Int] /\ Toward(side, pos2[n], pos2[temp])
      /\ \A a \in L, b \in L, s \in Sides :
           Toward(s, pos2[a], pos2[b]) <=> Toward(s, pos[a], pos[b])
      /\ \A a \in L, s \in Sides : temp \in sub[t.kid[s][a]] => Toward(s, pos2[n], pos2[a])
  BY HungOrder
<1>3. /\ Shaped(t, sub) /\ L = sub[t.root] /\ L \subseteq Nodes /\ SubOK(sub)
      /\ \A a \in L : SortedAt(t, sub, pos, a)
      /\ t.key = key /\ ~t.red[Sentinel]
  BY KeptNode DEF Kept, Sorted, Shaped
<1>4. /\ r.key = t.key /\ r.red[Sentinel] = t.red[Sentinel]
      /\ \A s \in Sides : r.kid[s][n] = Sentinel
      /\ r.kid[side][temp] = n
      /\ \A s \in Sides, c \in Cells : c # n /\ (c # temp \/ s # side) => r.kid[s][c] = t.kid[s][c]
  BY CellsAre DEF Hung
<1>5. /\ sub2[n] = {n} /\ sub2[Sentinel] = {}
      /\ \A m \in Ptrs : m # n /\ temp \in sub[m] => sub2[m] = sub[m] \cup {n}
      /\ \A m \in Ptrs : m # n /\ temp \notin sub[m] => sub2[m] = sub[m]
  <2>1. n \in Ptrs /\ Sentinel \in Ptrs /\ n # Sentinel
    BY CellsAre
  <2> QED
    BY <1>3, <2>1 DEF HungSub, SubOK
<1>6. SortedAt(r, sub2, pos2, n)
  BY <1>4, <1>5 DEF SortedAt
<1>7. ASSUME NEW a \in L PROVE SortedAt(r, sub2, pos2, a)
  <2> SUFFICES ASSUME NEW s \in Sides, NEW m \in sub2[r.kid[s][a]]
               PROVE  Toward(s, pos2[m], pos2[a])
    BY DEF SortedAt
  <2>1. a # n /\ a \in Cells
    BY <1>3, CellsAre
  <2>2. CASE a = temp /\ s = side
    <3>1. m = n
      BY <1>4, <1>5, <2>2
    <3> QED
      BY <1>2, <2>2, <3>1
  <2>3. CASE a # temp \/ s # side
    <3>1. r.kid[s][a] = t.kid[s][a]
      BY <1>4, <2>1, <2>3
    <3>2. t.kid[s][a] \in Ptrs /\ t.kid[s][a] # n /\ sub[t.kid[s][a]] \subseteq L
      <4>1. t.kid[s][a] \in Cells /\ sub[t.kid[s][a]] \subseteq L /\ (t.kid[s][a] # Sentinel => t.kid[s][a] \in L)
        BY <1>3, LinkedIs
      <4> QED
        BY <4>1, CellsAre
    <3>3. CASE m = n
      <4>1. n \notin sub[t.kid[s][a]]
        BY <3>2
      <4>2. temp \in sub[t.kid[s][a]]
        BY <1>5, <3>1, <3>2, <3>3, <4>1
      <4> QED
        BY <1>2, <3>3, <4>2
    <3>4. CASE m # n
      <4>1. m \in sub[t.kid[s][a]]
        BY <1>5, <3>1, <3>2, <3>4
      <4>2. Toward(s, pos[m], pos[a]) /\ m \in L
        BY <1>3, <3>2, <4>1 DEF SortedAt
      <4> QED
        BY <1>2, <4>2
    <3> QED
      BY <3>3, <3>4
  <2> QED
    BY <2>2, <2>3
<1>8. Sorted(r, sub2, pos2)
  BY <1>1, <1>2, <1>6, <1>7 DEF Sorted
<1> QED
  BY <1>1, <1>3, <1>4, <1>8 DEF Kept

\* A key of a node that is not in the tree is stored.
LEMMA KeyKept ==
    ASSUME NEW t, NEW sub, NEW L, NEW pos, NEW key, Balanced(t, sub, L, pos, key),
           NEW n \in Nodes, n \notin L, NEW k \in Int
    PROVE  /\ KeyStored(t, SetKey(t, n, k), n, k)
           /\ Balanced(SetKey(t, n, k), sub, L, pos, [key EXCEPT ![n] = k])
<1> DEFINE r == SetKey(t, n, k)
<1>1. t \in Trees /\ n \in Cells /\ t.key = key /\ Shaped(t, sub) /\ L = sub[t.root] /\ L \subseteq Nodes
  <2>1. t \in Trees /\ t.key = key /\ Shaped(t, sub) /\ L = sub[t.root]
    BY DEF Balanced, Kept, Shaped
  <2>2. SubOK(sub) /\ t.root \in Ptrs
    BY <2>1, CellsAre, TreeFields DEF Shaped
  <2> QED
    BY <2>1, <2>2, CellsAre DEF SubOK
<1>2. KeyStored(t, r, n, k)
  BY <1>1, KeySet
<1> HIDE DEF r
<1>3. r \in Trees /\ r.root = t.root /\ r.kid = t.kid /\ r.parent = t.parent /\ r.red = t.red
  BY <1>2 DEF KeyStored
<1>4. r.key = [key EXCEPT ![n] = k]
  <2>1. r.key \in [Cells -> Int] /\ t.key \in [Cells -> Int]
    BY <1>1, <1>3, TreeFields
  <2> QED
    BY <1>1, <1>2, <2>1 DEF KeyStored
<1>5. Kept(r, sub, L, pos, [key EXCEPT ![n] = k])
  <2>1. Shaped(r, sub)
    BY <1>1, <1>3, SameShape
  <2>2. Sorted(r, sub, pos)
    BY <1>3 DEF Balanced, Kept, Sorted, SortedAt
  <2> QED
    BY <1>1, <1>3, <1>4, <2>1, <2>2 DEF Kept, Balanced
<1>6. \E h : Even(r, L, h)
  <2>1. PICK h : Even(t, L, h)
    BY DEF Balanced
  <2>2. h \in [Cells -> Nat] /\ h[Sentinel] = 0 /\ \A a \in L, s \in Sides : EvenAt(t, h, a, s)
    BY <1>1, <2>1, EvenIs
  <2>3. \A a \in L, s \in Sides : EvenAt(r, h, a, s)
    BY <1>3, <2>2 DEF EvenAt, Black
  <2> QED
    BY <1>1, <2>2, <2>3, EvenIs
<1> QED
  BY <1>2, <1>3, <1>5, <1>6 DEF Balanced, r

\* The new red leaf may have a red parent, and all else is balanced.
LEMMA HungRising ==
    ASSUME NEW t, NEW sub, NEW L, NEW pos, NEW key, Balanced(t, sub, L, pos, key),
           NEW n \in Nodes, n \notin L, NEW temp \in L, NEW side \in Sides, t.kid[side][temp] = Sentinel,
           NEW r, Hung(t, r, n, temp, side)
    PROVE  Rising(r, n, HungSub(sub, n, temp), L \cup {n}, HungPos(pos, n, temp, side), key)
<1>1. Kept(t, sub, L, pos, key) /\ ~t.red[Sentinel] /\ ~t.red[t.root]
  BY DEF Balanced, Kept
<1>2. Kept(r, HungSub(sub, n, temp), L \cup {n}, HungPos(pos, n, temp, side), key)
  BY <1>1, HungKept
<1>3. n # Sentinel /\ n # t.root /\ r.root = t.root /\ r.red[n] /\ L \subseteq Nodes /\ t.root \in L
  <2>1. t.root \in L /\ L \subseteq Nodes
    BY <1>1, KeptNode
  <2> QED
    BY <2>1, CellsAre DEF Hung
<1>4. ASSUME NEW a \in L, NEW s \in Sides, a # temp \/ s # side
      PROVE  r.kid[s][a] = t.kid[s][a] /\ r.kid[s][a] # n /\ r.kid[s][a] \in Cells /\ r.red[a] = t.red[a] /\ a # n
  <2>1. a \in Cells /\ a # n /\ t.kid[s][a] \in Cells /\ (t.kid[s][a] # Sentinel => t.kid[s][a] \in L)
    BY <1>1, KeptNode
  <2>2. t.kid[s][a] # n
    BY <1>3, <2>1
  <2> QED
    BY <1>4, <2>1, <2>2 DEF Hung
<1>5. \E h : Even(r, L \cup {n}, h)
  <2>1. PICK h : Even(t, L, h)
    BY DEF Balanced
  <2>2. h \in [Cells -> Nat] /\ h[Sentinel] = 0 /\ \A a \in L, s \in Sides : EvenAt(t, h, a, s)
    BY <1>3, <2>1, EvenIs
  <2> DEFINE f == [h EXCEPT ![n] = 0]
  <2>3. f \in [Cells -> Nat] /\ f[n] = 0 /\ \A c \in Cells : c # n => f[c] = h[c]
    BY <2>2, CellsAre
  <2>4. f[Sentinel] = 0
    BY <1>3, <2>2, <2>3, CellsAre
  <2> HIDE DEF f
  <2>5. ASSUME NEW a \in L \cup {n}, NEW s \in Sides PROVE EvenAt(r, f, a, s)
    <3>1. CASE a = n
      <4>1. r.kid[s][n] = Sentinel /\ Black(r, n) = 0
        BY <1>3 DEF Hung, Black
      <4> QED
        BY <2>3, <2>4, <3>1, <4>1 DEF EvenAt
    <3>2. CASE a = temp /\ s = side
      <4>1. h[temp] = h[Sentinel] + Black(t, temp)
        BY <2>2 DEF EvenAt
      <4>2. temp \in Cells /\ temp # n /\ r.kid[s][a] = n
        BY <1>3, <3>2, CellsAre DEF Hung
      <4>3. Black(r, temp) = Black(t, temp)
        BY <4>2 DEF Hung, Black
      <4>4. f[temp] = h[temp] /\ f[n] = h[Sentinel]
        BY <2>2, <2>3, <4>2
      <4>5. f[temp] = f[n] + Black(r, temp)
        BY <4>1, <4>3, <4>4
      <4> QED
        BY <3>2, <4>2, <4>5 DEF EvenAt
    <3>3. CASE a # n /\ (a # temp \/ s # side)
      <4>1. a \in L /\ a \in Cells
        BY <1>3, <3>3, CellsAre
      <4>2. r.kid[s][a] = t.kid[s][a] /\ r.kid[s][a] # n /\ r.kid[s][a] \in Cells /\ r.red[a] = t.red[a]
        BY <1>4, <3>3, <4>1
      <4>3. f[a] = h[a] /\ f[r.kid[s][a]] = h[t.kid[s][a]]
        BY <2>3, <3>3, <4>1, <4>2
      <4>4. h[a] = h[t.kid[s][a]] + Black(t, a)
        BY <2>2, <4>1 DEF EvenAt
      <4>5. Black(r, a) = Black(t, a)
        BY <4>2 DEF Black
      <4> QED
        BY <4>3, <4>4, <4>5 DEF EvenAt
    <3> QED
      BY <3>1, <3>2, <3>3
  <2>6. L \cup {n} \subseteq Nodes
    BY <1>3
  <2> QED
    BY <2>3, <2>4, <2>5, <2>6, EvenIs
<1>6. ASSUME NEW a \in L \cup {n}, NEW s \in Sides, r.red[a], r.red[r.kid[s][a]]
      PROVE  r.kid[s][a] = n
  <2> SUFFICES ASSUME r.kid[s][a] # n PROVE FALSE
    OBVIOUS
  <2>1. a # n
    <3>1. ~r.red[Sentinel]
      BY <1>1, <1>3, CellsAre DEF Hung
    <3> QED
      BY <1>6, <3>1 DEF Hung
  <2>2. a \in L /\ (a # temp \/ s # side)
    BY <2>1 DEF Hung
  <2>3. r.kid[s][a] = t.kid[s][a] /\ r.kid[s][a] \in Cells /\ r.red[a] = t.red[a]
    BY <1>4, <2>2
  <2>4. r.red[t.kid[s][a]] = t.red[t.kid[s][a]]
    BY <2>3 DEF Hung
  <2> QED
    BY <1>6, <2>2, <2>3, <2>4 DEF Balanced
<1>7. ~r.red[r.root]
  BY <1>1, <1>3, CellsAre DEF Hung
<1> QED
  BY <1>2, <1>3, <1>5, <1>6, <1>7 DEF Rising

\* r is the empty tree t with n alone.
Alone(t, r, n) ==
    /\ r \in Trees /\ r.root = n /\ r.key = t.key
    /\ \A s \in Sides : r.kid[s][n] = Sentinel
    /\ \A s \in Sides, c \in Cells : c # n => r.kid[s][c] = t.kid[s][c]
    /\ \A c \in Cells : c # n => r.parent[c] = t.parent[c]
    /\ ~r.red[n] /\ \A c \in Cells : c # n => r.red[c] = t.red[c]

\* Insertion into the empty tree leaves one black node.
LEMMA FirstAlone ==
    ASSUME NEW t \in Trees, t.root = Sentinel, NEW n \in Nodes
    PROVE  Alone(t, Replace(Paint(SetKid(SetKid(SetParent(t, n, Null), "left", n, Sentinel), "right", n, Sentinel),
                                  n, FALSE), Sentinel, n), n)
<1> DEFINE t1 == SetParent(t, n, Null)
           t2 == SetKid(t1, "left", n, Sentinel)
           t3 == SetKid(t2, "right", n, Sentinel)
           t4 == Paint(t3, n, FALSE)
           t5 == Replace(t4, Sentinel, n)
<1>1. n \in Cells /\ Sentinel \in Ptrs /\ Null \in Ptrs /\ "left" \in Sides /\ "right" \in Sides
  BY CellsAre, SidesAre
<1>2. ParentStored(t, t1, n, Null)
  BY <1>1, ParentSet
<1> HIDE DEF t1
<1>3. KidStored(t1, t2, "left", n, Sentinel)
  <2>1. t1 \in Trees
    BY <1>2 DEF ParentStored
  <2> QED
    BY <1>1, <2>1, KidSet
<1> HIDE DEF t2
<1>4. KidStored(t2, t3, "right", n, Sentinel)
  <2>1. t2 \in Trees
    BY <1>3 DEF KidStored
  <2> QED
    BY <1>1, <2>1, KidSet
<1> HIDE DEF t3
<1>5. Painted(t3, t4, n, FALSE)
  <2>1. t3 \in Trees
    BY <1>4 DEF KidStored
  <2> QED
    BY <1>1, <2>1, PaintIs
<1> HIDE DEF t4
<1>6. t4.root = Sentinel /\ t4 \in Trees
  BY <1>2, <1>3, <1>4, <1>5 DEF ParentStored, KidStored, Painted
<1>7. Replaced(t4, t5, Sentinel, n)
  BY <1>1, <1>6, ReplaceIs
<1> HIDE DEF t5
<1>8. t5 \in Trees /\ t5.root = n /\ t5.kid = t4.kid /\ t5.parent = t4.parent /\ t5.red = t4.red /\ t5.key = t4.key
  BY <1>6, <1>7 DEF Replaced
<1>9. t5.key = t.key /\ ~t5.red[n] /\ \A c \in Cells : c # n => t5.red[c] = t.red[c]
  BY <1>2, <1>3, <1>4, <1>5, <1>8 DEF ParentStored, KidStored, Painted
<1>10. \A c \in Cells : c # n => t5.parent[c] = t.parent[c]
  BY <1>2, <1>3, <1>4, <1>5, <1>8 DEF ParentStored, KidStored, Painted
<1>11. t5.kid = t3.kid /\ t1.kid = t.kid
  BY <1>2, <1>5, <1>8 DEF ParentStored, Painted
<1>12. t5.kid["right"][n] = Sentinel /\ t5.kid["left"][n] = Sentinel
  <2>1. t3.kid["left"][n] = t2.kid["left"][n]
    BY <1>1, <1>4 DEF KidStored
  <2> QED
    BY <1>3, <1>4, <1>11, <2>1 DEF KidStored
<1>13. \A s \in Sides, c \in Cells : c # n => t5.kid[s][c] = t.kid[s][c]
  <2> TAKE s \in Sides, c \in Cells
  <2> HAVE c # n
  <2>1. t3.kid[s][c] = t2.kid[s][c]
    BY <1>4 DEF KidStored
  <2>2. t2.kid[s][c] = t1.kid[s][c]
    BY <1>3 DEF KidStored
  <2> QED
    BY <1>11, <2>1, <2>2
<1>14. Alone(t, t5, n)
  BY <1>8, <1>9, <1>10, <1>12, <1>13, SidesAre DEF Alone
<1> QED
  BY <1>14 DEF t5, t4, t3, t2, t1

\* A tree of one black node is balanced.
LEMMA AloneBalanced ==
    ASSUME NEW t, NEW sub, NEW L, NEW pos, NEW key, Balanced(t, sub, L, pos, key), t.root = Sentinel,
           NEW n \in Nodes, NEW r, Alone(t, r, n)
    PROVE  L = {} /\ Balanced(r, sub, {n}, pos, key)
<1>1. Shaped(t, sub) /\ sub[t.root] = L /\ t.key = key /\ ~t.red[Sentinel] /\ t \in Trees /\ pos \in [Nodes -> Int]
  BY DEF Balanced, Kept, Shaped, Sorted
<1>2. SubOK(sub) /\ L = {} /\ sub[Sentinel] = {} /\ n # Sentinel /\ n \in Cells /\ Sentinel \in Cells
  BY <1>1, CellsAre DEF Shaped, SubOK
<1>3. \A m \in Nodes, s \in Sides : t.kid[s][m] = Null
  BY <1>1, <1>2 DEF Shaped, Leaved
<1>4. \A m \in Nodes, s \in Sides : r.kid[s][m] = (IF m = n THEN Sentinel ELSE Null)
  BY <1>3, CellsAre DEF Alone
<1>5. \A m \in Nodes : sub[m] = {m}
  <2> TAKE m \in Nodes
  <2>1. t.kid["left"][m] = Null /\ t.kid["right"][m] = Null
    BY <1>3, SidesAre
  <2>2. sub[Null] = {}
    BY <1>2 DEF SubOK
  <2> QED
    BY <1>1, <2>1, <2>2 DEF Shaped, Nested
<1>6. Shaped(r, sub)
  <2>1. Nested(r, sub)
    <3> SUFFICES ASSUME NEW m \in Nodes
                 PROVE  /\ sub[m] = {m} \cup sub[r.kid["left"][m]] \cup sub[r.kid["right"][m]]
                        /\ m \notin sub[r.kid["left"][m]] /\ m \notin sub[r.kid["right"][m]]
                        /\ sub[r.kid["left"][m]] \cap sub[r.kid["right"][m]] = {}
      BY DEF Nested
    <3>1. sub[r.kid["left"][m]] = {} /\ sub[r.kid["right"][m]] = {}
      BY <1>2, <1>4, SidesAre DEF SubOK
    <3> QED
      BY <1>5, <3>1
  <2>2. Leaved(r, sub)
    <3>1. \A s \in Sides : r.kid[s][Sentinel] = Sentinel
      BY <1>1, <1>2 DEF Alone, Shaped, Leaved
    <3>2. sub[r.root] = {n} /\ Sentinel # Null
      BY <1>5, CellsAre DEF Alone
    <3>3. \A m \in Nodes, s \in Sides : r.kid[s][m] # Null <=> m \in sub[r.root]
      BY <1>4, <3>2
    <3> QED
      BY <3>1, <3>3 DEF Leaved
  <2>3. Parented(r, sub)
    <3>1. \A m \in Nodes, s \in Sides : r.kid[s][m] \notin Nodes
      BY <1>4, CellsAre
    <3>2. sub[r.root] = {n} /\ r.root = n
      BY <1>5 DEF Alone
    <3> QED
      BY <3>1, <3>2 DEF Parented
  <2> QED
    BY <1>2, <2>1, <2>2, <2>3 DEF Shaped, Alone
<1>7. sub[r.root] = {n}
  BY <1>5 DEF Alone
<1>8. Kept(r, sub, {n}, pos, key)
  <2>1. SortedAt(r, sub, pos, n)
    BY <1>2, <1>4 DEF SortedAt
  <2>2. Sorted(r, sub, pos)
    BY <1>1, <1>7, <2>1 DEF Sorted
  <2>3. r.key = key /\ ~r.red[Sentinel]
    BY <1>1, <1>2 DEF Alone
  <2> QED
    BY <1>6, <1>7, <2>2, <2>3 DEF Kept
<1>9. \E h : Even(r, {n}, h)
  <2> DEFINE h == [c \in Cells |-> IF c = n THEN 1 ELSE 0]
  <2>1. h \in [Cells -> Nat] /\ h[Sentinel] = 0 /\ h[n] = 1
    BY <1>2
  <2>2. Black(r, n) = 1
    BY DEF Alone, Black
  <2> HIDE DEF h
  <2>3. \A a \in {n}, s \in Sides : EvenAt(r, h, a, s)
    BY <1>4, <2>1, <2>2 DEF EvenAt
  <2> QED
    BY <2>1, <2>3, EvenIs
<1>10. \A a \in {n}, s \in Sides : ~(r.red[a] /\ r.red[r.kid[s][a]])
  BY DEF Alone
<1> QED
  BY <1>2, <1>8, <1>9, <1>10 DEF Balanced, Alone

\* Whether a number goes before another one, or to the other side of it.
KeyToward(s, a, b) == IF s = "left" THEN a <= b ELSE b <= a

\* The keys are in the order of the positions.
KeysSorted(L, pos, key) == \A a \in L, b \in L : pos[a] < pos[b] => key[a] <= key[b]

\* No two keys are half the numbers apart.
KeysClose(L, key) == \A a \in L, b \in L : key[a] - key[b] < Half

\* A difference that is small enough survives the narrowing.
LEMMA NarrowIs ==
    ASSUME NEW d \in Int, d < Half, -d < Half
    PROVE  Narrow(d) < 0 <=> d < 0
<1>1. Half \in Nat /\ Half > 0
  BY RbTreeAssumption
<1> DEFINE m == d % (2 * Half)
<1>2. CASE d >= 0
  <2>1. m = d
    BY <1>1, <1>2
  <2>2. Narrow(d) = (IF m >= Half THEN m - 2 * Half ELSE m)
    BY DEF Narrow
  <2> HIDE DEF m
  <2> QED
    BY <1>1, <1>2, <2>1, <2>2
<1>3. CASE d < 0
  <2>1. m = d + 2 * Half
    BY <1>1, <1>3
  <2>2. Narrow(d) = (IF m >= Half THEN m - 2 * Half ELSE m)
    BY DEF Narrow
  <2> HIDE DEF m
  <2> QED
    BY <1>1, <1>3, <2>1, <2>2
<1> QED
  BY <1>2, <1>3

\* So a node goes to the side of another that its key is on.
LEMMA TurnToward ==
    ASSUME NEW t, NEW n, NEW a, t.key[n] \in Int, t.key[a] \in Int,
           t.key[n] - t.key[a] < Half, t.key[a] - t.key[n] < Half
    PROVE  KeyToward(Turn(t, n, a), t.key[n], t.key[a])
<1>1. PICK x \in Int : x = t.key[n]
  OBVIOUS
<1>2. PICK y \in Int : y = t.key[a]
  OBVIOUS
<1>3. Narrow(x - y) < 0 <=> x - y < 0
  <2>1. x - y \in Int /\ x - y < Half /\ -(x - y) < Half
    BY <1>1, <1>2, RbTreeAssumption
  <2> QED
    BY <2>1, NarrowIs
<1>4. TimerBefore(t.key[n], t.key[a]) <=> x < y
  BY <1>1, <1>2, <1>3 DEF TimerBefore
<1> QED
  BY <1>1, <1>2, <1>4 DEF Turn, KeyToward

\* KeyToward orders keys, either way.
LEMMA KeyTowardIs ==
    ASSUME NEW s \in Sides, NEW a \in Int, NEW b \in Int, NEW c \in Int
    PROVE  /\ KeyToward(s, a, b) <=> KeyToward(Other(s), b, a)
           /\ KeyToward(s, a, b) /\ KeyToward(s, b, c) => KeyToward(s, a, c)
  BY SidesAre DEF KeyToward

\* What the order of the positions says of the keys.
LEMMA KeysOn ==
    ASSUME NEW L, NEW pos, NEW key, KeysSorted(L, pos, key), NEW s \in Sides, NEW a \in L, NEW b \in L,
           Toward(s, pos[a], pos[b])
    PROVE  KeyToward(s, key[a], key[b])
  BY SidesAre DEF KeysSorted, Toward, KeyToward

\* A new node whose key is close to the others is where its key belongs.
LEMMA HungKeys ==
    ASSUME NEW t, NEW sub, NEW L, NEW pos, NEW key, Kept(t, sub, L, pos, key),
           NEW n \in Nodes, n \notin L, NEW temp \in L, NEW side \in Sides, t.kid[side][temp] = Sentinel,
           side = Turn(t, n, temp), OnWay(t, sub, L, n, temp),
           NEW pos2, pos2 = HungPos(pos, n, temp, side),
           KeysSorted(L, pos, key), KeysClose(L \cup {n}, key)
    PROVE  KeysSorted(L \cup {n}, pos2, key)
<1>1. /\ Shaped(t, sub) /\ L = sub[t.root] /\ L \subseteq Nodes /\ t.key = key /\ t \in Trees
      /\ pos \in [Nodes -> Int] /\ \A a \in L : SortedAt(t, sub, pos, a)
  <2>1. L \subseteq Nodes
    BY KeptNode
  <2> QED
    BY <2>1 DEF Kept, Shaped, Sorted
<1>2. /\ pos2 \in [Nodes -> Int]
      /\ Toward(side, pos2[n], pos2[temp])
      /\ \A a \in L, b \in L, s \in Sides :
           Toward(s, pos2[a], pos2[b]) <=> Toward(s, pos[a], pos[b])
      /\ \A a \in L, s \in Sides : temp \in sub[t.kid[s][a]] => Toward(s, pos2[n], pos2[a])
  BY HungOrder
<1>3. \A a \in Nodes : key[a] \in Int /\ pos2[a] \in Int /\ pos[a] \in Int
  <2>1. \A a \in Nodes : a \in Cells
    BY CellsAre
  <2>2. \A a \in Nodes : t.key[a] \in Int
    BY <1>1, <2>1, TreeFields
  <2> QED
    BY <1>1, <1>2, <2>2
<1>4. \A a \in L : KeyToward(Turn(t, n, a), key[n], key[a])
  <2> TAKE a \in L
  <2>1. key[n] - key[a] < Half /\ key[a] - key[n] < Half
    BY DEF KeysClose
  <2>2. key[n] \in Int /\ key[a] \in Int
    BY <1>1, <1>3
  <2> QED
    BY <1>1, <2>1, <2>2, TurnToward
<1>5. ASSUME NEW a \in L PROVE \E s \in Sides : Toward(s, pos2[n], pos2[a]) /\ KeyToward(s, key[n], key[a])
  <2>1. CASE a = temp
    BY <1>2, <1>4, <2>1
  <2>2. CASE a # temp
    <3>1. PICK c \in sub[t.root], s \in Sides : /\ (temp = c \/ temp \in sub[t.kid[s][c]])
                                                /\ (a = c \/ a \in sub[t.kid[Other(s)][c]])
      <4>1. temp \in sub[t.root] /\ a \in sub[t.root] /\ temp # a
        BY <1>1, <2>2
      <4> QED
        BY <1>1, <4>1, Fork
    <3>2. /\ c \in L /\ c \in Nodes /\ a \in Nodes /\ temp \in Nodes /\ Other(s) \in Sides
          /\ Other(Other(s)) = s
      BY <1>1, <3>1, SidesAre
    <3>3. /\ pos2[n] \in Int /\ pos2[a] \in Int /\ pos2[c] \in Int /\ pos2[temp] \in Int
          /\ key[n] \in Int /\ key[a] \in Int /\ key[c] \in Int /\ key[temp] \in Int
      BY <1>3, <3>2
    <3>4. ASSUME NEW q \in Sides, temp \in sub[t.kid[q][c]]
          PROVE  Toward(q, pos2[n], pos2[c]) /\ KeyToward(q, key[n], key[c])
      <4>1. q = Turn(t, n, c)
        BY <3>2, <3>4 DEF OnWay
      <4> QED
        BY <1>2, <1>4, <3>2, <3>4, <4>1
    <3>5. ASSUME NEW q \in Sides, a \in sub[t.kid[Other(q)][c]]
          PROVE  Toward(q, pos2[c], pos2[a]) /\ KeyToward(q, key[c], key[a])
      <4>1. Other(q) \in Sides /\ Other(Other(q)) = q
        BY SidesAre
      <4>2. Toward(Other(q), pos[a], pos[c])
        BY <1>1, <3>2, <3>5, <4>1 DEF SortedAt
      <4>3. Toward(Other(q), pos2[a], pos2[c])
        BY <1>2, <3>2, <4>1, <4>2
      <4>4. KeyToward(Other(q), key[a], key[c])
        BY <3>2, <4>1, <4>2, KeysOn
      <4>5. Toward(q, pos2[c], pos2[a])
        BY <3>3, <4>3, TowardIs
      <4>6. KeyToward(q, key[c], key[a])
        BY <3>3, <4>4, KeyTowardIs
      <4> QED
        BY <4>5, <4>6
    <3>6. CASE a = c
      <4>1. temp \in sub[t.kid[s][c]]
        BY <2>2, <3>1, <3>6
      <4> QED
        BY <3>4, <3>6, <4>1
    <3>7. CASE temp = c /\ a \in sub[t.kid[Other(s)][c]]
      <4>1. Other(s) # side
        <5>1. sub[Sentinel] = {}
          BY <1>1 DEF Shaped, SubOK
        <5> QED
          BY <3>7, <5>1
      <4>2. s = side
        BY <3>2, <4>1, SidesAre
      <4>3. Toward(s, pos2[c], pos2[a]) /\ KeyToward(s, key[c], key[a])
        BY <3>5, <3>7
      <4>4. Toward(s, pos2[n], pos2[c]) /\ KeyToward(s, key[n], key[c])
        BY <1>2, <1>4, <3>7, <4>2
      <4>5. Toward(s, pos2[n], pos2[a])
        BY <3>3, <4>3, <4>4, TowardIs
      <4>6. KeyToward(s, key[n], key[a])
        BY <3>3, <4>3, <4>4, KeyTowardIs
      <4> QED
        BY <4>5, <4>6
    <3>8. CASE temp \in sub[t.kid[s][c]] /\ a \in sub[t.kid[Other(s)][c]]
      <4>3. Toward(s, pos2[c], pos2[a]) /\ KeyToward(s, key[c], key[a])
        BY <3>5, <3>8
      <4>4. Toward(s, pos2[n], pos2[c]) /\ KeyToward(s, key[n], key[c])
        BY <3>4, <3>8
      <4>5. Toward(s, pos2[n], pos2[a])
        BY <3>3, <4>3, <4>4, TowardIs
      <4>6. KeyToward(s, key[n], key[a])
        BY <3>3, <4>3, <4>4, KeyTowardIs
      <4> QED
        BY <4>5, <4>6
    <3> QED
      BY <2>2, <3>1, <3>6, <3>7, <3>8
  <2> QED
    BY <2>1, <2>2
<1>6. ASSUME NEW a \in L \cup {n}, NEW b \in L \cup {n}, pos2[a] < pos2[b] PROVE key[a] <= key[b]
  <2>1. CASE a \in L /\ b \in L
    <3>1. Toward("left", pos[a], pos[b])
      <4>1. Toward("left", pos2[a], pos2[b]) /\ "left" \in Sides
        BY <1>6, SidesAre DEF Toward
      <4> QED
        BY <1>2, <2>1, <4>1
    <3> QED
      BY <2>1, <3>1 DEF Toward, KeysSorted
  <2>2. CASE a = n /\ b \in L
    <3>1. PICK s \in Sides : Toward(s, pos2[n], pos2[b]) /\ KeyToward(s, key[n], key[b])
      BY <1>5, <2>2
    <3>2. pos2[n] \in Int /\ pos2[b] \in Int
      BY <1>1, <1>3, <2>2
    <3> QED
      BY <1>6, <2>2, <3>1, <3>2, SidesAre DEF Toward, KeyToward
  <2>3. CASE b = n /\ a \in L
    <3>1. PICK s \in Sides : Toward(s, pos2[n], pos2[a]) /\ KeyToward(s, key[n], key[a])
      BY <1>5, <2>3
    <3>2. pos2[n] \in Int /\ pos2[a] \in Int
      BY <1>1, <1>3, <2>3
    <3> QED
      BY <1>6, <2>3, <3>1, <3>2, SidesAre DEF Toward, KeyToward
  <2>4. CASE a = n /\ b = n
    BY <1>3, <2>4
  <2> QED
    BY <2>1, <2>2, <2>3, <2>4
<1> QED
  BY <1>6 DEF KeysSorted

\* An insertion: the tree has one node more and is balanced, whatever the keys; and
\* it is sorted by key if all keys are close.
LEMMA InsertIs ==
    ASSUME NEW t, NEW sub, NEW L, NEW pos, NEW key, Balanced(t, sub, L, pos, key),
           NEW n \in Nodes, n \notin L, NEW k \in Int,
           NEW key2, key2 = [key EXCEPT ![n] = k]
    PROVE  \E sub2, pos2 :
             /\ Balanced(Insert(t, n, k), sub2, L \cup {n}, pos2, key2)
             /\ KeysSorted(L, pos, key) /\ KeysClose(L \cup {n}, key2) => KeysSorted(L \cup {n}, pos2, key2)
<1> DEFINE t1 == SetKey(t, n, k)
           t2 == SetKid(SetKid(SetParent(t1, n, Null), "left", n, Sentinel), "right", n, Sentinel)
<1>1. KeyStored(t, t1, n, k) /\ Balanced(t1, sub, L, pos, key2)
  BY KeyKept
<1>2. Insert(t, n, k) = IF t.root = Sentinel THEN Replace(Paint(t2, n, FALSE), Sentinel, n)
                        ELSE InsertFixup(Place(t1, n), n)
  BY Zenon DEF Insert
<1>3. t1.root = t.root /\ t1 \in Trees /\ Kept(t1, sub, L, pos, key2)
  BY <1>1 DEF KeyStored, Balanced
<1>4. KeysSorted(L, pos, key) => KeysSorted(L, pos, key2)
  <2>1. key \in [Cells -> Int] /\ L \subseteq Nodes
    <3>1. t \in Trees /\ t.key = key /\ Shaped(t, sub) /\ sub[t.root] = L
      BY DEF Balanced, Kept, Shaped
    <3>2. t.root \in Ptrs /\ SubOK(sub)
      BY <3>1, CellsAre, TreeFields DEF Shaped
    <3>3. key \in [Cells -> Int]
      BY <3>1, TreeFields
    <3> QED
      BY <3>1, <3>2, <3>3, SubFinite
  <2>2. \A a \in L : a \in Cells /\ a # n
    BY <2>1, CellsAre
  <2>3. \A a \in L : key2[a] = key[a]
    BY <2>1, <2>2
  <2> QED
    BY <2>3 DEF KeysSorted
<1>5. CASE t.root = Sentinel
  <2>1. Alone(t1, Insert(t, n, k), n)
    <3>1. Insert(t, n, k) = Replace(Paint(t2, n, FALSE), Sentinel, n)
      BY <1>2, <1>5
    <3> HIDE DEF t1
    <3>2. Alone(t1, Replace(Paint(t2, n, FALSE), Sentinel, n), n)
      BY <1>3, <1>5, FirstAlone
    <3> QED
      BY <3>1, <3>2
  <2> HIDE DEF t1
  <2>2. L = {} /\ Balanced(Insert(t, n, k), sub, {n}, pos, key2)
    BY <1>1, <1>3, <1>5, <2>1, AloneBalanced
  <2>3. L \cup {n} = {n}
    BY <2>2
  <2>4. KeysSorted({n}, pos, key2)
    <3>1. pos[n] \in Int
      BY <2>2 DEF Balanced, Kept, Sorted
    <3> QED
      BY <3>1 DEF KeysSorted
  <2> QED
    BY <2>2, <2>3, <2>4
<1>6. CASE t.root # Sentinel
  <2> HIDE DEF t1
  <2>1. PICK temp : temp = Spot(t1, n)
    OBVIOUS
  <2>2. PICK side : side = Turn(t1, n, temp)
    OBVIOUS
  <2>3. temp \in L /\ t1.kid[side][temp] = Sentinel /\ OnWay(t1, sub, L, n, temp)
    BY <1>3, <1>6, <2>1, <2>2, SpotIs
  <2>4. temp \in Nodes /\ temp # n /\ side \in Sides
    BY <1>3, <2>2, <2>3, KeptNode, TurnIs
  <2>5. PICK r : r = Place(t1, n)
    OBVIOUS
  <2>6. Hung(t1, r, n, temp, side)
    BY <1>3, <2>1, <2>2, <2>4, <2>5, PlaceHung
  <2>7. PICK pos2 : pos2 = HungPos(pos, n, temp, side)
    OBVIOUS
  <2>8. Rising(r, n, HungSub(sub, n, temp), L \cup {n}, pos2, key2)
    BY <1>1, <2>3, <2>4, <2>6, <2>7, HungRising
  <2>9. PICK sub2 : Balanced(InsertFixup(r, n), sub2, L \cup {n}, pos2, key2)
    BY <2>8, InsertFixupIs
  <2>10. Insert(t, n, k) = InsertFixup(r, n)
    BY <1>2, <1>6, <2>5
  <2>11. KeysSorted(L, pos, key) /\ KeysClose(L \cup {n}, key2) => KeysSorted(L \cup {n}, pos2, key2)
    BY <1>3, <1>4, <2>2, <2>3, <2>4, <2>7, HungKeys
  <2> QED
    BY <2>9, <2>10, <2>11
<1> QED
  BY <1>5, <1>6

----------------------------------------------------------------------------
(* Deletion: the rounds. *)

\* The paths through the child of n on s have one black node less than they should.
ShortAt(t, h, n, s) == h[n] = h[t.kid[s][n]] + (1 + Black(t, n))

LEMMA ShortIs ==
    ASSUME NEW t, NEW L, NEW h, NEW p, NEW side
    PROVE  Heights(t, L, h, p, side) <=>
             /\ h \in [Cells -> Nat] /\ h[Sentinel] = 0
             /\ \A a \in L, s \in Sides : IF a = p /\ s = side THEN ShortAt(t, h, a, s) ELSE EvenAt(t, h, a, s)
<1>1. ASSUME NEW a, NEW s, a = p /\ s = side PROVE HeightAt(t, h, p, side, a, s) <=> ShortAt(t, h, a, s)
  BY <1>1 DEF HeightAt, ShortAt, Lack
<1>2. ASSUME NEW a, NEW s, ~(a = p /\ s = side) PROVE HeightAt(t, h, p, side, a, s) <=> EvenAt(t, h, a, s)
  <2>1. 0 + Black(t, a) = Black(t, a) /\ Lack(p, side, a, s) = 0
    BY <1>2 DEF Black, Lack
  <2> QED
    BY <2>1 DEF HeightAt, EvenAt
<1>3. \A a \in L, s \in Sides : HeightAt(t, h, p, side, a, s)
                                  <=> IF a = p /\ s = side THEN ShortAt(t, h, a, s) ELSE EvenAt(t, h, a, s)
  BY <1>1, <1>2
<1> QED
  BY <1>3 DEF Heights

\* No red node has a red child.
NoReds(t, L) == \A a \in L, s \in Sides : ~(t.red[a] /\ t.red[t.kid[s][a]])

\* The other nodes, when up has come up in the place of n.
Apart(t, L, n, up) ==
    \A a \in L, s \in Sides :
        a # n /\ a # up => IF t.kid[s][a] = n THEN ~(t.red[a] /\ t.red[up])
                           ELSE ~(t.red[a] /\ t.red[t.kid[s][a]])

\* A rotation of two nodes that may change places makes no red node the child of a red one.
LEMMA RotateReds ==
    ASSUME NEW t, NEW r, NEW L, NEW side \in Sides, NEW n, NEW up, NEW inner,
           KidsTurned(t, r, L, side, n, up, inner), r.red = t.red,
           ~(t.red[up] /\ t.red[n]),
           ~(t.red[n] /\ t.red[t.kid[side][n]]), ~(t.red[n] /\ t.red[inner]),
           ~(t.red[up] /\ t.red[t.kid[Other(side)][up]]),
           Apart(t, L, n, up)
    PROVE  NoReds(r, L)
<1> SUFFICES ASSUME NEW a \in L, NEW s \in Sides, r.red[a], r.red[r.kid[s][a]] PROVE FALSE
  BY DEF NoReds
<1>1. s = side \/ s = Other(side)
  BY SidesAre
<1>2. CASE a = n
  <2>1. r.kid[side][n] = t.kid[side][n] /\ r.kid[Other(side)][n] = inner
    BY DEF KidsTurned
  <2> QED
    BY <1>1, <1>2, <2>1
<1>3. CASE a = up
  <2>1. r.kid[side][up] = n /\ r.kid[Other(side)][up] = t.kid[Other(side)][up]
    BY DEF KidsTurned
  <2> QED
    BY <1>1, <1>3, <2>1
<1>4. CASE a # n /\ a # up
  <2>1. \/ t.kid[s][a] = n /\ r.kid[s][a] = up
        \/ t.kid[s][a] # n /\ t.kid[s][a] # up /\ r.kid[s][a] = t.kid[s][a]
    BY <1>4 DEF KidsTurned
  <2> QED
    BY <1>4, <2>1 DEF Apart
<1> QED
  BY <1>2, <1>3, <1>4

\* The paths through n, the child of p on side, lack a black node; w is its sibling.
Siblings(t, n, p, side, w, sub, L, pos, key) ==
    /\ Kept(t, sub, L, pos, key)
    /\ side \in Sides /\ n \in Cells /\ p \in L /\ w \in L
    /\ n # t.root /\ ~t.red[n] /\ t.parent[n] = p
    /\ t.kid[side][p] = n /\ t.kid[Other(side)][p] = w
    /\ ~t.red[t.root] /\ NoReds(t, L)
    /\ \E h : Heights(t, L, h, p, side)

\* The heights around n.
SibHeights(t, h, n, p, w, near, far) ==
    /\ h[n] \in Nat /\ h[p] \in Nat /\ h[w] \in Nat /\ h[near] \in Nat /\ h[far] \in Nat
    /\ h[w] = h[n] + 1 /\ h[p] = h[w] + Black(t, p)
    /\ h[w] = h[near] + Black(t, w) /\ h[w] = h[far] + Black(t, w)

\* The nodes around a lack are all apart, and as high as this.
LEMMA SiblingsAre ==
    ASSUME NEW t, NEW n, NEW p, NEW side, NEW w, NEW sub, NEW L, NEW pos, NEW key,
           Siblings(t, n, p, side, w, sub, L, pos, key),
           NEW o, o = Other(side), NEW near, near = t.kid[side][w], NEW far, far = t.kid[o][w]
    PROVE  /\ o \in Sides /\ o # side /\ Other(o) = side /\ \A s \in Sides : s = side \/ s = o
           /\ L \subseteq Nodes /\ p \in Cells /\ w \in Cells /\ near \in Cells /\ far \in Cells
           /\ p # Sentinel /\ w # Sentinel
           /\ n # p /\ n # w /\ p # w /\ near # w /\ far # w /\ near # p /\ far # p
           /\ (n # Sentinel => n # near /\ n # far) /\ (near # Sentinel => near # far)
           /\ w # t.root /\ near # t.root /\ far # t.root
           /\ SideOf(t, n) = side /\ t.parent[w] = p /\ SideOf(t, w) = o
           /\ t.root \in L /\ t.root \in Cells
           /\ \A h : Heights(t, L, h, p, side) => SibHeights(t, h, n, p, w, near, far)
<1>1. /\ Kept(t, sub, L, pos, key) /\ side \in Sides /\ n \in Cells /\ p \in L /\ w \in L
      /\ n # t.root /\ t.parent[n] = p /\ t.kid[side][p] = n /\ t.kid[o][p] = w
  BY DEF Siblings
<1>2. o \in Sides /\ o # side /\ Other(o) = side /\ \A s \in Sides : s = side \/ s = o
  BY <1>1, SidesAre
<1>3. /\ L \subseteq Nodes /\ p \in Cells /\ w \in Cells /\ near \in Cells /\ far \in Cells
      /\ p # Sentinel /\ w # Sentinel /\ n # p /\ p # w /\ near # w /\ far # w /\ t.root \in L
      /\ w # t.root /\ near # t.root /\ far # t.root
  <2>1. L \subseteq Nodes /\ p \in Cells /\ w \in Cells /\ p # Sentinel /\ w # Sentinel /\ t.root \in L
    BY <1>1, KeptNode
  <2>2. near \in Cells /\ near # w /\ near # t.root
    BY <1>1, KeptNode
  <2>3. far \in Cells /\ far # w /\ far # t.root
    BY <1>1, <1>2, KeptNode
  <2>4. n # p
    BY <1>1, KeptNode
  <2>5. p # w /\ w # t.root
    BY <1>1, <1>2, KeptNode
  <2> QED
    BY <2>1, <2>2, <2>3, <2>4, <2>5
<1>4. t.parent[w] = p /\ SideOf(t, w) = o /\ n # w
  BY <1>1, <1>2, <1>3, KeptNode
<1>5. t.root \in Cells
  BY <1>3, CellsAre
<1>6. near # Sentinel => near # far /\ near # n /\ near # p
  <2>1. near # Sentinel => near # far /\ near \in L /\ t.parent[near] = w
    BY <1>1, <1>2, <1>3, KeptNode
  <2>2. near # Sentinel => near # n
    BY <1>1, <1>3, <2>1
  <2>3. near # p
    <3> SUFFICES ASSUME near = p PROVE FALSE
      OBVIOUS
    <3>1. Shaped(t, sub)
      BY <1>1 DEF Kept
    <3>2. Cardinality(sub[near]) < Cardinality(sub[w]) /\ Cardinality(sub[w]) < Cardinality(sub[p])
      BY <1>1, <1>2, <1>3, <3>1, KidSmaller
    <3>3. Cardinality(sub[near]) \in Nat /\ Cardinality(sub[w]) \in Nat
      BY <1>1, <1>3, <3>1, CellsAre, SubFinite DEF Shaped
    <3> QED
      BY <3>2, <3>3
  <2> QED
    BY <2>1, <2>2, <2>3
<1>7. far # Sentinel => far # n /\ far # p
  <2>1. far # Sentinel => far \in L /\ t.parent[far] = w
    BY <1>1, <1>2, <1>3, KeptNode
  <2>2. far # Sentinel => far # n
    BY <1>1, <1>3, <2>1, CellsAre
  <2>3. far # p
    <3> SUFFICES ASSUME far = p PROVE FALSE
      OBVIOUS
    <3>1. Shaped(t, sub)
      BY <1>1 DEF Kept
    <3>2. Cardinality(sub[far]) < Cardinality(sub[w]) /\ Cardinality(sub[w]) < Cardinality(sub[p])
      BY <1>1, <1>2, <1>3, <3>1, KidSmaller
    <3>3. Cardinality(sub[far]) \in Nat /\ Cardinality(sub[w]) \in Nat
      BY <1>1, <1>3, <3>1, CellsAre, SubFinite DEF Shaped
    <3> QED
      BY <3>2, <3>3
  <2> QED
    BY <2>2, <2>3
<1>8. SideOf(t, n) = side
  <2>1. CASE n # Sentinel
    BY <1>1, <2>1, KeptNode
  <2>2. CASE n = Sentinel /\ side = "left"
    BY <1>1, <2>2 DEF SideOf
  <2>3. CASE n = Sentinel /\ side = "right"
    <3>1. o = "left"
      BY <1>2, <2>3, SidesAre
    <3> QED
      BY <1>1, <1>3, <2>3, <3>1 DEF SideOf
  <2> QED
    BY <1>1, <2>1, <2>2, <2>3, SidesAre
<1>9. ASSUME NEW h, Heights(t, L, h, p, side) PROVE SibHeights(t, h, n, p, w, near, far)
  <2>1. h \in [Cells -> Nat]
    BY <1>9 DEF Heights
  <2>2. \A a \in L, s \in Sides : IF a = p /\ s = side THEN ShortAt(t, h, a, s) ELSE EvenAt(t, h, a, s)
    BY <1>9, ShortIs
  <2>3. ShortAt(t, h, p, side) /\ EvenAt(t, h, p, o) /\ EvenAt(t, h, w, side) /\ EvenAt(t, h, w, o)
    BY <1>1, <1>2, <1>3, <2>2
  <2>4. h[n] \in Nat /\ h[p] \in Nat /\ h[w] \in Nat /\ h[near] \in Nat /\ h[far] \in Nat
    BY <1>1, <1>3, <2>1
  <2>5. /\ h[p] = h[n] + (1 + Black(t, p)) /\ h[p] = h[w] + Black(t, p)
        /\ h[w] = h[near] + Black(t, w) /\ h[w] = h[far] + Black(t, w)
    BY <1>1, <2>3 DEF ShortAt, EvenAt
  <2>6. h[w] = h[n] + 1
    BY <2>4, <2>5 DEF Black
  <2> QED
    BY <2>4, <2>5, <2>6 DEF SibHeights
<1> QED
  BY <1>1, <1>2, <1>3, <1>4, <1>5, <1>6, <1>7, <1>8, <1>9, CellsAre

\* The sibling is red: it takes the place of the parent, and the next sibling is black.
SiblingUp(t, q, w, p) == q = Paint(Paint(t, w, FALSE), p, TRUE)

\* A red sibling goes up, and n has a black one.
LEMMA SiblingRed ==
    ASSUME NEW t, NEW n, NEW p, NEW side, NEW w, NEW sub, NEW L, NEW pos, NEW key,
           Siblings(t, n, p, side, w, sub, L, pos, key), t.red[w],
           NEW q, SiblingUp(t, q, w, p), NEW r, r = Rotate(q, side, p),
           NEW near, near = t.kid[side][w],
           NEW sub2, sub2 = TurnedSub(q, sub, side, p, w, near)
    PROVE  Siblings(r, n, p, side, near, sub2, L, pos, key) /\ ~r.red[near]
<1>1. /\ Kept(t, sub, L, pos, key) /\ side \in Sides /\ n \in Cells /\ p \in L /\ w \in L
      /\ n # t.root /\ ~t.red[n] /\ t.parent[n] = p /\ t.kid[side][p] = n /\ t.kid[Other(side)][p] = w
      /\ ~t.red[t.root] /\ NoReds(t, L)
  BY DEF Siblings
<1>2. PICK o : o = Other(side)
  OBVIOUS
<1>3. PICK far : far = t.kid[o][w]
  OBVIOUS
<1>4. /\ o \in Sides /\ o # side /\ Other(o) = side /\ \A s \in Sides : s = side \/ s = o
      /\ L \subseteq Nodes /\ p \in Cells /\ w \in Cells /\ near \in Cells /\ far \in Cells
      /\ p # Sentinel /\ w # Sentinel
      /\ n # p /\ n # w /\ p # w /\ near # w /\ far # w /\ near # p /\ far # p
      /\ w # t.root /\ near # t.root /\ far # t.root
      /\ t.root \in L /\ t.root \in Cells
  BY <1>2, <1>3, SiblingsAre
<1>5. PICK h : Heights(t, L, h, p, side) /\ SibHeights(t, h, n, p, w, near, far)
  <2>1. PICK h : Heights(t, L, h, p, side)
    BY DEF Siblings
  <2>2. SibHeights(t, h, n, p, w, near, far)
    BY <1>2, <1>3, <2>1, SiblingsAre
  <2> QED
    BY <2>1, <2>2
<1>6. ~t.red[p] /\ ~t.red[near] /\ ~t.red[far]
  BY <1>1, <1>2, <1>3, <1>4 DEF NoReds
<1>7. PICK q1 : q1 = Paint(t, w, FALSE)
  OBVIOUS
<1>8. Painted(t, q1, w, FALSE) /\ Kept(q1, sub, L, pos, key)
  BY <1>1, <1>7, PaintKept
<1>9. q = Paint(q1, p, TRUE)
  BY <1>7 DEF SiblingUp
<1>10. Painted(q1, q, p, TRUE) /\ Kept(q, sub, L, pos, key)
  BY <1>1, <1>8, <1>9, PaintKept
<1>11. /\ q.root = t.root /\ q.kid = t.kid /\ q.parent = t.parent
       /\ ~q.red[w] /\ q.red[p] /\ \A c \in Cells : c = w \/ c = p \/ q.red[c] = t.red[c]
  <2>1. q.root = t.root /\ q.kid = t.kid /\ q.parent = t.parent
    BY <1>8, <1>10 DEF Painted
  <2> QED
    BY <1>4, <1>8, <1>10, <2>1 DEF Painted
<1>12. /\ Kept(r, sub2, L, pos, key) /\ r.red = q.red
       /\ Turned(q, r, side, p, w, near)
       /\ KidsTurned(q, r, L, side, p, w, near)
  <2>1. q.kid[Other(side)][p] = w /\ q.kid[side][w] = near
    BY <1>1, <1>11
  <2> QED
    BY <1>1, <1>4, <1>10, <2>1, RotateKept
<1>13. /\ r.kid[side][p] = n /\ r.kid[o][p] = near /\ r.kid[side][w] = p
       /\ q.kid[side][p] = n /\ q.kid[o][w] = far
  <2>1. q.kid[side][p] = n /\ q.kid[o][w] = far
    BY <1>1, <1>3, <1>11
  <2> QED
    BY <1>2, <1>12, <2>1 DEF KidsTurned
<1>14. h \in [Cells -> Nat] /\ h[Sentinel] = 0
       /\ \A a \in L, s \in Sides : IF a = p /\ s = side THEN ShortAt(t, h, a, s) ELSE EvenAt(t, h, a, s)
  BY <1>5, ShortIs
<1>15. near # Sentinel
  <2>1. Black(t, w) = 0
    BY DEF Black
  <2>2. h[near] = h[n] + 1 /\ h[n] \in Nat
    BY <1>5, <2>1 DEF SibHeights
  <2> QED
    BY <1>14, <2>2
<1>16. NoReds(r, L)
  <2>1. Apart(q, L, p, w)
    <3> SUFFICES ASSUME NEW a \in L, NEW s \in Sides, a # p, a # w, q.kid[s][a] # p, q.red[a], q.red[q.kid[s][a]]
                 PROVE  FALSE
      BY <1>11 DEF Apart
    <3>1. q.kid[s][a] = t.kid[s][a] /\ a \in Cells /\ t.kid[s][a] \in Cells
      BY <1>1, <1>11, KeptNode
    <3>2. t.red[a] /\ t.kid[s][a] # w
      BY <1>11, <3>1
    <3>3. t.red[t.kid[s][a]]
      BY <1>11, <3>1, <3>2
    <3> QED
      BY <1>1, <3>2, <3>3 DEF NoReds
  <2>2. ~q.red[w] /\ ~q.red[n] /\ ~q.red[near]
    BY <1>1, <1>4, <1>6, <1>11
  <2>3. /\ ~(q.red[w] /\ q.red[p]) /\ ~(q.red[p] /\ q.red[q.kid[side][p]]) /\ ~(q.red[p] /\ q.red[near])
        /\ ~(q.red[w] /\ q.red[q.kid[Other(side)][w]])
    BY <1>13, <2>2
  <2> QED
    BY <1>1, <1>12, <2>1, <2>3, RotateReds
<1>17. ~r.red[r.root] /\ n # r.root /\ r.parent[n] = p /\ near \in L /\ ~r.red[n] /\ ~r.red[near]
  <2>1. r.root = (IF p = t.root THEN w ELSE t.root)
    BY <1>11, <1>12 DEF Turned
  <2>2. ~r.red[r.root]
    BY <1>1, <1>4, <1>11, <1>12, <2>1
  <2>3. near \in L /\ n # r.root
    BY <1>1, <1>4, <1>12, <1>13, <1>15, KeptNode
  <2>4. ~r.red[n] /\ ~r.red[near]
    BY <1>1, <1>4, <1>6, <1>11, <1>12
  <2>5. n # near
    <3>1. n # Sentinel => n # near
      BY <1>2, <1>3, SiblingsAre
    <3> QED
      BY <1>15, <3>1
  <2>6. r.parent[n] = p
    <3>1. \A c \in Cells : c # p /\ c # w /\ (c # near \/ near = Sentinel) => r.parent[c] = q.parent[c]
      BY <1>12 DEF Turned
    <3> QED
      BY <1>1, <1>4, <1>11, <2>5, <3>1
  <2> QED
    BY <2>2, <2>3, <2>4, <2>6
<1>18. \E f : Heights(r, L, f, p, side)
  <2>1. ASSUME NEW a \in L, NEW s \in Sides, a # p, a # w PROVE HeightAt(q, h, p, side, a, s)
    <3>1. EvenAt(t, h, a, s)
      BY <1>14, <2>1
    <3>2. a \in Cells /\ Black(q, a) = Black(t, a) /\ q.kid[s][a] = t.kid[s][a]
      <4>1. a \in Cells
        BY <1>1, KeptNode
      <4> QED
        BY <1>11, <2>1, <4>1 DEF Black
    <3>3. Lack(p, side, a, s) = 0 /\ 0 + Black(t, a) = Black(t, a)
      BY <2>1 DEF Lack, Black
    <3> QED
      BY <3>1, <3>2, <3>3 DEF EvenAt, HeightAt
  <2>2. Turning(q, h, p, side, side, p, w, near)
    <3>1. Black(t, w) = 0 /\ Black(t, p) = 1 /\ Black(q, p) = 0 /\ Black(q, w) = 1
      BY <1>6, <1>11 DEF Black
    <3>2. /\ Lack(p, side, p, side) = 1 /\ Lack(p, side, p, Other(side)) = 0
          /\ Lack(p, side, w, side) = 0 /\ Lack(p, side, w, Other(side)) = 0
      BY <1>2, <1>4 DEF Lack
    <3>3. /\ h[w] = h[n] + (1 + 0) /\ h[w] = h[near] + (0 + 0)
          /\ h[p] = h[w] + (0 + 1) /\ h[p] = h[far] + (0 + 1)
      BY <1>5, <3>1 DEF SibHeights
    <3>4. q.kid[side][p] = n /\ q.kid[Other(side)][w] = far
      BY <1>2, <1>13
    <3> QED
      BY <3>1, <3>2, <3>3, <3>4 DEF Turning
  <2>3. \A a \in L, s \in Sides : q.kid[s][a] \in Cells
    BY <1>10, KidsAre
  <2>4. Heights(r, L, [h EXCEPT ![p] = h[w], ![w] = h[p]], p, side)
    BY <1>1, <1>4, <1>12, <1>14, <2>1, <2>2, <2>3, RotateHeights
  <2> QED
    BY <2>4
<1> QED
  BY <1>1, <1>2, <1>12, <1>13, <1>16, <1>17, <1>18 DEF Siblings

\* The near nephew, when there is one, and its inner child.
LEMMA NephewIs ==
    ASSUME NEW t, NEW n, NEW p, NEW side, NEW w, NEW sub, NEW L, NEW pos, NEW key,
           Siblings(t, n, p, side, w, sub, L, pos, key),
           NEW o, o = Other(side), NEW near, near = t.kid[side][w], near # Sentinel,
           NEW inner, inner = t.kid[o][near]
    PROVE  /\ near \in L /\ near # n /\ near # t.kid[o][w]
           /\ inner \in Cells /\ inner # near /\ inner # w /\ (n = inner => n = Sentinel)
           /\ t.kid[side][near] \in Cells
<1>1. /\ Kept(t, sub, L, pos, key) /\ w \in L /\ t.parent[n] = p
      /\ o \in Sides /\ side \in Sides
  BY SidesAre DEF Siblings
<1>2. near # p /\ near # n /\ near # t.kid[o][w] /\ t.parent[w] = p /\ w \in Cells /\ w # Sentinel
  BY SiblingsAre
<1>3. near \in L
  BY <1>1, KidKept
<1>4. t.kid[side][near] \in Cells /\ t.kid[o][near] \in Cells /\ t.kid[o][near] # near
  BY <1>1, <1>3, KidKept
<1>5. t.kid[o][near] # Sentinel => t.parent[t.kid[o][near]] = near
  BY <1>1, <1>3, KidKept
<1> QED
  BY <1>1, <1>2, <1>3, <1>4, <1>5

\* The near nephew is red and the far one black: the sibling and the near nephew
\* change places.
NephewUp(t, q, near, w) == q = Paint(Paint(t, near, FALSE), w, TRUE)
NephewTurned(t, q, r, side, o, w, near, sub, sub2) ==
    /\ o = Other(side) /\ near = t.kid[side][w] /\ t.red[near] /\ ~t.red[t.kid[o][w]]
    /\ NephewUp(t, q, near, w) /\ r = Rotate(q, o, w)
    /\ sub2 = TurnedSub(q, sub, o, w, near, q.kid[o][near])

\* The heights around the near nephew, with what their nodes will add.
LEMMA NothingMore == \A x \in Nat : x + 0 = x
OBVIOUS

LEMMA SameSums == \A x, y \in Nat : x + 1 = y + 1 => x = y
OBVIOUS

\* The red nephew on n's side goes up, and the other is red.
LEMMA NephewTurn ==
    ASSUME NEW t, NEW n, NEW p, NEW side, NEW w, NEW sub, NEW L, NEW pos, NEW key,
           Siblings(t, n, p, side, w, sub, L, pos, key), ~t.red[w],
           NEW o, NEW near, NEW q, NEW r, NEW sub2, NephewTurned(t, q, r, side, o, w, near, sub, sub2)
    PROVE  /\ Siblings(r, n, p, side, near, sub2, L, pos, key)
           /\ ~r.red[near] /\ r.red[r.kid[o][near]] /\ r.kid[o][near] = w
<1> SUFFICES ASSUME o = Other(side), near = t.kid[side][w], t.red[near], ~t.red[t.kid[o][w]]
             PROVE  /\ Siblings(r, n, p, side, near, sub2, L, pos, key)
                    /\ ~r.red[near] /\ r.red[r.kid[o][near]] /\ r.kid[o][near] = w
  BY DEF NephewTurned
<1>0. NephewUp(t, q, near, w) /\ r = Rotate(q, o, w) /\ sub2 = TurnedSub(q, sub, o, w, near, q.kid[o][near])
  BY DEF NephewTurned
<1>1. /\ Kept(t, sub, L, pos, key) /\ side \in Sides /\ n \in Cells /\ p \in L /\ w \in L
      /\ n # t.root /\ ~t.red[n] /\ t.parent[n] = p /\ t.kid[side][p] = n /\ t.kid[o][p] = w
      /\ ~t.red[t.root] /\ NoReds(t, L) /\ ~t.red[Sentinel]
  BY DEF Siblings, Kept
<1>2. PICK far : far = t.kid[o][w]
  OBVIOUS
<1>3. PICK inner : inner = t.kid[o][near]
  OBVIOUS
<1>4. /\ o \in Sides /\ o # side /\ Other(o) = side /\ \A s \in Sides : s = side \/ s = o
      /\ L \subseteq Nodes /\ p \in Cells /\ w \in Cells /\ near \in Cells /\ far \in Cells
      /\ p # Sentinel /\ w # Sentinel
      /\ n # p /\ n # w /\ p # w /\ near # w /\ far # w /\ near # p /\ far # p
      /\ w # t.root /\ near # t.root /\ far # t.root
      /\ t.root \in L /\ t.root \in Cells /\ t.parent[w] = p /\ SideOf(t, w) = o
      /\ (n # Sentinel => n # near /\ n # far) /\ (near # Sentinel => near # far)
  BY <1>2, SiblingsAre
<1>5. PICK h : Heights(t, L, h, p, side) /\ SibHeights(t, h, n, p, w, near, far)
  <2>1. PICK h : Heights(t, L, h, p, side)
    BY DEF Siblings
  <2>2. SibHeights(t, h, n, p, w, near, far)
    BY <1>2, <2>1, SiblingsAre
  <2> QED
    BY <2>1, <2>2
<1>6. near # Sentinel /\ near \in L /\ ~t.red[far] /\ near # n /\ near # far
  <2>1. near # Sentinel
    BY <1>1
  <2> QED
    BY <1>2, <1>3, <2>1, NephewIs
<1>7. inner \in Cells /\ inner # near /\ inner # w /\ ~t.red[inner]
  <2>1. inner \in Cells /\ inner # near /\ inner # w
    BY <1>3, <1>6, NephewIs
  <2> QED
    BY <1>1, <1>3, <1>4, <1>6, <2>1 DEF NoReds
<1>8. PICK q1 : q1 = Paint(t, near, FALSE)
  OBVIOUS
<1>9. Painted(t, q1, near, FALSE) /\ Kept(q1, sub, L, pos, key)
  BY <1>1, <1>6, <1>8, PaintKept
<1>10. q = Paint(q1, w, TRUE)
  BY <1>0, <1>8 DEF NephewUp
<1>11. Painted(q1, q, w, TRUE) /\ Kept(q, sub, L, pos, key)
  BY <1>1, <1>9, <1>10, PaintKept
<1>12. /\ q.root = t.root /\ q.kid = t.kid /\ q.parent = t.parent
       /\ q.red[w] /\ ~q.red[near] /\ \A c \in Cells : c = w \/ c = near \/ q.red[c] = t.red[c]
  <2>1. q.root = t.root /\ q.kid = t.kid /\ q.parent = t.parent
    BY <1>9, <1>11 DEF Painted
  <2> QED
    BY <1>4, <1>9, <1>11, <2>1 DEF Painted
<1>13. /\ Kept(r, sub2, L, pos, key) /\ r.red = q.red
       /\ Turned(q, r, o, w, near, inner)
       /\ KidsTurned(q, r, L, o, w, near, inner)
  <2>1. q.kid[Other(o)][w] = near /\ q.kid[o][near] = inner
    BY <1>3, <1>4, <1>12
  <2> QED
    BY <1>0, <1>1, <1>4, <1>6, <1>11, <2>1, RotateKept
<1>14. /\ r.kid[o][near] = w /\ q.kid[o][w] = far /\ q.kid[side][near] = t.kid[side][near]
  <2>1. r.kid[o][near] = w
    BY <1>13 DEF KidsTurned
  <2> QED
    BY <1>2, <1>12, <2>1
<1>15. r.kid[side][p] = n /\ r.kid[o][p] = near
  <2>1. q.kid[side][p] = n /\ q.kid[o][p] = w
    BY <1>1, <1>12
  <2>2. \A s \in Sides : \/ q.kid[s][p] = w /\ r.kid[s][p] = near
                         \/ q.kid[s][p] # w /\ q.kid[s][p] # near /\ r.kid[s][p] = q.kid[s][p]
    <3>1. p \in L /\ p # w /\ p # near
      BY <1>1, <1>4
    <3> QED
      BY <1>13, <3>1 DEF KidsTurned
  <2>3. r.kid[side][p] = n
    BY <1>1, <1>4, <2>1, <2>2
  <2>4. r.kid[o][p] = near
    BY <1>4, <2>1, <2>2
  <2> QED
    BY <2>3, <2>4
<1>16. NoReds(r, L)
  <2>1. Apart(q, L, w, near)
    <3> SUFFICES ASSUME NEW a \in L, NEW s \in Sides, a # w, a # near, q.kid[s][a] # w, q.red[a], q.red[q.kid[s][a]]
                 PROVE  FALSE
      BY <1>12 DEF Apart
    <3>1. q.kid[s][a] = t.kid[s][a] /\ a \in Cells /\ t.kid[s][a] \in Cells
      BY <1>1, <1>12, KeptNode
    <3>2. t.red[a] /\ t.kid[s][a] # near
      BY <1>12, <3>1
    <3>3. t.red[t.kid[s][a]]
      BY <1>12, <3>1, <3>2
    <3> QED
      BY <1>1, <3>2, <3>3 DEF NoReds
  <2>2. ~q.red[near] /\ ~q.red[far] /\ ~q.red[inner]
    BY <1>4, <1>6, <1>7, <1>12
  <2>3. /\ ~(q.red[near] /\ q.red[w]) /\ ~(q.red[w] /\ q.red[q.kid[o][w]]) /\ ~(q.red[w] /\ q.red[inner])
        /\ ~(q.red[near] /\ q.red[q.kid[Other(o)][near]])
    BY <1>14, <2>2
  <2> QED
    BY <1>4, <1>13, <2>1, <2>3, RotateReds
<1>17. ~r.red[r.root] /\ n # r.root /\ r.parent[n] = p /\ ~r.red[n] /\ ~r.red[near] /\ r.red[w]
  <2>1. r.root = t.root
    BY <1>4, <1>12, <1>13 DEF Turned
  <2>2. ~r.red[r.root]
    BY <1>1, <1>4, <1>12, <1>13, <2>1
  <2>3. ~r.red[n] /\ ~r.red[near] /\ r.red[w]
    BY <1>1, <1>4, <1>6, <1>12, <1>13
  <2>4. n # inner \/ inner = Sentinel
    BY <1>3, <1>6, NephewIs
  <2>5. r.parent[n] = p
    <3>1. \A c \in Cells : c # w /\ c # near /\ (c # inner \/ inner = Sentinel) => r.parent[c] = q.parent[c]
      BY <1>13 DEF Turned
    <3> QED
      BY <1>1, <1>4, <1>6, <1>12, <2>4, <3>1
  <2> QED
    BY <1>1, <2>1, <2>2, <2>3, <2>5
<1>18. h \in [Cells -> Nat] /\ h[Sentinel] = 0
       /\ \A a \in L, s \in Sides : IF a = p /\ s = side THEN ShortAt(t, h, a, s) ELSE EvenAt(t, h, a, s)
  BY <1>5, ShortIs
<1>19. \E f : Heights(r, L, f, p, side)
  <2>1. ASSUME NEW a \in L, NEW s \in Sides, a # w, a # near PROVE HeightAt(q, h, p, side, a, s)
    <3>1. a \in Cells
      BY <1>1, KeptNode
    <3>2. Black(q, a) = Black(t, a) /\ q.kid[s][a] = t.kid[s][a]
      BY <1>12, <2>1, <3>1 DEF Black
    <3>3. HeightAt(t, h, p, side, a, s)
      BY <1>5 DEF Heights
    <3> QED
      BY <3>2, <3>3 DEF HeightAt
  <2>2. Turning(q, h, p, side, o, w, near, inner)
    <3>1. Black(t, w) = 1 /\ Black(t, near) = 0 /\ Black(q, w) = 0 /\ Black(q, near) = 1
      BY <1>12 DEF Black
    <3>2. /\ Lack(p, side, w, o) = 0 /\ Lack(p, side, w, Other(o)) = 0
          /\ Lack(p, side, near, o) = 0 /\ Lack(p, side, near, Other(o)) = 0
      BY <1>4 DEF Lack
    <3>3. h[near] \in Nat /\ h[w] \in Nat /\ h[far] \in Nat /\ h[w] = h[near] + 1 /\ h[w] = h[far] + 1
      BY <1>5, <3>1 DEF SibHeights
    <3>4. EvenAt(t, h, near, o) /\ EvenAt(t, h, near, side)
      BY <1>1, <1>4, <1>6, <1>18
    <3>5. /\ h[inner] \in Nat /\ h[t.kid[side][near]] \in Nat
      <4>1. t.kid[side][near] \in Cells
        BY <1>3, <1>6, NephewIs
      <4> QED
        BY <1>7, <1>18, <4>1
    <3>6. h[near] = h[inner] /\ h[near] = h[t.kid[side][near]]
      <4>1. h[near] = h[inner] + 0 /\ h[near] = h[t.kid[side][near]] + 0
        BY <1>3, <3>1, <3>4, Zenon DEF EvenAt
      <4> QED
        BY <3>5, <4>1, NothingMore, Zenon
    <3>7. /\ h[near] = h[far] + (0 + 0) /\ h[near] = h[inner] + (0 + 0)
          /\ h[w] = h[near] + (0 + 1) /\ h[w] = h[t.kid[side][near]] + (0 + 1)
      <4>1. 0 + 0 = 0 /\ 0 + 1 = 1
        OBVIOUS
      <4>2. h[near] = h[far]
        BY <3>3, SameSums, Zenon
      <4> QED
        BY <3>3, <3>5, <3>6, <4>1, <4>2, NothingMore, Zenon
    <3>8. q.kid[o][w] = far /\ q.kid[Other(o)][near] = t.kid[side][near]
      BY <1>4, <1>14
    <3> QED
      BY <3>1, <3>2, <3>7, <3>8 DEF Turning
  <2>3. \A a \in L, s \in Sides : q.kid[s][a] \in Cells
    BY <1>11, KidsAre
  <2>4. Heights(r, L, [h EXCEPT ![w] = h[near], ![near] = h[w]], p, side)
    BY <1>1, <1>4, <1>13, <1>18, <2>1, <2>2, <2>3, RotateHeights, ZenonT(40)
  <2> QED
    BY <2>4
<1> QED
  BY <1>1, <1>4, <1>6, <1>13, <1>14, <1>15, <1>16, <1>17, <1>19 DEF Siblings

\* The paths through n lack a black node: n may be painted black, or the whole tree
\* is below it.
LackAt(t, n, sub, L, pos, key) ==
    /\ Kept(t, sub, L, pos, key) /\ n \in Cells /\ t.root \in L
    /\ \A a \in L, s \in Sides : t.red[a] /\ t.red[t.kid[s][a]] => a = n \/ t.kid[s][a] = n
    /\ t.red[t.root] => n = t.root
    /\ n = t.root => \E h : Even(t, L, h)
    /\ n # t.root => /\ t.parent[n] \in L /\ t.kid[SideOf(t, n)][t.parent[n]] = n
                     /\ \E h : Heights(t, L, h, t.parent[n], SideOf(t, n))
Settled(t, n) == n = t.root \/ t.red[n]

\* A lack that is not settled has a sibling.
LEMMA LackSiblings ==
    ASSUME NEW t, NEW n, NEW sub, NEW L, NEW pos, NEW key, LackAt(t, n, sub, L, pos, key), ~Settled(t, n),
           NEW p, p = t.parent[n], NEW side, side = SideOf(t, n), NEW w, w = t.kid[Other(side)][p]
    PROVE  Siblings(t, n, p, side, w, sub, L, pos, key)
<1>1. /\ Kept(t, sub, L, pos, key) /\ n \in Cells /\ n # t.root /\ ~t.red[n] /\ ~t.red[t.root]
      /\ p \in L /\ t.kid[side][p] = n
  BY DEF LackAt, Settled
<1>2. side \in Sides /\ Other(side) \in Sides /\ Other(side) # side /\ p \in Nodes
  <2>1. side \in Sides
    BY SideOfIs
  <2> QED
    BY <1>1, <2>1, SidesAre, KeptNode
<1>3. NoReds(t, L)
  <2>1. \A a \in L, s \in Sides : t.red[a] /\ t.red[t.kid[s][a]] => a = n \/ t.kid[s][a] = n
    BY DEF LackAt
  <2> QED
    BY <1>1, <2>1 DEF NoReds
<1>4. PICK h : Heights(t, L, h, p, side)
  BY <1>1 DEF LackAt
<1>5. w \in L
  <2>1. w \in Cells /\ (w # Sentinel => w \in L)
    BY <1>1, <1>2, KeptNode
  <2>2. h \in [Cells -> Nat] /\ h[Sentinel] = 0
        /\ \A a \in L, s \in Sides : IF a = p /\ s = side THEN ShortAt(t, h, a, s) ELSE EvenAt(t, h, a, s)
    BY <1>4, ShortIs
  <2>3. ShortAt(t, h, p, side) /\ EvenAt(t, h, p, Other(side))
    BY <1>1, <1>2, <2>2
  <2>4. h[p] = h[n] + (1 + Black(t, p)) /\ h[p] = h[w] + Black(t, p)
    BY <1>1, <2>3 DEF ShortAt, EvenAt
  <2>5. h[n] \in Nat /\ h[w] \in Nat
    BY <1>1, <2>1, <2>2
  <2>6. h[w] # 0
    BY <2>4, <2>5 DEF Black
  <2> QED
    BY <2>1, <2>2, <2>6
<1> QED
  BY <1>1, <1>2, <1>3, <1>4, <1>5 DEF Siblings

\* The nephews are black: the sibling turns red, and the paths through the parent lack
\* a black node.
SiblingDown(t, r, w) == r = Paint(t, w, TRUE)

\* Two black nephews: the sibling is painted red, and the parent's paths lack one.
LEMMA SiblingBlack ==
    ASSUME NEW t, NEW n, NEW p, NEW side, NEW w, NEW sub, NEW L, NEW pos, NEW key,
           Siblings(t, n, p, side, w, sub, L, pos, key), ~t.red[w],
           NEW near, near = t.kid[side][w], ~t.red[near], NEW far, far = t.kid[Other(side)][w], ~t.red[far],
           NEW r, SiblingDown(t, r, w)
    PROVE  LackAt(r, p, sub, L, pos, key)
<1>1. /\ Kept(t, sub, L, pos, key) /\ side \in Sides /\ n \in Cells /\ p \in L /\ w \in L
      /\ t.kid[side][p] = n /\ t.kid[Other(side)][p] = w
      /\ ~t.red[t.root] /\ NoReds(t, L)
  BY DEF Siblings
<1>2. PICK o : o = Other(side)
  OBVIOUS
<1>3. /\ o \in Sides /\ o # side /\ \A s \in Sides : s = side \/ s = o
      /\ L \subseteq Nodes /\ p \in Cells /\ w \in Cells /\ near \in Cells /\ far \in Cells
      /\ p # Sentinel /\ w # Sentinel
      /\ n # p /\ n # w /\ p # w /\ near # w /\ far # w /\ near # p /\ far # p
      /\ w # t.root /\ t.root \in L /\ t.root \in Cells /\ t.parent[w] = p /\ SideOf(t, w) = o
  BY <1>2, SiblingsAre
<1>4. PICK h : Heights(t, L, h, p, side) /\ SibHeights(t, h, n, p, w, near, far)
  <2>1. PICK h : Heights(t, L, h, p, side)
    BY DEF Siblings
  <2>2. SibHeights(t, h, n, p, w, near, far)
    BY <1>2, <2>1, SiblingsAre
  <2> QED
    BY <2>1, <2>2
<1>5. Painted(t, r, w, TRUE) /\ Kept(r, sub, L, pos, key)
  BY <1>1, PaintKept DEF SiblingDown
<1>6. /\ r.root = t.root /\ r.kid = t.kid /\ r.parent = t.parent
      /\ r.red[w] /\ \A c \in Cells : c # w => r.red[c] = t.red[c]
  BY <1>5 DEF Painted
<1>7. \A a \in L, s \in Sides : t.kid[s][a] = w => a = p /\ s = o
  BY <1>1, <1>3, KeptNode
<1>8. ASSUME NEW a \in L, NEW s \in Sides, r.red[a], r.red[r.kid[s][a]] PROVE a = p
  <2>1. a \in Cells /\ t.kid[s][a] \in Cells /\ r.kid[s][a] = t.kid[s][a]
    BY <1>1, <1>6, KeptNode
  <2>2. CASE t.kid[s][a] = w
    BY <1>7, <2>2
  <2>3. CASE a = w
    <3>1. t.kid[s][a] = near \/ t.kid[s][a] = far
      BY <1>2, <1>3, <2>3
    <3>2. ~r.red[near] /\ ~r.red[far]
      BY <1>3, <1>6
    <3> QED
      BY <1>8, <2>1, <3>1, <3>2
  <2>4. CASE t.kid[s][a] # w /\ a # w
    <3>1. t.red[a] /\ t.red[t.kid[s][a]]
      BY <1>6, <1>8, <2>1, <2>4
    <3> QED
      BY <1>1, <3>1 DEF NoReds
  <2> QED
    BY <2>2, <2>3, <2>4
<1>9. ~r.red[r.root]
  BY <1>1, <1>3, <1>6
<1>10. SideOf(r, p) = SideOf(t, p)
  BY <1>6 DEF SideOf
<1>11. p # t.root => /\ t.parent[p] \in L /\ t.kid[SideOf(t, p)][t.parent[p]] = p /\ t.parent[p] # p
                     /\ SideOf(t, p) \in Sides
  BY <1>1, KeptNode
<1>12. \A a \in L, s \in Sides : t.kid[s][a] = p => p # t.root /\ a = t.parent[p] /\ s = SideOf(t, p)
  <2>1. \A a \in L, s \in Sides : t.kid[s][a] = p => a = t.parent[p] /\ s = SideOf(t, p)
    BY <1>1, KeptNode
  <2>2. \A a \in L, s \in Sides : t.kid[s][a] # t.root
    BY <1>1, KeptNode
  <2> QED
    BY <2>1, <2>2
<1>13. h \in [Cells -> Nat] /\ h[Sentinel] = 0
       /\ \A a \in L, s \in Sides : IF a = p /\ s = side THEN ShortAt(t, h, a, s) ELSE EvenAt(t, h, a, s)
  BY <1>4, ShortIs
<1>14. /\ h[n] \in Nat /\ h[p] \in Nat /\ h[w] \in Nat /\ h[near] \in Nat /\ h[far] \in Nat
       /\ h[w] = h[n] + 1 /\ h[p] = h[w] + Black(t, p)
       /\ h[w] = h[near] + Black(t, w) /\ h[w] = h[far] + Black(t, w)
  BY <1>4 DEF SibHeights
<1>15. Black(t, w) = 1 /\ Black(r, w) = 0 /\ Black(r, p) = Black(t, p)
  BY <1>3, <1>6 DEF Black
<1>16. PICK f : f = [h EXCEPT ![w] = h[n], ![p] = h[n] + Black(t, p)]
  OBVIOUS
<1>17. /\ f \in [Cells -> Nat] /\ f[w] = h[n] /\ f[p] = h[n] + Black(t, p)
       /\ \A c \in Cells : c # w /\ c # p => f[c] = h[c]
  <2>1. h[n] + Black(t, p) \in Nat
    BY <1>14 DEF Black
  <2> QED
    BY <1>3, <1>13, <1>14, <1>16, <2>1
<1>18. f[Sentinel] = 0
  BY <1>3, <1>13, <1>17, CellsAre
<1>19. ASSUME NEW a \in L, NEW s \in Sides
       PROVE  IF t.kid[s][a] = p THEN ShortAt(r, f, a, s) ELSE EvenAt(r, f, a, s)
  <2>1. a \in Cells /\ t.kid[s][a] \in Cells /\ r.kid[s][a] = t.kid[s][a]
    BY <1>1, <1>6, KeptNode
  <2>2. CASE a = p
    <3>1. s = side \/ s = o
      BY <1>3
    <3>2. t.kid[s][p] # p
      BY <1>1, KeptNode
    <3>3. f[n] = h[n]
      BY <1>1, <1>3, <1>17
    <3>4. f[t.kid[s][p]] = h[n]
      BY <1>1, <1>2, <1>17, <3>1, <3>3
    <3>5. f[p] = f[t.kid[s][p]] + Black(r, p)
      BY <1>15, <1>17, <3>4
    <3> QED
      BY <2>1, <2>2, <3>2, <3>5 DEF EvenAt
  <2>3. CASE a = w
    <3>1. t.kid[s][w] = near \/ t.kid[s][w] = far
      BY <1>2, <1>3
    <3>2. f[t.kid[s][w]] = h[n]
      <4>1. f[near] = h[near] /\ f[far] = h[far] /\ h[near] = h[n] /\ h[far] = h[n]
        BY <1>3, <1>14, <1>15, <1>17
      <4> QED
        BY <3>1, <4>1
    <3>3. f[w] = f[t.kid[s][w]] + Black(r, w)
      <4>1. f[w] = h[n] /\ h[n] \in Nat /\ Black(r, w) = 0
        BY <1>14, <1>15, <1>17
      <4> QED
        BY <3>2, <4>1
    <3>4. t.kid[s][w] # p
      BY <1>3, <3>1
    <3> QED
      BY <2>1, <2>3, <3>3, <3>4 DEF EvenAt
  <2>4. CASE a # p /\ a # w
    <3>1. EvenAt(t, h, a, s)
      BY <1>13, <2>4
    <3>2. h[a] = h[t.kid[s][a]] + Black(t, a)
      BY <3>1 DEF EvenAt
    <3>3. f[a] = h[a] /\ Black(r, a) = Black(t, a) /\ t.kid[s][a] # w
      <4>1. t.kid[s][a] # w
        BY <1>7, <2>4
      <4> QED
        BY <1>6, <1>17, <2>1, <2>4, <4>1 DEF Black
    <3>4. CASE t.kid[s][a] = p
      <4>1. f[a] = f[p] + (1 + Black(r, a))
        <5>1. h[p] = f[p] + 1 /\ f[p] \in Nat
          BY <1>14, <1>17 DEF Black
        <5>2. f[a] = (f[p] + 1) + Black(r, a)
          BY <3>2, <3>3, <3>4, <5>1
        <5>3. Black(r, a) \in Int
          BY DEF Black
        <5> QED
          BY <5>1, <5>2, <5>3
      <4> QED
        BY <2>1, <3>4, <4>1 DEF ShortAt
    <3>5. CASE t.kid[s][a] # p
      <4>1. f[t.kid[s][a]] = h[t.kid[s][a]]
        BY <1>17, <2>1, <3>3, <3>5
      <4>2. f[a] = f[t.kid[s][a]] + Black(r, a)
        BY <3>2, <3>3, <4>1
      <4> QED
        BY <2>1, <3>5, <4>2 DEF EvenAt
    <3> QED
      BY <3>4, <3>5
  <2> QED
    BY <2>2, <2>3, <2>4
<1>20. ASSUME p = t.root PROVE Even(r, L, f)
  <2>1. \A a \in L, s \in Sides : EvenAt(r, f, a, s)
    BY <1>12, <1>19, <1>20
  <2> QED
    BY <1>3, <1>17, <1>18, <2>1, EvenIs
<1>21. ASSUME p # t.root PROVE Heights(r, L, f, t.parent[p], SideOf(t, p))
  <2>1. ASSUME NEW a \in L, NEW s \in Sides
        PROVE  IF a = t.parent[p] /\ s = SideOf(t, p) THEN ShortAt(r, f, a, s) ELSE EvenAt(r, f, a, s)
    <3>1. t.kid[s][a] = p <=> a = t.parent[p] /\ s = SideOf(t, p)
      BY <1>11, <1>12, <1>21
    <3> QED
      BY <1>19, <3>1
  <2> QED
    BY <1>17, <1>18, <2>1, ShortIs
<1>22. /\ p = r.root => \E g : Even(r, L, g)
       /\ p # r.root => /\ r.parent[p] \in L /\ r.kid[SideOf(r, p)][r.parent[p]] = p
                        /\ \E g : Heights(r, L, g, r.parent[p], SideOf(r, p))
  BY <1>6, <1>10, <1>11, <1>20, <1>21
<1> QED
  BY <1>3, <1>5, <1>6, <1>8, <1>9, <1>22 DEF LackAt

\* The far nephew is red: the sibling takes the place and the colour of the parent.
NephewOver(t, q, w, p, far) == q = Paint(Paint(Paint(t, w, t.red[p]), p, FALSE), far, FALSE)

\* A red far nephew: the parent is turned down, and nothing is lacking.
LEMMA NephewTop ==
    ASSUME NEW t, NEW n, NEW p, NEW side, NEW w, NEW sub, NEW L, NEW pos, NEW key,
           Siblings(t, n, p, side, w, sub, L, pos, key), ~t.red[w],
           NEW far, far = t.kid[Other(side)][w], t.red[far],
           NEW q, NephewOver(t, q, w, p, far), NEW r, r = Rotate(q, side, p),
           NEW sub2, sub2 = TurnedSub(q, sub, side, p, w, q.kid[side][w])
    PROVE  LackAt(r, r.root, sub2, L, pos, key)
<1>1. /\ Kept(t, sub, L, pos, key) /\ side \in Sides /\ n \in Cells /\ p \in L /\ w \in L
      /\ n # t.root /\ ~t.red[n] /\ t.parent[n] = p /\ t.kid[side][p] = n /\ t.kid[Other(side)][p] = w
      /\ ~t.red[t.root] /\ NoReds(t, L) /\ ~t.red[Sentinel]
  BY DEF Siblings, Kept
<1>2. PICK o : o = Other(side)
  OBVIOUS
<1>3. PICK near : near = t.kid[side][w]
  OBVIOUS
<1>4. /\ o \in Sides /\ o # side /\ Other(o) = side /\ \A s \in Sides : s = side \/ s = o
      /\ L \subseteq Nodes /\ p \in Cells /\ w \in Cells /\ near \in Cells /\ far \in Cells
      /\ p # Sentinel /\ w # Sentinel
      /\ n # p /\ n # w /\ p # w /\ near # w /\ far # w /\ near # p /\ far # p
      /\ w # t.root /\ near # t.root /\ far # t.root
      /\ t.root \in L /\ t.root \in Cells /\ t.parent[w] = p /\ SideOf(t, w) = o
      /\ (n # Sentinel => n # near /\ n # far) /\ (near # Sentinel => near # far)
  BY <1>2, <1>3, SiblingsAre
<1>5. far # Sentinel /\ far \in L /\ far # n /\ far # near
  <2>1. far # Sentinel
    BY <1>1
  <2>2. far \in L
    BY <1>1, <1>2, <1>4, <2>1, KeptNode
  <2> QED
    BY <1>4, <2>1, <2>2
<1>6. PICK q1 : q1 = Paint(t, w, t.red[p])
  OBVIOUS
<1>7. PICK q2 : q2 = Paint(q1, p, FALSE)
  OBVIOUS
<1>8. q = Paint(q2, far, FALSE)
  BY <1>6, <1>7 DEF NephewOver
<1>9. Painted(t, q1, w, t.red[p]) /\ Kept(q1, sub, L, pos, key)
  <2>1. t.red[p] \in BOOLEAN
    BY <1>1, <1>4, TreeFields DEF Kept, Shaped
  <2> QED
    BY <1>1, <1>6, <2>1, PaintKept
<1>10. Painted(q1, q2, p, FALSE) /\ Kept(q2, sub, L, pos, key)
  BY <1>1, <1>7, <1>9, PaintKept
<1>11. Painted(q2, q, far, FALSE) /\ Kept(q, sub, L, pos, key)
  BY <1>5, <1>8, <1>10, PaintKept
<1>12. /\ q.root = t.root /\ q.kid = t.kid /\ q.parent = t.parent
       /\ (q.red[w] <=> t.red[p]) /\ ~q.red[p] /\ ~q.red[far]
       /\ \A c \in Cells : c = w \/ c = p \/ c = far \/ (q.red[c] <=> t.red[c])
  <2>1. q.root = t.root /\ q.kid = t.kid /\ q.parent = t.parent
    BY <1>9, <1>10, <1>11 DEF Painted
  <2>2. ~q.red[far]
    BY <1>11 DEF Painted
  <2>3. ~q.red[p]
    BY <1>4, <1>10, <1>11 DEF Painted
  <2>4. q.red[w] = t.red[p]
    BY <1>4, <1>9, <1>10, <1>11 DEF Painted
  <2>5. \A c \in Cells : c = w \/ c = p \/ c = far \/ q.red[c] = t.red[c]
    BY <1>9, <1>10, <1>11 DEF Painted
  <2> QED
    BY <2>1, <2>2, <2>3, <2>4, <2>5
<1>13. /\ Kept(r, sub2, L, pos, key) /\ r.red = q.red
       /\ Turned(q, r, side, p, w, near)
       /\ KidsTurned(q, r, L, side, p, w, near)
  <2>1. q.kid[Other(side)][p] = w /\ q.kid[side][w] = near
    BY <1>1, <1>3, <1>12
  <2> QED
    BY <1>1, <1>4, <1>11, <2>1, RotateKept
<1>14. q.kid[side][p] = n /\ q.kid[Other(side)][w] = far
  BY <1>1, <1>12
<1>15. NoReds(r, L)
  <2>1. Apart(q, L, p, w)
    <3> SUFFICES ASSUME NEW a \in L, NEW s \in Sides, a # p, a # w, q.red[a],
                        q.red[IF q.kid[s][a] = p THEN w ELSE q.kid[s][a]]
                 PROVE  FALSE
      BY DEF Apart
    <3>1. q.kid[s][a] = t.kid[s][a] /\ a \in Cells /\ t.kid[s][a] \in Cells
      BY <1>1, <1>12, KeptNode
    <3>2. t.red[a]
      BY <1>12, <3>1
    <3>3. t.kid[s][a] # w
      BY <1>1, <1>4, KeptNode
    <3>4. CASE t.kid[s][a] = p
      <4>1. t.red[p]
        BY <1>12, <3>1, <3>4
      <4> QED
        BY <1>1, <3>2, <3>4, <4>1 DEF NoReds
    <3>5. CASE t.kid[s][a] # p
      <4>1. q.red[t.kid[s][a]]
        BY <3>1, <3>5
      <4>2. t.red[t.kid[s][a]]
        BY <1>12, <3>1, <3>3, <3>5, <4>1
      <4> QED
        BY <1>1, <3>2, <4>2 DEF NoReds
    <3> QED
      BY <3>4, <3>5
  <2>2. /\ ~(q.red[w] /\ q.red[p]) /\ ~(q.red[p] /\ q.red[q.kid[side][p]]) /\ ~(q.red[p] /\ q.red[near])
        /\ ~(q.red[w] /\ q.red[q.kid[Other(side)][w]])
    BY <1>12, <1>14
  <2> QED
    BY <1>1, <1>13, <2>1, <2>2, RotateReds
<1>16. ~r.red[r.root]
  <2>1. r.root = (IF p = t.root THEN w ELSE t.root)
    BY <1>12, <1>13 DEF Turned
  <2>2. CASE p = t.root
    BY <1>1, <1>12, <1>13, <2>1, <2>2
  <2>3. CASE p # t.root
    BY <1>1, <1>4, <1>12, <1>13, <2>1, <2>3
  <2> QED
    BY <2>2, <2>3
<1>17. PICK h : Heights(t, L, h, p, side) /\ SibHeights(t, h, n, p, w, near, far)
  <2>1. PICK h : Heights(t, L, h, p, side)
    BY DEF Siblings
  <2>2. SibHeights(t, h, n, p, w, near, far)
    BY <1>3, <2>1, SiblingsAre
  <2> QED
    BY <2>1, <2>2
<1>18. h \in [Cells -> Nat] /\ h[Sentinel] = 0
       /\ \A a \in L, s \in Sides : IF a = p /\ s = side THEN ShortAt(t, h, a, s) ELSE EvenAt(t, h, a, s)
  BY <1>17, ShortIs
<1>19. PICK f : f = [h EXCEPT ![far] = h[far] + 1]
  OBVIOUS
<1>20. /\ f \in [Cells -> Nat] /\ f[far] = h[far] + 1 /\ \A c \in Cells : c # far => f[c] = h[c]
  BY <1>4, <1>18, <1>19
<1>21. f[Sentinel] = 0
  BY <1>5, <1>18, <1>20, CellsAre
<1>22. ASSUME NEW a \in L, NEW s \in Sides, a # p, a # w PROVE EvenAt(q, f, a, s)
  <2>1. a \in Cells /\ t.kid[s][a] \in Cells /\ q.kid[s][a] = t.kid[s][a]
    BY <1>1, <1>12, KeptNode
  <2>2. h[a] = h[t.kid[s][a]] + Black(t, a)
    BY <1>18, <1>22 DEF EvenAt
  <2>3. t.kid[s][a] # far
    <3>1. t.parent[far] = w
      BY <1>1, <1>2, <1>4, <1>5, KeptNode
    <3>2. t.kid[s][a] # Sentinel => t.parent[t.kid[s][a]] = a
      BY <1>1, KeptNode
    <3> QED
      BY <1>5, <1>22, <3>1, <3>2
  <2>4. f[t.kid[s][a]] = h[t.kid[s][a]] /\ h[t.kid[s][a]] \in Nat
    BY <1>18, <1>20, <2>1, <2>3
  <2>5. CASE a = far
    <3>1. Black(t, a) = 0 /\ Black(q, a) = 1
      BY <1>12, <2>5 DEF Black
    <3>2. f[a] = h[a] + 1
      BY <1>20, <2>5
    <3>3. f[a] = f[t.kid[s][a]] + Black(q, a)
      BY <2>2, <2>4, <3>1, <3>2
    <3> QED
      BY <2>1, <3>3 DEF EvenAt
  <2>6. CASE a # far
    <3>1. Black(q, a) = Black(t, a) /\ f[a] = h[a]
      BY <1>12, <1>20, <1>22, <2>1, <2>6 DEF Black
    <3>2. f[a] = f[t.kid[s][a]] + Black(q, a)
      BY <2>2, <2>4, <3>1
    <3> QED
      BY <2>1, <3>2 DEF EvenAt
  <2> QED
    BY <2>5, <2>6
<1>23. EvenTurning(q, f, side, p, w, near)
  <2>1. Black(t, w) = 1 /\ Black(q, p) = 1 /\ Black(q, w) = Black(t, p)
    BY <1>12 DEF Black
  <2>2. /\ h[n] \in Nat /\ h[p] \in Nat /\ h[w] \in Nat /\ h[near] \in Nat /\ h[far] \in Nat
        /\ h[w] = h[n] + 1 /\ h[p] = h[w] + Black(t, p)
        /\ h[w] = h[near] + 1 /\ h[w] = h[far] + 1
    BY <1>17, <2>1 DEF SibHeights
  <2>3. f[n] = h[n] /\ f[p] = h[p] /\ f[w] = h[w] /\ f[near] = h[near] /\ f[far] = h[w]
    BY <1>1, <1>4, <1>5, <1>20, <2>2
  <2>4. /\ f[w] = f[n] + Black(q, p) /\ f[w] = f[near] + Black(q, p)
        /\ f[p] = f[w] + Black(q, w) /\ f[p] = f[far] + Black(q, w)
    BY <2>1, <2>2, <2>3
  <2> QED
    BY <1>14, <2>4 DEF EvenTurning
<1>24. \E g : Even(r, L, g)
  <2>1. \A a \in L, s \in Sides : a = p \/ a = w \/ EvenAt(q, f, a, s)
    BY <1>22
  <2> QED
    BY <1>1, <1>11, <1>13, <1>20, <1>21, <1>23, <2>1, RotateEven
<1>25. r.root \in L /\ r.root \in Cells
  <2>1. r.root \in L
    BY <1>1, <1>13, KeptNode
  <2> QED
    BY <1>4, <2>1, CellsAre
<1> QED
  BY <1>13, <1>15, <1>16, <1>24, <1>25 DEF LackAt, NoReds

\* The sibling is black after the turn.
LEMMA TurnSiblingIs ==
    ASSUME NEW t, NEW n, NEW sub, NEW L, NEW pos, NEW key, LackAt(t, n, sub, L, pos, key), ~Settled(t, n),
           NEW t1, t1 = TurnSibling(t, n),
           NEW p, p = t.parent[n], NEW side, side = SideOf(t, n), NEW w1, w1 = t1.kid[Other(side)][p]
    PROVE  \E sub1 : /\ Siblings(t1, n, p, side, w1, sub1, L, pos, key) /\ ~t1.red[w1]
                     /\ sub1[n] = sub[n]
<1>1. PICK w : w = t.kid[Other(side)][p]
  OBVIOUS
<1>2. Siblings(t, n, p, side, w, sub, L, pos, key)
  BY <1>1, LackSiblings
<1>3. w = Sibling(t, n)
  BY <1>1 DEF Sibling
<1>4. CASE ~t.red[w]
  <2>1. t1 = t
    BY <1>3, <1>4 DEF TurnSibling
  <2> QED
    BY <1>1, <1>2, <1>4, <2>1
<1>5. CASE t.red[w]
  <2>1. PICK q : SiblingUp(t, q, w, p)
    BY DEF SiblingUp
  <2>2. t1 = Rotate(q, side, p)
    BY <1>3, <1>5, <2>1 DEF TurnSibling, SiblingUp
  <2>3. PICK near : near = t.kid[side][w]
    OBVIOUS
  <2>4. PICK sub1 : sub1 = TurnedSub(q, sub, side, p, w, near)
    OBVIOUS
  <2>5. Siblings(t1, n, p, side, near, sub1, L, pos, key) /\ ~t1.red[near]
    BY <1>2, <1>5, <2>1, <2>2, <2>3, <2>4, SiblingRed
  <2>6. w1 = near
    BY <2>5 DEF Siblings
  <2>7. sub1[n] = sub[n]
    <3>1. n # p /\ n # w
      BY <1>2, SiblingsAre
    <3>2. sub \in [Ptrs -> SUBSET Nodes] /\ n \in Ptrs
      BY <1>2, CellsAre DEF Siblings, Kept, Shaped, SubOK
    <3>3. [sub EXCEPT ![w] = sub[p], ![p] = {p} \cup sub[q.kid[side][p]] \cup sub[near]][n] = sub[n]
      BY <3>1, <3>2
    <3> QED
      BY <2>4, <3>3 DEF TurnedSub
  <2> QED
    BY <2>5, <2>6, <2>7
<1> QED
  BY <1>4, <1>5

\* One round: all is done, or n comes up.
Lifts(t, n, sub, y, L, pos, key) ==
    \E r, m, sub2 :
        /\ y = [tree |-> r, at |-> m] /\ LackAt(r, m, sub2, L, pos, key)
        /\ Settled(r, m) \/ Cardinality(sub[n]) < Cardinality(sub2[m])

\* The same of the model's operators.
LEMMA TurnParentIs ==
    ASSUME NEW t, NEW n, NEW p, NEW side, NEW w, NEW sub, NEW L, NEW pos, NEW key,
           Siblings(t, n, p, side, w, sub, L, pos, key), ~t.red[w], t.red[t.kid[Other(side)][w]],
           NEW r, r = TurnParent(t, side, p)
    PROVE  \E sub2 : LackAt(r, r.root, sub2, L, pos, key)
<1>1. PICK far : far = t.kid[Other(side)][w]
  OBVIOUS
<1>2. PICK q : NephewOver(t, q, w, p, far)
  BY DEF NephewOver
<1>3. r = Rotate(q, side, p)
  <2>1. PICK q0 : q0 = Paint(Paint(t, w, t.red[p]), p, FALSE)
    OBVIOUS
  <2>2. q0.kid = t.kid
    BY <2>1 DEF Paint
  <2>3. q = Paint(q0, far, FALSE)
    BY <1>2, <2>1 DEF NephewOver
  <2>4. t.kid[Other(side)][p] = w
    BY DEF Siblings
  <2>5. r = Rotate(Paint(q0, q0.kid[Other(side)][w], FALSE), side, p)
    BY <2>1, <2>4, Zenon DEF TurnParent
  <2> QED
    BY <1>1, <2>2, <2>3, <2>5
<1>4. PICK sub2 : sub2 = TurnedSub(q, sub, side, p, w, q.kid[side][w])
  OBVIOUS
<1> QED
  BY <1>1, <1>2, <1>3, <1>4, NephewTop

LEMMA TurnNephewIs ==
    ASSUME NEW t, NEW n, NEW p, NEW side, NEW w, NEW sub, NEW L, NEW pos, NEW key,
           Siblings(t, n, p, side, w, sub, L, pos, key), ~t.red[w], NEW c \in Sides, t.red[t.kid[c][w]],
           NEW r, r = TurnNephew(t, side, w)
    PROVE  \E w2, sub2 : /\ Siblings(r, n, p, side, w2, sub2, L, pos, key) /\ ~r.red[w2]
                         /\ r.red[r.kid[Other(side)][w2]]
<1>1. PICK near : near = t.kid[side][w]
  OBVIOUS
<1>2. PICK o : o = Other(side)
  OBVIOUS
<1>3. CASE t.red[t.kid[o][w]]
  <2>1. r = t
    BY <1>2, <1>3 DEF TurnNephew
  <2> QED
    BY <1>2, <1>3, <2>1
<1>4. CASE ~t.red[t.kid[o][w]]
  <2>1. t.red[near]
    <3>1. c = side \/ c = o
      BY <1>2, SidesAre DEF Siblings
    <3> QED
      BY <1>1, <1>4, <3>1
  <2>2. PICK q : NephewUp(t, q, near, w)
    BY DEF NephewUp
  <2>3. r = Rotate(q, o, w)
    BY <1>1, <1>2, <1>4, <2>2, Zenon DEF TurnNephew, NephewUp
  <2>4. PICK sub2 : sub2 = TurnedSub(q, sub, o, w, near, q.kid[o][near])
    OBVIOUS
  <2>5. /\ Siblings(r, n, p, side, near, sub2, L, pos, key)
        /\ ~r.red[near] /\ r.red[r.kid[o][near]]
    <3>1. NephewTurned(t, q, r, side, o, w, near, sub, sub2)
      BY <1>1, <1>2, <1>4, <2>1, <2>2, <2>3, <2>4 DEF NephewTurned
    <3> QED
      BY <3>1, NephewTurn
  <2>6. r.red[r.kid[Other(side)][near]]
    BY <1>2, <2>5
  <2> QED
    BY <2>5, <2>6, Zenon
<1> QED
  BY <1>3, <1>4

\* A round of ngx_rbtree_delete mends the lack, or moves it up.
LEMMA DeleteRoundIs ==
    ASSUME NEW t, NEW n, NEW sub, NEW L, NEW pos, NEW key, LackAt(t, n, sub, L, pos, key),
           NEW x, x = [tree |-> t, at |-> n]
    PROVE  /\ Settled(t, n) => DeleteRound(x) = x
           /\ ~Settled(t, n) => Lifts(t, n, sub, DeleteRound(x), L, pos, key)
<1>1. ASSUME Settled(t, n) PROVE DeleteRound(x) = x
  <2>1. x.tree = t /\ x.at = n /\ (n = t.root \/ t.red[n])
    BY <1>1 DEF Settled
  <2> QED
    BY <2>1, Zenon DEF DeleteRound
<1>2. ASSUME ~Settled(t, n) PROVE Lifts(t, n, sub, DeleteRound(x), L, pos, key)
  <2>1. PICK p : p = t.parent[n]
    OBVIOUS
  <2>2. PICK side : side = SideOf(t, n)
    OBVIOUS
  <2>3. PICK o : o = Other(side)
    OBVIOUS
  <2>4. PICK t1 : t1 = TurnSibling(t, n)
    OBVIOUS
  <2>5. PICK w : w = t1.kid[o][p]
    OBVIOUS
  <2>6. PICK sub1 : /\ Siblings(t1, n, p, side, w, sub1, L, pos, key) /\ ~t1.red[w]
                    /\ sub1[n] = sub[n]
    BY <1>2, <2>1, <2>2, <2>3, <2>4, <2>5, TurnSiblingIs
  <2>7. PICK done : done = TurnParent(TurnNephew(t1, side, w), side, p)
    OBVIOUS
  <2>8. DeleteRound(x) = IF \A s \in Sides : ~t1.red[t1.kid[s][w]]
                         THEN [tree |-> Paint(t1, w, TRUE), at |-> p]
                         ELSE [tree |-> done, at |-> done.root]
    <3>1. x.tree = t /\ x.at = n /\ ~(n = t.root \/ t.red[n])
      BY <1>2 DEF Settled
    <3> QED
      BY <2>1, <2>2, <2>3, <2>4, <2>5, <2>7, <3>1, Zenon DEF DeleteRound
  <2>9. CASE \A s \in Sides : ~t1.red[t1.kid[s][w]]
    <3>1. PICK r : SiblingDown(t1, r, w)
      BY DEF SiblingDown
    <3>2. LackAt(r, p, sub1, L, pos, key)
      <4>1. side \in Sides /\ Other(side) \in Sides
        BY <2>6, SidesAre DEF Siblings
      <4>2. ~t1.red[t1.kid[side][w]] /\ ~t1.red[t1.kid[Other(side)][w]]
        BY <2>9, <4>1
      <4> QED
        BY <2>6, <3>1, <4>2, SiblingBlack
    <3>3. DeleteRound(x) = [tree |-> r, at |-> p]
      BY <2>8, <2>9, <3>1 DEF SiblingDown
    <3>4. Cardinality(sub1[n]) < Cardinality(sub1[p])
      <4>1. Kept(t1, sub1, L, pos, key) /\ Shaped(t1, sub1) /\ p \in L /\ side \in Sides /\ t1.kid[side][p] = n
        BY <2>6 DEF Siblings, Kept
      <4>2. p \in Nodes
        BY <4>1, KeptNode
      <4> QED
        BY <4>1, <4>2, KidSmaller
    <3> QED
      BY <2>6, <3>2, <3>3, <3>4 DEF Lifts
  <2>10. ASSUME NEW c \in Sides, t1.red[t1.kid[c][w]] PROVE Lifts(t, n, sub, DeleteRound(x), L, pos, key)
    <3>1. PICK t2 : t2 = TurnNephew(t1, side, w)
      OBVIOUS
    <3>2. PICK w2, sub2 : /\ Siblings(t2, n, p, side, w2, sub2, L, pos, key) /\ ~t2.red[w2]
                          /\ t2.red[t2.kid[Other(side)][w2]]
      BY <2>6, <2>10, <3>1, TurnNephewIs
    <3>3. done = TurnParent(t2, side, p)
      BY <2>7, <3>1
    <3>4. PICK sub3 : LackAt(done, done.root, sub3, L, pos, key)
      BY <3>2, <3>3, TurnParentIs
    <3>5. DeleteRound(x) = [tree |-> done, at |-> done.root]
      BY <2>8, <2>10
    <3>6. Settled(done, done.root)
      BY DEF Settled
    <3> QED
      BY <3>4, <3>5, <3>6 DEF Lifts
  <2> QED
    BY <2>9, <2>10
<1> QED
  BY <1>1, <1>2

\* At the end n is painted black: that is the black node that was lacking.
LEMMA LackEnds ==
    ASSUME NEW t, NEW n, NEW sub, NEW L, NEW pos, NEW key, LackAt(t, n, sub, L, pos, key), Settled(t, n)
    PROVE  Balanced(Paint(t, n, FALSE), sub, L, pos, key)
<1>1. Kept(t, sub, L, pos, key) /\ t.root \in L /\ ~t.red[Sentinel] /\ n \in Cells
  BY DEF LackAt, Kept
<1>2. PICK p : p = t.parent[n]
  OBVIOUS
<1>3. PICK side : side = SideOf(t, n)
  OBVIOUS
<1>4. n # t.root => p \in L /\ t.kid[side][p] = n /\ t.red[n] /\ side \in Sides
  BY <1>2, <1>3, SideOfIs DEF LackAt, Settled
<1>5. n \in L
  <2>1. CASE n = t.root
    BY <1>1, <2>1
  <2>2. CASE n # t.root
    <3>1. n # Sentinel
      BY <1>1, <1>4, <2>2
    <3> QED
      BY <1>1, <1>4, <2>2, <3>1, KeptNode
  <2> QED
    BY <2>1, <2>2
<1>6. PICK r : r = Paint(t, n, FALSE)
  OBVIOUS
<1>7. Painted(t, r, n, FALSE) /\ Kept(r, sub, L, pos, key)
  BY <1>1, <1>5, <1>6, PaintKept
<1>8. r.root = t.root /\ r.kid = t.kid /\ ~r.red[n] /\ \A c \in Cells : c # n => r.red[c] = t.red[c]
  BY <1>7 DEF Painted
<1>9. n # Sentinel /\ L \subseteq Nodes /\ \A a \in L, s \in Sides : t.kid[s][a] \in Cells /\ a \in Cells /\ t.kid[s][a] # t.root
  <2>1. n # Sentinel /\ L \subseteq Nodes
    BY <1>1, <1>5, KeptNode
  <2>2. \A a \in L, s \in Sides : t.kid[s][a] \in Cells /\ a \in Cells /\ t.kid[s][a] # t.root
    BY <1>1, KeptNode
  <2> QED
    BY <2>1, <2>2
<1>10. \A a \in L, s \in Sides : t.kid[s][a] = n => n # t.root /\ a = p /\ s = side
  <2>1. \A a \in L, s \in Sides : t.kid[s][a] = n => a = t.parent[n] /\ s = SideOf(t, n)
    BY <1>1, <1>5, KeptNode
  <2> QED
    BY <1>2, <1>3, <1>9, <2>1
<1>11. \A a \in L, s \in Sides : ~(r.red[a] /\ r.red[r.kid[s][a]])
  <2> SUFFICES ASSUME NEW a \in L, NEW s \in Sides, r.red[a], r.red[r.kid[s][a]] PROVE FALSE
    OBVIOUS
  <2>1. a # n /\ t.kid[s][a] # n
    BY <1>8
  <2>2. t.red[a] /\ t.red[t.kid[s][a]]
    BY <1>8, <1>9, <2>1
  <2> QED
    BY <2>1, <2>2 DEF LackAt
<1>12. ~r.red[r.root]
  <2>1. t.red[t.root] => n = t.root
    BY DEF LackAt
  <2> QED
    BY <1>1, <1>8, <1>9, <2>1, KeptNode
<1>13. PICK h \in [Cells -> Nat] :
          /\ h[Sentinel] = 0
          /\ \A a \in L, s \in Sides : IF t.kid[s][a] = n THEN ShortAt(t, h, a, s) ELSE EvenAt(t, h, a, s)
  <2>1. CASE n = t.root
    <3>1. PICK h : Even(t, L, h)
      BY <2>1 DEF LackAt
    <3>2. h \in [Cells -> Nat] /\ h[Sentinel] = 0 /\ \A a \in L, s \in Sides : EvenAt(t, h, a, s)
      BY <1>9, <3>1, EvenIs
    <3> QED
      BY <1>9, <2>1, <3>2
  <2>2. CASE n # t.root
    <3>1. PICK h : Heights(t, L, h, p, side)
      BY <1>2, <1>3, <2>2 DEF LackAt
    <3>2. h \in [Cells -> Nat] /\ h[Sentinel] = 0
          /\ \A a \in L, s \in Sides : IF a = p /\ s = side THEN ShortAt(t, h, a, s) ELSE EvenAt(t, h, a, s)
      BY <3>1, ShortIs
    <3>3. ASSUME NEW a \in L, NEW s \in Sides
          PROVE  IF t.kid[s][a] = n THEN ShortAt(t, h, a, s) ELSE EvenAt(t, h, a, s)
      <4>1. t.kid[s][a] = n <=> a = p /\ s = side
        BY <1>4, <1>10, <2>2
      <4> QED
        BY <3>2, <4>1
    <3> QED
      BY <3>2, <3>3
  <2> QED
    BY <2>1, <2>2
<1>14. PICK f : f = [h EXCEPT ![n] = IF t.red[n] THEN h[n] + 1 ELSE h[n]]
  OBVIOUS
<1>15. /\ f \in [Cells -> Nat] /\ f[n] = (IF t.red[n] THEN h[n] + 1 ELSE h[n])
       /\ \A c \in Cells : c # n => f[c] = h[c]
  BY <1>1, <1>13, <1>14
<1>16. f[Sentinel] = 0
  BY <1>9, <1>13, <1>15, CellsAre
<1>17. ASSUME NEW a \in L, NEW s \in Sides PROVE EvenAt(r, f, a, s)
  <2>1. r.kid[s][a] = t.kid[s][a] /\ a \in Cells /\ t.kid[s][a] \in Cells /\ h[t.kid[s][a]] \in Nat
    BY <1>8, <1>9, <1>13
  <2>2. CASE t.kid[s][a] = n
    <3>1. n # t.root /\ t.red[n] /\ a # n
      <4>1. n # t.root
        BY <1>10, <2>2
      <4>2. a # n
        BY <1>1, <2>2, KeptNode
      <4> QED
        BY <1>4, <4>1, <4>2
    <3>2. h[a] = h[n] + (1 + Black(t, a))
      BY <1>13, <2>2 DEF ShortAt
    <3>3. f[a] = h[a] /\ f[n] = h[n] + 1 /\ Black(r, a) = Black(t, a) /\ Black(t, a) \in Nat /\ h[n] \in Nat
      BY <1>8, <1>15, <2>1, <2>2, <3>1 DEF Black
    <3>4. f[a] = f[n] + Black(r, a)
      BY <3>2, <3>3
    <3> QED
      BY <2>1, <2>2, <3>4 DEF EvenAt
  <2>3. CASE t.kid[s][a] # n
    <3>1. h[a] = h[t.kid[s][a]] + Black(t, a)
      BY <1>13, <2>3 DEF EvenAt
    <3>2. f[t.kid[s][a]] = h[t.kid[s][a]]
      BY <1>15, <2>1, <2>3
    <3>3. f[a] = f[t.kid[s][a]] + Black(r, a)
      <4>1. CASE a = n
        <5>1. Black(r, a) = 1 /\ Black(t, a) = IF t.red[n] THEN 0 ELSE 1
          BY <1>8, <4>1 DEF Black
        <5> QED
          BY <1>15, <2>1, <3>1, <3>2, <4>1, <5>1
      <4>2. CASE a # n
        <5>1. Black(r, a) = Black(t, a) /\ f[a] = h[a]
          BY <1>8, <1>15, <2>1, <4>2 DEF Black
        <5> QED
          BY <3>1, <3>2, <5>1
      <4> QED
        BY <4>1, <4>2
    <3> QED
      BY <2>1, <3>3 DEF EvenAt
  <2> QED
    BY <2>2, <2>3
<1>18. Even(r, L, f)
  BY <1>9, <1>15, <1>16, <1>17, EvenIs
<1> QED
  BY <1>6, <1>7, <1>11, <1>12, <1>18 DEF Balanced

\* The whole loop: n comes up, or all is done.
LEMMA DeleteFixupIs ==
    ASSUME NEW t, NEW n, NEW sub, NEW L, NEW pos, NEW key, LackAt(t, n, sub, L, pos, key)
    PROVE  \E sub2 : Balanced(DeleteFixup(t, n), sub2, L, pos, key)
<1> DEFINE Ok(y) == \E sub2 : LackAt(y.tree, y.at, sub2, L, pos, key)
           Far(i, y) == \E sub2 : /\ LackAt(y.tree, y.at, sub2, L, pos, key)
                                  /\ Settled(y.tree, y.at) \/ i <= Cardinality(sub2[y.at])
           S == {y \in [tree : Trees, at : Cells] : Ok(y)}
           start == [tree |-> t, at |-> n]
           f == CHOOSE x : x = [i \in 0..Rounds |-> IF i = 0 THEN start ELSE DeleteRound(x[i - 1])]
<1>1. ASSUME NEW r, NEW m, NEW sub2, LackAt(r, m, sub2, L, pos, key)
      PROVE  /\ [tree |-> r, at |-> m] \in S
             /\ Cardinality(sub2[m]) \in Nat /\ Cardinality(sub2[m]) <= Rounds /\ Rounds \in Nat
             /\ m # r.root => Cardinality(sub2[m]) < Rounds
  <2>1. Kept(r, sub2, L, pos, key) /\ m \in Cells /\ Shaped(r, sub2) /\ r \in Trees /\ r.root \in L
    BY <1>1 DEF LackAt, Kept, Shaped
  <2>2. m \in Ptrs
    BY <2>1, CellsAre
  <2>3. [tree |-> r, at |-> m] \in S
    BY <1>1, <2>1
  <2>4. Cardinality(sub2[m]) \in Nat /\ Cardinality(sub2[m]) <= Rounds /\ sub2[m] \subseteq Nodes
    BY <2>1, <2>2, SubFinite DEF Shaped
  <2>5. Rounds \in Nat
    BY CellsAre, FS_CardinalityType DEF Rounds
  <2>6. ASSUME m # r.root PROVE Cardinality(sub2[m]) < Rounds
    <3>1. PICK a \in Nodes : a \notin sub2[m]
      <4>1. CASE m = Sentinel
        <5>1. sub2[m] = {}
          BY <2>1, <4>1 DEF Shaped, SubOK
        <5>2. r.root \in Nodes
          BY <2>1, KeptNode
        <5> QED
          BY <5>1, <5>2
      <4>2. CASE m # Sentinel
        <5>1. m \in sub2[r.root]
          <6>1. r.parent[m] \in L /\ r.kid[SideOf(r, m)][r.parent[m]] = m /\ SideOf(r, m) \in Sides
            BY <1>1, <2>6, SideOfIs DEF LackAt
          <6>2. m \in L
            BY <2>1, <4>2, <6>1, KeptNode
          <6> QED
            BY <2>1, <6>2 DEF Kept
        <5>2. r.parent[m] \notin sub2[m] /\ r.parent[m] \in Nodes
          BY <2>1, <2>6, <5>1, PlaceIs
        <5> QED
          BY <5>2
      <4> QED
        BY <4>1, <4>2
    <3> QED
      BY <2>4, <3>1, Smaller, CellsAre DEF Rounds
  <2> QED
    BY <2>3, <2>4, <2>5, <2>6
<1>2. ASSUME NEW y \in S PROVE DeleteRound(y) \in S
  <2>1. PICK sub2 : LackAt(y.tree, y.at, sub2, L, pos, key)
    OBVIOUS
  <2>2. y = [tree |-> y.tree, at |-> y.at]
    OBVIOUS
  <2> HIDE DEF S
  <2>3. CASE Settled(y.tree, y.at)
    BY <2>1, <2>2, <2>3, DeleteRoundIs
  <2>4. CASE ~Settled(y.tree, y.at)
    <3>1. Lifts(y.tree, y.at, sub2, DeleteRound(y), L, pos, key)
      BY <2>1, <2>2, <2>4, DeleteRoundIs
    <3>2. PICK r, m, sub3 : DeleteRound(y) = [tree |-> r, at |-> m] /\ LackAt(r, m, sub3, L, pos, key)
      BY <3>1 DEF Lifts
    <3> QED
      BY <1>1, <3>2
  <2> QED
    BY <2>3, <2>4
<1>3. start \in S /\ Rounds \in Nat /\ Far(0, start)
  <2>1. start \in S /\ Rounds \in Nat /\ 0 <= Cardinality(sub[n])
    <3> HIDE DEF S
    <3> QED
      BY <1>1
  <2>2. start.tree = t /\ start.at = n
    OBVIOUS
  <2> QED
    BY <2>1, <2>2
<1>4. f = [i \in 0..Rounds |-> IF i = 0 THEN start ELSE DeleteRound(f[i - 1])]
  <2> DEFINE g == [y \in S |-> DeleteRound(y)]
  <2>1. Round(g, S)
    <3> HIDE DEF S
    <3> QED
      BY <1>2 DEF Round
  <2>2. \E h : LoopOf(h, S, g, start, Rounds)
    <3> HIDE DEF S, g, start
    <3> QED
      BY <1>3, <2>1, LoopExists
  <2> HIDE DEF S, start
  <2>3. PICK h \in [0..Rounds -> S] : h[0] = start /\ \A i \in 1..Rounds : h[i] = g[h[i - 1]]
    BY <2>2 DEF LoopOf
  <2>4. \A i \in 0..Rounds : h[i] = IF i = 0 THEN start ELSE DeleteRound(h[i - 1])
    <3>1. ASSUME NEW i \in 0..Rounds, i # 0 PROVE h[i] = DeleteRound(h[i - 1])
      <4>1. i \in 1..Rounds /\ i - 1 \in 0..Rounds
        BY <1>3, <3>1
      <4>2. h[i - 1] \in S /\ h[i] = g[h[i - 1]]
        BY <2>3, <4>1
      <4> QED
        BY <4>2
    <3> QED
      BY <2>3, <3>1
  <2>5. h = [i \in 0..Rounds |-> IF i = 0 THEN start ELSE DeleteRound(h[i - 1])]
    BY <2>4
  <2> QED
    BY <2>5, Zenon
<1> HIDE DEF f
<1>5. f[0] = start /\ \A i \in 0..Rounds : i # Rounds => f[i + 1] = DeleteRound(f[i])
  <2> HIDE DEF start
  <2>1. f[0] = start
    BY <1>3, <1>4
  <2>2. ASSUME NEW i \in 0..Rounds, i # Rounds PROVE f[i + 1] = DeleteRound(f[i])
    <3>1. i + 1 \in 0..Rounds /\ i + 1 # 0 /\ (i + 1) - 1 = i
      BY <1>3, <2>2
    <3> QED
      BY <1>4, <3>1
  <2> QED
    BY <2>1, <2>2
<1> DEFINE I == {w \in (0..Rounds) \X S : Far(w[1], w[2])}
<1>6. ASSUME NEW i \in 0..Rounds, i # Rounds, <<i, f[i]>> \in I
      PROVE  <<i + 1, f[i + 1]>> \in I
  <2>1. f[i] \in S /\ Far(i, f[i])
    BY <1>6
  <2>2. i + 1 \in 0..Rounds /\ f[i + 1] = DeleteRound(f[i])
    BY <1>3, <1>5, <1>6
  <2>3. f[i + 1] \in S
    <3> HIDE DEF S
    <3> QED
      BY <1>2, <2>1, <2>2
  <2>4. PICK sub2 : /\ LackAt(f[i].tree, f[i].at, sub2, L, pos, key)
                    /\ Settled(f[i].tree, f[i].at) \/ i <= Cardinality(sub2[f[i].at])
    BY <2>1
  <2>5. f[i] = [tree |-> f[i].tree, at |-> f[i].at]
    BY <2>1
  <2>6. CASE Settled(f[i].tree, f[i].at)
    <3>1. f[i + 1] = f[i]
      BY <2>2, <2>4, <2>5, <2>6, DeleteRoundIs
    <3> QED
      BY <2>2, <2>3, <2>4, <2>6, <3>1
  <2>7. CASE ~Settled(f[i].tree, f[i].at)
    <3>1. Lifts(f[i].tree, f[i].at, sub2, f[i + 1], L, pos, key)
      BY <2>2, <2>4, <2>5, <2>7, DeleteRoundIs
    <3>2. PICK r, m, sub3 : /\ f[i + 1] = [tree |-> r, at |-> m] /\ LackAt(r, m, sub3, L, pos, key)
                            /\ Settled(r, m) \/ Cardinality(sub2[f[i].at]) < Cardinality(sub3[m])
      BY <3>1 DEF Lifts
    <3>3. /\ Cardinality(sub2[f[i].at]) \in Nat /\ Cardinality(sub3[m]) \in Nat
      BY <1>1, <2>4, <3>2
    <3>4. Settled(r, m) \/ i + 1 <= Cardinality(sub3[m])
      BY <2>4, <2>7, <3>2, <3>3
    <3>5. f[i + 1].tree = r /\ f[i + 1].at = m
      BY <3>2
    <3>6. Far(i + 1, f[i + 1])
      BY <3>2, <3>4, <3>5
    <3> QED
      BY <2>2, <2>3, <3>6
  <2> QED
    BY <2>6, <2>7
<1>7. <<Rounds, f[Rounds]>> \in I
  <2>1. <<0, f[0]>> \in I
    BY <1>3, <1>5
  <2> HIDE DEF I
  <2>2. \A i \in 0..Rounds : <<i, f[i]>> \in I
    BY <1>3, <1>6, <2>1, LoopKeeps
  <2> QED
    BY <1>3, <2>2
<1>8. PICK r : r = f[Rounds].tree
  OBVIOUS
<1>9. PICK m : m = f[Rounds].at
  OBVIOUS
<1>10. PICK sub2 : LackAt(r, m, sub2, L, pos, key) /\ (Settled(r, m) \/ Rounds <= Cardinality(sub2[m]))
  BY <1>7, <1>8, <1>9
<1>11. Settled(r, m)
  <2>1. Cardinality(sub2[m]) \in Nat /\ (m # r.root => Cardinality(sub2[m]) < Rounds)
    BY <1>1, <1>10
  <2> QED
    BY <1>3, <1>10, <2>1 DEF Settled
<1>12. Balanced(Paint(r, m, FALSE), sub2, L, pos, key)
  BY <1>10, <1>11, LackEnds
<1>13. DeleteFixup(t, n) = Paint(r, m, FALSE)
  BY <1>8, <1>9, Zenon DEF DeleteFixup, f
<1> QED
  BY <1>12, <1>13

=============================================================================
